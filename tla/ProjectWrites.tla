---------------------------- MODULE ProjectWrites ----------------------------
(***************************************************************************)
(* The writes of a Project host to the canonical files of one Project, and *)
(* their handoff to the render server.  A write reads the manifest and the *)
(* Scene that holds the placements, checks that the outbox has room,       *)
(* publishes its layers and the manifest, and puts one record for each     *)
(* change into the outbox.  The render server, another process, applies    *)
(* the records to the LiveStage of that Scene when it is open.             *)
(*                                                                         *)
(* A definition (a Scene or a Model) is placed in the Scene once.  Record  *)
(* files have random names and are read in name order, so the outbox is a  *)
(* set.  Reading a layer and renaming its successor over it is one step,   *)
(* as is undoing a write; a write does not crash between its steps.        *)
(***************************************************************************)
EXTENDS Integers, Sequences, FiniteSets

CONSTANTS
  Writers,       \* the writes, each run once
  Items,         \* Scenes and Models
  Existing,      \* those the Project has at first
  Kinds,         \* the kinds of write the host asks for
  None,
  Capacity,      \* STAGE_MUTATION_CAPACITY
  MaxFaults      \* bound: I/O errors

Creating == {"create", "adopt", "import"}
AllKinds == Creating \cup {"delete", "rename"}
Locking  == {"import", "rename"}    \* those that take the publication lock
Checking == {"adopt", "import"}     \* those that check the manifest they have read

ASSUME WritesAssumption ==
  /\ Existing \subseteq Items /\ None \notin Items
  /\ Kinds \subseteq AllKinds
  /\ Capacity \in Nat /\ MaxFaults \in Nat

VARIABLES
  manifest,      \* the definitions it lists, and which of them under a new name
  layers,        \* the definitions whose own file exists
  members,       \* the placements in the layer of the Scene
  outbox,        \* records handed to the render server
  stage,         \* the LiveStage of the Scene, if open, and the placements on it
  pc, job,       \* per write: control and what it works on
  result,        \* what the host is told
  faults,
  overlapped     \* history: whether a write was started while another ran

canonical == <<manifest, layers, members>>
vars == <<canonical, outbox, stage, pc, job, result, faults, overlapped>>

NoJob     == [kind |-> "none", item |-> None,
              base |-> [items |-> {}, renamed |-> {}], read |-> {},
              backup |-> [manifest |-> [items |-> {}, renamed |-> {}], members |-> {}],
              listed |-> {}, sent |-> 0]
Closed    == [open |-> FALSE, placed |-> {}]

Init ==
  /\ manifest = [items |-> Existing, renamed |-> {}]
  /\ layers = Existing /\ members = Existing
  /\ outbox = {} /\ stage = Closed
  /\ pc = [w \in Writers |-> "idle"]
  /\ job = [w \in Writers |-> NoJob]
  /\ result = [w \in Writers |-> "none"]
  /\ faults = 0 /\ overlapped = FALSE

Kind(w) == job[w].kind
Item(w) == job[w].item
Running(w) == pc[w] \notin {"idle", "done"}

Goto(w, to) == pc' = [pc EXCEPT ![w] = to]

End(w, r) == Goto(w, "done") /\ result' = [result EXCEPT ![w] = r]

-----------------------------------------------------------------------------
(* The host: up to the publication                                         *)

PublisherUnlocked == FALSE    \* mutant: no write takes the publication lock

PublisherLocked == \E u \in Writers : Running(u) /\ Kind(u) \in Locking

\* A new definition has a new id; which one makes no difference.
Unused   == Items \ (manifest.items \cup Existing \cup {Item(u) : u \in Writers})
Fresh(i) == Unused # {} /\ i = CHOOSE j \in Unused : TRUE

Start(w, k, i) ==
  /\ pc[w] = "idle" /\ k \in Kinds
  /\ k \in Locking => ~PublisherLocked
  /\ IF k \in Creating THEN Fresh(i) ELSE i \in manifest.items
  /\ Goto(w, "read")
  /\ job' = [job EXCEPT ![w] = [NoJob EXCEPT !.kind = k, !.item = i, !.base = manifest]]
  /\ overlapped' = (overlapped \/ \E u \in Writers : Running(u))
  /\ UNCHANGED <<canonical, outbox, stage, result, faults>>

\* The members of the Scene, and for the composition graph those of every other one.
ReadComposition(w) ==
  /\ pc[w] = "read"
  /\ Goto(w, "capacity")
  /\ job' = [job EXCEPT ![w].read = members]
  /\ UNCHANGED <<canonical, outbox, stage, result, faults, overlapped>>

\* An import reads no other Scene; a Model has no composition to be read.
SceneMissing(w) ==
  /\ pc[w] = "read" /\ Kind(w) # "import" /\ ~(job[w].base.items \subseteq layers)
  /\ End(w, "failed")
  /\ UNCHANGED <<canonical, outbox, stage, job, faults, overlapped>>

\* The records of a write; a deletion hands over a batch.
Record(w, op) == [op |-> op, item |-> Item(w), by |-> w]

Batch(w) ==
  CASE Kind(w) \in Creating -> <<Record(w, "place")>>
    [] Kind(w) = "rename"   -> <<Record(w, "rename")>>
    [] Kind(w) = "delete"   -> IF Item(w) \in job[w].read
                               THEN <<Record(w, "remove"), Record(w, "delete")>>
                               ELSE <<Record(w, "delete")>>

HasRoom(w, pending) == Cardinality(pending) + Len(Batch(w)) <= Capacity

\* What the render server can consume: a placement only while its Scene is open.
Consumable(r) == stage.open \/ r.op \in {"delete", "rename"}

\* The mutex of the queue.
QueueLocked == \E u \in Writers : pc[u] \in {"submit", "sending"}

EnsureCapacity(w) ==
  /\ pc[w] = "capacity" /\ ~QueueLocked
  /\ IF HasRoom(w, outbox) THEN Goto(w, "check") /\ UNCHANGED result
                           ELSE End(w, "busy")
  /\ UNCHANGED <<canonical, outbox, stage, job, faults, overlapped>>

\* A record that was listed is consumed before it is read.
CapacityUnknown(w) ==
  /\ pc[w] = "capacity" /\ ~QueueLocked
  /\ \E r \in outbox : Consumable(r)
  /\ End(w, "failed")
  /\ UNCHANGED <<canonical, outbox, stage, job, faults, overlapped>>

EnsureCurrentManifest(w) ==
  /\ pc[w] = "check"
  /\ IF Kind(w) \in Checking /\ manifest # job[w].base
     THEN End(w, "failed")
     ELSE Goto(w, "parent") /\ UNCHANGED result
  /\ UNCHANGED <<canonical, outbox, stage, job, faults, overlapped>>

-----------------------------------------------------------------------------
(* The host: publication, with a backup of what it replaces                *)

BackUp(w) == job' = [job EXCEPT ![w].backup = [manifest |-> manifest, members |-> members]]

\* A new placement is added to what the layer has now, a deletion writes what it had.
PublishParent(w) ==
  /\ pc[w] = "parent" /\ Goto(w, "layer")
  /\ Kind(w) = "rename" => Item(w) \in layers
  /\ BackUp(w)
  /\ members' = CASE Kind(w) \in Creating -> members \cup job[w].read \cup {Item(w)}
                  [] Kind(w) = "rename"   -> members
                  [] Kind(w) = "delete"   -> IF Item(w) \in job[w].read
                                             THEN job[w].read \ {Item(w)} ELSE members
  /\ UNCHANGED <<manifest, layers, outbox, stage, result, faults, overlapped>>

PublishLayer(w) ==
  /\ pc[w] = "layer"
  /\ Kind(w) \notin Creating => Item(w) \in layers
  /\ Goto(w, "manifest")
  /\ layers' = CASE Kind(w) \in Creating -> layers \cup {Item(w)}
                 [] Kind(w) = "rename"   -> layers
                 [] Kind(w) = "delete"   -> layers \ {Item(w)}
  /\ UNCHANGED <<manifest, members, outbox, stage, job, result, faults, overlapped>>

\* The manifest read at the start, with this write's change.
WriteManifest(w) ==
  /\ pc[w] = "manifest" /\ Goto(w, "list")
  /\ LET b == job[w].base IN
     manifest' = CASE Kind(w) \in Creating -> [b EXCEPT !.items = @ \cup {Item(w)}]
                   [] Kind(w) = "rename"   -> [b EXCEPT !.renamed = @ \cup {Item(w)}]
                   [] Kind(w) = "delete"   -> [items |-> b.items \ {Item(w)},
                                               renamed |-> b.renamed \ {Item(w)}]
  /\ UNCHANGED <<layers, members, outbox, stage, job, result, faults, overlapped>>

KeepManifest(w) ==            \* mutant: a failed write does not restore the manifest
  /\ UNCHANGED <<manifest, layers, overlapped>>
  /\ IF Kind(w) \notin Creating /\ pc[w] # "parent" /\ Item(w) \in job[w].read
     THEN members' = job[w].backup.members ELSE UNCHANGED members

\* What each write undoes when it fails at pc[w].  A creation undoes nothing once its
\* manifest is written; a deletion rewrites the manifest wherever it fails.
RollBack(w) ==
  LET published == pc[w] # "parent"
      moved == pc[w] \notin {"parent", "layer"}
      k == Kind(w)
  IN  IF k \in Creating
      THEN /\ UNCHANGED manifest
           /\ IF pc[w] \in {"layer", "manifest"}
              THEN /\ members' = job[w].backup.members
                   /\ layers' = IF moved THEN layers \ {Item(w)} ELSE layers
              ELSE UNCHANGED <<layers, members>>
      ELSE /\ manifest' = CASE k = "delete"               -> job[w].base
                            [] k = "rename" /\ published  -> job[w].backup.manifest
                            [] k = "rename" /\ ~published -> manifest
           /\ members' = IF published /\ Item(w) \in job[w].read
                         THEN job[w].backup.members ELSE members
           /\ layers' = IF moved \/ (k = "rename" /\ published)
                         THEN layers \cup {Item(w)} ELSE layers

\* A layer to be renamed or deleted is no longer there.
LayerMissing(w) ==
  /\ Item(w) \notin layers
  /\ \/ pc[w] = "layer" /\ Kind(w) \notin Creating
     \/ pc[w] = "parent" /\ Kind(w) = "rename"
  /\ RollBack(w) /\ End(w, "failed")
  /\ UNCHANGED <<outbox, stage, job, faults, overlapped>>

-----------------------------------------------------------------------------
(* The host: handoff                                                       *)

ListOutbox(w) ==
  /\ pc[w] = "list" /\ ~QueueLocked
  /\ Goto(w, "submit")
  /\ job' = [job EXCEPT ![w].listed = outbox]
  /\ UNCHANGED <<canonical, outbox, stage, result, faults, overlapped>>

Submit(w) ==
  /\ pc[w] = "submit"
  /\ job[w].listed \subseteq outbox /\ HasRoom(w, job[w].listed)
  /\ Goto(w, "sending")
  /\ UNCHANGED <<canonical, outbox, stage, job, result, faults, overlapped>>

\* The outbox is full, or a listed record was consumed before it could be read.
SubmitRefused(w) ==
  /\ pc[w] = "submit"
  /\ ~(job[w].listed \subseteq outbox /\ HasRoom(w, job[w].listed))
  /\ RollBack(w)
  /\ End(w, IF job[w].listed \subseteq outbox THEN "busy" ELSE "failed")
  /\ UNCHANGED <<outbox, stage, job, faults, overlapped>>

\* The records of a batch are renamed into place one after the other.
PublishRecord(w) ==
  /\ pc[w] = "sending"
  /\ LET n == job[w].sent + 1 IN
       /\ outbox' = outbox \cup {Batch(w)[n]}
       /\ job' = [job EXCEPT ![w].sent = n]
       /\ IF n = Len(Batch(w)) THEN Goto(w, "cleanup") ELSE UNCHANGED pc
  /\ UNCHANGED <<canonical, stage, result, faults, overlapped>>

\* Cache generations advance and the transaction directory goes.
CleanUp(w) ==
  /\ pc[w] = "cleanup" /\ End(w, "ok")
  /\ UNCHANGED <<canonical, outbox, stage, job, faults, overlapped>>

Fault == faults < MaxFaults /\ faults' = faults + 1

\* The records already published are removed again, those not yet consumed.
PublishRecordFails(w) ==
  /\ Fault /\ pc[w] = "sending"
  /\ outbox' = outbox \ {Batch(w)[n] : n \in 1..job[w].sent}
  /\ RollBack(w) /\ End(w, "failed")
  /\ UNCHANGED <<stage, job, overlapped>>

\* A new name needs no cleanup; the others report a failure and keep what they did.
CleanUpFails(w) ==
  /\ Fault /\ pc[w] = "cleanup" /\ Kind(w) # "rename"
  /\ End(w, "failed")
  /\ UNCHANGED <<canonical, outbox, stage, job, overlapped>>

\* Any other step fails.
IoError(w) ==
  /\ Fault /\ Running(w) /\ pc[w] \notin {"sending", "cleanup"}
  /\ IF pc[w] \in {"read", "capacity", "check"} THEN UNCHANGED canonical ELSE RollBack(w)
  /\ End(w, "failed")
  /\ UNCHANGED <<outbox, stage, job, overlapped>>

-----------------------------------------------------------------------------
(* The render server                                                       *)

OpenScene ==
  /\ stage' = [open |-> TRUE, placed |-> members]
  /\ UNCHANGED <<canonical, outbox, pc, job, result, faults, overlapped>>

\* Another Scene or none is open, or the server has stopped.
LeaveScene ==
  /\ stage.open /\ stage' = Closed
  /\ UNCHANGED <<canonical, outbox, pc, job, result, faults, overlapped>>

Effect(r, placed) ==
  CASE r.op = "place"  -> placed \cup {r.item}
    [] r.op = "remove" -> placed \ {r.item}
    [] OTHER           -> placed

RemoveBeforeApplying(r) ==    \* mutant: the record goes first, and is lost with the server
  /\ stage.open /\ r \in outbox
  /\ outbox' = outbox \ {r}
  /\ UNCHANGED <<canonical, stage, pc, job, result, faults, overlapped>>

ApplyPlacementsOnly(r) ==     \* mutant: the records of the definitions are left
  /\ stage.open /\ r \in outbox /\ r.op \in {"place", "remove"}
  /\ stage' = [stage EXCEPT !.placed = Effect(r, @)]
  /\ outbox' = outbox \ {r}
  /\ UNCHANGED <<canonical, pc, job, result, faults, overlapped>>

Apply(r) ==
  /\ stage.open /\ r \in outbox
  /\ stage' = [stage EXCEPT !.placed = Effect(r, @)]
  /\ outbox' = outbox \ {r}
  /\ UNCHANGED <<canonical, pc, job, result, faults, overlapped>>

\* The record is applied but its file cannot be removed: it is applied again.
ApplyKeepingRecord(r) ==
  /\ Fault /\ stage.open /\ r \in outbox
  /\ stage' = [stage EXCEPT !.placed = Effect(r, @)]
  /\ UNCHANGED <<canonical, outbox, pc, job, result, overlapped>>

\* A deletion or a new name is consumed by whatever Scene is open.
ConsumeElsewhere(r) ==
  /\ ~stage.open /\ r \in outbox /\ Consumable(r)
  /\ outbox' = outbox \ {r}
  /\ UNCHANGED <<canonical, stage, pc, job, result, faults, overlapped>>

-----------------------------------------------------------------------------
WriteStep(w) ==
  \/ ReadComposition(w) \/ SceneMissing(w) \/ EnsureCapacity(w) \/ EnsureCurrentManifest(w)
  \/ PublishParent(w) \/ PublishLayer(w) \/ LayerMissing(w) \/ WriteManifest(w)
  \/ ListOutbox(w) \/ Submit(w) \/ SubmitRefused(w) \/ PublishRecord(w) \/ CleanUp(w)
  \/ CapacityUnknown(w)

WriteFails(w) == PublishRecordFails(w) \/ CleanUpFails(w) \/ IoError(w)

ServerStep ==
  \/ OpenScene \/ LeaveScene
  \/ \E r \in outbox : Apply(r) \/ ApplyKeepingRecord(r) \/ ConsumeElsewhere(r)

Next ==
  \/ \E w \in Writers, k \in AllKinds, i \in Items : Start(w, k, i)
  \/ \E w \in Writers : WriteStep(w) \/ WriteFails(w)
  \/ ServerStep

Safety == Init /\ [][Next]_vars

\* A write that was started goes on, and the server consumes what it can each frame.
\* Nobody has to open the Scene.
Spec ==
  /\ Safety
  /\ \A w \in Writers : WF_vars(WriteStep(w))
  /\ WF_vars(\E r \in outbox : Apply(r) \/ ConsumeElsewhere(r))

-----------------------------------------------------------------------------
(* Properties                                                              *)

Quiet == \A w \in Writers : ~Running(w)

HandedOver(w) == job[w].sent > 0 /\ job[w].sent = Len(Batch(w))

Deleted(i) == \E u \in Writers : Kind(u) = "delete" /\ Item(u) = i /\ HandedOver(u)

\* A write the host was told has succeeded stays: no other write, successful or undone,
\* brings the manifest back to what it was before (mod.rs:40-47).
AcknowledgedStays ==
  \A w \in Writers : result[w] = "ok" =>
    CASE Kind(w) \in Creating -> Item(w) \in manifest.items \/ Deleted(Item(w))
      [] Kind(w) = "delete"   -> Item(w) \notin manifest.items
      [] Kind(w) = "rename"   -> Item(w) \in manifest.renamed \/ Deleted(Item(w))

\* The writes that take the publication lock do not undo each other, whatever else of
\* theirs overlaps (mod.rs:40-47).
LockedWritesStay ==
  (\A u \in Writers : Kind(u) \in Locking \cup {"none"}) => AcknowledgedStays

\* Writes that do not overlap leave the Project whole, whichever step of which failed:
\* the manifest lists just what has a layer and a placement, with no dangling entry,
\* reference or file (create.rs:163-232, deletion.rs:153-251).
CanonicalConsistent ==
  Quiet /\ ~overlapped => manifest.items = layers /\ layers = members

\* Everything is done and consumed.  A write that was undone or not handed over may have
\* been seen by the stage as it opened, so the stage owes nothing then.
Delivered ==
  /\ Quiet /\ ~overlapped /\ outbox = {} /\ stage.open
  /\ \A w \in Writers : result[w] \in {"busy", "failed"} => HandedOver(w)

Created(i) == \E u \in Writers : Kind(u) \in Creating /\ Item(u) = i /\ HandedOver(u)

\* Once everything that writes without overlap handed over is consumed, the stage shows
\* the placements of the canonical layer: no order or repetition of the records, no write
\* that failed and no change of Scene in between leaves another one on it
\* (project_stage.rs:249-251).  A definition that was created and deleted is excepted: its
\* two records may wait together, and are then applied in either order.
StageAgrees ==
  Delivered =>
    \A i \in Items : (i \in stage.placed <=> i \in members) \/ (Created(i) /\ Deleted(i))

\* While the Scene stays open, what was handed over gets consumed.
HandoffConsumed == []<>(outbox = {} \/ ~stage.open)
=============================================================================
