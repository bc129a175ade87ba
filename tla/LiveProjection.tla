--------------------------- MODULE LiveProjection ---------------------------
(***************************************************************************)
(* How the viewport keeps one entity per prim of the stage it shows.       *)
(*                                                                         *)
(* LiveStage owns the composed stage and collects a notice for each edit.  *)
(* In every frame Bevy runs, in this order: the projection system, which   *)
(* builds the entities of a stage over several frames, a generation at a   *)
(* time; the drain, which takes the notices of the frame as one batch; and *)
(* the reconciliation, which applies the batch to the entities there are.  *)
(* Edits come from the editor commands, after all of these, and from the   *)
(* Project host, whose systems run in the set of the projection system,    *)
(* before or after it: nothing orders the two.                             *)
(*                                                                         *)
(* What a prim is made of is reduced to one bit: its entity shows the      *)
(* current values, or it is stale.                                         *)
(***************************************************************************)
EXTENDS Naturals, FiniteSets

CONSTANTS
  Prims, Root,
  Parent,        \* the namespace, which edits populate
  Opened,        \* the stages, as sets of prims, that a file may compose
  MaxEdits,      \* bound: edits in a behaviour
  MaxSessions,   \* bound: stages opened
  MaxFaults      \* bound: cancellations and failed traversals

Tree == Prims \cup {Root}

\* is_descendant_or_self: the paths q such that p is q or one of its ancestors.
Under == [p \in Tree |-> {q \in Tree :
            \A S \in SUBSET Tree :
               q \in S /\ (\A r \in S \ {Root} : Parent[r] \in S) => p \in S}]

ASSUME ProjectionAssumption ==
  /\ Root \notin Prims /\ IsFiniteSet(Prims)
  /\ Parent \in [Prims -> Tree] /\ Prims \subseteq Under[Root]
  /\ Opened \subseteq SUBSET Prims
  /\ \A s \in Opened : \A p \in s : Parent[p] \in s \cup {Root}
  /\ MaxEdits \in Nat /\ MaxSessions \in Nat \ {0} /\ MaxFaults \in Nat

VARIABLES
  stage,       \* the prims composed, active, defined and not abstract
  session,     \* the lifetime of the LiveStage
  queue,       \* the notices not drained
  suppressed,  \* prims whose next changed-info is to be swallowed
  batch,       \* the notices drained in this frame
  gen,         \* ProgressiveProjectionState and the plan builder
  mapped,      \* PrimEntities: the paths that have an entity
  stale,       \* mapped prims whose entity shows an earlier value
  ghosts,      \* prims with a second entity, which no path leads to
  phase,       \* Between frames, in Update (Project) or in PostUpdate (Reconcile)
  system,      \* where project_on_load_system is in this frame: waiting, draining,
               \* worked (an item of the plan was processed) or ran
  missed,      \* a generation ran on over a change, or a batch was abandoned
  swallowed,   \* prims that suppression left stale
  edits, faults

entities == <<mapped, stale, ghosts>>
live == <<stage, session, queue, suppressed>>
history == <<missed, swallowed>>
bounds == <<edits, faults>>
vars == <<live, batch, gen, entities, phase, system, history, bounds>>

Present(s) == s \cup {Root}

Resync(p) == [kind |-> "resync", prim |-> p]

Info(p) == [kind |-> "info", prim |-> p]

NoGeneration == [session |-> 0, readiness |-> "Idle", restart |-> FALSE,
                 view |-> {}, found |-> {}, expanded |-> {}, done |-> {}]

Init ==
  /\ stage \in Opened
  /\ session = 1 /\ queue = {} /\ suppressed = {} /\ batch = {}
  /\ gen = NoGeneration
  /\ mapped = {} /\ stale = {} /\ ghosts = {}
  /\ phase = "Between" /\ system = "waiting"
  /\ missed = FALSE /\ swallowed = {}
  /\ edits = 0 /\ faults = 0

(***************************************************************************)
(* Edits.                                                                  *)
(***************************************************************************)

InProgress == gen.readiness \in {"Planning", "Projecting"}

\* An edit that the projection system has no chance to see before the drain
\* takes its notices, while a generation is under way.
Slips == phase = "Project" /\ system = "ran" /\ InProgress

\* The host's systems are in the set of the projection system; the editor's
\* commands come when the frame is over, the activations before it starts.
HostRuns == phase = "Project" /\ system \in {"waiting", "ran"}

EditorRuns == phase = "Between"

Commit(notices, show) ==
  /\ edits < MaxEdits
  /\ edits' = edits + 1
  /\ queue' = queue \cup notices
  /\ stale' = (stale \cup show) \cap mapped
  /\ UNCHANGED <<session, batch, gen, mapped, ghosts, phase, system,
                 swallowed, faults>>

\* The editor marks the prim it authors; the host does not.
Mark(p) == suppressed' = IF EditorRuns THEN suppressed \cup {p} ELSE suppressed

SetValue(p) ==
  /\ p \in stage
  /\ HostRuns \/ EditorRuns
  /\ Mark(p)
  /\ \E show \in SUBSET {p} :
        (HostRuns => show = {p}) /\ Commit({Info(p)}, show)
  /\ UNCHANGED <<stage, missed>>

\* DefinePrim, a placement, or a payload that is loaded: the notice of a
\* payload names the prim that holds it.
AddPrim(p) ==
  /\ p \notin stage /\ Parent[p] \in Present(stage)
  /\ HostRuns \/ EditorRuns
  /\ stage' = stage \cup {p}
  /\ missed' = (missed \/ Slips)
  /\ \/ Mark(p) /\ Commit({Resync(p)}, {p})
     \/ /\ EditorRuns /\ Parent[p] \in stage
        /\ Commit({Resync(Parent[p])}, {p})
        /\ UNCHANGED suppressed

RemovePrim(p) ==
  /\ p \in stage
  /\ HostRuns \/ EditorRuns
  /\ stage' = stage \ Under[p]
  /\ missed' = (missed \/ Slips)
  /\ \/ Mark(p) /\ Commit({Resync(p)}, {p})
     \/ /\ EditorRuns /\ Parent[p] \in stage
        /\ Commit({Resync(Parent[p])}, {p})
        /\ UNCHANGED suppressed

\* RefreshSceneDefinition: the same session, another composed stage.
ReplaceStage(s) ==
  /\ HostRuns /\ edits < MaxEdits
  /\ stage' = s /\ queue' = {Resync(Root)} /\ suppressed' = {}
  /\ stale' = mapped \ {Root}
  /\ missed' = (missed \/ Slips)
  /\ edits' = edits + 1
  /\ UNCHANGED <<session, batch, gen, mapped, ghosts, phase, system,
                 swallowed, faults>>

\* The entities of the stage that goes are despawned and its LiveStage is
\* dropped; the state of the projection stays.
OpenStage(s) ==
  /\ session < MaxSessions
  /\ session' = session + 1
  /\ stage' = s /\ queue' = {} /\ suppressed' = {}
  /\ mapped' = {} /\ stale' = {} /\ ghosts' = {} /\ swallowed' = {}
  /\ UNCHANGED <<batch, gen, phase, system, missed, bounds>>

\* A hot reload is ordered with none of the systems of a frame.
HotReload(s) == system \in {"waiting", "ran"} /\ OpenStage(s)

\* An activation request cancels the projection before its stage is prepared,
\* and whether or not that succeeds.
CancelProjection ==
  /\ phase = "Between" /\ InProgress /\ faults < MaxFaults
  /\ gen' = [gen EXCEPT !.readiness = "Cancelled", !.restart = TRUE]
  /\ faults' = faults + 1
  /\ UNCHANGED <<live, batch, entities, phase, system, history, edits>>

(***************************************************************************)
(* project_on_load_system.                                                 *)
(***************************************************************************)

StartFrame ==
  /\ phase = "Between"
  /\ phase' = "Project" /\ system' = "waiting"
  /\ UNCHANGED <<live, batch, gen, entities, history, bounds>>

ResidentWithoutRoot ==           \* mutant: the map is counted without its root
  /\ gen.session = session /\ gen.readiness = "Ready"
  /\ Cardinality(gen.found) = Cardinality(mapped \ {Root})

Resident ==
  /\ gen.session = session /\ gen.readiness = "Ready"
  /\ Cardinality(gen.found) = Cardinality(mapped)

NeedsStart ==
  \/ gen.session # session
  \/ gen.restart
  \/ gen.readiness = "Idle" /\ mapped = {}
  \/ gen.readiness = "Cancelled"
  \/ gen.readiness = "Ready" /\ ~Resident

NeverDefers == FALSE              \* mutant: a generation runs on over changes

Defers == InProgress /\ queue # {}

Continues ==
  InProgress /\ queue = {} /\ gen.session = session /\ ~gen.restart

Starts == ~Defers /\ ~Continues /\ ~Resident /\ NeedsStart /\ queue = {}

\* A change restarts the generation it would falsify, once it is drained.
DeferToChanges ==
  /\ Defers
  /\ gen' = [gen EXCEPT !.restart = TRUE]
  /\ system' = "ran"
  /\ UNCHANGED <<entities, missed, swallowed>>

LeaveAsIs ==
  /\ ~(Defers \/ Continues \/ Starts)
  /\ system' = "ran"
  /\ UNCHANGED <<gen, entities, missed, swallowed>>

ContinueGeneration ==
  /\ Continues
  /\ system' = "draining"
  /\ UNCHANGED <<gen, entities, missed, swallowed>>

\* The root entity carries every other: despawning it leaves none.
StartGeneration ==
  /\ Starts
  /\ gen' = [session |-> session, readiness |-> "Planning", restart |-> FALSE,
             view |-> stage, found |-> {Root}, expanded |-> {}, done |-> {}]
  /\ mapped' = {} /\ stale' = {} /\ ghosts' = {}
  /\ missed' = FALSE /\ swallowed' = {}
  /\ system' = "draining"

ProjectOnLoad ==
  /\ phase = "Project" /\ system = "waiting"
  /\ DeferToChanges \/ LeaveAsIs \/ ContinueGeneration \/ StartGeneration
  /\ UNCHANGED <<live, batch, phase, bounds>>

Draining == phase = "Project" /\ system \in {"draining", "worked"}

\* advance_one: one parent is expanded.  The builder has its own handle of the
\* stage; after an edit it may show the children before it or after.
ExpandParent(p) ==
  /\ Draining /\ gen.readiness = "Planning"
  /\ gen.done = gen.found /\ p \in gen.found \ gen.expanded
  /\ \E view \in {gen.view, stage} :
        gen' = [gen EXCEPT !.expanded = @ \cup {p},
                           !.found = @ \cup {q \in view : Parent[q] = p}]
  /\ system' = "worked"
  /\ UNCHANGED <<live, batch, entities, phase, history, bounds>>

PlanFails ==
  /\ Draining /\ gen.readiness = "Planning"
  /\ gen.done = gen.found /\ gen.found # gen.expanded
  /\ faults < MaxFaults
  /\ gen' = [gen EXCEPT !.readiness = "Failed"]
  /\ system' = "ran"
  /\ faults' = faults + 1
  /\ UNCHANGED <<live, batch, entities, phase, history, edits>>

FinalizePlan ==
  /\ Draining /\ gen.readiness = "Planning" /\ gen.expanded = gen.found
  /\ gen' = [gen EXCEPT !.readiness = "Projecting"]
  /\ UNCHANGED <<live, batch, entities, phase, system, history, bounds>>

\* project_plan_entry: always a new entity, which takes the path from the one
\* that had it.
ProjectEntry(p) ==
  /\ Draining /\ p \in gen.found \ gen.done
  /\ gen' = [gen EXCEPT !.done = @ \cup {p}]
  /\ ghosts' = IF p \in mapped THEN ghosts \cup {p} ELSE ghosts
  /\ mapped' = mapped \cup {p}
  /\ stale' = stale \ {p}
  /\ swallowed' = swallowed \ {p}
  /\ system' = "worked"
  /\ UNCHANGED <<live, batch, phase, missed, bounds>>

Drained == gen.readiness = "Projecting" /\ gen.done = gen.found

\* Nothing is left, or the budget of the frame is spent: it is looked at before
\* each item, and lasts for one at least.
EndDrain ==
  /\ Draining /\ (system = "worked" \/ Drained)
  /\ system' = "ran"
  /\ IF Drained THEN gen' = [gen EXCEPT !.readiness = "Ready"]
                ELSE UNCHANGED gen
  /\ UNCHANGED <<live, batch, entities, phase, missed, swallowed, bounds>>

(***************************************************************************)
(* Drain and reconciliation.                                               *)
(***************************************************************************)

DrainChanges ==
  /\ phase = "Project" /\ system = "ran"
  /\ phase' = "Reconcile"
  /\ batch' = queue /\ queue' = {}
  /\ UNCHANGED <<stage, session, suppressed, gen, entities, system,
                 history, bounds>>

Named(kind) == {n.prim : n \in {m \in batch : m.kind = kind}}

\* resync_roots covers what its minimal form covers.
Covered == UNION {Under[p] : p \in Named("resync")}

\* A stage without an entity for its root, a notice at the root, or a new prim
\* whose parent has no entity and gets none: everything is compared.
Full ==
  \/ Root \in Named("resync")
  \/ Root \notin mapped
  \/ \E p \in (stage \cap Covered) \ mapped :
        Parent[p] \notin mapped \cup {Root} \cup Covered

Reach == IF Full THEN Tree ELSE Covered

\* Despawning an entity takes those below it along.
ReconcileResyncs ==
  LET removed == (mapped \cap Reach) \ Present(stage)
      below   == UNION {Under[p] \ {p} : p \in removed}
  IN  /\ mapped' = (mapped \ removed) \cup (stage \cap Reach)
                   \cup (IF Full THEN {Root} ELSE {})
      /\ \E gone \in SUBSET (ghosts \cap below) : ghosts' = ghosts \ gone

\* The changed-infos outside of the resynced subtrees; suppression is spent,
\* whatever the batch holds.
Patched == (Named("info") \ Covered) \ suppressed

ReconcileBatch ==
  LET resynced == IF Named("resync") = {} THEN {} ELSE Reach
      ignored  == (Named("info") \ Covered) \cap suppressed
  IN  /\ IF Named("resync") = {} THEN UNCHANGED <<mapped, ghosts>>
                                 ELSE ReconcileResyncs
      /\ stale' = (stale \ (resynced \cup Patched)) \cap mapped'
      /\ swallowed' = (swallowed \cup (stale \cap ignored)) \cap stale'
      /\ suppressed' = {}

Reconcile ==
  /\ phase = "Reconcile"
  /\ phase' = "Between"
  /\ batch' = {}
  /\ IF batch = {} THEN UNCHANGED <<suppressed, entities, swallowed>>
                   ELSE ReconcileBatch
  /\ UNCHANGED <<stage, session, queue, gen, system, missed,
                 bounds>>

\* A traversal of the stage fails: the batch is lost.
ReconcileFails ==
  /\ phase = "Reconcile" /\ Named("resync") # {} /\ faults < MaxFaults
  /\ phase' = "Between"
  /\ batch' = {}
  /\ stale' = stale \ Patched
  /\ suppressed' = {}
  /\ missed' = TRUE
  /\ swallowed' = swallowed \cap stale'
  /\ faults' = faults + 1
  /\ UNCHANGED <<stage, session, queue, gen, mapped, ghosts, system,
                  edits>>

(***************************************************************************)
(* The specification.                                                      *)
(***************************************************************************)

Edit ==
  \/ \E p \in Prims : SetValue(p) \/ AddPrim(p) \/ RemovePrim(p)
  \/ \E s \in Opened : ReplaceStage(s) \/ HotReload(s)
  \/ CancelProjection

Drain ==
  \/ \E p \in Tree : ExpandParent(p) \/ ProjectEntry(p)
  \/ PlanFails \/ FinalizePlan \/ EndDrain

Frame ==
  \/ StartFrame \/ ProjectOnLoad \/ Drain \/ DrainChanges
  \/ Reconcile \/ ReconcileFails

Next == Edit \/ Frame

\* Bevy runs the systems of every frame, one after the other.
Fairness == WF_vars(Frame)

Spec == Init /\ [][Next]_vars /\ Fairness

(***************************************************************************)
(* Properties.                                                             *)
(***************************************************************************)

\* The projection says it is ready, for the stage that is shown, and no notice
\* waits.
Settled ==
  /\ gen.session = session /\ gen.readiness = "Ready"
  /\ queue = {} /\ batch = {}

\* Every prim has its entity, no other has one, and none has two.
OneEntityEach == mapped = Present(stage) /\ ghosts = {}

(* When the projection is ready and quiet, the entities are the prims of   *)
(* the stage, one each, and show their current values but for those whose  *)
(* notice was swallowed as the editor's own; whatever edits, cancellations *)
(* and reloads came while it was built, as long as none slipped past the   *)
(* projection system and no traversal failed (project_on_load_system and   *)
(* apply_change_batch).                                                    *)
Faithful == Settled /\ ~missed => OneEntityEach /\ stale \subseteq swallowed

(* Once the edits and reloads are over, the projection comes to an end and *)
(* is not built again and again: it is ready for the stage that is shown,  *)
(* with as many entities as its plan, or it has failed.                    *)
EventuallyShown ==
  <>[](gen.session = session /\ (Resident \/ gen.readiness = "Failed"))
=============================================================================
