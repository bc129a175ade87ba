------------------------ MODULE ProjectWritesProofs ------------------------
(***************************************************************************)
(* The writes of a Project host, for any writes, definitions, kinds of     *)
(* write, room in the outbox and number of I/O errors. The invariant has   *)
(* five parts: types; where each write is with its records (Controlled);   *)
(* what a write that runs alone has made of the canonical files at each of *)
(* its steps (SerialInv); what was acknowledged, under the publication     *)
(* lock (LockedInv); and how the stage and the outbox make up what the     *)
(* Scene holds (HandoffInv).                                               *)
(***************************************************************************)
EXTENDS ProjectWrites, TLAPS

Manifests == [items : SUBSET Items, renamed : SUBSET Items]

Records ==
  [op : {"place", "rename", "remove", "delete"}, item : Items, by : Writers]

Jobs ==
  [kind : AllKinds \cup {"none"}, item : Items \cup {None}, base : Manifests,
   read : SUBSET Items, backup : [manifest : Manifests, members : SUBSET Items],
   listed : SUBSET Records, sent : Nat]

Reading == {"read", "capacity", "check", "parent"}

Publishing == {"layer", "manifest"}

Handing == {"list", "submit", "sending", "cleanup"}

Steps == {"idle", "done"} \cup Reading \cup Publishing \cup Handing

Typed ==
  /\ manifest \in Manifests /\ layers \subseteq Items /\ members \subseteq Items
  /\ outbox \subseteq Records
  /\ stage \in [open : BOOLEAN, placed : SUBSET Items]
  /\ pc \in [Writers -> Steps] /\ job \in [Writers -> Jobs]
  /\ result \in [Writers -> {"none", "ok", "busy", "failed"}]
  /\ faults \in Nat /\ overlapped \in BOOLEAN

\* Where a write is with its records, whatever the others do.
Controlled(w) ==
  /\ pc[w] = "idle" => job[w] = NoJob
  /\ pc[w] # "idle" => Kind(w) \in AllKinds /\ Item(w) \in Items
  /\ pc[w] \in Reading \cup Publishing \cup {"list", "submit"} => job[w].sent = 0
  /\ pc[w] = "sending" => job[w].sent < Len(Batch(w))
  /\ pc[w] = "cleanup" \/ result[w] = "ok" => HandedOver(w)
  /\ pc[w] = "done" <=> result[w] # "none"

ControlInv == \A w \in Writers : Controlled(w)

\* What the write makes of the manifest it has read.
Rewritten(w) ==
  LET b == job[w].base IN
  CASE Kind(w) \in Creating -> [b EXCEPT !.items = @ \cup {Item(w)}]
    [] Kind(w) = "rename"   -> [b EXCEPT !.renamed = @ \cup {Item(w)}]
    [] Kind(w) = "delete"   -> [items |-> b.items \ {Item(w)},
                                renamed |-> b.renamed \ {Item(w)}]

\* The canonical files while w runs alone.
Serial(w) ==
  LET b == job[w].base
      after == Rewritten(w).items
  IN  /\ IF Kind(w) \in Creating THEN Item(w) \notin b.items ELSE Item(w) \in b.items
      /\ Kind(w) \in Creating => \A u \in Writers \ {w} : Item(u) # Item(w)
      /\ pc[w] # "read" => job[w].read = b.items
      /\ pc[w] \notin Reading => job[w].backup = [manifest |-> b, members |-> b.items]
      /\ members = IF pc[w] \in Reading THEN b.items ELSE after
      /\ layers = IF pc[w] \in Reading \cup {"layer"} THEN b.items ELSE after
      /\ manifest = IF pc[w] \in Handing THEN Rewritten(w) ELSE b

SerialInv ==
  ~overlapped =>
    /\ \A u, w \in Writers : Running(u) /\ Running(w) => u = w
    /\ \A w \in Writers : Running(w) => Serial(w)
    /\ Quiet => manifest.items = layers /\ layers = members

OnlyLocked == \A u \in Writers : Kind(u) \in Locking \cup {"none"}

\* A manifest that has what was acknowledged under the lock.
Keeps(m) ==
  \A w \in Writers : result[w] = "ok" =>
    /\ Kind(w) = "import" => Item(w) \in m.items
    /\ Kind(w) = "rename" => Item(w) \in m.renamed

LockedInv ==
  OnlyLocked => /\ ~overlapped
                /\ Keeps(manifest)
                /\ \A w \in Writers : Running(w) => Keeps(job[w].base)

Honest == \A w \in Writers : result[w] \in {"busy", "failed"} => HandedOver(w)

Doomed(i) == \E u \in Writers : Kind(u) = "delete" /\ Item(u) = i

Unsent(w) == Running(w) /\ job[w].sent = 0

\* The records that wait are of a write that still stands.
Backed ==
  \A r \in outbox :
    /\ Item(r.by) = r.item
    /\ r.op = "place" => Kind(r.by) \in Creating /\ HandedOver(r.by)
    /\ r.op = "remove" => Kind(r.by) = "delete" /\ r.item \notin members

\* What was created is there, unless a deletion has come.
Landed ==
  \A w \in Writers :
    Kind(w) \in Creating /\ HandedOver(w) => Item(w) \in members \/ Doomed(Item(w))

\* A placement, or its removal, that the stage is still to be told.
PlaceDue(i) ==
  \/ \E r \in outbox : r.op = "place" /\ r.item = i
  \/ \E w \in Writers : Unsent(w) /\ Kind(w) \in Creating /\ Item(w) = i

RemoveDue(i) ==
  \/ \E r \in outbox : r.op = "remove" /\ r.item = i
  \/ \E w \in Writers : Unsent(w) /\ Kind(w) = "delete" /\ Item(w) = i

\* The open stage shows the Scene, but for what it is still to be told.
Shown ==
  stage.open => \A i \in Items :
    /\ i \in members \ stage.placed => PlaceDue(i)
    /\ i \in stage.placed \ members => RemoveDue(i) \/ (Created(i) /\ Doomed(i))

HandoffInv == ~overlapped /\ Honest => Backed /\ Landed /\ Shown

IInv == Typed /\ ControlInv /\ SerialInv /\ LockedInv /\ HandoffInv

-----------------------------------------------------------------------------
(* Records, and what a step leaves alone                                   *)

\* The records of each kind of write.
LEMMA BatchShape ==
  ASSUME NEW w
  PROVE  /\ Kind(w) \in Creating => Batch(w) = <<Record(w, "place")>>
         /\ Kind(w) = "rename" => Batch(w) = <<Record(w, "rename")>>
         /\ Kind(w) = "delete" /\ Item(w) \in job[w].read =>
              Batch(w) = <<Record(w, "remove"), Record(w, "delete")>>
         /\ Kind(w) = "delete" /\ Item(w) \notin job[w].read =>
              Batch(w) = <<Record(w, "delete")>>
  BY DEF Batch, Creating

\* A batch has one record or two, all of its own write and definition.
LEMMA BatchRecords ==
  ASSUME NEW w, Kind(w) \in AllKinds
  PROVE  /\ Len(Batch(w)) \in {1, 2}
         /\ \A n \in 1..Len(Batch(w)) :
              /\ Batch(w)[n].by = w /\ Batch(w)[n].item = Item(w)
              /\ Batch(w)[n].op \in {"place", "rename", "remove", "delete"}
              /\ Batch(w)[n] = Record(w, Batch(w)[n].op)
              /\ Batch(w)[n].op = "place" => Kind(w) \in Creating
              /\ Batch(w)[n].op = "remove" => Kind(w) = "delete"
<1>1. CASE Kind(w) \in Creating
  BY <1>1, BatchShape DEF Record, Creating
<1>2. CASE Kind(w) = "rename"
  BY <1>2, BatchShape DEF Record, Creating
<1>3. CASE Kind(w) = "delete" /\ Item(w) \in job[w].read
  BY <1>3, BatchShape DEF Record, Creating
<1>4. CASE Kind(w) = "delete" /\ Item(w) \notin job[w].read
  BY <1>4, BatchShape DEF Record, Creating
<1> QED BY <1>1, <1>2, <1>3, <1>4 DEF AllKinds

\* A write keeps its records while its kind, its definition and what it read stay.
LEMMA SameBatch ==
  ASSUME NEW w, job'[w].kind = job[w].kind, job'[w].item = job[w].item,
         job'[w].read = job[w].read
  PROVE  Batch(w)' = Batch(w)
BY DEF Batch, Record, Kind, Item

\* A step disturbs no write whose control, work and result it leaves alone.
LEMMA Undisturbed ==
  ASSUME NEW u \in Writers, Controlled(u),
         pc'[u] = pc[u], job'[u] = job[u], result'[u] = result[u]
  PROVE  Controlled(u)'
<1>1. Batch(u)' = Batch(u)
  BY SameBatch
<1> QED BY <1>1 DEF Controlled, HandedOver, Kind, Item

\* What a step of w does to the other writes: nothing.
OthersStay(w) ==
  \A u \in Writers \ {w} : pc'[u] = pc[u] /\ job'[u] = job[u] /\ result'[u] = result[u]

LEMMA WriterAlone ==
  ASSUME Typed, NEW w \in Writers, WriteStep(w) \/ WriteFails(w)
  PROVE  OthersStay(w)
<1>1. ReadComposition(w) \/ ListOutbox(w) => OthersStay(w)
  BY DEF Typed, OthersStay, ReadComposition, ListOutbox, Goto
<1>2. SceneMissing(w) \/ CapacityUnknown(w) \/ CleanUp(w) \/ CleanUpFails(w) => OthersStay(w)
  BY DEF Typed, OthersStay, SceneMissing, CapacityUnknown, CleanUp, CleanUpFails, End, Goto
<1>3. EnsureCapacity(w) \/ EnsureCurrentManifest(w) => OthersStay(w)
  BY DEF Typed, OthersStay, EnsureCapacity, EnsureCurrentManifest, End, Goto
<1>4. PublishParent(w) \/ PublishLayer(w) \/ WriteManifest(w) \/ Submit(w) => OthersStay(w)
  BY DEF Typed, OthersStay, PublishParent, PublishLayer, WriteManifest, Submit, BackUp, Goto
<1>5. LayerMissing(w) \/ SubmitRefused(w) \/ PublishRecordFails(w) \/ IoError(w) => OthersStay(w)
  BY DEF Typed, OthersStay, LayerMissing, SubmitRefused, PublishRecordFails, IoError, End, Goto
<1>6. PublishRecord(w) => OthersStay(w)
  BY DEF Typed, OthersStay, PublishRecord, Goto
<1> QED BY <1>1, <1>2, <1>3, <1>4, <1>5, <1>6 DEF WriteStep, WriteFails

-----------------------------------------------------------------------------
(* Types                                                                   *)

LEMMA NoJobTyped == NoJob \in Jobs
<1>1. [items |-> {}, renamed |-> {}] \in Manifests
  BY DEF Manifests
<1> QED BY <1>1 DEF NoJob, Jobs

LEMMA TypedInit == Init => Typed
<1> SUFFICES ASSUME Init PROVE Typed
  OBVIOUS
<1>1. manifest \in Manifests /\ layers \subseteq Items /\ members \subseteq Items
  BY WritesAssumption DEF Init, Manifests
<1>2. outbox \subseteq Records /\ stage \in [open : BOOLEAN, placed : SUBSET Items]
  BY DEF Init, Closed
<1>3. job \in [Writers -> Jobs]
  BY NoJobTyped DEF Init
<1> QED BY <1>1, <1>2, <1>3 DEF Init, Typed, Steps

\* A write that fails leaves sets of definitions.
LEMMA RollBackTyped ==
  ASSUME Typed, ControlInv, NEW w \in Writers, Running(w), RollBack(w)
  PROVE  manifest' \in Manifests /\ layers' \subseteq Items /\ members' \subseteq Items
<1>1. job[w] \in Jobs
  BY DEF Typed
<1>2. Kind(w) \in AllKinds /\ Item(w) \in Items
  BY DEF ControlInv, Controlled, Running
<1>3. manifest \in Manifests /\ layers \subseteq Items /\ members \subseteq Items
  BY DEF Typed
<1>4. job[w].base \in Manifests /\ job[w].backup.manifest \in Manifests
      /\ job[w].backup.members \subseteq Items
  BY <1>1 DEF Jobs
<1>5. CASE Kind(w) \in Creating
  BY <1>2, <1>3, <1>4, <1>5 DEF RollBack
<1>6. CASE Kind(w) \notin Creating
  <2>1. Kind(w) = "delete" \/ Kind(w) = "rename"
    BY <1>2, <1>6 DEF AllKinds
  <2>2. manifest' \in {job[w].base, job[w].backup.manifest, manifest}
    BY <2>1, <1>6 DEF RollBack
  <2>3. layers' \in {layers \cup {Item(w)}, layers}
    BY <1>6 DEF RollBack
  <2>4. members' \in {job[w].backup.members, members}
    BY <1>6 DEF RollBack
  <2> QED BY <2>2, <2>3, <2>4, <1>2, <1>3, <1>4
<1> QED BY <1>5, <1>6

\* Where a step of a write may leave its control and its result.
LEMMA GotoTyped ==
  ASSUME Typed, NEW w \in Writers, NEW to \in Steps, Goto(w, to)
  PROVE  pc' \in [Writers -> Steps]
BY DEF Typed, Goto

LEMMA EndTyped ==
  ASSUME Typed, NEW w \in Writers, NEW r \in {"ok", "busy", "failed"}, End(w, r)
  PROVE  /\ pc' \in [Writers -> Steps]
         /\ result' \in [Writers -> {"none", "ok", "busy", "failed"}]
BY DEF Typed, End, Goto, Steps

\* A record of the job of a write, changed in one place.
LEMMA JobTyped ==
  ASSUME Typed, NEW w \in Writers, NEW j \in Jobs, job' = [job EXCEPT ![w] = j]
  PROVE  job' \in [Writers -> Jobs]
BY DEF Typed

LEMMA StartTyped ==
  ASSUME Typed, NEW w \in Writers, NEW k \in AllKinds, NEW i \in Items, Start(w, k, i)
  PROVE  Typed'
<1> DEFINE j == [NoJob EXCEPT !.kind = k, !.item = i, !.base = manifest]
<1>1. j \in Jobs
  BY NoJobTyped DEF Typed, Jobs
<1>2. job' = [job EXCEPT ![w] = j]
  BY DEF Start
<1> HIDE DEF j
<1>3. job' \in [Writers -> Jobs]
  BY <1>1, <1>2, JobTyped
<1>4. pc' \in [Writers -> Steps]
  BY GotoTyped DEF Start, Steps, Reading
<1>5. overlapped' \in BOOLEAN
  BY DEF Start, Typed
<1> QED BY <1>3, <1>4, <1>5 DEF Start, Typed, canonical

LEMMA HostTyped ==
  ASSUME Typed, ControlInv, NEW w \in Writers, WriteStep(w) \/ WriteFails(w)
  PROVE  Typed'
<1>j. job[w] \in Jobs /\ faults + 1 \in Nat
  BY DEF Typed
<1>r. RollBack(w) /\ Running(w) =>
        manifest' \in Manifests /\ layers' \subseteq Items /\ members' \subseteq Items
  BY RollBackTyped
<1>k. pc[w] \notin {"idle", "done"} => Kind(w) \in AllKinds /\ Item(w) \in Items
  BY DEF ControlInv, Controlled
<1>s. {"capacity", "check", "parent", "layer", "manifest", "list", "submit", "sending",
       "cleanup", "done"} \subseteq Steps
  BY DEF Steps, Reading, Publishing, Handing
<1>1. CASE ReadComposition(w)
  <2> DEFINE j == [job[w] EXCEPT !.read = members]
  <2>1. j \in Jobs /\ job' = [job EXCEPT ![w] = j]
    BY <1>1, <1>j DEF Typed, Jobs, ReadComposition
  <2> HIDE DEF j
  <2>2. job' \in [Writers -> Jobs]
    BY <2>1, JobTyped
  <2>3. pc' \in [Writers -> Steps]
    BY <1>1, <1>s, GotoTyped DEF ReadComposition
  <2> QED BY <1>1, <2>2, <2>3 DEF ReadComposition, Typed, canonical
<1>2. CASE SceneMissing(w) \/ CapacityUnknown(w) \/ CleanUp(w)
  <2>1. pc' \in [Writers -> Steps] /\ result' \in [Writers -> {"none", "ok", "busy", "failed"}]
    BY <1>2, EndTyped DEF SceneMissing, CapacityUnknown, CleanUp
  <2> QED BY <1>2, <2>1 DEF SceneMissing, CapacityUnknown, CleanUp, Typed, canonical
<1>3. CASE EnsureCapacity(w) \/ EnsureCurrentManifest(w)
  <2>1. pc' \in [Writers -> Steps] /\ result' \in [Writers -> {"none", "ok", "busy", "failed"}]
    BY <1>3, <1>s, EndTyped, GotoTyped DEF EnsureCapacity, EnsureCurrentManifest, Typed
  <2> QED BY <1>3, <2>1 DEF EnsureCapacity, EnsureCurrentManifest, Typed, canonical
<1>4. CASE PublishParent(w)
  <2> DEFINE j == [job[w] EXCEPT !.backup = [manifest |-> manifest, members |-> members]]
  <2>1. j \in Jobs /\ job' = [job EXCEPT ![w] = j]
    BY <1>4, <1>j DEF Typed, Jobs, PublishParent, BackUp
  <2> HIDE DEF j
  <2>2. job' \in [Writers -> Jobs]
    BY <2>1, JobTyped
  <2>3. pc' \in [Writers -> Steps]
    BY <1>4, <1>s, GotoTyped DEF PublishParent
  <2>4. job[w].read \subseteq Items
    BY <1>j DEF Jobs
  <2>5. members' \subseteq Items
    <3>1. Item(w) \in Items /\ Kind(w) \in AllKinds /\ members \subseteq Items
      BY <1>4, <1>k DEF PublishParent, Typed
    <3>2. Kind(w) \in Creating => members' = members \cup job[w].read \cup {Item(w)}
      BY <1>4 DEF PublishParent, Creating
    <3>3. Kind(w) \notin Creating => members' \in {members, job[w].read \ {Item(w)}}
      BY <1>4, <3>1 DEF PublishParent, AllKinds
    <3> QED BY <3>1, <3>2, <3>3, <2>4
  <2> QED BY <1>4, <2>2, <2>3, <2>5 DEF PublishParent, Typed
<1>5. CASE PublishLayer(w)
  <2>1. pc' \in [Writers -> Steps]
    BY <1>5, <1>s, GotoTyped DEF PublishLayer
  <2>2. layers' \subseteq Items
    BY <1>5, <1>k DEF PublishLayer, Typed, AllKinds
  <2> QED BY <1>5, <2>1, <2>2 DEF PublishLayer, Typed
<1>6. CASE WriteManifest(w)
  <2>1. pc' \in [Writers -> Steps]
    BY <1>6, <1>s, GotoTyped DEF WriteManifest
  <2>2. job[w].base \in Manifests /\ Item(w) \in Items /\ Kind(w) \in AllKinds
    BY <1>6, <1>j, <1>k DEF Jobs, WriteManifest
  <2>3. manifest' \in Manifests
    BY <1>6, <2>2 DEF WriteManifest, Manifests, AllKinds
  <2> QED BY <1>6, <2>1, <2>3 DEF WriteManifest, Typed
<1>7. CASE LayerMissing(w)
  <2>1. Running(w)
    BY <1>7 DEF LayerMissing, Running
  <2>2. pc' \in [Writers -> Steps] /\ result' \in [Writers -> {"none", "ok", "busy", "failed"}]
    BY <1>7, EndTyped DEF LayerMissing
  <2> QED BY <1>7, <1>r, <2>1, <2>2 DEF LayerMissing, Typed
<1>8. CASE ListOutbox(w)
  <2> DEFINE j == [job[w] EXCEPT !.listed = outbox]
  <2>1. j \in Jobs /\ job' = [job EXCEPT ![w] = j]
    BY <1>8, <1>j DEF Typed, Jobs, ListOutbox
  <2> HIDE DEF j
  <2>2. job' \in [Writers -> Jobs]
    BY <2>1, JobTyped
  <2>3. pc' \in [Writers -> Steps]
    BY <1>8, <1>s, GotoTyped DEF ListOutbox
  <2> QED BY <1>8, <2>2, <2>3 DEF ListOutbox, Typed, canonical
<1>9. CASE Submit(w)
  <2>1. pc' \in [Writers -> Steps]
    BY <1>9, <1>s, GotoTyped DEF Submit
  <2> QED BY <1>9, <2>1 DEF Submit, Typed, canonical
<1>10. CASE SubmitRefused(w)
  <2>1. Running(w)
    BY <1>10 DEF SubmitRefused, Running
  <2>2. pc' \in [Writers -> Steps] /\ result' \in [Writers -> {"none", "ok", "busy", "failed"}]
    BY <1>10, EndTyped DEF SubmitRefused
  <2> QED BY <1>10, <1>r, <2>1, <2>2 DEF SubmitRefused, Typed
<1>11. CASE PublishRecord(w)
  <2> DEFINE n == job[w].sent + 1
             j == [job[w] EXCEPT !.sent = n]
  <2>0. n \in Nat /\ j \in Jobs
    BY <1>j DEF Jobs
  <2>1. job' = [job EXCEPT ![w] = j]
    <3>1. job' = [job EXCEPT ![w].sent = n]
      BY <1>11 DEF PublishRecord
    <3> QED BY <3>1 DEF Typed
  <2>2. pc[w] = "sending" /\ Kind(w) \in AllKinds /\ Item(w) \in Items
    BY <1>11, <1>k DEF PublishRecord
  <2>3. n \in 1..Len(Batch(w))
    <3>1. job[w].sent < Len(Batch(w)) /\ job[w].sent \in Nat
      BY <2>2, <1>j DEF ControlInv, Controlled, Jobs
    <3>2. Len(Batch(w)) \in {1, 2}
      BY <2>2, BatchRecords
    <3> QED BY <3>1, <3>2
  <2>4. Batch(w)[n] \in Records
    <3> DEFINE o == Batch(w)[n].op
    <3>1. Batch(w)[n] = Record(w, o) /\ o \in {"place", "rename", "remove", "delete"}
      BY <2>2, <2>3, BatchRecords
    <3> HIDE DEF o
    <3>2. Record(w, o) \in Records
      BY <2>2, <3>1 DEF Record, Records
    <3> QED BY <3>1, <3>2
  <2>5. outbox' = outbox \cup {Batch(w)[n]}
    BY <1>11 DEF PublishRecord
  <2>6. pc' \in [Writers -> Steps]
    BY <1>11, <1>s, GotoTyped DEF PublishRecord, Typed
  <2> HIDE DEF j, n
  <2>7. job' \in [Writers -> Jobs]
    BY <2>0, <2>1, JobTyped
  <2> QED BY <1>11, <2>4, <2>5, <2>6, <2>7 DEF PublishRecord, Typed, canonical
<1>12. CASE PublishRecordFails(w)
  <2>1. Running(w)
    BY <1>12 DEF PublishRecordFails, Running
  <2>2. pc' \in [Writers -> Steps] /\ result' \in [Writers -> {"none", "ok", "busy", "failed"}]
    BY <1>12, EndTyped DEF PublishRecordFails
  <2>3. outbox' \subseteq outbox
    BY <1>12 DEF PublishRecordFails
  <2> QED BY <1>12, <1>r, <1>j, <2>1, <2>2, <2>3 DEF PublishRecordFails, Fault, Typed
<1>13. CASE CleanUpFails(w)
  <2>1. pc' \in [Writers -> Steps] /\ result' \in [Writers -> {"none", "ok", "busy", "failed"}]
    BY <1>13, EndTyped DEF CleanUpFails
  <2> QED BY <1>13, <1>j, <2>1 DEF CleanUpFails, Fault, Typed, canonical
<1>14. CASE IoError(w)
  <2>1. pc' \in [Writers -> Steps] /\ result' \in [Writers -> {"none", "ok", "busy", "failed"}]
    BY <1>14, EndTyped DEF IoError
  <2>2. manifest' \in Manifests /\ layers' \subseteq Items /\ members' \subseteq Items
    BY <1>14, <1>r DEF IoError, Typed, canonical
  <2> QED BY <1>14, <1>j, <2>1, <2>2 DEF IoError, Fault, Typed
<1> QED
  BY <1>1, <1>2, <1>3, <1>4, <1>5, <1>6, <1>7, <1>8, <1>9, <1>10, <1>11, <1>12, <1>13, <1>14
  DEF WriteStep, WriteFails

\* What the render server leaves alone.
LEMMA ServerKeeps ==
  ASSUME ServerStep
  PROVE  UNCHANGED <<canonical, pc, job, result, overlapped>> /\ outbox' \subseteq outbox
BY DEF ServerStep, OpenScene, LeaveScene, Apply, ApplyKeepingRecord, ConsumeElsewhere

LEMMA ServerTyped == ASSUME Typed, ServerStep PROVE Typed'
<1>1. UNCHANGED <<canonical, pc, job, result, overlapped>> /\ outbox' \subseteq outbox
  BY ServerKeeps
<1>2. faults' \in Nat
  BY DEF ServerStep, OpenScene, LeaveScene, Apply, ApplyKeepingRecord, ConsumeElsewhere,
         Fault, Typed
<1>3. stage' \in [open : BOOLEAN, placed : SUBSET Items]
  <2>1. CASE OpenScene \/ LeaveScene
    <3>1. [open |-> TRUE, placed |-> members] \in [open : BOOLEAN, placed : SUBSET Items]
      BY DEF Typed
    <3>2. Closed \in [open : BOOLEAN, placed : SUBSET Items]
      BY DEF Closed
    <3> QED BY <2>1, <3>1, <3>2 DEF OpenScene, LeaveScene
  <2>2. CASE \E r \in outbox : Apply(r) \/ ApplyKeepingRecord(r) \/ ConsumeElsewhere(r)
    <3> PICK r \in outbox : Apply(r) \/ ApplyKeepingRecord(r) \/ ConsumeElsewhere(r)
      BY <2>2
    <3>1. r.item \in Items /\ stage.placed \subseteq Items
      BY DEF Typed, Records
    <3>2. Effect(r, stage.placed) \subseteq Items
      BY <3>1 DEF Effect
    <3> QED BY <3>2 DEF Apply, ApplyKeepingRecord, ConsumeElsewhere, Typed
  <2> QED BY <2>1, <2>2 DEF ServerStep
<1> QED BY <1>1, <1>2, <1>3 DEF Typed, canonical

-----------------------------------------------------------------------------
(* Control                                                                 *)

LEMMA ControlInit == Init => ControlInv
BY DEF Init, ControlInv, Controlled, Kind, Reading, Publishing

LEMMA StartControl ==
  ASSUME Typed, ControlInv, NEW w \in Writers, NEW k \in AllKinds, NEW i \in Items,
         Start(w, k, i)
  PROVE  ControlInv' /\ OthersStay(w)
<1>1. OthersStay(w)
  BY DEF Typed, OthersStay, Start, Goto
<1>2. \A u \in Writers \ {w} : Controlled(u)'
  BY <1>1, Undisturbed DEF ControlInv, OthersStay
<1>3. Controlled(w)'
  <2>1. pc'[w] = "read" /\ result'[w] = result[w] /\ pc[w] = "idle"
    BY DEF Typed, Start, Goto
  <2>2. job'[w] = [NoJob EXCEPT !.kind = k, !.item = i, !.base = manifest]
    BY DEF Typed, Start
  <2>3. job'[w].kind = k /\ job'[w].item = i /\ job'[w].sent = 0
    BY <2>2 DEF NoJob
  <2>4. result[w] = "none"
    BY <2>1 DEF ControlInv, Controlled
  <2> QED BY <2>1, <2>3, <2>4 DEF Controlled, Kind, Item, HandedOver
<1> QED BY <1>1, <1>2, <1>3 DEF ControlInv

\* A write that ends before anything was handed over.
LEMMA EndControl ==
  ASSUME Typed, NEW w \in Writers, NEW r \in {"busy", "failed"}, Running(w), Controlled(w),
         End(w, r), job' = job
  PROVE  Controlled(w)'
<1>1. pc'[w] = "done" /\ result'[w] = r
  BY DEF Typed, End, Goto
<1>2. Kind(w)' = Kind(w) /\ Item(w)' = Item(w)
  BY DEF Kind, Item
<1> QED
  BY <1>1, <1>2 DEF Controlled, Running, Reading, Publishing

\* A write that goes on to a step before its records.
LEMMA GotoControl ==
  ASSUME Typed, NEW w \in Writers, NEW to \in Reading \cup Publishing \cup {"list", "submit"},
         pc[w] \in Reading \cup Publishing \cup {"list"}, Controlled(w),
         Goto(w, to), result' = result,
         job'[w].kind = job[w].kind, job'[w].item = job[w].item, job'[w].sent = job[w].sent
  PROVE  Controlled(w)'
<1>1. pc'[w] = to
  BY DEF Typed, Goto
<1>2. Kind(w)' = Kind(w) /\ Item(w)' = Item(w) /\ job'[w].sent = 0
  BY DEF Kind, Item, Controlled
<1>3. result[w] = "none" /\ result'[w] = "none"
  BY DEF Controlled, Reading, Publishing
<1>4. Kind(w) \in AllKinds /\ Item(w) \in Items
  BY DEF Controlled, Reading, Publishing
<1> QED BY <1>1, <1>2, <1>3, <1>4 DEF Controlled, Reading, Publishing

LEMMA HostControl ==
  ASSUME Typed, ControlInv, NEW w \in Writers, WriteStep(w) \/ WriteFails(w)
  PROVE  ControlInv'
<1>a. OthersStay(w)
  BY WriterAlone
<1>b. \A u \in Writers \ {w} : Controlled(u)'
  BY <1>a, Undisturbed DEF ControlInv, OthersStay
<1>c. Controlled(w)
  BY DEF ControlInv
<1>d. pc[w] # "idle" => Len(Batch(w)) \in {1, 2}
  BY <1>c, BatchRecords DEF Controlled
<1>j. job \in [Writers -> Jobs]
  BY DEF Typed
<1>1. CASE ReadComposition(w)
  <2>1. job'[w] = [job[w] EXCEPT !.read = members]
    BY <1>1, <1>j DEF ReadComposition
  <2>2. job'[w].kind = job[w].kind /\ job'[w].item = job[w].item /\ job'[w].sent = job[w].sent
    BY <2>1, <1>j DEF Jobs
  <2>3. Controlled(w)'
    BY <1>1, <1>c, <2>2, GotoControl DEF ReadComposition, Reading
  <2> QED BY <1>b, <2>3 DEF ControlInv
<1>2. CASE SceneMissing(w) \/ CapacityUnknown(w) \/ LayerMissing(w) \/ SubmitRefused(w)
  <2>1. Running(w) /\ job' = job /\ \E r \in {"busy", "failed"} : End(w, r)
    BY <1>2 DEF SceneMissing, CapacityUnknown, LayerMissing, SubmitRefused, Running
  <2>2. Controlled(w)'
    BY <2>1, <1>c, EndControl
  <2> QED BY <1>b, <2>2 DEF ControlInv
<1>3. CASE PublishRecordFails(w) \/ CleanUpFails(w) \/ IoError(w)
  <2>1. Running(w) /\ job' = job /\ End(w, "failed")
    BY <1>3 DEF PublishRecordFails, CleanUpFails, IoError, Running
  <2>2. Controlled(w)'
    BY <2>1, <1>c, EndControl
  <2> QED BY <1>b, <2>2 DEF ControlInv
<1>4. CASE EnsureCapacity(w) \/ EnsureCurrentManifest(w)
  <2>1. job' = job /\ pc[w] \in {"capacity", "check"}
    BY <1>4 DEF EnsureCapacity, EnsureCurrentManifest
  <2>2. \/ result' = result /\ Goto(w, "check")
        \/ result' = result /\ Goto(w, "parent")
        \/ End(w, "busy")
        \/ End(w, "failed")
    BY <1>4 DEF EnsureCapacity, EnsureCurrentManifest
  <2>3. Controlled(w)'
    BY <2>1, <2>2, <1>c, EndControl, GotoControl DEF Running, Reading
  <2> QED BY <1>b, <2>3 DEF ControlInv
<1>5. CASE PublishParent(w)
  <2>1. job'[w] = [job[w] EXCEPT !.backup = [manifest |-> manifest, members |-> members]]
    BY <1>5, <1>j DEF PublishParent, BackUp
  <2>2. job'[w].kind = job[w].kind /\ job'[w].item = job[w].item /\ job'[w].sent = job[w].sent
    BY <2>1, <1>j DEF Jobs
  <2>3. Controlled(w)'
    BY <1>5, <1>c, <2>2, GotoControl DEF PublishParent, Reading, Publishing
  <2> QED BY <1>b, <2>3 DEF ControlInv
<1>6. CASE PublishLayer(w) \/ WriteManifest(w)
  <2>1. Controlled(w)'
    BY <1>6, <1>c, GotoControl DEF PublishLayer, WriteManifest, Publishing
  <2> QED BY <1>b, <2>1 DEF ControlInv
<1>7. CASE ListOutbox(w)
  <2>1. job'[w] = [job[w] EXCEPT !.listed = outbox]
    BY <1>7, <1>j DEF ListOutbox
  <2>2. job'[w].kind = job[w].kind /\ job'[w].item = job[w].item /\ job'[w].sent = job[w].sent
    BY <2>1, <1>j DEF Jobs
  <2>3. Controlled(w)'
    BY <1>7, <1>c, <2>2, GotoControl DEF ListOutbox
  <2> QED BY <1>b, <2>3 DEF ControlInv
<1>8. CASE Submit(w)
  <2>1. job' = job /\ pc'[w] = "sending" /\ result' = result /\ pc[w] = "submit"
    BY <1>8 DEF Submit, Typed, Goto
  <2>2. job[w].sent = 0 /\ Kind(w) \in AllKinds /\ Item(w) \in Items /\ result[w] = "none"
    BY <2>1, <1>c DEF Controlled
  <2>3. Batch(w)' = Batch(w) /\ Kind(w)' = Kind(w) /\ Item(w)' = Item(w)
    BY <2>1, SameBatch DEF Kind, Item
  <2>4. 0 < Len(Batch(w))
    <3>1. Len(Batch(w)) \in {1, 2}
      BY <2>1, <1>d
    <3> QED BY <3>1
  <2>5. Controlled(w)'
    BY <2>1, <2>2, <2>3, <2>4 DEF Controlled, Reading, Publishing
  <2> QED BY <1>b, <2>5 DEF ControlInv
<1>9. CASE PublishRecord(w)
  <2>1. job' = [job EXCEPT ![w].sent = job[w].sent + 1] /\ pc[w] = "sending"
        /\ result' = result
    BY <1>9 DEF PublishRecord
  <2>2. job'[w].kind = job[w].kind /\ job'[w].item = job[w].item
        /\ job'[w].read = job[w].read /\ job'[w].sent = job[w].sent + 1
    BY <2>1, <1>j DEF Jobs
  <2>3. Batch(w)' = Batch(w) /\ Kind(w)' = Kind(w) /\ Item(w)' = Item(w)
    BY <2>2, SameBatch DEF Kind, Item
  <2>4. job[w].sent \in Nat /\ job[w].sent < Len(Batch(w)) /\ result[w] = "none"
        /\ Kind(w) \in AllKinds /\ Item(w) \in Items
    BY <2>1, <1>c, <1>j DEF Controlled, Jobs
  <2>5. pc'[w] = IF job[w].sent + 1 = Len(Batch(w)) THEN "cleanup" ELSE "sending"
    BY <1>9 DEF PublishRecord, Goto, Typed
  <2>6. Controlled(w)'
    <3>1. CASE job[w].sent + 1 = Len(Batch(w))
      BY <3>1, <2>1, <2>2, <2>3, <2>4, <2>5
      DEF Controlled, HandedOver, Reading, Publishing
    <3>2. CASE job[w].sent + 1 # Len(Batch(w))
      BY <3>2, <2>1, <2>2, <2>3, <2>4, <2>5, <1>d
      DEF Controlled, HandedOver, Reading, Publishing
    <3> QED BY <3>1, <3>2
  <2> QED BY <1>b, <2>6 DEF ControlInv
<1>10. CASE CleanUp(w)
  <2>1. job' = job /\ pc'[w] = "done" /\ result'[w] = "ok" /\ pc[w] = "cleanup"
    BY <1>10 DEF CleanUp, End, Goto, Typed
  <2>2. Batch(w)' = Batch(w) /\ Kind(w)' = Kind(w) /\ Item(w)' = Item(w)
    BY <2>1, SameBatch DEF Kind, Item
  <2>3. HandedOver(w) /\ Kind(w) \in AllKinds /\ Item(w) \in Items
    BY <2>1, <1>c DEF Controlled
  <2>4. HandedOver(w)'
    BY <2>1, <2>2, <2>3 DEF HandedOver
  <2>5. Controlled(w)'
    BY <2>1, <2>2, <2>3, <2>4 DEF Controlled, Reading, Publishing
  <2> QED BY <1>b, <2>5 DEF ControlInv
<1> QED
  BY <1>1, <1>2, <1>3, <1>4, <1>5, <1>6, <1>7, <1>8, <1>9, <1>10 DEF WriteStep, WriteFails

LEMMA SameControl ==
  ASSUME ControlInv, UNCHANGED <<pc, job, result>>
  PROVE  ControlInv'
BY Undisturbed DEF ControlInv

LEMMA TypedNext ==
  ASSUME Typed, ControlInv, [Next]_vars
  PROVE  Typed' /\ ControlInv'
<1>1. CASE \E w \in Writers, k \in AllKinds, i \in Items : Start(w, k, i)
  BY <1>1, StartTyped, StartControl
<1>2. CASE \E w \in Writers : WriteStep(w) \/ WriteFails(w)
  BY <1>2, HostTyped, HostControl
<1>3. CASE ServerStep
  BY <1>3, ServerTyped, ServerKeeps, SameControl
<1>4. CASE UNCHANGED vars
  BY <1>4, SameControl DEF vars, canonical, Typed
<1> QED BY <1>1, <1>2, <1>3, <1>4 DEF Next

-----------------------------------------------------------------------------
(* Writes that run alone                                                   *)

\* The definitions of the manifest each kind of write makes.
LEMMA RewrittenItems ==
  ASSUME NEW w, Kind(w) \in AllKinds, job[w].base \in Manifests
  PROVE  /\ Kind(w) \in Creating => Rewritten(w).items = job[w].base.items \cup {Item(w)}
         /\ Kind(w) = "rename" => Rewritten(w).items = job[w].base.items
         /\ Kind(w) = "delete" => Rewritten(w).items = job[w].base.items \ {Item(w)}
BY DEF Rewritten, Creating, AllKinds, Manifests

LEMMA SameRewriting ==
  ASSUME NEW w, job'[w].kind = job[w].kind, job'[w].item = job[w].item,
         job'[w].base = job[w].base
  PROVE  Rewritten(w)' = Rewritten(w)
BY DEF Rewritten, Kind, Item

\* The parts of a write that its later steps do not change.
SameWork(w) ==
  /\ job'[w].kind = job[w].kind /\ job'[w].item = job[w].item /\ job'[w].base = job[w].base
  /\ job'[w].read = job[w].read /\ job'[w].backup = job[w].backup
  /\ \A u \in Writers \ {w} : job'[u].item = job[u].item

\* The canonical files at a step of w, without the steps before it.
AtStep(w, step) ==
  LET b == job[w].base
      after == Rewritten(w).items
  IN  /\ members = IF step \in Reading THEN b.items ELSE after
      /\ layers = IF step \in Reading \cup {"layer"} THEN b.items ELSE after
      /\ manifest = IF step \in Handing THEN Rewritten(w) ELSE b

LEMMA SerialGoto ==
  ASSUME Typed, NEW w \in Writers, NEW to, Goto(w, to), Running(w), Serial(w), SameWork(w),
         pc[w] # "read", to # "read", to \in Reading => pc[w] \in Reading,
         pc[w] \in Reading => to \in Reading,
         AtStep(w, to)'
  PROVE  Serial(w)'
<1>1. pc'[w] = to
  BY DEF Typed, Goto
<1>2. Kind(w)' = Kind(w) /\ \A u \in Writers : Item(u)' = Item(u)
  BY DEF SameWork, Kind, Item
<1>3. job'[w].base = job[w].base /\ job'[w].read = job[w].read
      /\ job'[w].backup = job[w].backup
  BY DEF SameWork
<1>4. /\ IF Kind(w) \in Creating THEN Item(w) \notin job[w].base.items
                                 ELSE Item(w) \in job[w].base.items
      /\ Kind(w) \in Creating => \A u \in Writers \ {w} : Item(u) # Item(w)
      /\ job[w].read = job[w].base.items
      /\ pc[w] \notin Reading =>
           job[w].backup = [manifest |-> job[w].base, members |-> job[w].base.items]
  BY DEF Serial
<1> QED BY <1>1, <1>2, <1>3, <1>4 DEF Serial, AtStep

\* Undoing a write that runs alone leaves the Project whole: as it was, or, for a creation
\* whose manifest is written, as it was to be.
LEMMA RollBackWhole ==
  ASSUME Typed, ControlInv, NEW w \in Writers, Running(w), Serial(w), RollBack(w),
         pc[w] \notin {"read", "capacity", "check"}
  PROVE  /\ manifest'.items = layers' /\ layers' = members'
         /\ manifest' \in {job[w].base, Rewritten(w)}
<1>1. job[w].base \in Manifests /\ Kind(w) \in AllKinds
  BY DEF Typed, Jobs, ControlInv, Controlled, Running
<1>2. pc[w] \in {"parent", "layer", "manifest"} \cup Handing
  BY DEF Typed, Running, Steps, Reading, Publishing
<1>3. /\ IF Kind(w) \in Creating THEN Item(w) \notin job[w].base.items
                                 ELSE Item(w) \in job[w].base.items
      /\ job[w].read = job[w].base.items
      /\ pc[w] # "parent" =>
           /\ job[w].backup.manifest = job[w].base
           /\ job[w].backup.members = job[w].base.items
      /\ pc[w] \in Handing => manifest = Rewritten(w)
      /\ pc[w] \notin Handing => manifest = job[w].base
      /\ pc[w] = "parent" => members = job[w].base.items
      /\ pc[w] # "parent" => members = Rewritten(w).items
      /\ pc[w] \in {"parent", "layer"} => layers = job[w].base.items
      /\ pc[w] \notin {"parent", "layer"} => layers = Rewritten(w).items
  BY <1>2 DEF Serial, Reading, Handing
<1>4. /\ Kind(w) \in Creating => Rewritten(w).items = job[w].base.items \cup {Item(w)}
      /\ Kind(w) = "rename" => Rewritten(w).items = job[w].base.items
      /\ Kind(w) = "delete" => Rewritten(w).items = job[w].base.items \ {Item(w)}
  BY <1>1, RewrittenItems
<1>5. CASE Kind(w) \in Creating
  <2>1. manifest' = manifest
    BY <1>5 DEF RollBack
  <2>2. CASE pc[w] \in Handing
    BY <1>3, <1>5, <2>1, <2>2 DEF RollBack, Handing
  <2>3. CASE pc[w] \in {"layer", "manifest"}
    <3>1. members' = job[w].base.items /\ manifest' = job[w].base
      BY <1>3, <1>5, <2>1, <2>3 DEF RollBack, Handing
    <3>2. layers' = job[w].base.items
      BY <1>3, <1>4, <1>5, <2>3 DEF RollBack
    <3> QED BY <3>1, <3>2
  <2>4. CASE pc[w] = "parent"
    BY <1>3, <1>5, <2>1, <2>4 DEF RollBack, Handing
  <2> QED BY <1>2, <2>2, <2>3, <2>4
<1>6. CASE Kind(w) = "rename"
  <2>1. manifest' = IF pc[w] # "parent" THEN job[w].backup.manifest ELSE manifest
    BY <1>6 DEF RollBack, Creating
  <2>2. members' = IF pc[w] # "parent" /\ Item(w) \in job[w].read
                   THEN job[w].backup.members ELSE members
    BY <1>6 DEF RollBack, Creating
  <2>3. layers' = IF pc[w] # "parent" THEN layers \cup {Item(w)} ELSE layers
    BY <1>6 DEF RollBack, Creating
  <2>4. manifest' = job[w].base
    BY <1>3, <2>1 DEF Handing
  <2>5. members' = job[w].base.items
    BY <1>3, <1>6, <2>2 DEF Creating
  <2>6. layers' = job[w].base.items
    BY <1>3, <1>4, <1>6, <2>3 DEF Creating
  <2> QED BY <2>4, <2>5, <2>6
<1>7. CASE Kind(w) = "delete"
  <2>1. manifest' = job[w].base
    BY <1>7 DEF RollBack, Creating
  <2>2. members' = IF pc[w] # "parent" /\ Item(w) \in job[w].read
                   THEN job[w].backup.members ELSE members
    BY <1>7 DEF RollBack, Creating
  <2>3. layers' = IF pc[w] \notin {"parent", "layer"} THEN layers \cup {Item(w)} ELSE layers
    BY <1>7 DEF RollBack, Creating
  <2>4. members' = job[w].base.items
    BY <1>3, <1>7, <2>2 DEF Creating
  <2>5. layers' = job[w].base.items
    BY <1>3, <1>4, <1>7, <2>3 DEF Creating
  <2> QED BY <2>1, <2>4, <2>5
<1> QED BY <1>1, <1>5, <1>6, <1>7 DEF AllKinds

\* Each step of a write that runs alone, and the end it may come to.
LEMMA SerialHost ==
  ASSUME Typed, ControlInv, NEW w \in Writers, WriteStep(w) \/ WriteFails(w), Serial(w)
  PROVE  /\ Running(w)
         /\ Running(w)' => Serial(w)'
         /\ ~Running(w)' =>
              /\ manifest'.items = layers' /\ layers' = members'
              /\ manifest' \in {job[w].base, Rewritten(w)}
<1>r. Running(w)
  BY DEF WriteStep, WriteFails, ReadComposition, SceneMissing, EnsureCapacity,
         EnsureCurrentManifest, PublishParent, PublishLayer, LayerMissing, WriteManifest,
         ListOutbox, Submit, SubmitRefused, PublishRecord, CleanUp, CapacityUnknown,
         PublishRecordFails, CleanUpFails, IoError, Running
<1>j. job[w] \in Jobs /\ job \in [Writers -> Jobs] /\ pc \in [Writers -> Steps]
  BY DEF Typed
<1>k. job[w].base \in Manifests /\ Kind(w) \in AllKinds
  BY <1>j, <1>r DEF Jobs, ControlInv, Controlled, Running
<1>i. /\ Kind(w) \in Creating => Rewritten(w).items = job[w].base.items \cup {Item(w)}
      /\ Kind(w) = "rename" => Rewritten(w).items = job[w].base.items
      /\ Kind(w) = "delete" => Rewritten(w).items = job[w].base.items \ {Item(w)}
  BY <1>k, RewrittenItems
<1>e. ASSUME \E r \in {"ok", "busy", "failed"} : End(w, r)
      PROVE  ~Running(w)'
  BY <1>e, <1>j DEF End, Goto, Running
<1>1. CASE ReadComposition(w)
  <2>1. pc'[w] = "capacity" /\ pc[w] = "read"
    BY <1>1, <1>j DEF ReadComposition, Goto
  <2>2. job' = [job EXCEPT ![w].read = members] /\ UNCHANGED canonical
    BY <1>1 DEF ReadComposition
  <2>3. /\ job'[w].kind = job[w].kind /\ job'[w].item = job[w].item
        /\ job'[w].base = job[w].base /\ job'[w].read = members
    BY <2>2, <1>j DEF Jobs
  <2>4. Kind(w)' = Kind(w) /\ \A u \in Writers : Item(u)' = Item(u)
    BY <2>2, <2>3, <1>j DEF Kind, Item
  <2>5. Rewritten(w)' = Rewritten(w)
    BY <2>3, SameRewriting
  <2>6. Serial(w)'
    BY <2>1, <2>2, <2>3, <2>4, <2>5 DEF Serial, canonical, Reading, Handing
  <2>7. Running(w)'
    BY <2>1 DEF Running
  <2> QED BY <1>r, <2>6, <2>7
<1>2. CASE SceneMissing(w) \/ CapacityUnknown(w)
           \/ (IoError(w) /\ pc[w] \in {"read", "capacity", "check"})
           \/ (EnsureCapacity(w) /\ End(w, "busy"))
           \/ (EnsureCurrentManifest(w) /\ End(w, "failed"))
  <2>1. UNCHANGED canonical /\ pc[w] \in {"read", "capacity", "check"}
        /\ \E r \in {"ok", "busy", "failed"} : End(w, r)
    BY <1>2 DEF SceneMissing, CapacityUnknown, IoError, EnsureCapacity, EnsureCurrentManifest
  <2>2. manifest = job[w].base /\ layers = job[w].base.items /\ members = job[w].base.items
    BY <2>1 DEF Serial, Reading, Handing
  <2> QED BY <2>1, <2>2, <1>e, <1>r DEF canonical
<1>3. CASE CleanUp(w) \/ CleanUpFails(w)
  <2>1. UNCHANGED canonical /\ pc[w] = "cleanup" /\ \E r \in {"ok", "busy", "failed"} : End(w, r)
    BY <1>3 DEF CleanUp, CleanUpFails
  <2>2. manifest = Rewritten(w) /\ layers = Rewritten(w).items /\ members = Rewritten(w).items
    BY <2>1 DEF Serial, Reading, Handing
  <2> QED BY <2>1, <2>2, <1>e, <1>r DEF canonical
<1>4. CASE LayerMissing(w) \/ SubmitRefused(w) \/ PublishRecordFails(w)
           \/ (IoError(w) /\ pc[w] \notin {"read", "capacity", "check"})
  <2>1. RollBack(w) /\ pc[w] \notin {"read", "capacity", "check"}
        /\ \E r \in {"ok", "busy", "failed"} : End(w, r)
    BY <1>4 DEF LayerMissing, SubmitRefused, PublishRecordFails, IoError
  <2> QED BY <2>1, <1>e, <1>r, RollBackWhole
<1>5. CASE (EnsureCapacity(w) /\ Goto(w, "check")) \/ (EnsureCurrentManifest(w) /\ Goto(w, "parent"))
  <2>1. job' = job /\ UNCHANGED canonical /\ pc[w] \in {"capacity", "check"}
    BY <1>5 DEF EnsureCapacity, EnsureCurrentManifest
  <2>2. \E to \in {"check", "parent"} : Goto(w, to)
    BY <1>5
  <2>3. SameWork(w) /\ Rewritten(w)' = Rewritten(w)
    BY <2>1, SameRewriting DEF SameWork
  <2>4. manifest = job[w].base /\ layers = job[w].base.items /\ members = job[w].base.items
    BY <2>1 DEF Serial, Reading, Handing
  <2>5. \A to \in {"check", "parent"} : AtStep(w, to)'
    BY <2>1, <2>3, <2>4 DEF AtStep, Reading, Handing, canonical
  <2>6. Serial(w)'
    BY <2>1, <2>2, <2>3, <2>5, <1>r, SerialGoto DEF Reading
  <2>7. Running(w)'
    BY <2>2, <1>j DEF Goto, Running
  <2> QED BY <2>6, <2>7, <1>r
<1>6. CASE PublishParent(w)
  <2>1. pc[w] = "parent" /\ pc'[w] = "layer" /\ UNCHANGED <<manifest, layers>>
    BY <1>6, <1>j DEF PublishParent, Goto
  <2>2. job' = [job EXCEPT ![w].backup = [manifest |-> manifest, members |-> members]]
    BY <1>6 DEF PublishParent, BackUp
  <2>3. /\ job'[w].kind = job[w].kind /\ job'[w].item = job[w].item
        /\ job'[w].base = job[w].base /\ job'[w].read = job[w].read
        /\ job'[w].backup = [manifest |-> manifest, members |-> members]
    BY <2>2, <1>j DEF Jobs
  <2>4. Kind(w)' = Kind(w) /\ \A u \in Writers : Item(u)' = Item(u)
    BY <2>2, <2>3, <1>j DEF Kind, Item
  <2>5. Rewritten(w)' = Rewritten(w)
    BY <2>3, SameRewriting
  <2>6. manifest = job[w].base /\ layers = job[w].base.items /\ members = job[w].base.items
        /\ job[w].read = job[w].base.items
        /\ IF Kind(w) \in Creating THEN Item(w) \notin job[w].base.items
                                   ELSE Item(w) \in job[w].base.items
    BY <2>1 DEF Serial, Reading, Handing
  <2>7. members' = Rewritten(w).items
    <3>1. Kind(w) \in Creating => members' = members \cup job[w].read \cup {Item(w)}
      BY <1>6 DEF PublishParent, Creating
    <3>2. Kind(w) = "rename" => members' = members
      BY <1>6 DEF PublishParent, Creating
    <3>3. Kind(w) = "delete" => members' = IF Item(w) \in job[w].read
                                           THEN job[w].read \ {Item(w)} ELSE members
      BY <1>6 DEF PublishParent, Creating
    <3>4. Kind(w) \in Creating \/ Kind(w) = "rename" \/ Kind(w) = "delete"
      BY <1>k DEF AllKinds
    <3>5. Kind(w) = "delete" => Item(w) \in job[w].read
      BY <2>6 DEF Creating
    <3> QED BY <3>1, <3>2, <3>3, <3>4, <3>5, <2>6, <1>i
  <2>8. Serial(w)'
    BY <2>1, <2>3, <2>4, <2>5, <2>6, <2>7 DEF Serial, Reading, Handing
  <2>9. Running(w)'
    BY <2>1 DEF Running
  <2> QED BY <1>r, <2>8, <2>9
<1>7. CASE PublishLayer(w)
  <2>1. job' = job /\ UNCHANGED <<manifest, members>> /\ pc[w] = "layer" /\ Goto(w, "manifest")
    BY <1>7 DEF PublishLayer
  <2>2. SameWork(w) /\ Rewritten(w)' = Rewritten(w)
    BY <2>1, SameRewriting DEF SameWork
  <2>3. manifest = job[w].base /\ layers = job[w].base.items /\ members = Rewritten(w).items
    BY <2>1 DEF Serial, Reading, Handing
  <2>4. layers' = Rewritten(w).items
    <3>1. /\ Kind(w) \in Creating => layers' = layers \cup {Item(w)}
          /\ Kind(w) = "rename" => layers' = layers
          /\ Kind(w) = "delete" => layers' = layers \ {Item(w)}
      BY <1>7 DEF PublishLayer, Creating
    <3> QED BY <3>1, <2>3, <1>i, <1>k DEF AllKinds
  <2>5. AtStep(w, "manifest")'
    BY <2>1, <2>2, <2>3, <2>4 DEF AtStep, Reading, Handing
  <2>6. Serial(w)'
    BY <2>1, <2>2, <2>5, <1>r, SerialGoto DEF Reading
  <2>7. Running(w)'
    BY <2>1, <1>j DEF Goto, Running
  <2> QED BY <2>6, <2>7, <1>r
<1>8. CASE WriteManifest(w)
  <2>1. job' = job /\ UNCHANGED <<layers, members>> /\ pc[w] = "manifest" /\ Goto(w, "list")
    BY <1>8 DEF WriteManifest
  <2>2. SameWork(w) /\ Rewritten(w)' = Rewritten(w)
    BY <2>1, SameRewriting DEF SameWork
  <2>3. layers = Rewritten(w).items /\ members = Rewritten(w).items
    BY <2>1 DEF Serial, Reading, Handing
  <2>4. manifest' = Rewritten(w)
    BY <1>8, <1>k DEF WriteManifest, Rewritten
  <2>5. AtStep(w, "list")'
    BY <2>1, <2>2, <2>3, <2>4 DEF AtStep, Reading, Handing
  <2>6. Serial(w)'
    BY <2>1, <2>2, <2>5, <1>r, SerialGoto DEF Reading
  <2>7. Running(w)'
    BY <2>1, <1>j DEF Goto, Running
  <2> QED BY <2>6, <2>7, <1>r
<1>9. CASE ListOutbox(w) \/ Submit(w) \/ PublishRecord(w)
  <2>1. UNCHANGED canonical /\ pc[w] \in Handing
    BY <1>9 DEF ListOutbox, Submit, PublishRecord, Handing
  <2>2. pc'[w] \in {"submit", "sending", "cleanup"}
    BY <1>9, <1>j DEF ListOutbox, Submit, PublishRecord, Goto
  <2>3. SameWork(w)
    BY <1>9, <1>j DEF ListOutbox, Submit, PublishRecord, SameWork, Jobs
  <2>4. Rewritten(w)' = Rewritten(w)
    BY <2>3, SameRewriting DEF SameWork
  <2>5. Kind(w)' = Kind(w) /\ \A u \in Writers : Item(u)' = Item(u)
    BY <2>3 DEF SameWork, Kind, Item
  <2>6. manifest' = Rewritten(w)' /\ layers' = Rewritten(w).items /\ members' = Rewritten(w).items
    BY <2>1, <2>4 DEF Serial, Reading, Handing, canonical
  <2>7. /\ IF Kind(w) \in Creating THEN Item(w) \notin job[w].base.items
                                   ELSE Item(w) \in job[w].base.items
        /\ Kind(w) \in Creating => \A u \in Writers \ {w} : Item(u) # Item(w)
        /\ job[w].read = job[w].base.items
        /\ job[w].backup = [manifest |-> job[w].base, members |-> job[w].base.items]
    BY <2>1 DEF Serial, Reading, Handing
  <2>8. job'[w].base = job[w].base /\ job'[w].read = job[w].read
        /\ job'[w].backup = job[w].backup
    BY <2>3 DEF SameWork
  <2>9. Serial(w)'
    BY <2>2, <2>4, <2>5, <2>6, <2>7, <2>8 DEF Serial, Reading, Handing
  <2>10. Running(w)'
    BY <2>2 DEF Running
  <2> QED BY <2>9, <2>10, <1>r
<1>10. EnsureCapacity(w) => Goto(w, "check") \/ End(w, "busy")
  BY DEF EnsureCapacity
<1>11. EnsureCurrentManifest(w) => Goto(w, "parent") \/ End(w, "failed")
  BY DEF EnsureCurrentManifest
<1> QED
  BY <1>1, <1>2, <1>3, <1>4, <1>5, <1>6, <1>7, <1>8, <1>9, <1>10, <1>11
  DEF WriteStep, WriteFails

LEMMA SerialInit == Init => SerialInv
BY DEF Init, SerialInv, Running

\* A write that is started while none runs.
LEMMA SerialStart ==
  ASSUME Typed, ControlInv, NEW w \in Writers, NEW k \in AllKinds, NEW i \in Items,
         Start(w, k, i), ~overlapped', SerialInv
  PROVE  Quiet /\ ~overlapped /\ Serial(w)'
<1>1. pc[w] = "idle" /\ pc'[w] = "read" /\ UNCHANGED canonical
  BY DEF Start, Goto, Typed
<1>2. job' = [job EXCEPT ![w] = [NoJob EXCEPT !.kind = k, !.item = i, !.base = manifest]]
  BY DEF Start
<1>3. job'[w].kind = k /\ job'[w].item = i /\ job'[w].base = manifest
      /\ \A u \in Writers \ {w} : job'[u] = job[u]
  BY <1>2 DEF NoJob, Typed
<1>4. ~overlapped /\ Quiet
  BY DEF Start, Quiet, Typed
<1>5. manifest.items = layers /\ layers = members
  BY <1>4 DEF SerialInv
<1>6. IF k \in Creating THEN Fresh(i) ELSE i \in manifest.items
  BY DEF Start
<1>7. Fresh(i) => i \notin manifest.items /\ \A u \in Writers : Item(u) # i
  BY DEF Fresh, Unused
<1>8. Kind(w)' = k /\ Item(w)' = i /\ \A u \in Writers \ {w} : Item(u)' = Item(u)
  BY <1>3 DEF Kind, Item
<1>9. Serial(w)'
  BY <1>1, <1>3, <1>5, <1>6, <1>7, <1>8 DEF Serial, Reading, Handing, canonical
<1> QED BY <1>4, <1>9

LEMMA SerialNext ==
  ASSUME Typed, ControlInv, SerialInv, [Next]_vars
  PROVE  SerialInv'
<1> SUFFICES ASSUME ~overlapped'
             PROVE  /\ \A u, w \in Writers : Running(u)' /\ Running(w)' => u = w
                    /\ \A w \in Writers : Running(w)' => Serial(w)'
                    /\ Quiet' => manifest'.items = layers' /\ layers' = members'
  BY DEF SerialInv
<1>1. ASSUME NEW w \in Writers, NEW k \in AllKinds, NEW i \in Items, Start(w, k, i)
      PROVE  /\ \A u, v \in Writers : Running(u)' /\ Running(v)' => u = v
             /\ \A u \in Writers : Running(u)' => Serial(u)'
             /\ Quiet' => manifest'.items = layers' /\ layers' = members'
  <2>1. Quiet /\ Serial(w)'
    BY <1>1, SerialStart
  <2>2. \A u \in Writers \ {w} : ~Running(u)'
    BY <1>1, <2>1, StartControl DEF Quiet, OthersStay, Running
  <2>3. Running(w)'
    BY <1>1 DEF Start, Goto, Typed, Running
  <2> QED BY <2>1, <2>2, <2>3 DEF Quiet
<1>2. ASSUME NEW w \in Writers, WriteStep(w) \/ WriteFails(w)
      PROVE  /\ \A u, v \in Writers : Running(u)' /\ Running(v)' => u = v
             /\ \A u \in Writers : Running(u)' => Serial(u)'
             /\ Quiet' => manifest'.items = layers' /\ layers' = members'
  <2>1. ~overlapped
    BY <1>2 DEF WriteStep, WriteFails, ReadComposition, SceneMissing, EnsureCapacity,
         EnsureCurrentManifest, PublishParent, PublishLayer, LayerMissing, WriteManifest,
         ListOutbox, Submit, SubmitRefused, PublishRecord, CleanUp, CapacityUnknown,
         PublishRecordFails, CleanUpFails, IoError
  <2>2. Running(w)
    BY <1>2 DEF WriteStep, WriteFails, ReadComposition, SceneMissing, EnsureCapacity,
         EnsureCurrentManifest, PublishParent, PublishLayer, LayerMissing, WriteManifest,
         ListOutbox, Submit, SubmitRefused, PublishRecord, CleanUp, CapacityUnknown,
         PublishRecordFails, CleanUpFails, IoError, Running
  <2>3. Serial(w) /\ \A u \in Writers \ {w} : ~Running(u)
    BY <2>1, <2>2 DEF SerialInv
  <2>4. \A u \in Writers \ {w} : ~Running(u)'
    BY <1>2, <2>3, WriterAlone DEF OthersStay, Running
  <2>5. /\ Running(w)' => Serial(w)'
        /\ ~Running(w)' => manifest'.items = layers' /\ layers' = members'
    BY <1>2, <2>3, SerialHost
  <2> QED BY <2>4, <2>5 DEF Quiet
<1>3. CASE UNCHANGED <<canonical, pc, job, overlapped>>
  <2>1. \A u \in Writers : /\ Running(u)' = Running(u) /\ Rewritten(u)' = Rewritten(u)
                           /\ Kind(u)' = Kind(u) /\ Item(u)' = Item(u)
    BY <1>3, SameRewriting DEF Running, Kind, Item
  <2>2. \A u \in Writers : Serial(u) => Serial(u)'
    BY <1>3, <2>1 DEF Serial, canonical
  <2> QED BY <1>3, <2>1, <2>2 DEF SerialInv, Quiet, canonical
<1>4. ServerStep \/ UNCHANGED vars => UNCHANGED <<canonical, pc, job, overlapped>>
  BY ServerKeeps DEF vars
<1> QED BY <1>1, <1>2, <1>3, <1>4 DEF Next

-----------------------------------------------------------------------------
(* Writes under the publication lock                                       *)

LEMMA LockedInit == Init => LockedInv
BY DEF Init, LockedInv, Keeps, Running

\* A write's kind is never taken back.
LEMMA KindStays ==
  ASSUME Typed, ControlInv, [Next]_vars
  PROVE  \A u \in Writers : pc[u] # "idle" =>
           job'[u].kind = job[u].kind /\ job'[u].item = job[u].item /\ pc'[u] # "idle"
<1>1. ASSUME NEW w \in Writers, NEW k \in AllKinds, NEW i \in Items, Start(w, k, i)
      PROVE  \A u \in Writers : pc[u] # "idle" =>
           job'[u].kind = job[u].kind /\ job'[u].item = job[u].item /\ pc'[u] # "idle"
  <2>1. pc[w] = "idle"
    BY <1>1 DEF Start
  <2> QED BY <1>1, <2>1, StartControl DEF OthersStay
<1>2. ASSUME NEW w \in Writers, WriteStep(w) \/ WriteFails(w)
      PROVE  \A u \in Writers : pc[u] # "idle" =>
           job'[u].kind = job[u].kind /\ job'[u].item = job[u].item /\ pc'[u] # "idle"
  <2>1. job'[w].kind = job[w].kind /\ job'[w].item = job[w].item
    BY <1>2 DEF Typed, Jobs, WriteStep, WriteFails, ReadComposition, SceneMissing,
         EnsureCapacity, EnsureCurrentManifest, PublishParent, BackUp, PublishLayer,
         LayerMissing, WriteManifest, ListOutbox, Submit, SubmitRefused, PublishRecord,
         CleanUp, CapacityUnknown, PublishRecordFails, CleanUpFails, IoError
  <2>2. pc'[w] # "idle"
    <3>1. pc[w] # "idle"
      BY <1>2 DEF WriteStep, WriteFails, ReadComposition, SceneMissing,
         EnsureCapacity, EnsureCurrentManifest, PublishParent, PublishLayer,
         LayerMissing, WriteManifest, ListOutbox, Submit, SubmitRefused, PublishRecord,
         CleanUp, CapacityUnknown, PublishRecordFails, CleanUpFails, IoError, Running
    <3>2. pc' = pc \/ \E to \in {"capacity", "check", "parent", "layer", "manifest", "list",
                                 "submit", "sending", "cleanup", "done"} : Goto(w, to)
      BY <1>2 DEF WriteStep, WriteFails, ReadComposition, SceneMissing,
         EnsureCapacity, EnsureCurrentManifest, PublishParent, PublishLayer,
         LayerMissing, WriteManifest, ListOutbox, Submit, SubmitRefused, PublishRecord,
         CleanUp, CapacityUnknown, PublishRecordFails, CleanUpFails, IoError, End
    <3> QED BY <3>1, <3>2 DEF Goto, Typed
  <2> QED BY <1>2, <2>1, <2>2, WriterAlone DEF OthersStay
<1>3. ServerStep \/ UNCHANGED vars => UNCHANGED <<pc, job>>
  BY ServerKeeps DEF vars
<1> QED BY <1>1, <1>2, <1>3 DEF Next

LEMMA LockedBefore ==
  ASSUME Typed, ControlInv, [Next]_vars, OnlyLocked'
  PROVE  OnlyLocked
<1>1. \A u \in Writers : pc[u] = "idle" => Kind(u) = "none"
  BY DEF ControlInv, Controlled, Kind, NoJob
<1>2. \A u \in Writers : pc[u] # "idle" => Kind(u)' = Kind(u)
  BY KindStays DEF Kind
<1> QED BY <1>1, <1>2 DEF OnlyLocked

\* Under the lock, what a write makes of the manifest it has read keeps what that one has.
LEMMA RewritingKeeps ==
  ASSUME Typed, NEW w \in Writers, Kind(w) \in Locking, Keeps(job[w].base)
  PROVE  /\ Keeps(Rewritten(w))
         /\ Kind(w) = "import" => Item(w) \in Rewritten(w).items
         /\ Kind(w) = "rename" => Item(w) \in Rewritten(w).renamed
<1>1. job[w].base \in Manifests
  BY DEF Typed, Jobs
<1>2. /\ job[w].base.items \subseteq Rewritten(w).items
      /\ job[w].base.renamed \subseteq Rewritten(w).renamed
      /\ Kind(w) = "import" => Item(w) \in Rewritten(w).items
      /\ Kind(w) = "rename" => Item(w) \in Rewritten(w).renamed
  BY <1>1 DEF Rewritten, Locking, Creating, Manifests
<1> QED BY <1>2 DEF Keeps

LEMMA LockedStart ==
  ASSUME Typed, ControlInv, LockedInv, OnlyLocked, OnlyLocked',
         NEW w \in Writers, NEW k \in AllKinds, NEW i \in Items, Start(w, k, i)
  PROVE  /\ ~overlapped'
         /\ Keeps(manifest)'
         /\ \A u \in Writers : Running(u)' => Keeps(job[u].base)'
<1>1. /\ pc' = [pc EXCEPT ![w] = "read"] /\ pc[w] = "idle"
      /\ job' = [job EXCEPT ![w] = [NoJob EXCEPT !.kind = k, !.item = i, !.base = manifest]]
      /\ manifest' = manifest /\ result' = result
  BY DEF Start, Goto, canonical
<1>2. job'[w].kind = k /\ job'[w].base = manifest
      /\ \A u \in Writers \ {w} : job'[u] = job[u] /\ pc'[u] = pc[u]
  BY <1>1 DEF NoJob, Typed
<1>3. k \in Locking
  <2>1. k \in Locking \cup {"none"}
    BY <1>2 DEF OnlyLocked, Kind
  <2> QED BY <2>1 DEF AllKinds, Creating
<1>4. \A u \in Writers : ~Running(u)
  <2>1. \A u \in Writers : Running(u) => Kind(u) \in Locking
    BY DEF OnlyLocked, Running, ControlInv, Controlled, AllKinds, Creating
  <2> QED BY <2>1, <1>3 DEF Start, PublisherLocked
<1>5. ~overlapped'
  BY <1>4 DEF Start, LockedInv, Typed
<1>6. \A m : Keeps(m) => Keeps(m)'
  <2>1. \A u \in Writers : result'[u] = "ok" => u # w
    BY <1>1 DEF ControlInv, Controlled
  <2> QED BY <1>1, <1>2, <2>1 DEF Keeps, Kind, Item
<1>7. Keeps(manifest)'
  BY <1>1, <1>6 DEF LockedInv, Keeps
<1>8. \A u \in Writers : Running(u)' => u = w
  BY <1>2, <1>4 DEF Running
<1> QED BY <1>1, <1>2, <1>5, <1>7, <1>8 DEF Keeps

\* What a step of a write leaves of its own job, and where alone it reports success.
LEMMA HostSteps ==
  ASSUME Typed, NEW w \in Writers, WriteStep(w) \/ WriteFails(w)
  PROVE  /\ Running(w) /\ overlapped' = overlapped
         /\ job'[w].kind = job[w].kind /\ job'[w].item = job[w].item
         /\ job'[w].base = job[w].base
         /\ result'[w] = "ok" => result[w] = "ok" \/ CleanUp(w)
<1>1. Running(w) /\ overlapped' = overlapped
  BY DEF WriteStep, WriteFails, ReadComposition, SceneMissing, EnsureCapacity,
         EnsureCurrentManifest, PublishParent, PublishLayer, LayerMissing, WriteManifest,
         ListOutbox, Submit, SubmitRefused, PublishRecord, CleanUp, CapacityUnknown,
         PublishRecordFails, CleanUpFails, IoError, Running
<1>2. job'[w].kind = job[w].kind /\ job'[w].item = job[w].item /\ job'[w].base = job[w].base
  BY DEF Typed, Jobs, WriteStep, WriteFails, ReadComposition, SceneMissing,
         EnsureCapacity, EnsureCurrentManifest, PublishParent, BackUp, PublishLayer,
         LayerMissing, WriteManifest, ListOutbox, Submit, SubmitRefused, PublishRecord,
         CleanUp, CapacityUnknown, PublishRecordFails, CleanUpFails, IoError
<1>3. result' = result \/ CleanUp(w) \/ \E r \in {"busy", "failed"} : End(w, r)
  BY DEF WriteStep, WriteFails, ReadComposition, SceneMissing, EnsureCapacity,
         EnsureCurrentManifest, PublishParent, PublishLayer, LayerMissing, WriteManifest,
         ListOutbox, Submit, SubmitRefused, PublishRecord, CapacityUnknown,
         PublishRecordFails, CleanUpFails, IoError
<1>4. result'[w] = "ok" => result[w] = "ok" \/ CleanUp(w)
  BY <1>3 DEF End, Typed
<1> QED BY <1>1, <1>2, <1>4

LEMMA LockedHost ==
  ASSUME Typed, ControlInv, SerialInv, LockedInv, OnlyLocked, OnlyLocked',
         NEW w \in Writers, WriteStep(w) \/ WriteFails(w)
  PROVE  /\ ~overlapped'
         /\ Keeps(manifest)'
         /\ \A u \in Writers : Running(u)' => Keeps(job[u].base)'
<1>1. /\ Running(w) /\ overlapped' = overlapped
      /\ job'[w].kind = job[w].kind /\ job'[w].item = job[w].item
      /\ job'[w].base = job[w].base
      /\ result'[w] = "ok" => result[w] = "ok" \/ CleanUp(w)
  BY HostSteps
<1>2. ~overlapped /\ Serial(w) /\ Keeps(job[w].base)
  BY <1>1 DEF LockedInv, SerialInv
<1>3. Kind(w) \in Locking /\ result[w] = "none"
  BY <1>1 DEF OnlyLocked, Running, ControlInv, Controlled, AllKinds, Creating
<1>4. manifest' \in {job[w].base, Rewritten(w)}
  <2>1. CASE Running(w)'
    <3>1. Rewritten(w)' = Rewritten(w)
      BY <1>1, SameRewriting
    <3>2. Serial(w)'
      BY <2>1, <1>2, SerialHost
    <3>3. manifest' \in {job'[w].base, Rewritten(w)'}
      BY <3>2 DEF Serial
    <3> QED BY <3>1, <3>3, <1>1
  <2>2. CASE ~Running(w)'
    BY <2>2, <1>2, SerialHost
  <2> QED BY <2>1, <2>2
<1>5. /\ Keeps(Rewritten(w))
      /\ Kind(w) = "import" => Item(w) \in Rewritten(w).items
      /\ Kind(w) = "rename" => Item(w) \in Rewritten(w).renamed
  BY <1>2, <1>3, RewritingKeeps
<1>6. Keeps(manifest')
  BY <1>2, <1>4, <1>5
<1>7. CleanUp(w) => manifest' = Rewritten(w)
  BY <1>2 DEF CleanUp, canonical, Serial, Handing
<1>8. OthersStay(w)
  BY WriterAlone
<1>9. \A u \in Writers : Kind(u)' = Kind(u) /\ Item(u)' = Item(u)
  BY <1>1, <1>8 DEF OthersStay, Kind, Item
<1>10. Keeps(manifest)'
  BY <1>1, <1>3, <1>5, <1>6, <1>7, <1>8, <1>9 DEF Keeps, OthersStay
<1>11. ASSUME Running(w)'
       PROVE  Keeps(job[w].base)'
  <2>1. result'[w] # "ok"
    <3>1. ~CleanUp(w)
      BY <1>11 DEF CleanUp, End, Goto, Running, Typed
    <3> QED BY <3>1, <1>1, <1>3
  <2> QED BY <2>1, <1>1, <1>2, <1>8, <1>9 DEF Keeps, OthersStay
<1>12. \A u \in Writers : Running(u)' => u = w
  BY <1>1, <1>2, <1>8 DEF SerialInv, OthersStay, Running
<1> QED BY <1>1, <1>2, <1>10, <1>11, <1>12

LEMMA LockedNext ==
  ASSUME Typed, ControlInv, SerialInv, LockedInv, [Next]_vars
  PROVE  LockedInv'
<1> SUFFICES ASSUME OnlyLocked'
             PROVE  /\ ~overlapped'
                    /\ Keeps(manifest)'
                    /\ \A u \in Writers : Running(u)' => Keeps(job[u].base)'
  BY DEF LockedInv
<1>1. OnlyLocked
  BY LockedBefore
<1>2. CASE \E w \in Writers, k \in AllKinds, i \in Items : Start(w, k, i)
  BY <1>1, <1>2, LockedStart
<1>3. CASE \E w \in Writers : WriteStep(w) \/ WriteFails(w)
  BY <1>1, <1>3, LockedHost
<1>4. CASE ServerStep \/ UNCHANGED vars
  <2>1. UNCHANGED <<canonical, pc, job, result, overlapped>>
    BY <1>4, ServerKeeps DEF vars
  <2> QED BY <1>1, <2>1 DEF LockedInv, Keeps, Kind, Item, Running, canonical
<1> QED BY <1>2, <1>3, <1>4 DEF Next

-----------------------------------------------------------------------------
(* The stage and the outbox                                                *)

LEMMA HandoffInit == Init => HandoffInv
BY DEF Init, HandoffInv, Backed, Landed, Shown, HandedOver, Closed, NoJob, Kind

\* What a host is told of a write stays, so a write that was to end well has so far.
LEMMA HonestBefore ==
  ASSUME Typed, ControlInv, [Next]_vars, Honest'
  PROVE  Honest
<1> SUFFICES ASSUME NEW u \in Writers, result[u] \in {"busy", "failed"}
             PROVE  HandedOver(u)
  BY DEF Honest
<1>1. pc[u] = "done"
  BY DEF ControlInv, Controlled
<1>2. job'[u] = job[u] /\ result'[u] = result[u]
  <2>1. ASSUME NEW w \in Writers, NEW k \in AllKinds, NEW i \in Items, Start(w, k, i)
        PROVE  job'[u] = job[u] /\ result'[u] = result[u]
    BY <2>1, <1>1, StartControl DEF Start, OthersStay
  <2>2. ASSUME NEW w \in Writers, WriteStep(w) \/ WriteFails(w)
        PROVE  job'[u] = job[u] /\ result'[u] = result[u]
    BY <2>2, <1>1, HostSteps, WriterAlone DEF Running, OthersStay
  <2>3. ServerStep \/ UNCHANGED vars => UNCHANGED <<job, result>>
    BY ServerKeeps DEF vars
  <2> QED BY <2>1, <2>2, <2>3 DEF Next
<1>3. HandedOver(u)'
  BY <1>2 DEF Honest
<1>4. Batch(u)' = Batch(u)
  BY <1>2, SameBatch
<1> QED BY <1>2, <1>3, <1>4 DEF HandedOver

\* A write that ends before its last record has not ended well.
LEMMA FailureShows ==
  ASSUME Typed, ControlInv, NEW w \in Writers, Running(w), pc[w] # "cleanup",
         NEW r \in {"busy", "failed"}, End(w, r), job' = job
  PROVE  ~Honest'
<1>1. result'[w] = r
  BY DEF End, Typed
<1>2. Batch(w)' = Batch(w)
  BY SameBatch
<1>3. ~HandedOver(w)
  BY DEF ControlInv, Controlled, Running, HandedOver, Typed, Steps, Handing
<1>4. ~HandedOver(w)'
  BY <1>2, <1>3 DEF HandedOver
<1> QED BY <1>1, <1>4 DEF Honest

LEMMA HandoffFrame ==
  ASSUME HandoffInv, overlapped' = overlapped, Honest' => Honest,
         outbox' = outbox, members' = members, stage' = stage,
         \A u \in Writers :
           /\ Kind(u)' = Kind(u) /\ Item(u)' = Item(u)
           /\ HandedOver(u)' <=> HandedOver(u)
           /\ Unsent(u) => Unsent(u)',
         Typed
  PROVE  HandoffInv'
<1> SUFFICES ASSUME ~overlapped', Honest'
             PROVE  Backed' /\ Landed' /\ Shown'
  BY DEF HandoffInv
<1>1. Backed /\ Landed /\ Shown
  BY DEF HandoffInv
<1>2. \A r \in outbox : r.by \in Writers
  BY DEF Typed, Records
<1>3. Backed'
  BY <1>1, <1>2 DEF Backed
<1>4. \A i \in Items : Doomed(i)' = Doomed(i) /\ Created(i)' = Created(i)
  BY DEF Doomed, Created
<1>5. Landed'
  BY <1>1, <1>4 DEF Landed, Doomed
<1>6. \A i \in Items : (PlaceDue(i) => PlaceDue(i)') /\ (RemoveDue(i) => RemoveDue(i)')
  BY DEF PlaceDue, RemoveDue
<1>7. Shown'
  BY <1>1, <1>4, <1>6 DEF Shown
<1> QED BY <1>3, <1>5, <1>7

LEMMA HandoffStart ==
  ASSUME Typed, ControlInv, SerialInv, HandoffInv, Honest, ~overlapped',
         NEW w \in Writers, NEW k \in AllKinds, NEW i \in Items, Start(w, k, i)
  PROVE  Backed' /\ Landed' /\ Shown'
<1>1. Quiet /\ ~overlapped
  BY SerialStart
<1>2. Backed /\ Landed /\ Shown
  BY <1>1 DEF HandoffInv
<1>3. UNCHANGED <<outbox, stage, members>>
  BY DEF Start, canonical
<1>4. OthersStay(w)
  BY StartControl
<1>5. \A u \in Writers \ {w} : Kind(u)' = Kind(u) /\ Item(u)' = Item(u)
                               /\ HandedOver(u)' = HandedOver(u)
  BY <1>4, SameBatch DEF OthersStay, Kind, Item, HandedOver
<1>6. job[w] = NoJob
  BY DEF Start, ControlInv, Controlled
<1>7. Kind(w) = "none" /\ Item(w) = None /\ job'[w].sent = 0
  BY <1>6 DEF Start, Typed, Kind, Item, NoJob
<1>8. ~HandedOver(w) /\ ~HandedOver(w)'
  BY <1>6, <1>7 DEF HandedOver, NoJob
<1>9. \A r \in outbox : r.by \in Writers \ {w}
  BY <1>2, <1>7, WritesAssumption DEF Backed, Typed, Records
<1>10. Backed'
  BY <1>2, <1>3, <1>5, <1>9 DEF Backed
<1>11. \A j : (Doomed(j) => Doomed(j)') /\ (Created(j) => Created(j)')
  BY <1>5, <1>7, <1>8 DEF Doomed, Created, Creating
<1>12. Landed'
  BY <1>2, <1>3, <1>5, <1>8, <1>11 DEF Landed
<1>13. \A j \in Items : (PlaceDue(j) => PlaceDue(j)') /\ (RemoveDue(j) => RemoveDue(j)')
  BY <1>1, <1>3 DEF PlaceDue, RemoveDue, Quiet, Unsent
<1>14. Shown'
  BY <1>2, <1>3, <1>11, <1>13 DEF Shown
<1> QED BY <1>10, <1>12, <1>14

\* The Scene's layer is written.
LEMMA HandoffParent ==
  ASSUME Typed, ControlInv, Backed, Landed, Shown,
         NEW w \in Writers, PublishParent(w), Serial(w)
  PROVE  Backed' /\ Landed' /\ Shown'
<1>1. /\ pc[w] = "parent" /\ pc'[w] = "layer" /\ UNCHANGED <<outbox, stage>>
      /\ Kind(w) \in AllKinds /\ Item(w) \in Items
  BY DEF PublishParent, Goto, Typed, ControlInv, Controlled
<1>2. members = job[w].base.items /\ job[w].read = members
  BY <1>1 DEF Serial, Reading
<1>3. /\ Kind(w) \in Creating => members' = members \cup {Item(w)}
      /\ Kind(w) = "rename" => members' = members
      /\ Kind(w) = "delete" => members' = members \ {Item(w)}
  <2>1. Kind(w) \in Creating => members' = members \cup job[w].read \cup {Item(w)}
    BY DEF PublishParent, Creating
  <2>2. Kind(w) = "rename" => members' = members
    BY DEF PublishParent, Creating
  <2>3. Kind(w) = "delete" => members' = IF Item(w) \in job[w].read
                                         THEN job[w].read \ {Item(w)} ELSE members
    BY DEF PublishParent, Creating
  <2> QED BY <2>1, <2>2, <2>3, <1>2
<1>4. \A u \in Writers : Kind(u)' = Kind(u) /\ Item(u)' = Item(u)
        /\ HandedOver(u)' = HandedOver(u)
  <2>1. \A u \in Writers : job'[u].kind = job[u].kind /\ job'[u].item = job[u].item
          /\ job'[u].read = job[u].read /\ job'[u].sent = job[u].sent
    BY DEF PublishParent, BackUp, Typed, Jobs
  <2> QED BY <2>1, SameBatch DEF Kind, Item, HandedOver
<1>5. Unsent(w) /\ Unsent(w)' /\ \A u \in Writers : Unsent(u) => Unsent(u)'
  <2>1. job[w].sent = 0
    BY <1>1 DEF ControlInv, Controlled, Reading
  <2>2. \A u \in Writers : job'[u].sent = job[u].sent
    BY DEF PublishParent, BackUp, Typed, Jobs
  <2>3. \A u \in Writers \ {w} : pc'[u] = pc[u]
    BY DEF PublishParent, Goto, Typed
  <2> QED BY <1>1, <2>1, <2>2, <2>3 DEF Unsent, Running
<1>6. Kind(w) \in Creating => \A u \in Writers \ {w} : Item(u) # Item(w)
  BY DEF Serial
<1>7. \A r \in outbox : r.by \in Writers
  BY DEF Typed, Records
<1>8. Backed'
  <2> SUFFICES ASSUME NEW r \in outbox
               PROVE  /\ Item(r.by)' = r.item
                      /\ r.op = "place" => Kind(r.by)' \in Creating /\ HandedOver(r.by)'
                      /\ r.op = "remove" => Kind(r.by)' = "delete" /\ r.item \notin members'
    BY <1>1 DEF Backed
  <2>1. /\ Item(r.by)' = r.item
        /\ r.op = "place" => Kind(r.by)' \in Creating /\ HandedOver(r.by)'
        /\ r.op = "remove" => Kind(r.by) = "delete" /\ Kind(r.by)' = "delete"
                              /\ r.item \notin members
    BY <1>4, <1>7 DEF Backed
  <2>2. r.op = "remove" /\ Kind(w) \in Creating => r.item # Item(w)
    BY <2>1, <1>4, <1>6, <1>7 DEF Creating
  <2> QED BY <2>1, <2>2, <1>1, <1>3 DEF AllKinds
<1>9. \A i : Doomed(i)' = Doomed(i) /\ Created(i)' = Created(i)
  BY <1>4 DEF Doomed, Created
<1>10. Landed'
  <2> SUFFICES ASSUME NEW u \in Writers, Kind(u) \in Creating, HandedOver(u)
               PROVE  Item(u) \in members' \/ Doomed(Item(u))
    BY <1>4, <1>9 DEF Landed
  <2>1. Item(u) \in members \/ Doomed(Item(u))
    BY DEF Landed
  <2>2. Kind(w) = "delete" /\ Item(u) = Item(w) => Doomed(Item(u))
    BY DEF Doomed
  <2> QED BY <2>1, <2>2, <1>1, <1>3 DEF AllKinds
<1>11. \A i \in Items : (PlaceDue(i) => PlaceDue(i)') /\ (RemoveDue(i) => RemoveDue(i)')
  BY <1>1, <1>4, <1>5 DEF PlaceDue, RemoveDue
<1>12. \A i \in Items : Kind(w) \in Creating /\ i = Item(w) => PlaceDue(i)'
  BY <1>4, <1>5 DEF PlaceDue
<1>13. \A i \in Items : Kind(w) = "delete" /\ i = Item(w) => RemoveDue(i)'
  BY <1>4, <1>5 DEF RemoveDue
<1>14. Shown'
  <2> SUFFICES ASSUME stage.open, NEW i \in Items
               PROVE  /\ i \in members' \ stage.placed => PlaceDue(i)'
                      /\ i \in stage.placed \ members' => RemoveDue(i)' \/ (Created(i) /\ Doomed(i))
    BY <1>1, <1>9 DEF Shown
  <2>1. /\ i \in members \ stage.placed => PlaceDue(i)'
        /\ i \in stage.placed \ members => RemoveDue(i)' \/ (Created(i) /\ Doomed(i))
    BY <1>11 DEF Shown
  <2> QED BY <2>1, <1>1, <1>3, <1>12, <1>13 DEF AllKinds
<1> QED BY <1>8, <1>10, <1>14

\* A record is handed over.
LEMMA HandoffRecord ==
  ASSUME Typed, ControlInv, Backed, Landed, Shown,
         NEW w \in Writers, PublishRecord(w), Serial(w)
  PROVE  Backed' /\ Landed' /\ Shown'
<1> DEFINE n == job[w].sent + 1
           rec == Batch(w)[n]
<1>1. /\ pc[w] = "sending" /\ UNCHANGED <<members, stage>>
      /\ outbox' = outbox \cup {rec}
      /\ job' = [job EXCEPT ![w].sent = n]
  BY DEF PublishRecord, canonical
<1>2. Kind(w) \in AllKinds /\ job[w].sent \in Nat /\ job[w].sent < Len(Batch(w))
  BY <1>1 DEF ControlInv, Controlled, Typed, Jobs
<1>3. Len(Batch(w)) \in {1, 2}
  BY <1>2, BatchRecords
<1>4. n \in 1..Len(Batch(w)) /\ n # 0 /\ n \in Nat
  BY <1>2, <1>3
<1>5. /\ rec.by = w /\ rec.item = Item(w)
      /\ rec.op = "place" => Kind(w) \in Creating
      /\ rec.op = "remove" => Kind(w) = "delete"
  BY <1>2, <1>4, BatchRecords
<1>6. \A u \in Writers : /\ job'[u].kind = job[u].kind /\ job'[u].item = job[u].item
                         /\ job'[u].read = job[u].read
                         /\ u # w => job'[u].sent = job[u].sent
  BY <1>1 DEF Typed, Jobs
<1>7. job'[w].sent = n
  BY <1>1 DEF Typed, Jobs
<1>8. \A u \in Writers : Kind(u)' = Kind(u) /\ Item(u)' = Item(u) /\ Batch(u)' = Batch(u)
  BY <1>6, SameBatch DEF Kind, Item
<1>9. ~HandedOver(w) /\ \A u \in Writers \ {w} : HandedOver(u)' = HandedOver(u)
  BY <1>2, <1>6, <1>8 DEF HandedOver
<1>10. members = Rewritten(w).items /\ job[w].read = job[w].base.items
       /\ IF Kind(w) \in Creating THEN TRUE ELSE Item(w) \in job[w].base.items
  BY <1>1 DEF Serial, Reading
<1>11. job[w].base \in Manifests
  BY DEF Typed, Jobs
<1>12. /\ Kind(w) \in Creating => Item(w) \in members
       /\ Kind(w) = "delete" => Item(w) \notin members
  BY <1>2, <1>10, <1>11, RewrittenItems
<1>13. Kind(w) \in Creating => Batch(w) = <<Record(w, "place")>>
  BY BatchShape
<1>14. Kind(w) = "delete" => Batch(w) = <<Record(w, "remove"), Record(w, "delete")>>
  BY <1>10, BatchShape DEF Creating
<1>15. ASSUME Kind(w) \in Creating
       PROVE  HandedOver(w)'
  <2>1. Batch(w) = <<Record(w, "place")>>
    BY <1>13, <1>15
  <2>2. Len(Batch(w)) = 1
    BY <2>1
  <2>3. Batch(w)' = Batch(w)
    BY <1>8
  <2> HIDE DEF n
  <2>4. n = 1
    BY <2>2, <1>4
  <2>5. job'[w].sent = 1
    BY <2>4, <1>7
  <2> QED BY <2>2, <2>3, <2>5 DEF HandedOver
<1>16. \A r \in outbox : r.by \in Writers
  BY DEF Typed, Records
<1> HIDE DEF n, rec
<1>17. Backed'
  <2> SUFFICES ASSUME NEW r \in outbox \cup {rec}
               PROVE  /\ Item(r.by)' = r.item
                      /\ r.op = "place" => Kind(r.by)' \in Creating /\ HandedOver(r.by)'
                      /\ r.op = "remove" => Kind(r.by)' = "delete" /\ r.item \notin members
    BY <1>1 DEF Backed
  <2>1. CASE r \in outbox
    <3>1. /\ Item(r.by) = r.item
          /\ r.op = "place" => Kind(r.by) \in Creating /\ HandedOver(r.by)
          /\ r.op = "remove" => Kind(r.by) = "delete" /\ r.item \notin members
      BY <2>1 DEF Backed
    <3>2. r.op = "place" => r.by # w
      BY <3>1, <1>9
    <3> QED BY <2>1, <3>1, <3>2, <1>8, <1>9, <1>16
  <2>2. CASE r = rec
    <3>1. r.by = w /\ r.item = Item(w)
      BY <2>2, <1>5
    <3>2. r.op = "place" => Kind(w)' \in Creating /\ HandedOver(w)'
      BY <2>2, <1>5, <1>8, <1>15
    <3>3. r.op = "remove" => Kind(w)' = "delete" /\ r.item \notin members
      BY <2>2, <1>5, <1>8, <1>12
    <3> QED BY <3>1, <3>2, <3>3, <1>8
  <2> QED BY <2>1, <2>2
<1>18. \A i : Doomed(i)' = Doomed(i) /\ (Created(i) => Created(i)')
  BY <1>8, <1>9 DEF Doomed, Created
<1>19. Landed'
  <2> SUFFICES ASSUME NEW u \in Writers, Kind(u) \in Creating, HandedOver(u)'
               PROVE  Item(u) \in members \/ Doomed(Item(u))
    BY <1>1, <1>8, <1>18 DEF Landed
  <2>1. CASE u = w
    BY <2>1, <1>12
  <2>2. CASE u # w
    BY <2>2, <1>9 DEF Landed
  <2> QED BY <2>1, <2>2
<1>20. Unsent(w) => n = 1
  BY DEF Unsent, n
<1>21. \A u \in Writers \ {w} : Unsent(u) => Unsent(u)'
  BY <1>6 DEF PublishRecord, Goto, Typed, Unsent, Running
<1>22. ASSUME NEW i \in Items, PlaceDue(i)
       PROVE  PlaceDue(i)'
  <2>1. CASE \E r \in outbox : r.op = "place" /\ r.item = i
    BY <2>1, <1>1 DEF PlaceDue
  <2>2. CASE \E u \in Writers \ {w} : Unsent(u) /\ Kind(u) \in Creating /\ Item(u) = i
    BY <2>2, <1>8, <1>21 DEF PlaceDue
  <2>3. CASE Unsent(w) /\ Kind(w) \in Creating /\ Item(w) = i
    <3>1. rec = Record(w, "place")
      BY <2>3, <1>13, <1>20 DEF rec
    <3>2. rec \in outbox' /\ rec.op = "place" /\ rec.item = i
      BY <2>3, <3>1, <1>1 DEF Record
    <3> QED BY <3>2 DEF PlaceDue
  <2> QED BY <1>22, <2>1, <2>2, <2>3 DEF PlaceDue
<1>23. ASSUME NEW i \in Items, RemoveDue(i)
       PROVE  RemoveDue(i)'
  <2>1. CASE \E r \in outbox : r.op = "remove" /\ r.item = i
    BY <2>1, <1>1 DEF RemoveDue
  <2>2. CASE \E u \in Writers \ {w} : Unsent(u) /\ Kind(u) = "delete" /\ Item(u) = i
    BY <2>2, <1>8, <1>21 DEF RemoveDue
  <2>3. CASE Unsent(w) /\ Kind(w) = "delete" /\ Item(w) = i
    <3>1. rec = Record(w, "remove")
      BY <2>3, <1>14, <1>20 DEF rec
    <3>2. rec \in outbox' /\ rec.op = "remove" /\ rec.item = i
      BY <2>3, <3>1, <1>1 DEF Record
    <3> QED BY <3>2 DEF RemoveDue
  <2> QED BY <1>23, <2>1, <2>2, <2>3 DEF RemoveDue
<1>24. Shown'
  BY <1>1, <1>18, <1>22, <1>23 DEF Shown
<1> QED BY <1>17, <1>19, <1>24

\* A record is applied, and goes or stays.
LEMMA HandoffApply ==
  ASSUME Typed, Backed, Landed, Shown, NEW r \in outbox, stage.open,
         stage' = [stage EXCEPT !.placed = Effect(r, @)],
         outbox' \in {outbox, outbox \ {r}},
         UNCHANGED <<canonical, pc, job>>
  PROVE  Backed' /\ Landed' /\ Shown'
<1>1. stage'.open /\ stage'.placed = Effect(r, stage.placed) /\ members' = members
  BY DEF Typed, canonical
<1>2. \A u : /\ Kind(u)' = Kind(u) /\ Item(u)' = Item(u)
             /\ HandedOver(u)' = HandedOver(u) /\ Unsent(u)' = Unsent(u)
  BY SameBatch DEF Kind, Item, HandedOver, Unsent, Running
<1>3. \A i : Doomed(i)' = Doomed(i) /\ Created(i)' = Created(i)
  BY <1>2 DEF Doomed, Created
<1>4. Backed'
  BY <1>1, <1>2 DEF Backed
<1>5. Landed'
  BY <1>1, <1>2, <1>3 DEF Landed
<1>6. \A s \in outbox : s # r => s \in outbox'
  OBVIOUS
<1>7. ASSUME NEW i \in Items, PlaceDue(i), ~(r.op = "place" /\ r.item = i)
      PROVE  PlaceDue(i)'
  BY <1>2, <1>6, <1>7 DEF PlaceDue
<1>8. ASSUME NEW i \in Items, RemoveDue(i), ~(r.op = "remove" /\ r.item = i)
      PROVE  RemoveDue(i)'
  BY <1>2, <1>6, <1>8 DEF RemoveDue
<1>9. ASSUME NEW i \in Items
      PROVE  /\ i \in members \ stage'.placed => PlaceDue(i)'
             /\ i \in stage'.placed \ members => RemoveDue(i)' \/ (Created(i) /\ Doomed(i))
  <2>1. /\ i \in members \ stage.placed => PlaceDue(i)
        /\ i \in stage.placed \ members => RemoveDue(i) \/ (Created(i) /\ Doomed(i))
    BY DEF Shown
  <2>2. CASE r.op = "place"
    <3>1. stage'.placed = stage.placed \cup {r.item}
      BY <2>2, <1>1 DEF Effect
    <3>2. r.by \in Writers /\ Kind(r.by) \in Creating /\ HandedOver(r.by) /\ Item(r.by) = r.item
      BY <2>2 DEF Backed, Typed, Records
    <3>3. r.item \in members \/ (Created(r.item) /\ Doomed(r.item))
      BY <3>2 DEF Landed, Created
    <3> QED BY <2>1, <2>2, <3>1, <3>3, <1>7, <1>8
  <2>3. CASE r.op = "remove"
    <3>1. stage'.placed = stage.placed \ {r.item} /\ r.item \notin members
      BY <2>3, <1>1 DEF Effect, Backed
    <3> QED BY <2>1, <2>3, <3>1, <1>7, <1>8
  <2>4. CASE r.op \notin {"place", "remove"}
    <3>1. stage'.placed = stage.placed
      BY <2>4, <1>1 DEF Effect
    <3> QED BY <2>1, <2>4, <3>1, <1>7, <1>8
  <2> QED BY <2>2, <2>3, <2>4
<1>10. Shown'
  BY <1>1, <1>3, <1>9 DEF Shown
<1> QED BY <1>4, <1>5, <1>10

LEMMA HandoffServer ==
  ASSUME Typed, Backed, Landed, Shown, ServerStep
  PROVE  Backed' /\ Landed' /\ Shown'
<1>1. UNCHANGED <<canonical, pc, job>> /\ outbox' \subseteq outbox
  BY ServerKeeps
<1>2. \A u : Kind(u)' = Kind(u) /\ Item(u)' = Item(u) /\ HandedOver(u)' = HandedOver(u)
  BY <1>1, SameBatch DEF Kind, Item, HandedOver
<1>3. Backed' /\ Landed'
  BY <1>1, <1>2 DEF Backed, Landed, Doomed, canonical
<1>4. CASE OpenScene
  <2>1. stage'.placed = members /\ members' = members
    BY <1>4, <1>1 DEF OpenScene, canonical
  <2> QED BY <1>3, <2>1 DEF Shown
<1>5. CASE LeaveScene
  <2>1. ~stage'.open
    BY <1>5 DEF LeaveScene, Closed
  <2> QED BY <1>3, <2>1 DEF Shown
<1>6. ASSUME NEW r \in outbox, Apply(r) \/ ApplyKeepingRecord(r)
      PROVE  Backed' /\ Landed' /\ Shown'
  <2>1. stage.open /\ stage' = [stage EXCEPT !.placed = Effect(r, @)]
        /\ outbox' \in {outbox, outbox \ {r}}
    BY <1>6 DEF Apply, ApplyKeepingRecord
  <2> QED BY <1>1, <2>1, HandoffApply
<1>7. ASSUME NEW r \in outbox, ConsumeElsewhere(r)
      PROVE  Backed' /\ Landed' /\ Shown'
  <2>1. ~stage'.open
    BY <1>7 DEF ConsumeElsewhere
  <2> QED BY <1>3, <2>1 DEF Shown
<1> QED BY <1>4, <1>5, <1>6, <1>7 DEF ServerStep

LEMMA HandoffHost ==
  ASSUME Typed, ControlInv, SerialInv, HandoffInv, ~overlapped', Honest, Honest',
         NEW w \in Writers, WriteStep(w) \/ WriteFails(w)
  PROVE  HandoffInv'
<1>1. Running(w) /\ overlapped' = overlapped
  BY HostSteps
<1>2. Backed /\ Landed /\ Shown /\ Serial(w)
  BY <1>1 DEF HandoffInv, SerialInv
<1>3. OthersStay(w)
  BY WriterAlone
<1>4. CASE PublishParent(w)
  BY <1>2, <1>4, HandoffParent DEF HandoffInv
<1>5. CASE PublishRecord(w)
  BY <1>2, <1>5, HandoffRecord DEF HandoffInv
<1>6. ~(\E r \in {"busy", "failed"} : End(w, r) /\ job' = job /\ pc[w] # "cleanup")
  BY <1>1, FailureShows
<1>7. ASSUME UNCHANGED <<outbox, members, stage>>,
             Kind(w)' = Kind(w), Item(w)' = Item(w), HandedOver(w)' <=> HandedOver(w),
             Unsent(w) => Unsent(w)'
      PROVE  HandoffInv'
  <2>1. \A u \in Writers \ {w} :
          /\ Kind(u)' = Kind(u) /\ Item(u)' = Item(u)
          /\ HandedOver(u)' <=> HandedOver(u)
          /\ Unsent(u) => Unsent(u)'
    BY <1>3, SameBatch DEF OthersStay, Kind, Item, HandedOver, Unsent, Running
  <2> QED BY <1>1, <1>7, <2>1, HandoffFrame
<1>8. CASE \/ (EnsureCapacity(w) /\ Goto(w, "check"))
           \/ (EnsureCurrentManifest(w) /\ Goto(w, "parent"))
           \/ PublishLayer(w) \/ WriteManifest(w) \/ Submit(w)
  <2>1. UNCHANGED <<outbox, members, stage, job>>
    BY <1>8 DEF EnsureCapacity, EnsureCurrentManifest, PublishLayer, WriteManifest, Submit,
                canonical
  <2>2. Running(w)'
    BY <1>8 DEF EnsureCapacity, EnsureCurrentManifest, PublishLayer, WriteManifest, Submit,
                Goto, Typed, Running
  <2> QED BY <2>1, <2>2, <1>7, SameBatch DEF Kind, Item, HandedOver, Unsent
<1>9. CASE CleanUp(w) \/ CleanUpFails(w)
  <2>1. UNCHANGED <<outbox, members, stage, job>> /\ pc[w] = "cleanup"
    BY <1>9 DEF CleanUp, CleanUpFails, canonical
  <2>2. HandedOver(w)
    BY <2>1 DEF ControlInv, Controlled
  <2>3. ~Unsent(w)
    BY <2>2 DEF HandedOver, Unsent
  <2> QED BY <2>1, <2>3, <1>7, SameBatch DEF Kind, Item, HandedOver
<1>10. CASE ReadComposition(w) \/ ListOutbox(w)
  <2>1. UNCHANGED <<outbox, members, stage>> /\ pc[w] \in {"read", "list"} /\ Running(w)'
    BY <1>10 DEF ReadComposition, ListOutbox, canonical, Goto, Typed, Running
  <2>2. job'[w].kind = job[w].kind /\ job'[w].item = job[w].item /\ job'[w].sent = job[w].sent
    BY <1>10 DEF ReadComposition, ListOutbox, Typed, Jobs
  <2>3. job[w].sent = 0
    BY <2>1 DEF ControlInv, Controlled, Reading
  <2>4. ~HandedOver(w) /\ ~HandedOver(w)'
    BY <2>2, <2>3 DEF HandedOver
  <2> QED BY <2>1, <2>2, <2>4, <1>7 DEF Kind, Item, Unsent
<1>11. EnsureCapacity(w) => Goto(w, "check") \/ End(w, "busy")
  BY DEF EnsureCapacity
<1>12. EnsureCurrentManifest(w) => Goto(w, "parent") \/ End(w, "failed")
  BY DEF EnsureCurrentManifest
<1>13. CASE SceneMissing(w) \/ CapacityUnknown(w) \/ LayerMissing(w) \/ SubmitRefused(w)
            \/ PublishRecordFails(w) \/ IoError(w)
            \/ (EnsureCapacity(w) /\ End(w, "busy"))
            \/ (EnsureCurrentManifest(w) /\ End(w, "failed"))
  <2>1. \E r \in {"busy", "failed"} : End(w, r) /\ job' = job /\ pc[w] # "cleanup"
    BY <1>13 DEF SceneMissing, CapacityUnknown, LayerMissing, SubmitRefused,
                 PublishRecordFails, IoError, EnsureCapacity, EnsureCurrentManifest
  <2> QED BY <2>1, <1>6
<1> QED
  BY <1>4, <1>5, <1>8, <1>9, <1>10, <1>11, <1>12, <1>13 DEF WriteStep, WriteFails

LEMMA HandoffNext ==
  ASSUME Typed, ControlInv, SerialInv, HandoffInv, [Next]_vars
  PROVE  HandoffInv'
<1> SUFFICES ASSUME ~overlapped', Honest'
             PROVE  HandoffInv'
  BY DEF HandoffInv
<1>1. Honest
  BY HonestBefore
<1>2. CASE \E w \in Writers, k \in AllKinds, i \in Items : Start(w, k, i)
  BY <1>1, <1>2, HandoffStart DEF HandoffInv
<1>3. CASE \E w \in Writers : WriteStep(w) \/ WriteFails(w)
  BY <1>1, <1>3, HandoffHost
<1>4. CASE ServerStep
  <2>1. Backed /\ Landed /\ Shown
    BY <1>1, <1>4, ServerKeeps DEF HandoffInv
  <2> QED BY <1>4, <2>1, HandoffServer DEF HandoffInv
<1>5. CASE UNCHANGED vars
  <2>1. UNCHANGED <<outbox, members, stage, pc, job, overlapped>>
    BY <1>5 DEF vars, canonical
  <2>2. \A u \in Writers :
           /\ Kind(u)' = Kind(u) /\ Item(u)' = Item(u)
           /\ HandedOver(u)' <=> HandedOver(u)
           /\ Unsent(u) => Unsent(u)'
    BY <2>1, SameBatch DEF Kind, Item, HandedOver, Unsent, Running
  <2> QED BY <1>1, <2>1, <2>2, HandoffFrame
<1> QED BY <1>2, <1>3, <1>4, <1>5 DEF Next

-----------------------------------------------------------------------------
(* The theorems                                                            *)

LEMMA WritesInvariant == Safety => []IInv
<1>1. Init => IInv
  BY TypedInit, ControlInit, SerialInit, LockedInit, HandoffInit DEF IInv
<1>2. IInv /\ [Next]_vars => IInv'
  BY TypedNext, SerialNext, LockedNext, HandoffNext DEF IInv
<1> QED BY <1>1, <1>2, PTL DEF Safety

\* Files, records, the stage and each write hold what they may, and a write reports success
\* only once all its records are handed over (mod.rs:40-47).
THEOREM WritesTypeCorrect == Safety => [](Typed /\ ControlInv)
BY WritesInvariant, PTL DEF IInv

\* Writes that do not overlap leave the Project whole, whichever step of which failed and
\* whatever it had to undo: the manifest lists just what has a layer and a placement
\* (create.rs:163-232, deletion.rs:153-251).
THEOREM SerialWritesConsistent == Safety => []CanonicalConsistent
<1>1. IInv => CanonicalConsistent
  BY DEF IInv, SerialInv, CanonicalConsistent
<1> QED BY <1>1, WritesInvariant, PTL

\* No write that takes the publication lock undoes another that was acknowledged, however
\* many imports and renames are asked for at once and whichever fail (mod.rs:40-47).
THEOREM LockedWritesAreKept == Safety => []LockedWritesStay
<1>1. IInv => LockedWritesStay
  <2> SUFFICES ASSUME IInv, OnlyLocked, NEW w \in Writers, result[w] = "ok"
               PROVE  CASE Kind(w) \in Creating -> Item(w) \in manifest.items \/ Deleted(Item(w))
                        [] Kind(w) = "delete"   -> Item(w) \notin manifest.items
                        [] Kind(w) = "rename"   -> Item(w) \in manifest.renamed \/ Deleted(Item(w))
    BY DEF LockedWritesStay, AcknowledgedStays, OnlyLocked
  <2>1. Keeps(manifest)
    BY DEF IInv, LockedInv
  <2>2. Kind(w) \in Locking
    BY DEF IInv, ControlInv, Controlled, OnlyLocked, AllKinds, Creating
  <2>3. CASE Kind(w) = "import"
    BY <2>1, <2>3 DEF Keeps, Creating
  <2>4. CASE Kind(w) = "rename"
    BY <2>1, <2>4 DEF Keeps, Creating
  <2> QED BY <2>2, <2>3, <2>4 DEF Locking
<1> QED BY <1>1, WritesInvariant, PTL

\* Once everything that writes without overlap handed over is consumed, the stage shows the
\* placements of the canonical layer, for any number of writes, records applied twice and
\* changes of Scene in between (project_stage.rs:249-251).
THEOREM StageShowsTheScene == Safety => []StageAgrees
<1>1. IInv => StageAgrees
  <2> SUFFICES ASSUME IInv, Delivered, NEW i \in Items
               PROVE  (i \in stage.placed <=> i \in members) \/ (Created(i) /\ Deleted(i))
    BY DEF StageAgrees
  <2>1. ~overlapped /\ Quiet /\ outbox = {} /\ stage.open /\ Honest
    BY DEF Delivered, Honest
  <2>2. Shown
    BY <2>1 DEF IInv, HandoffInv
  <2>3. ~PlaceDue(i) /\ ~RemoveDue(i)
    BY <2>1 DEF PlaceDue, RemoveDue, Unsent, Quiet
  <2>4. Doomed(i) => Deleted(i)
    <3>1. ASSUME NEW u \in Writers, Kind(u) = "delete"
          PROVE  HandedOver(u)
      <4>1. pc[u] = "done"
        BY <2>1, <3>1 DEF IInv, ControlInv, Controlled, Quiet, Running, Kind, NoJob
      <4>2. result[u] \in {"ok", "busy", "failed"}
        BY <4>1 DEF IInv, ControlInv, Controlled, Typed
      <4> QED BY <2>1, <4>2 DEF IInv, ControlInv, Controlled, Honest
    <3> QED BY <3>1 DEF Doomed, Deleted
  <2> QED BY <2>1, <2>2, <2>3, <2>4 DEF Shown
<1> QED BY <1>1, WritesInvariant, PTL
=============================================================================
