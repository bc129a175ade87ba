------------------------ MODULE CacheWarmQueueProofs ------------------------
(***************************************************************************)
(* The warm queue for any threads, Projects, targets, writes, capacities   *)
(* and numbers of writes and I/O errors. The invariant has four parts:     *)
(* Typed, who holds what is scheduled (Held), what the worker still knows  *)
(* of the Scene it warms (Fresh), and how full the map can be while the    *)
(* worker is idle (Roomy).                                                 *)
(***************************************************************************)
EXTENDS CacheWarmQueue, FiniteSetTheorems, TLAPS

Generations == Nat \cup {None}

Descriptors ==
  [generation : Nat, state : {"absent", "building", "partial", "fallback"},
   content : Nat \cup {None}]

AtBoundary == {"boundary", "cancel", "remove"}

Jobs == [gone : SUBSET Targets, todo : SUBSET Targets, undo : SUBSET Targets,
         wanted : [Targets -> Generations], at : Targets \cup {None},
         refused : BOOLEAN, failed : BOOLEAN]

WithScene == Warming \cup {"failed", "terminal"}

WithTarget == WithScene \cup {"take", "finish", "resend", "giveup"}

WriterSteps == AtBoundary \cup {"idle", "record", "waiting", "send", "unschedule"}

WorkerSteps == WithTarget \cup {"recover", "insert", "idle", "retry", "overflow"}

Workers ==
  [pc : WorkerSteps, key : Targets \cup Projects \cup {None},
   generation : Generations, hash : Nat, expected : Descriptors,
   found : [Targets -> Generations]]

KeyAt(step, key) ==
  /\ step \in WithScene => key \in Scenes
  /\ step \in WithTarget => key \in Targets
  /\ step \in {"recover", "insert"} => key \in Projects
  /\ step \in {"idle", "retry", "overflow"} => key = None

JobAt(step, j) ==
  /\ step \in {"cancel", "remove", "send", "unschedule"} => j.at \in Targets
  /\ step \notin AtBoundary => j.gone = {} /\ j.todo = {}
  /\ j.undo = {} \/ j.gone \cup (j.todo \cap Scenes) \subseteq j.undo

DataTyped ==
  /\ source \in [Targets -> Nat]
  /\ descriptor \in [Scenes -> Descriptors]
  /\ latest \in [Targets -> Generations]
  /\ scheduled \subseteq Targets /\ dirty \subseteq Projects /\ queue \in Seq(Targets)
  /\ exposed \subseteq Scenes /\ faults \in Nat

WritersTyped ==
  /\ pc \in [Writers -> WriterSteps] /\ job \in [Writers -> Jobs]
  /\ \A m \in Writers : JobAt(pc[m], job[m])

WorkerTyped == worker \in Workers /\ KeyAt(worker.pc, worker.key)

Typed == DataTyped /\ WritersTyped /\ WorkerTyped

Sending(m) == pc[m] \in {"send", "unschedule"}

\* A target has one holder at most, and what is scheduled is what has one.
Held ==
  /\ \A i, j \in DOMAIN queue : queue[i] = queue[j] => i = j
  /\ \A m, u \in Writers : Sending(m) /\ Sending(u) /\ job[m].at = job[u].at => m = u
  /\ \A i \in DOMAIN queue, m \in Writers : Sending(m) => queue[i] # job[m].at
  /\ \A i \in DOMAIN queue : queue[i] # worker.key
  /\ \A m \in Writers : Sending(m) => job[m].at # worker.key
  /\ \A t \in Targets :
       t \in scheduled <=>
         \/ \E i \in DOMAIN queue : queue[i] = t
         \/ \E m \in Writers : Sending(m) /\ job[m].at = t
         \/ worker.key = t

\* A write has changed s and has yet to say so, or could not and has.
Excused(s) ==
  \/ s \in exposed
  \/ \E m \in Writers :
       \/ s \in job[m].gone \cup job[m].todo
       \/ pc[m] \in {"cancel", "remove"} /\ job[m].at = s

\* Whoever advances a generation while the worker warms its Scene makes the comparison
\* of Publish fail, and nobody removes the descriptor then.
Fresh ==
  /\ UsableIsCurrent
  /\ worker.pc \in {"build", "publish"} =>
       worker.expected.generation <= descriptor[worker.key].generation
  /\ worker.pc = "publish" =>
       \/ worker.hash = source[worker.key] \/ Excused(worker.key)
       \/ descriptor[worker.key] # worker.expected

SomeoneSends == \E m \in Writers : pc[m] = "send"

\* The worker goes idle over an empty channel only when each target that is retained is
\* held by a writer: there are no more of them than writers until somebody sends.
Roomy ==
  /\ \A m \in Writers : pc[m] = "waiting" => Full
  /\ worker.pc = "giveup" => queue # <<>>
  /\ worker.pc \in {"idle", "overflow"} /\ queue = <<>> =>
       SomeoneSends \/ Cardinality(Retained \cup scheduled) <= Cardinality(Writers)

IInv == Typed /\ Held /\ Fresh /\ Roomy

(***************************************************************************)
(* Types and control.                                                      *)
(***************************************************************************)

LEMMA EmptyTyped ==
  /\ Nothing \in [Targets -> Generations] /\ NoJob \in Jobs /\ Absent \in Descriptors
  /\ Idle \in Workers
<1> USE WarmAssumption
<1>1. Nothing \in [Targets -> Generations] /\ NoJob \in Jobs /\ Absent \in Descriptors
  BY DEF Nothing, NoJob, Jobs, Generations, Absent, Descriptors
<1> QED
  BY <1>1 DEF Idle, Workers, WorkerSteps, Generations

LEMMA Start == Init => Typed /\ Held
<1> SUFFICES ASSUME Init PROVE Typed /\ Held
  OBVIOUS
<1> USE WarmAssumption
<1>1. descriptor \in [Scenes -> Descriptors]
  BY DEF Init, Descriptors
<1>2. DataTyped
  BY <1>1, EmptyTyped DEF Init, DataTyped, Targets
<1>3. WritersTyped
  BY EmptyTyped DEF Init, WritersTyped, WriterSteps, AtBoundary, JobAt, NoJob
<1>4. WorkerTyped
  BY EmptyTyped
     DEF Init, WorkerTyped, KeyAt, Idle, WithTarget, WithScene, Warming
<1>5. Held
  BY DEF Init, Held, Sending, Idle, NoJob, Targets
<1> QED
  BY <1>2, <1>3, <1>4, <1>5 DEF Typed

\* A step of one writer may wake others.
LEMMA WriterMoves ==
  ASSUME WritersTyped, NEW m \in Writers, NEW j \in Jobs, NEW step \in WriterSteps,
         job' = [job EXCEPT ![m] = j], JobAt(step, j),
         \/ pc' = [pc EXCEPT ![m] = step]
         \/ pc' = [u \in Writers |-> IF u = m THEN step ELSE Awake(u)]
  PROVE  WritersTyped'
<1>1. job' \in [Writers -> Jobs] /\ job'[m] = j
  BY DEF WritersTyped
<1>2. pc' \in [Writers -> WriterSteps] /\ pc'[m] = step
  BY DEF WritersTyped, WriterSteps, Awake
<1>3. ASSUME NEW u \in Writers, u # m PROVE JobAt(pc'[u], job'[u])
  <2>1. JobAt(pc[u], job[u]) /\ job'[u] = job[u] /\ pc'[u] \in {pc[u], Awake(u)}
    BY <1>3 DEF WritersTyped
  <2> QED
    BY <2>1 DEF JobAt, Awake, AtBoundary
<1> QED
  BY <1>1, <1>2, <1>3 DEF WritersTyped

LEMMA AtRest == NoJob \in Jobs /\ JobAt("idle", NoJob) /\ "idle" \in WriterSteps
BY EmptyTyped DEF NoJob, JobAt, WriterSteps

LEMMA WritersWait ==
  ASSUME WritersTyped, UNCHANGED job, UNCHANGED pc \/ Notify
  PROVE  WritersTyped'
<1>1. CASE UNCHANGED pc
  BY <1>1 DEF WritersTyped
<1>2. CASE Notify
  <2>1. pc' \in [Writers -> WriterSteps]
    BY <1>2 DEF Notify, Awake, WritersTyped, WriterSteps
  <2>2. ASSUME NEW u \in Writers PROVE JobAt(pc'[u], job'[u])
    <3>1. JobAt(pc[u], job[u]) /\ pc'[u] = Awake(u)
      BY <1>2 DEF WritersTyped, Notify
    <3> QED
      BY <3>1 DEF JobAt, Awake, AtBoundary
  <2> QED
    BY <2>1, <2>2 DEF WritersTyped
<1> QED
  BY <1>1, <1>2

LEMMA WorkerMoves ==
  ASSUME WorkerTyped, NEW step \in WorkerSteps, KeyAt(step, worker.key),
         worker' = [worker EXCEPT !.pc = step]
  PROVE  WorkerTyped'
BY DEF WorkerTyped, Workers

LEMMA BoundariesTyped ==
  ASSUME Typed, NEW m \in Writers,
         \/ \E w \in Writes : Write(m, w)
         \/ BoundaryStep(m) \/ WriteFails(m)
  PROVE  Typed'
<1> USE WarmAssumption
<1>1. WorkerTyped'
  BY DEF Write, BoundaryStep, WriteFails, Advance, NoBoundary, Discard, Cancel, Remove,
         RemoveFails, Undo, Undoing, BoundariesDone, AdvanceFails, Typed, WorkerTyped
<1> SUFFICES DataTyped' /\ WritersTyped'
  BY <1>1 DEF Typed
<1>2. job[m] \in Jobs /\ pc[m] \in WriterSteps /\ JobAt(pc[m], job[m])
  BY DEF Typed, WritersTyped
<1>3. ASSUME NEW w \in Writes, Write(m, w) PROVE DataTyped' /\ WritersTyped'
  <2> DEFINE j == [NoJob EXCEPT !.gone = w.gone, !.todo = w.todo, !.undo = w.undo]
  <2>1. j \in Jobs /\ j.gone = w.gone /\ j.todo = w.todo /\ j.undo = w.undo
    BY EmptyTyped DEF Jobs, NoJob
  <2>2. job' = [job EXCEPT ![m] = j] /\ pc' = [pc EXCEPT ![m] = "boundary"]
    BY <1>3 DEF Write, Goto
  <2> HIDE DEF j
  <2>3. JobAt("boundary", j) /\ "boundary" \in WriterSteps
    BY <2>1 DEF JobAt, AtBoundary, WriterSteps
  <2>4. WritersTyped'
    BY <2>1, <2>2, <2>3, WriterMoves DEF Typed
  <2>5. source' \in [Targets -> Nat]
    <3>1. \A t \in Targets : source[t] \in Nat /\ source[t] + 1 \in Nat
      BY DEF Typed, DataTyped
    <3> QED
      BY <1>3, <3>1 DEF Write
  <2> QED
    BY <1>3, <2>4, <2>5 DEF Write, Typed, DataTyped, inner
<1>4. ASSUME NEW s \in Scenes, Advance(m, s) PROVE DataTyped' /\ WritersTyped'
  <2> DEFINE next == descriptor[s].generation + 1
             j == [job[m] EXCEPT !.todo = @ \ {s}, !.wanted[s] = next]
  <2>1. next \in Nat /\ s \in Targets
    BY DEF Typed, DataTyped, Descriptors, Targets
  <2>2. /\ j \in Jobs
        /\ j.gone = job[m].gone /\ j.todo \subseteq job[m].todo /\ j.undo = job[m].undo
    BY <1>2, <2>1 DEF Jobs, Generations
  <2>3. job' = [job EXCEPT ![m] = j] /\ pc' = [pc EXCEPT ![m] = "boundary"]
    <3>1. pc[m] = "boundary" /\ UNCHANGED pc /\ Prepared(m, s, next)
      BY <1>4 DEF Advance, AtTargets
    <3>2. job' = [job EXCEPT ![m] = j]
      <4>1. job \in [Writers -> Jobs]
        BY DEF Typed, WritersTyped
      <4> HIDE WarmAssumption
      <4> QED
        BY <3>1, <4>1 DEF Prepared
    <3>3. pc' = [pc EXCEPT ![m] = "boundary"]
      BY <3>1 DEF Typed, WritersTyped
    <3> QED
      BY <3>2, <3>3
  <2> HIDE DEF j
  <2>4. WritersTyped'
    BY <1>2, <2>2, <2>3, WriterMoves DEF Typed, WriterSteps, AtBoundary, JobAt
  <2>5. descriptor' \in [Scenes -> Descriptors]
    BY <1>4, <2>1 DEF Advance, Typed, DataTyped, Descriptors
  <2> QED
    BY <1>4, <2>4, <2>5 DEF Advance, Typed, DataTyped, inner
<1>5. ASSUME NEW t \in Others, NoBoundary(m, t) PROVE DataTyped' /\ WritersTyped'
  <2> DEFINE j == [job[m] EXCEPT !.todo = @ \ {t}, !.wanted[t] = 0]
  <2>1. /\ j \in Jobs
        /\ j.gone = job[m].gone /\ j.todo \subseteq job[m].todo /\ j.undo = job[m].undo
    BY <1>2 DEF Jobs, Generations, Targets
  <2>2. job' = [job EXCEPT ![m] = j] /\ pc' = [pc EXCEPT ![m] = "boundary"]
    <3>1. pc[m] = "boundary" /\ UNCHANGED pc /\ Prepared(m, t, 0)
      BY <1>5 DEF NoBoundary, AtTargets
    <3>2. job' = [job EXCEPT ![m] = j]
      <4>1. job \in [Writers -> Jobs]
        BY DEF Typed, WritersTyped
      <4> HIDE WarmAssumption
      <4> QED
        BY <3>1, <4>1 DEF Prepared
    <3>3. pc' = [pc EXCEPT ![m] = "boundary"]
      BY <3>1 DEF Typed, WritersTyped
    <3> QED
      BY <3>2, <3>3
  <2> HIDE DEF j
  <2>3. WritersTyped'
    BY <1>2, <2>1, <2>2, WriterMoves DEF Typed, WriterSteps, AtBoundary, JobAt
  <2> QED
    BY <1>5, <2>3 DEF NoBoundary, Typed, DataTyped, inner
<1>6. CASE Cancel(m)
  <2>1. job' = [job EXCEPT ![m] = job[m]]
    BY <1>6 DEF Cancel, Typed, WritersTyped
  <2>2. WritersTyped'
    <3>1. JobAt("remove", job[m]) /\ "remove" \in WriterSteps
      BY <1>2, <1>6 DEF Cancel, JobAt, AtBoundary, WriterSteps
    <3>2. pc' = [u \in Writers |-> IF u = m THEN "remove" ELSE Awake(u)]
      BY <1>6 DEF Cancel
    <3> QED
      BY <1>2, <2>1, <3>1, <3>2, WriterMoves DEF Typed
  <2>3. latest' \in [Targets -> Generations]
    BY <1>6 DEF Cancel, Typed, DataTyped, Generations
  <2> QED
    BY <1>6, <2>2, <2>3 DEF Cancel, Typed, DataTyped
<1>7. CASE Remove(m)
  <2>1. job' = [job EXCEPT ![m] = job[m]] /\ pc' = [pc EXCEPT ![m] = "boundary"]
    BY <1>7 DEF Remove, Goto, Typed, WritersTyped
  <2>2. JobAt("boundary", job[m]) /\ "boundary" \in WriterSteps
    BY <1>2 DEF JobAt, AtBoundary, WriterSteps
  <2>3. WritersTyped'
    BY <1>2, <2>1, <2>2, WriterMoves DEF Typed
  <2>4. descriptor' \in [Scenes -> Descriptors] /\ exposed' \subseteq Scenes
    BY <1>7, EmptyTyped DEF Remove, Typed, DataTyped
  <2> QED
    BY <1>7, <2>3, <2>4 DEF Remove, Typed, DataTyped, inner
<1>8. ASSUME NEW j \in Jobs, j = [NoJob EXCEPT !.gone = job[m].undo] PROVE JobAt("boundary", j)
  BY <1>8 DEF JobAt, AtBoundary, NoJob
<1>9. [NoJob EXCEPT !.gone = job[m].undo] \in Jobs
  BY <1>2, EmptyTyped DEF Jobs
<1>10. CASE RemoveFails(m)
  <2>1. PICK j \in Jobs : job' = [job EXCEPT ![m] = j] /\ JobAt("boundary", j)
    <3>1. CASE UNCHANGED job
      <4>1. job' = [job EXCEPT ![m] = job[m]] /\ JobAt("boundary", job[m])
        BY <1>2, <3>1 DEF JobAt, AtBoundary, Typed, WritersTyped
      <4> QED
        BY <1>2, <4>1
    <3>2. CASE job' = [job EXCEPT ![m].failed = TRUE]
      <4> DEFINE j == [job[m] EXCEPT !.failed = TRUE]
      <4>1. /\ j \in Jobs /\ j.gone = job[m].gone /\ j.todo = job[m].todo
            /\ j.undo = job[m].undo
        BY <1>2 DEF Jobs
      <4>2. job' = [job EXCEPT ![m] = j]
        BY <3>2 DEF Typed, WritersTyped
      <4> HIDE DEF j
      <4>3. JobAt("boundary", j)
        BY <1>2, <4>1 DEF JobAt, AtBoundary
      <4> QED
        BY <4>1, <4>2, <4>3
    <3>3. CASE Undoing(m)
      BY <1>8, <1>9, <3>3 DEF Undoing
    <3> QED
      BY <1>10, <3>1, <3>2, <3>3 DEF RemoveFails
  <2>2. pc' = [pc EXCEPT ![m] = "boundary"] /\ "boundary" \in WriterSteps
    BY <1>10 DEF RemoveFails, Goto, WriterSteps, AtBoundary
  <2>3. WritersTyped'
    BY <2>1, <2>2, WriterMoves DEF Typed
  <2>4. exposed' \subseteq Scenes
    BY <1>10 DEF RemoveFails, Typed, DataTyped
  <2> QED
    BY <1>10, <2>3, <2>4 DEF RemoveFails, Typed, DataTyped, inner
<1>11. CASE Undo(m)
  <2>1. /\ job' = [job EXCEPT ![m] = [NoJob EXCEPT !.gone = job[m].undo]]
        /\ pc' = [pc EXCEPT ![m] = "boundary"] /\ "boundary" \in WriterSteps
    BY <1>11 DEF Undo, Undoing, AtTargets, WriterSteps, AtBoundary, Typed, WritersTyped
  <2>2. WritersTyped'
    BY <1>8, <1>9, <2>1, WriterMoves DEF Typed
  <2> QED
    BY <1>11, <2>2 DEF Undo, Typed, DataTyped, inner
<1>12. ASSUME NEW t \in Targets, Discard(m, t) PROVE DataTyped' /\ WritersTyped'
  <2> DEFINE j == [job[m] EXCEPT !.gone = @ \ {t}, !.at = t]
  <2>1. /\ j \in Jobs /\ j.at = t
        /\ j.gone \subseteq job[m].gone /\ j.todo = job[m].todo /\ j.undo = job[m].undo
    BY <1>2 DEF Jobs
  <2>2. job' = [job EXCEPT ![m] = j] /\ pc' = [pc EXCEPT ![m] = "cancel"]
    BY <1>12 DEF Discard, Goto, Typed, WritersTyped
  <2> HIDE DEF j
  <2>3. JobAt("cancel", j) /\ "cancel" \in WriterSteps
    BY <1>2, <2>1 DEF JobAt, AtBoundary, WriterSteps
  <2>4. WritersTyped'
    BY <2>1, <2>2, <2>3, WriterMoves DEF Typed
  <2> QED
    BY <1>12, <2>4 DEF Discard, Typed, DataTyped, inner
<1>13. CASE BoundariesDone(m)
  <2>1. CASE job[m].refused
    <3>1. job' = [job EXCEPT ![m] = NoJob] /\ pc' = [pc EXCEPT ![m] = "idle"]
      BY <1>13, <2>1 DEF BoundariesDone, Goto
    <3>2. WritersTyped'
      BY <3>1, AtRest, WriterMoves DEF Typed
    <3> QED
      BY <1>13, <3>2 DEF BoundariesDone, Typed, DataTyped, inner
  <2>2. CASE ~job[m].refused
    <3>1. job' = [job EXCEPT ![m] = job[m]] /\ pc' = [pc EXCEPT ![m] = "record"]
      BY <1>13, <2>2 DEF BoundariesDone, Goto, Typed, WritersTyped
    <3>2. WritersTyped'
      BY <1>2, <1>13, <3>1, WriterMoves
         DEF BoundariesDone, AtTargets, Typed, WriterSteps, JobAt
    <3> QED
      BY <1>13, <3>2 DEF BoundariesDone, Typed, DataTyped, inner
  <2> QED
    BY <2>1, <2>2
<1>14. ASSUME NEW s \in Scenes, AdvanceFails(m, s) PROVE DataTyped' /\ WritersTyped'
  <2> DEFINE j == [job[m] EXCEPT !.todo = @ \ {s}, !.at = s, !.refused = TRUE]
  <2>1. /\ j \in Jobs /\ j.at \in Targets
        /\ j.gone = job[m].gone /\ j.todo \subseteq job[m].todo /\ j.undo = job[m].undo
    BY <1>2 DEF Jobs, Targets
  <2>2. job' = [job EXCEPT ![m] = j]
    BY <1>14 DEF AdvanceFails, Typed, WritersTyped
  <2> HIDE DEF j
  <2>3. WritersTyped'
    BY <1>2, <1>14, <2>1, <2>2, WriterMoves
       DEF AdvanceFails, Goto, Typed, WriterSteps, AtBoundary, JobAt
  <2>4. faults' \in Nat
    BY <1>14 DEF AdvanceFails, Fault, Typed, DataTyped
  <2> QED
    BY <1>14, <2>3, <2>4 DEF AdvanceFails, Typed, DataTyped, inner
<1> QED
  BY <1>1, <1>3, <1>4, <1>5, <1>6, <1>7, <1>10, <1>11, <1>12, <1>13, <1>14
     DEF Typed, BoundaryStep, WriteFails

LEMMA RecordsTyped == ASSUME Typed, NEW m \in Writers, RecordStep(m) PROVE Typed'
<1> USE WarmAssumption
<1>1. WorkerTyped'
  BY DEF RecordStep, RecordRefused, RecordProject, RecordWaits, Record, Send, Unschedule,
         RecordsDone, Typed, WorkerTyped
<1> SUFFICES DataTyped' /\ WritersTyped'
  BY <1>1 DEF Typed
<1>2. job[m] \in Jobs /\ pc[m] \in WriterSteps /\ JobAt(pc[m], job[m])
  BY DEF Typed, WritersTyped
<1>3. pc' = [pc EXCEPT ![m] = pc[m]] /\ job' = [job EXCEPT ![m] = job[m]]
        => UNCHANGED <<pc, job>>
  BY DEF Typed, WritersTyped
<1>4. ASSUME NEW t \in Targets, Recorded(m, t)
      PROVE  \E j \in Jobs : /\ job' = [job EXCEPT ![m] = j]
                             /\ j.gone = job[m].gone /\ j.todo = job[m].todo /\ j.at = None
  <2> DEFINE j == [job[m] EXCEPT !.wanted[t] = None, !.at = None]
  <2>1. j \in Jobs /\ j.gone = job[m].gone /\ j.todo = job[m].todo /\ j.at = None
    BY <1>2 DEF Jobs, Generations
  <2>2. job' = [job EXCEPT ![m] = j]
    BY <1>4 DEF Recorded, Typed, WritersTyped
  <2> QED
    BY <2>1, <2>2
<1>5. ASSUME NEW t \in Targets, pc[m] \notin AtBoundary, Recorded(m, t),
             \/ pc' = [pc EXCEPT ![m] = "record"]
             \/ pc' = [u \in Writers |-> IF u = m THEN "record" ELSE Awake(u)]
      PROVE  WritersTyped'
  <2>1. PICK j \in Jobs : /\ job' = [job EXCEPT ![m] = j]
                          /\ j.gone = job[m].gone /\ j.todo = job[m].todo /\ j.at = None
    BY <1>4, <1>5
  <2> QED
    <3>1. JobAt("record", j) /\ "record" \in WriterSteps
      BY <1>2, <1>5, <2>1 DEF JobAt, WriterSteps
    <3> QED
      BY <1>5, <2>1, <3>1, WriterMoves DEF Typed
<1>6. ASSUME NEW t \in Targets, Recording(m, t), latest' = [latest EXCEPT ![t] = job[m].wanted[t]]
      PROVE  latest' \in [Targets -> Generations]
  BY <1>2, <1>6 DEF Jobs, Typed, DataTyped
<1>7. ASSUME NEW t \in Targets, RecordRefused(m, t) \/ RecordProject(m, t)
      PROVE  DataTyped' /\ WritersTyped'
  <2>1. pc[m] = "record" /\ Recorded(m, t)
    BY <1>7 DEF RecordRefused, RecordProject, Recording
  <2>2. \/ pc' = [pc EXCEPT ![m] = "record"]
        \/ pc' = [u \in Writers |-> IF u = m THEN "record" ELSE Awake(u)]
    BY <1>7, <2>1
       DEF RecordRefused, RecordProject, Notify, Awake, Typed, WritersTyped
  <2>3. WritersTyped'
    BY <1>5, <2>1, <2>2 DEF AtBoundary
  <2> QED
    BY <1>7, <2>3 DEF RecordRefused, RecordProject, Typed, DataTyped, inner
<1>8. ASSUME NEW t \in Targets, RecordWaits(m, t) PROVE DataTyped' /\ WritersTyped'
  <2>1. job' = [job EXCEPT ![m] = job[m]]
    BY <1>8 DEF RecordWaits, Typed, WritersTyped
  <2>2. WritersTyped'
    BY <1>2, <1>8, <2>1, WriterMoves
       DEF RecordWaits, Recording, Goto, Typed, WriterSteps, AtBoundary, JobAt
  <2> QED
    BY <1>8, <2>2 DEF RecordWaits, Typed, DataTyped, inner
<1>9. ASSUME NEW t \in Targets, Record(m, t) PROVE DataTyped' /\ WritersTyped'
  <2>1. pc[m] = "record" /\ Recording(m, t)
    BY <1>9 DEF Record, Recording
  <2>2. CASE t \in scheduled
    <3>1. pc' = [pc EXCEPT ![m] = "record"] /\ Recorded(m, t)
      BY <1>9, <2>1, <2>2 DEF Record, Typed, WritersTyped
    <3>2. WritersTyped'
      BY <1>5, <2>1, <3>1 DEF AtBoundary
    <3> QED
      BY <1>6, <1>9, <2>1, <2>2, <3>2 DEF Record, Typed, DataTyped
  <2>3. CASE t \notin scheduled
    <3> DEFINE j == [job[m] EXCEPT !.at = t]
    <3>1. j \in Jobs /\ j.at = t /\ j.gone = job[m].gone /\ j.todo = job[m].todo
      BY <1>2 DEF Jobs
    <3>2. job' = [job EXCEPT ![m] = j] /\ pc' = [pc EXCEPT ![m] = "send"]
      BY <1>9, <2>3 DEF Record, Goto, Typed, WritersTyped
    <3> HIDE DEF j
    <3>3. WritersTyped'
      BY <1>2, <2>1, <3>1, <3>2, WriterMoves DEF Typed, WriterSteps, AtBoundary, JobAt
    <3>4. latest' \in [Targets -> Generations] /\ scheduled' \subseteq Targets
      <4>1. latest' = [latest EXCEPT ![t] = job[m].wanted[t]] /\ scheduled' = scheduled \cup {t}
        BY <1>9, <2>3 DEF Record
      <4> QED
        BY <1>6, <2>1, <4>1 DEF Typed, DataTyped
    <3> QED
      BY <1>9, <3>3, <3>4 DEF Record, Typed, DataTyped
  <2> QED
    BY <2>2, <2>3
<1>10. CASE Send(m)
  <2>1. pc[m] = "send" /\ job[m].at \in Targets
    BY <1>2, <1>10 DEF Send, JobAt
  <2>2. CASE Len(queue) < QueueCapacity
    <3>1. WritersTyped'
      BY <1>5, <1>10, <2>1, <2>2 DEF Send, Goto, AtBoundary
    <3>2. queue' \in Seq(Targets)
      <4>1. queue' = Append(queue, job[m].at)
        BY <1>10, <2>2 DEF Send
      <4> QED
        BY <2>1, <4>1 DEF Typed, DataTyped
    <3> QED
      BY <1>10, <3>1, <3>2 DEF Send, Typed, DataTyped, inner
  <2>3. CASE ~(Len(queue) < QueueCapacity)
    <3>1. job' = [job EXCEPT ![m] = job[m]] /\ pc' = [pc EXCEPT ![m] = "unschedule"]
      BY <1>10, <2>3 DEF Send, Goto, Typed, WritersTyped
    <3>2. WritersTyped'
      BY <1>2, <2>1, <3>1, WriterMoves DEF Typed, WriterSteps, AtBoundary, JobAt
    <3> QED
      BY <1>10, <2>3, <3>2 DEF Send, Typed, DataTyped, inner
  <2> QED
    BY <2>2, <2>3
<1>11. CASE Unschedule(m)
  <2>1. pc[m] = "unschedule" /\ job[m].at \in Targets
    BY <1>2, <1>11 DEF Unschedule, JobAt
  <2>2. WritersTyped'
    BY <1>5, <1>11, <2>1 DEF Unschedule, Goto, AtBoundary
  <2> QED
    BY <1>11, <2>2 DEF Unschedule, Typed, DataTyped
<1>12. CASE RecordsDone(m)
  <2>1. job' = [job EXCEPT ![m] = NoJob] /\ pc' = [pc EXCEPT ![m] = "idle"]
    BY <1>12 DEF RecordsDone, Goto
  <2>2. WritersTyped'
    BY <2>1, AtRest, WriterMoves DEF Typed
  <2> QED
    BY <1>12, <2>2 DEF RecordsDone, Typed, DataTyped, inner
<1> QED
  BY <1>1, <1>7, <1>8, <1>9, <1>10, <1>11, <1>12 DEF Typed, RecordStep

LEMMA WorkerTypes == ASSUME Typed, WorkerStep \/ WarmFails PROVE Typed'
<1> USE WarmAssumption
<1>1. WritersTyped'
  BY WritersWait
     DEF WorkerStep, WarmFails, Typed, Receive, TakeLatest, Check, Expect, Build, Publish,
         Failed, Terminalize, Finish, Retry, NothingToRetry, Resend, GiveUp, SearchProject,
         NothingToSearch, Recover, Insert
<1> SUFFICES DataTyped' /\ WorkerTyped'
  BY <1>1 DEF Typed
<1>2. worker \in Workers /\ KeyAt(worker.pc, worker.key)
  BY DEF Typed, WorkerTyped
<1>3. ASSUME NEW step \in {"idle", "retry"}, worker' = [Idle EXCEPT !.pc = step]
      PROVE  WorkerTyped'
  BY <1>3, EmptyTyped DEF WorkerTyped, Workers, WorkerSteps, KeyAt, WithTarget, WithScene,
     Warming, Idle
<1>4. Idle = [Idle EXCEPT !.pc = "idle"]
  BY DEF Idle
<1>5. ASSUME worker.pc \in WithScene, NEW step \in WithScene \cup {"finish"},
             worker' = [worker EXCEPT !.pc = step]
      PROVE  WorkerTyped'
  BY <1>2, <1>5 DEF WorkerTyped, Workers, WorkerSteps, KeyAt, WithTarget, WithScene,
     Warming, Targets
<1>6. CASE Receive
  <2>1. Head(queue) \in Targets /\ queue' \in Seq(Targets)
    BY <1>6 DEF Receive, Typed, DataTyped
  <2>2. WorkerTyped'
    BY <1>6, <2>1, EmptyTyped
       DEF Receive, WorkerTyped, Workers, WorkerSteps, KeyAt, WithTarget, WithScene, Warming
  <2> QED
    BY <1>6, <2>1, <2>2 DEF Receive, Typed, DataTyped, inner
<1>7. CASE TakeLatest
  <2>1. latest' \in [Targets -> Generations] /\ worker.key \in Targets
    BY <1>2, <1>7 DEF TakeLatest, WorkerAt, KeyAt, WithTarget, Typed, DataTyped, Generations
  <2>2. WorkerTyped'
    BY <1>2, <1>7, <2>1
       DEF TakeLatest, WorkerTyped, Workers, WorkerSteps, KeyAt, WithTarget, WithScene, Warming,
           Typed, DataTyped
  <2> QED
    BY <1>7, <2>1, <2>2 DEF TakeLatest, Typed, DataTyped
<1>8. CASE Check
  <2>1. worker.key \in Targets
    BY <1>2, <1>8 DEF Check, WorkerAt, KeyAt, WithTarget, WithScene, Warming
  <2>2. source[worker.key] \in Nat
    BY <2>1 DEF Typed, DataTyped
  <2>3. WorkerTyped'
    <3>1. CASE ~HasGeneration
      BY <1>5, <1>8, <3>1 DEF Check, WorkerAt, Then, WithScene, Warming
    <3>2. CASE HasGeneration
      <4>1. /\ worker' = [worker EXCEPT !.pc = "expect", !.hash = source[worker.key]]
            /\ worker.pc = "check"
        BY <1>8, <3>2 DEF Check, WorkerAt
      <4> QED
        BY <1>2, <2>1, <2>2, <4>1
           DEF WorkerTyped, Workers, WorkerSteps, KeyAt, WithTarget, WithScene, Warming
    <3> QED
      BY <3>1, <3>2
  <2> QED
    BY <1>8, <2>3 DEF Check, Typed, DataTyped, inner
<1>9. CASE Expect
  <2>1. descriptor[worker.key] \in Descriptors
    BY <1>2, <1>9 DEF Expect, WorkerAt, KeyAt, WithScene, Warming, Typed, DataTyped
  <2>2. WorkerTyped'
    <3>1. CASE worker' = [worker EXCEPT !.pc = "finish"]
      BY <1>5, <1>9, <3>1 DEF Expect, WorkerAt, WithScene, Warming
    <3>2. CASE worker' = [worker EXCEPT !.pc = "build", !.expected = descriptor[worker.key]]
      BY <1>2, <1>9, <2>1, <3>2
         DEF Expect, WorkerAt, WorkerTyped, Workers, WorkerSteps, KeyAt, WithTarget, WithScene,
             Warming
    <3> QED
      BY <1>9, <3>1, <3>2 DEF Expect, Then
  <2> QED
    BY <1>9, <2>2 DEF Expect, Typed, DataTyped, inner
<1>10. CASE Build
  BY <1>5, <1>10 DEF Build, WorkerAt, Then, WithScene, Warming, Typed, DataTyped, inner
<1>11. CASE Publish
  <2>1. worker.key \in Scenes /\ worker.hash \in Nat /\ worker.expected \in Descriptors
    BY <1>2, <1>11 DEF Publish, WorkerAt, KeyAt, WithScene, Warming, Workers
  <2>2. descriptor' \in [Scenes -> Descriptors]
    <3> DEFINE new == [worker.expected EXCEPT !.state = IF @ = "building" THEN "partial" ELSE @,
                                              !.content = worker.hash]
    <3>1. new \in Descriptors
      BY <2>1 DEF Descriptors
    <3>2. UNCHANGED descriptor \/ descriptor' = [descriptor EXCEPT ![worker.key] = new]
      BY <1>11 DEF Publish, Warm
    <3> HIDE DEF new
    <3> QED
      BY <2>1, <3>1, <3>2 DEF Typed, DataTyped
  <2> QED
    BY <1>5, <1>11, <2>2
       DEF Publish, WorkerAt, Then, WithScene, Warming, Typed, DataTyped, inner
<1>12. CASE Failed
  <2>1. worker.key \in Scenes /\ descriptor[worker.key] \in Descriptors
    BY <1>2, <1>12 DEF Failed, WorkerAt, KeyAt, WithScene, Warming, Typed, DataTyped
  <2>2. WorkerTyped'
    <3>1. CASE worker' = [worker EXCEPT !.pc = "finish"]
      BY <1>5, <1>12, <3>1 DEF Failed, WorkerAt, WithScene, Warming
    <3>2. CASE worker' = [worker EXCEPT !.pc = "terminal", !.expected = descriptor[worker.key]]
      BY <1>2, <1>12, <2>1, <3>2
         DEF Failed, WorkerAt, WorkerTyped, Workers, WorkerSteps, KeyAt, WithTarget, WithScene,
             Warming
    <3> QED
      BY <1>12, <3>1, <3>2 DEF Failed, Then
  <2> QED
    BY <1>12, <2>2 DEF Failed, Typed, DataTyped, inner
<1>13. CASE Terminalize
  <2>1. worker.key \in Scenes /\ worker.expected \in Descriptors
    BY <1>2, <1>13 DEF Terminalize, WorkerAt, KeyAt, WithScene, Warming, Workers
  <2>2. descriptor' \in [Scenes -> Descriptors]
    BY <1>13, <2>1 DEF Terminalize, Descriptors, Typed, DataTyped
  <2> QED
    BY <1>5, <1>13, <2>2
       DEF Terminalize, WorkerAt, Then, WithScene, Warming, Typed, DataTyped, inner
<1>14. CASE Finish
  BY <1>3, <1>14 DEF Finish, Typed, DataTyped
<1>15. ASSUME NEW t \in Targets, Retry(t) PROVE DataTyped' /\ WorkerTyped'
  BY <1>2, <1>15
     DEF Retry, WorkerTyped, Workers, WorkerSteps, KeyAt, WithTarget, WithScene, Warming,
         Typed, DataTyped
<1>16. CASE NothingToRetry
  BY <1>2, <1>16
     DEF NothingToRetry, WorkerAt, Then, WorkerTyped, Workers, WorkerSteps, KeyAt, WithTarget,
         WithScene, Warming, Typed, DataTyped, inner
<1>17. CASE Resend
  <2>1. worker.key \in Targets
    BY <1>2, <1>17 DEF Resend, WorkerAt, KeyAt, WithTarget
  <2>2. queue' \in Seq(Targets)
    <3>1. UNCHANGED queue \/ queue' = Append(queue, worker.key)
      BY <1>17 DEF Resend
    <3>2. queue \in Seq(Targets) /\ Append(queue, worker.key) \in Seq(Targets)
      BY <2>1 DEF Typed, DataTyped
    <3> QED
      BY <3>1, <3>2
  <2>3. WorkerTyped'
    <3>1. CASE Len(queue) < QueueCapacity
      BY <1>3, <1>17, <3>1 DEF Resend
    <3>2. CASE ~(Len(queue) < QueueCapacity)
      BY <1>2, <1>17, <2>1, <3>2
         DEF Resend, Then, WorkerTyped, Workers, WorkerSteps, KeyAt, WithTarget, WithScene, Warming
    <3> QED
      BY <3>1, <3>2
  <2> QED
    BY <1>17, <2>2, <2>3 DEF Resend, Typed, DataTyped, inner
<1>18. CASE GiveUp
  BY <1>3, <1>4, <1>18 DEF GiveUp, Typed, DataTyped
<1>19. ASSUME NEW p \in Projects, SearchProject(p) PROVE DataTyped' /\ WorkerTyped'
  BY <1>2, <1>19
     DEF SearchProject, WorkerTyped, Workers, WorkerSteps, KeyAt, WithTarget, WithScene, Warming,
         Typed, DataTyped
<1>20. CASE NothingToSearch
  BY <1>3, <1>4, <1>20 DEF NothingToSearch, Typed, DataTyped, inner
<1>21. CASE Recover
  <2>1. worker'.found \in [Targets -> Generations] /\ worker' = [worker EXCEPT !.pc = "insert", !.found = worker'.found]
    BY <1>2, <1>21 DEF Recover, Generations, Workers, Typed, DataTyped, Descriptors
  <2>2. WorkerTyped'
    BY <1>2, <1>21, <2>1
       DEF Recover, WorkerAt, WorkerTyped, Workers, WorkerSteps, KeyAt, WithTarget, WithScene, Warming
  <2> QED
    BY <1>21, <2>2 DEF Recover, Typed, DataTyped, inner
<1>22. CASE Insert
  <2>1. worker.key \in Projects /\ worker.found \in [Targets -> Generations]
    BY <1>2, <1>22 DEF Insert, WorkerAt, KeyAt, Workers
  <2>2. latest' \in [Targets -> Generations] /\ dirty' \subseteq Projects
    BY <1>22, <2>1 DEF Insert, Typed, DataTyped
  <2> QED
    BY <1>3, <1>22, <2>2 DEF Insert, Typed, DataTyped
<1>23. CASE WarmFails
  <2>1. faults' \in Nat
    BY <1>23 DEF WarmFails, Fault, Typed, DataTyped
  <2> QED
    BY <1>5, <1>23, <2>1 DEF WarmFails, Then, WithScene, Typed, DataTyped, inner
<1> QED
  BY <1>6, <1>7, <1>8, <1>9, <1>10, <1>11, <1>12, <1>13, <1>14, <1>15, <1>16, <1>17, <1>18,
     <1>19, <1>20, <1>21, <1>22, <1>23 DEF WorkerStep

LEMMA TypesKept == Typed /\ [Next]_vars => Typed'
<1> SUFFICES ASSUME Typed, [Next]_vars PROVE Typed'
  OBVIOUS
<1>1. CASE UNCHANGED vars
  BY <1>1 DEF vars, inner, Typed, DataTyped, WritersTyped, WorkerTyped
<1> QED
  BY <1>1, BoundariesTyped, RecordsTyped, WorkerTypes DEF Next, WriterStep

(***************************************************************************)
(* Who holds what is scheduled.                                            *)
(***************************************************************************)

\* The holders of the targets do not change.
SameHolders ==
  /\ UNCHANGED <<queue, scheduled>> /\ worker'.key = worker.key
  /\ \A m \in Writers : /\ Sending(m)' = Sending(m)
                        /\ Sending(m) => job'[m].at = job[m].at

LEMMA SameHoldersKeep == ASSUME Held, SameHolders PROVE Held'
BY DEF Held, SameHolders, Sending

\* What notify_all wakes holds nothing.
LEMMA NotifyHolds ==
  ASSUME Typed, UNCHANGED job, UNCHANGED pc \/ Notify
  PROVE  \A m \in Writers : Sending(m)' = Sending(m) /\ job'[m].at = job[m].at
BY DEF Typed, WritersTyped, Notify, Awake, Sending

LEMMA BoundariesHeld ==
  ASSUME Typed, Held, NEW m \in Writers,
         \/ \E w \in Writes : Write(m, w)
         \/ BoundaryStep(m) \/ WriteFails(m)
  PROVE  Held'
<1>1. UNCHANGED <<queue, scheduled, worker>>
  BY DEF Write, BoundaryStep, WriteFails, Advance, NoBoundary, Discard, Cancel, Remove,
         RemoveFails, Undo, Undoing, BoundariesDone, AdvanceFails, inner
<1>2. ASSUME NEW u \in Writers
      PROVE  /\ Sending(u)' = Sending(u)
             /\ Sending(u) => job'[u].at = job[u].at
  <2> USE DEF Goto, Typed, WritersTyped, Sending
  <2>1. ASSUME NEW w \in Writes, Write(m, w)
        PROVE  Sending(u)' = Sending(u) /\ (Sending(u) => job'[u].at = job[u].at)
    <3>1. pc[m] = "idle" /\ pc' = [pc EXCEPT ![m] = "boundary"] /\ (u # m => job'[u] = job[u])
      BY <2>1 DEF Write
    <3> QED
      BY <3>1
  <2>2. ASSUME NEW s \in Scenes, Advance(m, s) \/ AdvanceFails(m, s)
        PROVE  Sending(u)' = Sending(u) /\ (Sending(u) => job'[u].at = job[u].at)
    BY <2>2 DEF Advance, AdvanceFails, AtTargets, Prepared
  <2>3. ASSUME NEW t \in Others, NoBoundary(m, t)
        PROVE  Sending(u)' = Sending(u) /\ (Sending(u) => job'[u].at = job[u].at)
    BY <2>3 DEF NoBoundary, AtTargets, Prepared
  <2>4. ASSUME NEW t \in Targets, Discard(m, t)
        PROVE  Sending(u)' = Sending(u) /\ (Sending(u) => job'[u].at = job[u].at)
    BY <2>4 DEF Discard
  <2>5. CASE Cancel(m) \/ Remove(m)
    BY <2>5 DEF Cancel, Awake, Remove
  <2>6. CASE RemoveFails(m) \/ Undo(m)
    BY <2>6 DEF RemoveFails, Undo, Undoing, AtTargets
  <2>7. CASE BoundariesDone(m)
    BY <2>7 DEF BoundariesDone, AtTargets
  <2> QED
    BY <2>1, <2>2, <2>3, <2>4, <2>5, <2>6, <2>7 DEF BoundaryStep, WriteFails
<1> QED
  BY <1>1, <1>2, SameHoldersKeep DEF SameHolders

LEMMA RecordsHeld == ASSUME Typed, Held, NEW m \in Writers, RecordStep(m) PROVE Held'
<1> USE DEF Goto, Recording, Recorded, inner
<1>1. ASSUME NEW t \in Targets, RecordRefused(m, t) \/ RecordProject(m, t) \/ RecordWaits(m, t)
      PROVE  Held'
  <2>1. UNCHANGED <<queue, scheduled, worker>>
    BY <1>1 DEF RecordRefused, RecordProject, RecordWaits
  <2>2. ASSUME NEW u \in Writers
        PROVE  /\ Sending(u)' = Sending(u)
               /\ Sending(u) => job'[u].at = job[u].at
    BY <1>1 DEF RecordRefused, RecordProject, RecordWaits, Notify, Awake, Typed, WritersTyped,
                Sending
  <2> QED
    BY <2>1, <2>2, SameHoldersKeep DEF SameHolders
<1>2. ASSUME NEW t \in Targets, Record(m, t) PROVE Held'
  <2>1. UNCHANGED <<queue, worker>> /\ ~Sending(m)
    BY <1>2 DEF Record, Sending
  <2>2. CASE t \in scheduled
    <3>1. ASSUME NEW u \in Writers
          PROVE  /\ Sending(u)' = Sending(u)
                 /\ Sending(u) => job'[u].at = job[u].at
      BY <1>2, <2>1, <2>2 DEF Record, Typed, WritersTyped, Sending
    <3> QED
      BY <1>2, <2>1, <2>2, <3>1, SameHoldersKeep DEF Record, SameHolders
  <2>3. CASE t \notin scheduled
    <3>1. scheduled' = scheduled \cup {t} /\ Sending(m)' /\ job'[m].at = t
      BY <1>2, <2>3 DEF Record, Typed, WritersTyped, Jobs, Sending
    <3>2. ASSUME NEW u \in Writers, u # m
          PROVE  Sending(u)' = Sending(u) /\ job'[u] = job[u]
      BY <1>2, <2>3, <3>2 DEF Record, Typed, WritersTyped, Sending
    <3>3. /\ \A i \in DOMAIN queue : queue[i] # t
          /\ \A u \in Writers : Sending(u) => job[u].at # t
          /\ worker.key # t
      BY <1>2, <2>3 DEF Held
    <3> QED
      BY <2>1, <3>1, <3>2, <3>3 DEF Held
  <2> QED
    BY <2>2, <2>3
<1>3. CASE Send(m)
  <2>1. UNCHANGED <<scheduled, worker>> /\ Sending(m) /\ job[m].at \in Targets
    BY <1>3 DEF Send, Sending, Typed, WritersTyped, JobAt
  <2>2. CASE Len(queue) < QueueCapacity
    <3> DEFINE t == job[m].at
    <3>1. queue' = Append(queue, t) /\ ~Sending(m)'
      BY <1>3, <2>2 DEF Send, Typed, WritersTyped, Sending
    <3>2. ASSUME NEW u \in Writers, u # m
          PROVE  Sending(u)' = Sending(u) /\ job'[u] = job[u]
      BY <1>3, <2>2, <3>2 DEF Send, Typed, WritersTyped, Sending
    <3>3. /\ DOMAIN queue' = DOMAIN queue \cup {Len(queue) + 1}
          /\ \A i \in DOMAIN queue : queue'[i] = queue[i]
          /\ queue'[Len(queue) + 1] = t
      BY <2>1, <3>1 DEF Typed, DataTyped
    <3>4. /\ \A i \in DOMAIN queue : queue[i] # t
          /\ \A u \in Writers : Sending(u) /\ u # m => job[u].at # t
          /\ worker.key # t
      BY <2>1 DEF Held
    <3> HIDE DEF t
    <3>5. \A i, j \in DOMAIN queue' : queue'[i] = queue'[j] => i = j
      BY <3>3, <3>4 DEF Held
    <3>6. \A i \in DOMAIN queue', u \in Writers : Sending(u)' => queue'[i] # job'[u].at
      BY <3>1, <3>2, <3>3, <3>4 DEF Held
    <3>7. \A i \in DOMAIN queue' : queue'[i] # worker'.key
      BY <2>1, <3>3, <3>4 DEF Held
    <3>8. ASSUME NEW r \in Targets
          PROVE  r \in scheduled' <=>
                   \/ \E i \in DOMAIN queue' : queue'[i] = r
                   \/ \E u \in Writers : Sending(u)' /\ job'[u].at = r
                   \/ worker'.key = r
      BY <2>1, <3>1, <3>2, <3>3 DEF Held, t
    <3> QED
      BY <2>1, <3>1, <3>2, <3>5, <3>6, <3>7, <3>8 DEF Held
  <2>3. CASE ~(Len(queue) < QueueCapacity)
    <3>1. ASSUME NEW u \in Writers
          PROVE  Sending(u)' = Sending(u) /\ job'[u] = job[u]
      BY <1>3, <2>3 DEF Send, Typed, WritersTyped, Sending
    <3> QED
      BY <1>3, <2>1, <2>3, <3>1, SameHoldersKeep DEF Send, SameHolders
  <2> QED
    BY <2>2, <2>3
<1>4. CASE Unschedule(m)
  <2>1. /\ UNCHANGED <<queue, worker>> /\ Sending(m) /\ ~Sending(m)'
        /\ scheduled' = scheduled \ {job[m].at}
    BY <1>4 DEF Unschedule, Typed, WritersTyped, Sending
  <2>2. ASSUME NEW u \in Writers, u # m
        PROVE  Sending(u)' = Sending(u) /\ job'[u] = job[u]
    BY <1>4, <2>2 DEF Unschedule, Typed, WritersTyped, Sending
  <2> QED
    BY <2>1, <2>2 DEF Held
<1>5. CASE RecordsDone(m)
  <2>1. UNCHANGED <<queue, scheduled, worker>>
    BY <1>5 DEF RecordsDone
  <2>2. ASSUME NEW u \in Writers
        PROVE  /\ Sending(u)' = Sending(u)
               /\ Sending(u) => job'[u].at = job[u].at
    BY <1>5 DEF RecordsDone, Typed, WritersTyped, Sending
  <2> QED
    BY <2>1, <2>2, SameHoldersKeep DEF SameHolders
<1> QED
  BY <1>1, <1>2, <1>3, <1>4, <1>5 DEF RecordStep

LEMMA WorkerHeld == ASSUME Typed, Held, WorkerStep \/ WarmFails PROVE Held'
<1> USE DEF inner, Then, WorkerAt
<1>1. \A m \in Writers : Sending(m)' = Sending(m) /\ job'[m].at = job[m].at
  BY NotifyHolds
     DEF WorkerStep, WarmFails, Receive, TakeLatest, Check, Expect, Build, Publish,
         Failed, Terminalize, Finish, Retry, NothingToRetry, Resend, GiveUp, SearchProject,
         NothingToSearch, Recover, Insert
<1>2. worker \in Workers /\ KeyAt(worker.pc, worker.key) /\ queue \in Seq(Targets)
  BY DEF Typed, WorkerTyped, DataTyped
<1>3. \A r \in Targets : r \notin Projects /\ r # None
  BY WarmAssumption
<1>4. CASE Receive
  <2>1. /\ queue # <<>> /\ worker'.key = Head(queue) /\ queue' = Tail(queue)
        /\ UNCHANGED scheduled /\ worker.key = None
    BY <1>2, <1>4 DEF Receive, Idle, KeyAt
  <2>2. /\ Len(queue') = Len(queue) - 1 /\ DOMAIN queue' = 1 .. Len(queue) - 1
        /\ Len(queue) \in Nat \ {0} /\ DOMAIN queue = 1 .. Len(queue)
        /\ \A i \in DOMAIN queue' : queue'[i] = queue[i + 1]
        /\ worker'.key = queue[1]
    BY <1>2, <2>1
  <2>3. \A r : (\E i \in DOMAIN queue : queue[i] = r) <=>
                  (worker'.key = r \/ \E i \in DOMAIN queue' : queue'[i] = r)
    <3>1. ASSUME NEW i \in DOMAIN queue
          PROVE  queue[i] = worker'.key \/ \E j \in DOMAIN queue' : queue'[j] = queue[i]
      <4>1. CASE i = 1
        BY <2>2, <4>1
      <4>2. CASE i # 1
        <5>1. i - 1 \in DOMAIN queue' /\ queue'[i - 1] = queue[i]
          BY <2>2, <4>2
        <5> QED
          BY <5>1
      <4> QED
        BY <4>1, <4>2
    <3> QED
      BY <2>2, <3>1
  <2>4. \A i \in DOMAIN queue' : i + 1 \in DOMAIN queue /\ i + 1 # 1
    BY <2>2
  <2>5. \A i, j \in DOMAIN queue' : queue'[i] = queue'[j] => i = j
    BY <2>2, <2>4 DEF Held
  <2>6. \A i \in DOMAIN queue' : queue'[i] # worker'.key
    BY <2>2, <2>4 DEF Held
  <2>7. /\ \A i \in DOMAIN queue', m \in Writers : Sending(m)' => queue'[i] # job'[m].at
        /\ \A m \in Writers : Sending(m)' => job'[m].at # worker'.key
    BY <1>1, <2>2, <2>4 DEF Held
  <2>8. \A r \in Targets : worker.key # r
    BY <1>3, <2>1
  <2>9. ASSUME NEW r \in Targets
        PROVE  r \in scheduled' <=>
                   \/ \E i \in DOMAIN queue' : queue'[i] = r
                   \/ \E u \in Writers : Sending(u)' /\ job'[u].at = r
                   \/ worker'.key = r
    <3>1. r \in scheduled <=> \/ \E i \in DOMAIN queue : queue[i] = r
                              \/ \E u \in Writers : Sending(u) /\ job[u].at = r
      BY <2>8 DEF Held
    <3> QED
      BY <1>1, <2>1, <2>3, <3>1
  <2> QED
    BY <1>1, <2>5, <2>6, <2>7, <2>9 DEF Held
<1>5. CASE TakeLatest \/ Check \/ Expect \/ Build \/ Publish \/ Failed \/ Terminalize \/ WarmFails
  <2>1. UNCHANGED <<queue, scheduled>> /\ worker'.key = worker.key
    BY <1>2, <1>5
       DEF TakeLatest, Check, Expect, Build, Publish, Failed, Terminalize, WarmFails, Workers
  <2> QED
    BY <1>1, <2>1, SameHoldersKeep DEF SameHolders
<1>6. CASE Finish \/ GiveUp
  <2>1. /\ UNCHANGED queue /\ scheduled' = scheduled \ {worker.key} /\ worker'.key = None
    BY <1>6 DEF Finish, GiveUp, Idle
  <2>2. \A i \in DOMAIN queue : queue[i] \in Targets
    BY <1>2
  <2>3. \A m \in Writers : Sending(m) => job[m].at \in Targets
    BY DEF Typed, WritersTyped, JobAt, Sending
  <2> QED
    BY <1>1, <1>3, <2>1, <2>2, <2>3 DEF Held
<1>7. ASSUME NEW t \in Targets, Retry(t) PROVE Held'
  <2>1. /\ UNCHANGED queue /\ scheduled' = scheduled \cup {t} /\ worker'.key = t
        /\ t \notin scheduled /\ worker.key = None
    BY <1>2, <1>7 DEF Retry, First, Unscheduled, Workers, KeyAt
  <2> QED
    BY <1>1, <1>3, <2>1 DEF Held
<1>8. CASE Resend
  <2>1. worker.key \in Targets /\ UNCHANGED scheduled
    BY <1>2, <1>8 DEF Resend, KeyAt, WithTarget
  <2>2. CASE ~(Len(queue) < QueueCapacity)
    <3>1. UNCHANGED queue /\ worker'.key = worker.key
      BY <1>2, <1>8, <2>2 DEF Resend, Workers
    <3> QED
      BY <1>1, <2>1, <3>1, SameHoldersKeep DEF SameHolders
  <2>3. CASE Len(queue) < QueueCapacity
    <3> DEFINE t == worker.key
    <3>1. queue' = Append(queue, t) /\ worker'.key = None
      BY <1>8, <2>3 DEF Resend, Idle
    <3>2. /\ DOMAIN queue' = DOMAIN queue \cup {Len(queue) + 1}
          /\ \A i \in DOMAIN queue : queue'[i] = queue[i]
          /\ queue'[Len(queue) + 1] = t
      BY <1>2, <2>1, <3>1
    <3>3. /\ \A i \in DOMAIN queue : queue[i] # t
          /\ \A u \in Writers : Sending(u) => job[u].at # t
      BY DEF Held
    <3>4. \A i \in DOMAIN queue' : queue'[i] \in Targets
      BY <1>2, <2>1, <3>2
    <3>5. \A m \in Writers : Sending(m) => job[m].at \in Targets
      BY DEF Typed, WritersTyped, JobAt, Sending
    <3> HIDE DEF t
    <3>6. \A i, j \in DOMAIN queue' : queue'[i] = queue'[j] => i = j
      BY <3>2, <3>3 DEF Held
    <3>7. \A i \in DOMAIN queue', u \in Writers : Sending(u)' => queue'[i] # job'[u].at
      BY <1>1, <3>2, <3>3 DEF Held
    <3>8. ASSUME NEW r \in Targets
          PROVE  r \in scheduled' <=>
                   \/ \E i \in DOMAIN queue' : queue'[i] = r
                   \/ \E u \in Writers : Sending(u)' /\ job'[u].at = r
                   \/ worker'.key = r
      BY <1>1, <1>3, <2>1, <3>1, <3>2 DEF Held, t
    <3> QED
      BY <1>1, <1>3, <3>1, <3>4, <3>5, <3>6, <3>7, <3>8 DEF Held
  <2> QED
    BY <2>2, <2>3
<1>9. ASSUME \/ NothingToRetry \/ \E p \in Projects : SearchProject(p)
             \/ NothingToSearch \/ Recover \/ Insert
      PROVE  Held'
  <2>1. UNCHANGED <<queue, scheduled>> /\ worker.key \notin Targets /\ worker'.key \notin Targets
    <3>1. CASE NothingToRetry \/ NothingToSearch
      BY <1>2, <1>3, <3>1 DEF NothingToRetry, NothingToSearch, KeyAt, Workers, Idle
    <3>2. ASSUME NEW p \in Projects, SearchProject(p)
          PROVE  /\ UNCHANGED <<queue, scheduled>>
                 /\ worker.key \notin Targets /\ worker'.key \notin Targets
      BY <1>2, <1>3, <3>2 DEF SearchProject, KeyAt, Workers
    <3>3. CASE Recover
      BY <1>2, <1>3, <3>3 DEF Recover, KeyAt, Workers
    <3>4. CASE Insert
      BY <1>2, <1>3, <3>4 DEF Insert, KeyAt, Idle
    <3> QED
      BY <1>9, <3>1, <3>2, <3>3, <3>4
  <2>2. \A i \in DOMAIN queue : queue[i] \in Targets
    BY <1>2
  <2>3. \A m \in Writers : Sending(m) => job[m].at \in Targets
    BY DEF Typed, WritersTyped, JobAt, Sending
  <2> QED
    BY <1>1, <2>1, <2>2, <2>3 DEF Held
<1> QED
  BY <1>4, <1>5, <1>6, <1>7, <1>8, <1>9 DEF WorkerStep

LEMMA HeldKept == Typed /\ Held /\ [Next]_vars => Held'
<1> SUFFICES ASSUME Typed, Held, [Next]_vars PROVE Held'
  OBVIOUS
<1>1. CASE UNCHANGED vars
  BY <1>1 DEF vars, inner, Held, Sending
<1> QED
  BY <1>1, BoundariesHeld, RecordsHeld, WorkerHeld DEF Next, WriterStep

(***************************************************************************)
(* What is usable is current.                                              *)
(***************************************************************************)

LEMMA UsableExcused ==
  UsableIsCurrent <=>
    \A s \in Scenes :
      descriptor[s].state = "partial" /\ descriptor[s].content # source[s] => Excused(s)
BY DEF UsableIsCurrent, Excused

\* What a writer may do to a Scene: change it if that is excused, or advance its
\* descriptor, or take it away while the worker does not hold it.
LEMMA WriterFresh ==
  ASSUME Typed, Fresh, UNCHANGED worker,
         \A s \in Scenes :
           \/ /\ descriptor'[s] = descriptor[s]
              /\ source'[s] = source[s] \/ Excused(s)'
              /\ Excused(s) => Excused(s)'
           \/ /\ descriptor'[s].state # "partial"
              /\ \/ descriptor'[s].generation = descriptor[s].generation + 1
                 \/ ~LifecycleLocked(s)
  PROVE  Fresh'
<1>1. UsableIsCurrent'
  <2>1. \A s \in Scenes :
          descriptor'[s].state = "partial" /\ descriptor'[s].content # source'[s] => Excused(s)'
    BY UsableExcused DEF Fresh
  <2> QED
    BY <2>1 DEF UsableIsCurrent, Excused
<1>2. ASSUME worker.pc \in {"build", "publish"}
      PROVE  /\ worker.key \in Scenes /\ LifecycleLocked(worker.key)
             /\ worker.expected.generation \in Nat
             /\ descriptor[worker.key].generation \in Nat
  BY <1>2 DEF Typed, WorkerTyped, DataTyped, KeyAt, WithScene, Warming, LifecycleLocked,
              Workers, Descriptors
<1>3. worker'.pc \in {"build", "publish"} =>
        worker'.expected.generation <= descriptor'[worker'.key].generation
  BY <1>2 DEF Fresh
<1>4. worker'.pc = "publish" =>
        \/ worker'.hash = source'[worker'.key] \/ Excused(worker.key)'
        \/ descriptor'[worker'.key] # worker'.expected
  <2> SUFFICES ASSUME worker.pc = "publish"
               PROVE  \/ worker.hash = source'[worker.key] \/ Excused(worker.key)'
                      \/ descriptor'[worker.key] # worker.expected
    OBVIOUS
  <2>1. CASE descriptor'[worker.key].generation = descriptor[worker.key].generation + 1
    BY <1>2, <2>1 DEF Fresh
  <2>2. CASE /\ descriptor'[worker.key] = descriptor[worker.key]
             /\ source'[worker.key] = source[worker.key] \/ Excused(worker.key)'
             /\ Excused(worker.key) => Excused(worker.key)'
    BY <2>2 DEF Fresh
  <2> QED
    BY <1>2, <2>1, <2>2
<1> QED
  BY <1>1, <1>3, <1>4 DEF Fresh

LEMMA BoundariesFresh ==
  ASSUME Typed, Fresh, NEW m \in Writers,
         \/ \E w \in Writes : Write(m, w)
         \/ BoundaryStep(m) \/ WriteFails(m)
  PROVE  Fresh'
<1> USE DEF Goto, inner
<1>1. UNCHANGED worker
  BY DEF Write, BoundaryStep, WriteFails, Advance, NoBoundary, Discard, Cancel, Remove,
         RemoveFails, Undo, Undoing, BoundariesDone, AdvanceFails
<1>2. /\ pc \in [Writers -> WriterSteps] /\ job \in [Writers -> Jobs]
      /\ job[m] \in Jobs /\ JobAt(pc[m], job[m])
      /\ \A s \in Scenes : s \in Targets /\ s \notin Others
  BY WarmAssumption DEF Typed, WritersTyped, Targets
<1> DEFINE Allowed(s) ==
             \/ /\ descriptor'[s] = descriptor[s]
                /\ source'[s] = source[s] \/ Excused(s)'
                /\ Excused(s) => Excused(s)'
             \/ /\ descriptor'[s].state # "partial"
                /\ \/ descriptor'[s].generation = descriptor[s].generation + 1
                   \/ ~LifecycleLocked(s)
<1> SUFFICES ASSUME NEW s \in Scenes PROVE Allowed(s)
  BY <1>1, WriterFresh
<1> DEFINE Due(u) == job[u].gone \cup job[u].todo
<1>3. ASSUME NEW w \in Writes, Write(m, w) PROVE Allowed(s)
  <2> DEFINE j == [NoJob EXCEPT !.gone = w.gone, !.todo = w.todo, !.undo = w.undo]
  <2>1. /\ s \in w.gone \cup w.todo \/ source'[s] = source[s]
        /\ pc[m] = "idle" /\ pc' = [pc EXCEPT ![m] = "boundary"]
        /\ job' = [job EXCEPT ![m] = j]
        /\ UNCHANGED <<descriptor, exposed>>
    BY <1>2, <1>3 DEF Write, Typed, DataTyped
  <2>2. j.gone = w.gone /\ j.todo = w.todo /\ job[m].gone = {} /\ job[m].todo = {}
    BY <1>2, <2>1 DEF NoJob, JobAt, AtBoundary
  <2> HIDE DEF j
  <2>3. source'[s] = source[s] \/ Excused(s)'
    BY <1>2, <2>1, <2>2 DEF Excused
  <2>4. Excused(s) => Excused(s)'
    BY <1>2, <2>1, <2>2 DEF Excused
  <2> QED
    BY <2>1, <2>3, <2>4
<1>4. ASSUME NEW r \in Scenes, Advance(m, r) PROVE Allowed(s)
  <2>1. CASE s = r
    BY <1>4, <2>1 DEF Advance, Typed, DataTyped
  <2>2. CASE s # r
    <3>1. UNCHANGED <<source, pc>> /\ exposed' = exposed \ {r} /\ descriptor'[s] = descriptor[s]
      BY <1>4, <2>2 DEF Advance, Typed, DataTyped
    <3>2. \A u \in Writers : job'[u].at = job[u].at /\ (s \in Due(u) => s \in Due(u)')
      BY <1>2, <1>4, <2>2 DEF Advance, Prepared, Jobs
    <3> QED
      BY <2>2, <3>1, <3>2 DEF Excused
  <2> QED
    BY <2>1, <2>2
<1>5. ASSUME NEW t \in Others, NoBoundary(m, t) PROVE Allowed(s)
  <2>1. UNCHANGED <<source, pc, exposed, descriptor>>
    BY <1>5 DEF NoBoundary
  <2>2. \A u \in Writers : job'[u].at = job[u].at /\ (s \in Due(u) => s \in Due(u)')
    BY <1>2, <1>5 DEF NoBoundary, Prepared, Jobs
  <2> QED
    BY <2>1, <2>2 DEF Excused
<1>6. CASE Cancel(m)
  BY <1>2, <1>6 DEF Cancel, Awake, Excused
<1>7. CASE Remove(m)
  <2>1. CASE s = job[m].at
    BY <1>7, <2>1 DEF Remove, Absent, Typed, DataTyped
  <2>2. CASE s # job[m].at
    BY <1>2, <1>7, <2>2 DEF Remove, Excused, Typed, DataTyped
  <2> QED
    BY <2>1, <2>2
<1>8. ASSUME job' = [job EXCEPT ![m] = [NoJob EXCEPT !.gone = job[m].undo]], job[m].undo # {}
      PROVE  (\A u \in Writers \ {m} : job'[u] = job[u]) /\ (s \in Due(m) => s \in Due(m)')
  <2>1. s \in Due(m) => s \in job[m].undo
    BY <1>2, <1>8 DEF JobAt
  <2> QED
    BY <1>2, <1>8, <2>1 DEF NoJob
<1>9. CASE RemoveFails(m)
  <2>1. /\ UNCHANGED <<source, descriptor>> /\ exposed' = exposed \cup ({job[m].at} \cap Scenes)
        /\ pc' = [pc EXCEPT ![m] = "boundary"] /\ pc[m] = "remove"
    BY <1>9 DEF RemoveFails
  <2>2. (\A u \in Writers \ {m} : job'[u] = job[u]) /\ (s \in Due(m) => s \in Due(m)')
    <3>1. CASE UNCHANGED job
      BY <3>1
    <3>2. CASE job' = [job EXCEPT ![m].failed = TRUE]
      BY <1>2, <3>2 DEF Jobs
    <3>3. CASE job[m].undo # {} /\ Undoing(m)
      BY <1>8, <3>3 DEF Undoing
    <3> QED
      BY <1>9, <3>1, <3>2, <3>3 DEF RemoveFails
  <2> QED
    BY <1>2, <2>1, <2>2 DEF Excused
<1>11. CASE Undo(m)
  <2>1. UNCHANGED <<source, descriptor, exposed, pc>> /\ pc[m] = "boundary"
    BY <1>11 DEF Undo, AtTargets
  <2>2. Due(m) = {} /\ \A u \in Writers \ {m} : job'[u] = job[u]
    BY <1>2, <1>11 DEF Undo, Undoing, AtTargets
  <2> QED
    BY <1>2, <2>1, <2>2 DEF Excused
<1>12. CASE BoundariesDone(m)
  BY <1>2, <1>12 DEF BoundariesDone, AtTargets, Excused
<1>13. ASSUME NEW t \in Targets, Discard(m, t) PROVE Allowed(s)
  <2>1. /\ UNCHANGED <<source, exposed, descriptor>> /\ pc[m] = "boundary"
        /\ pc' = [pc EXCEPT ![m] = "cancel"]
    BY <1>13 DEF Discard
  <2>2. /\ job'[m].at = t /\ Due(m)' = (job[m].gone \ {t}) \cup job[m].todo
        /\ \A u \in Writers \ {m} : job'[u] = job[u]
    BY <1>2, <1>13 DEF Discard, Jobs
  <2>3. Excused(s) => Excused(s)'
    BY <1>2, <2>1, <2>2 DEF Excused
  <2> QED
    BY <2>1, <2>3
<1>10. ASSUME NEW r \in Scenes, AdvanceFails(m, r) PROVE Allowed(s)
  <2>1. /\ UNCHANGED <<source, exposed, descriptor>> /\ pc[m] = "boundary"
        /\ pc' = [pc EXCEPT ![m] = "cancel"]
    BY <1>10 DEF AdvanceFails, AtTargets
  <2>2. /\ job'[m].at = r /\ Due(m)' = job[m].gone \cup (job[m].todo \ {r})
        /\ \A u \in Writers \ {m} : job'[u] = job[u]
    BY <1>2, <1>10 DEF AdvanceFails, Jobs
  <2>3. Excused(s) => Excused(s)'
    BY <1>2, <2>1, <2>2 DEF Excused
  <2> QED
    BY <2>1, <2>3
<1> QED
  BY <1>3, <1>4, <1>5, <1>6, <1>7, <1>9, <1>10, <1>11, <1>12, <1>13
     DEF BoundaryStep, WriteFails

LEMMA RecordsFresh == ASSUME Typed, Fresh, NEW m \in Writers, RecordStep(m) PROVE Fresh'
<1>1. UNCHANGED <<source, descriptor, worker, exposed>>
  BY DEF RecordStep, RecordRefused, RecordProject, RecordWaits, Record, Send, Unschedule,
         RecordsDone
<1>2. job[m].gone = {} /\ job[m].todo = {} /\ pc[m] \notin AtBoundary
  BY DEF RecordStep, RecordRefused, RecordProject, RecordWaits, Record, Send, Unschedule,
         RecordsDone, Recording, Typed, WritersTyped, JobAt, AtBoundary
<1>3. \A u \in Writers \ {m} : job'[u] = job[u] /\ pc'[u] \in {pc[u], Awake(u)}
  BY DEF RecordStep, RecordRefused, RecordProject, RecordWaits, Record, Send, Unschedule,
         RecordsDone, Recorded, Goto, Notify, Typed, WritersTyped
<1>4. \A s \in Scenes : Excused(s) => Excused(s)'
  BY <1>1, <1>2, <1>3 DEF Excused, Awake, AtBoundary
<1> QED
  BY <1>1, <1>4, WriterFresh

LEMMA WorkerFresh == ASSUME Typed, Fresh, WorkerStep \/ WarmFails PROVE Fresh'
<1> USE DEF inner, WorkerAt, Then
<1>1. UNCHANGED <<source, job, exposed>> /\ (UNCHANGED pc \/ Notify)
  BY DEF WorkerStep, WarmFails, Receive, TakeLatest, Check, Expect, Build, Publish,
         Failed, Terminalize, Finish, Retry, NothingToRetry, Resend, GiveUp, SearchProject,
         NothingToSearch, Recover, Insert
<1>2. \A s : Excused(s)' <=> Excused(s)
  BY <1>1 DEF Typed, WritersTyped, Notify, Awake, Excused
<1>3. worker \in Workers /\ KeyAt(worker.pc, worker.key) /\ descriptor \in [Scenes -> Descriptors]
  BY DEF Typed, WorkerTyped, DataTyped
<1>4. ASSUME UNCHANGED descriptor PROVE UsableIsCurrent'
  <2>1. \A s \in Scenes :
          descriptor'[s].state = "partial" /\ descriptor'[s].content # source'[s] => Excused(s)'
    BY <1>1, <1>2, <1>4, UsableExcused DEF Fresh
  <2> QED
    BY <2>1 DEF UsableIsCurrent, Excused
<1>5. ASSUME UNCHANGED descriptor, worker'.pc \notin {"build", "publish"} PROVE Fresh'
  BY <1>4, <1>5 DEF Fresh
<1>6. CASE Expect
  <2>1. CASE worker' = [worker EXCEPT !.pc = "build", !.expected = descriptor[worker.key]]
    <3>1. worker.key \in Scenes
      BY <1>3, <1>6 DEF Expect, KeyAt, WithScene, Warming
    <3>2. descriptor[worker.key].generation \in Nat
      BY <1>3, <3>1 DEF Descriptors
    <3>3. /\ worker'.pc = "build" /\ worker'.key = worker.key
          /\ worker'.expected = descriptor[worker.key] /\ UNCHANGED descriptor
      BY <1>3, <1>6, <2>1 DEF Expect, Workers
    <3> QED
      BY <1>4, <3>2, <3>3 DEF Fresh
  <2>2. CASE worker' = [worker EXCEPT !.pc = "finish"]
    BY <1>3, <1>5, <1>6, <2>2 DEF Expect, Workers
  <2> QED
    BY <1>6, <2>1, <2>2 DEF Expect
<1>7. CASE Build
  <2>1. /\ worker.pc = "build" /\ UNCHANGED descriptor
        /\ worker' = [worker EXCEPT !.pc = IF source[worker.key] = worker.hash
                                           THEN "publish" ELSE "failed"]
    BY <1>7 DEF Build
  <2>2. /\ worker'.key = worker.key /\ worker'.expected = worker.expected
        /\ worker'.hash = worker.hash
        /\ worker'.pc = "publish" => source[worker.key] = worker.hash
    BY <1>3, <2>1 DEF Workers
  <2> QED
    BY <1>1, <1>4, <2>1, <2>2 DEF Fresh
<1>8. CASE Publish
  <2>1. worker'.pc = "finish" /\ worker.pc = "publish" /\ worker.key \in Scenes
    BY <1>3, <1>8 DEF Publish, Workers, KeyAt, WithScene, Warming
  <2>2. CASE UNCHANGED descriptor
    BY <1>5, <2>1, <2>2
  <2>3. CASE descriptor[worker.key] = worker.expected /\ Warm(worker.key)
    <3>1. descriptor'[worker.key].content = worker.hash
      BY <1>3, <2>1, <2>3 DEF Warm, Workers, Descriptors
    <3>2. \A s \in Scenes \ {worker.key} : descriptor'[s] = descriptor[s]
      BY <1>3, <2>3 DEF Warm
    <3>3. worker.hash = source[worker.key] \/ Excused(worker.key)
      BY <2>1, <2>3 DEF Fresh
    <3>4. \A s \in Scenes :
            descriptor'[s].state = "partial" /\ descriptor'[s].content # source'[s] => Excused(s)'
      BY <1>1, <1>2, <3>1, <3>2, <3>3, UsableExcused DEF Fresh
    <3> QED
      BY <2>1, <3>4 DEF Fresh, UsableIsCurrent, Excused
  <2> QED
    BY <1>8, <2>2, <2>3 DEF Publish
<1>9. CASE Terminalize
  <2>1. /\ worker'.pc = "finish" /\ worker.key \in Scenes
        /\ descriptor' = [descriptor EXCEPT ![worker.key] =
                            [worker.expected EXCEPT !.state = "fallback"]]
    BY <1>3, <1>9 DEF Terminalize, Workers, KeyAt, WithScene
  <2>2. /\ descriptor'[worker.key].state = "fallback"
        /\ \A s \in Scenes \ {worker.key} : descriptor'[s] = descriptor[s]
    BY <1>3, <2>1 DEF Workers, Descriptors
  <2>3. \A s \in Scenes :
          descriptor'[s].state = "partial" /\ descriptor'[s].content # source'[s] => Excused(s)'
    BY <1>1, <1>2, <2>2, UsableExcused DEF Fresh
  <2> QED
    BY <2>1, <2>3 DEF Fresh, UsableIsCurrent, Excused
<1>10. CASE Receive \/ TakeLatest \/ Check \/ Failed \/ Finish \/ WarmFails
  BY <1>3, <1>5, <1>10
     DEF Receive, TakeLatest, Check, Failed, Finish, WarmFails, Workers, Idle
<1>11. CASE NothingToRetry \/ Resend \/ GiveUp \/ NothingToSearch \/ Recover \/ Insert
  <2>1. CASE NothingToRetry \/ GiveUp \/ NothingToSearch \/ Recover
    <3>1. UNCHANGED descriptor
      BY <2>1 DEF NothingToRetry, GiveUp, NothingToSearch, Recover
    <3>2. worker'.pc \in {"overflow", "idle", "insert"}
      <4>1. Recover => worker'.pc = "insert"
        BY <1>3 DEF Recover, Workers
      <4>2. NothingToRetry => worker'.pc = "overflow"
        BY <1>3 DEF NothingToRetry, Workers
      <4>3. GiveUp \/ NothingToSearch => worker'.pc = "idle"
        BY DEF GiveUp, NothingToSearch, Idle
      <4> QED
        BY <2>1, <4>1, <4>2, <4>3
    <3> QED
      BY <1>5, <3>1, <3>2
  <2>2. CASE Resend
    BY <1>3, <1>5, <2>2 DEF Resend, Workers, Idle
  <2>3. CASE Insert
    <3>1. UNCHANGED descriptor /\ worker'.pc = "retry"
      BY <2>3 DEF Insert, Idle
    <3> QED
      BY <1>5, <3>1
  <2> QED
    BY <1>11, <2>1, <2>2, <2>3
<1>12. ASSUME \/ \E t \in Targets : Retry(t)
              \/ \E p \in Projects : SearchProject(p)
       PROVE  Fresh'
  BY <1>3, <1>5, <1>12 DEF Retry, SearchProject, Workers
<1> QED
  BY <1>6, <1>7, <1>8, <1>9, <1>10, <1>11, <1>12 DEF WorkerStep

LEMMA FreshStart == Init => Fresh
BY WarmAssumption DEF Init, Fresh, UsableIsCurrent, Idle, Targets

LEMMA FreshKept == Typed /\ Fresh /\ [Next]_vars => Fresh'
<1> SUFFICES ASSUME Typed, Fresh, [Next]_vars PROVE Fresh'
  OBVIOUS
<1>1. CASE UNCHANGED vars
  BY <1>1 DEF vars, inner, Fresh, UsableIsCurrent, Excused
<1> QED
  BY <1>1, BoundariesFresh, RecordsFresh, WorkerFresh DEF Next, WriterStep

(***************************************************************************)
(* Room in the map.                                                        *)
(***************************************************************************)

LEMMA Smaller ==
  ASSUME NEW S \in SUBSET Targets, NEW T \in SUBSET S
  PROVE  /\ IsFiniteSet(S) /\ IsFiniteSet(T)
         /\ Cardinality(S) \in Nat /\ Cardinality(T) \in Nat
         /\ Cardinality(T) <= Cardinality(S)
<1>1. IsFiniteSet(S) /\ IsFiniteSet(T)
  BY WarmAssumption, FS_Subset
<1> QED
  BY <1>1, FS_Subset, FS_CardinalityType

LEMMA FullStays == ASSUME Full, Retained \subseteq Retained' PROVE Full'
<1>1. Retained' \subseteq Targets
  BY DEF Retained
<1>2. Cardinality(Retained) \in Nat /\ Cardinality(Retained') \in Nat
      /\ Cardinality(Retained) <= Cardinality(Retained')
  BY <1>1, Smaller
<1> QED
  BY <1>2, WarmAssumption DEF Full

\* What a writer's step leaves of the room, whatever it does to its own job.
LEMMA WriterRoomy ==
  ASSUME Typed, Roomy, UNCHANGED worker, scheduled' \subseteq Targets,
         \A u \in Writers : pc'[u] = "waiting" => Full',
         queue # <<>> => queue' # <<>>,
         queue' = <<>> /\ ~SomeoneSends' =>
           ~SomeoneSends /\ Retained' \cup scheduled' \subseteq Retained \cup scheduled
  PROVE  Roomy'
<1>1. ASSUME worker.pc \in {"idle", "overflow"}, queue' = <<>>, ~SomeoneSends'
      PROVE  Cardinality(Retained' \cup scheduled') <= Cardinality(Writers)
  <2>1. Cardinality(Retained \cup scheduled) <= Cardinality(Writers)
    BY <1>1 DEF Roomy
  <2>2. Retained \cup scheduled \subseteq Targets
    BY DEF Retained, Typed, DataTyped
  <2>3. /\ Cardinality(Retained \cup scheduled) \in Nat
        /\ Cardinality(Retained' \cup scheduled') \in Nat
        /\ Cardinality(Retained' \cup scheduled') <= Cardinality(Retained \cup scheduled)
    BY <1>1, <2>2, Smaller
  <2>4. Cardinality(Writers) \in Nat
    BY WarmAssumption, FS_CardinalityType
  <2> QED
    BY <2>1, <2>3, <2>4
<1> QED
  BY <1>1 DEF Roomy

LEMMA BoundariesRoomy ==
  ASSUME Typed, Roomy, NEW m \in Writers,
         \/ \E w \in Writes : Write(m, w)
         \/ BoundaryStep(m) \/ WriteFails(m)
  PROVE  Roomy'
<1> USE DEF Goto, inner
<1>1. UNCHANGED <<worker, scheduled, queue>>
  BY DEF Write, BoundaryStep, WriteFails, Advance, NoBoundary, Discard, Cancel, Remove,
         RemoveFails, Undo, Undoing, BoundariesDone, AdvanceFails
<1>2. pc \in [Writers -> WriterSteps] /\ scheduled \subseteq Targets
  BY DEF Typed, WritersTyped, DataTyped
<1>3. CASE Cancel(m)
  <2>1. pc[m] = "cancel" /\ \A u \in Writers : pc'[u] = IF u = m THEN "remove" ELSE Awake(u)
    BY <1>2, <1>3 DEF Cancel
  <2>2. Retained' \subseteq Retained
    BY <1>3 DEF Cancel, Retained, Typed, DataTyped
  <2>3. (\A u \in Writers : pc'[u] # "waiting") /\ (SomeoneSends => SomeoneSends')
    BY <2>1 DEF Awake, SomeoneSends
  <2> QED
    BY <1>1, <1>2, <2>2, <2>3, WriterRoomy
<1>4. CASE UNCHANGED latest /\ \E step \in WriterSteps \ {"waiting"} :
                                 pc' = [pc EXCEPT ![m] = step] /\ pc[m] # "send"
  <2>1. Retained' = Retained /\ (SomeoneSends => SomeoneSends')
    BY <1>2, <1>4 DEF Retained, SomeoneSends
  <2>2. \A u \in Writers : pc'[u] = "waiting" => Full'
    BY <1>2, <1>4, <2>1 DEF Roomy, Full
  <2> QED
    BY <1>1, <1>2, <2>1, <2>2, WriterRoomy
<1>5. ~Cancel(m) => UNCHANGED latest /\ \E step \in WriterSteps \ {"waiting"} :
                                          pc' = [pc EXCEPT ![m] = step] /\ pc[m] # "send"
  <2>1. ASSUME NEW w \in Writes, Write(m, w)
        PROVE  UNCHANGED latest /\ pc' = [pc EXCEPT ![m] = "boundary"] /\ pc[m] # "send"
    BY <2>1 DEF Write
  <2>2. ASSUME \/ \E s \in Scenes : Advance(m, s)
               \/ \E t \in Others : NoBoundary(m, t)
        PROVE  UNCHANGED latest /\ pc' = [pc EXCEPT ![m] = "boundary"] /\ pc[m] # "send"
    BY <1>2, <2>2 DEF Advance, NoBoundary, AtTargets
  <2>3. ASSUME NEW s \in Scenes, AdvanceFails(m, s)
        PROVE  UNCHANGED latest /\ pc' = [pc EXCEPT ![m] = "cancel"] /\ pc[m] # "send"
    BY <2>3 DEF AdvanceFails, AtTargets
  <2>4. ASSUME Remove(m) \/ RemoveFails(m)
        PROVE  UNCHANGED latest /\ pc' = [pc EXCEPT ![m] = "boundary"] /\ pc[m] # "send"
    BY <2>4 DEF Remove, RemoveFails
  <2>5. ASSUME BoundariesDone(m)
        PROVE  /\ UNCHANGED latest /\ pc[m] # "send"
               /\ pc' = [pc EXCEPT ![m] = "idle"] \/ pc' = [pc EXCEPT ![m] = "record"]
    BY <2>5 DEF BoundariesDone, AtTargets
  <2>6. ASSUME NEW t \in Targets, Discard(m, t)
        PROVE  UNCHANGED latest /\ pc' = [pc EXCEPT ![m] = "cancel"] /\ pc[m] # "send"
    BY <2>6 DEF Discard
  <2>7. ASSUME Undo(m)
        PROVE  UNCHANGED latest /\ pc' = [pc EXCEPT ![m] = "boundary"] /\ pc[m] # "send"
    BY <1>2, <2>7 DEF Undo, AtTargets
  <2>8. {"boundary", "cancel", "idle", "record"} \subseteq WriterSteps \ {"waiting"}
    BY DEF WriterSteps, AtBoundary
  <2> QED
    BY <2>1, <2>2, <2>3, <2>4, <2>5, <2>6, <2>7, <2>8 DEF BoundaryStep, WriteFails
<1> QED
  BY <1>3, <1>4, <1>5

LEMMA RecordsRoomy == ASSUME Typed, Roomy, NEW m \in Writers, RecordStep(m) PROVE Roomy'
<1> USE DEF Goto, inner
<1>1. UNCHANGED worker
  BY DEF RecordStep, RecordRefused, RecordProject, RecordWaits, Record, Send, Unschedule,
         RecordsDone
<1>2. /\ pc \in [Writers -> WriterSteps] /\ job \in [Writers -> Jobs]
      /\ scheduled \subseteq Targets /\ latest \in [Targets -> Generations]
      /\ queue \in Seq(Targets)
  BY DEF Typed, WritersTyped, DataTyped
<1>3. ASSUME NEW t \in Targets, RecordRefused(m, t) \/ RecordProject(m, t) \/ RecordWaits(m, t)
      PROVE  Roomy'
  <2>1. UNCHANGED <<latest, scheduled, queue>> /\ pc[m] = "record"
    BY <1>3 DEF RecordRefused, RecordProject, RecordWaits, Recording
  <2>2. Retained' = Retained /\ Full' = Full
    BY <2>1 DEF Retained, Full
  <2>3. \A u \in Writers : (pc'[u] = "waiting" => Full) /\ (pc[u] = "send" => pc'[u] = "send")
    BY <1>2, <1>3, <2>1
       DEF RecordRefused, RecordProject, RecordWaits, Notify, Awake, Roomy
  <2> QED
    BY <1>1, <1>2, <2>1, <2>2, <2>3, WriterRoomy DEF SomeoneSends
<1>4. ASSUME NEW t \in Targets, Record(m, t) PROVE Roomy'
  <2>1. /\ UNCHANGED queue /\ pc[m] = "record" /\ job[m].wanted[t] # None
        /\ latest' = [latest EXCEPT ![t] = job[m].wanted[t]]
    BY <1>4 DEF Record, Recording, First
  <2>2. Retained' = Retained \cup {t}
    BY <1>2, <2>1 DEF Retained
  <2>3. \A u \in Writers : pc'[u] = "waiting" => pc[u] = "waiting"
    BY <1>2, <1>4, <2>1 DEF Record
  <2>4. \A u \in Writers : pc'[u] = "waiting" => Full'
    BY <2>2, <2>3, FullStays DEF Roomy
  <2>5. CASE t \in scheduled
    <3>1. UNCHANGED <<scheduled, pc>>
      BY <1>4, <2>5 DEF Record
    <3> QED
      BY <1>1, <1>2, <2>1, <2>2, <2>4, <2>5, <3>1, WriterRoomy DEF SomeoneSends
  <2>6. CASE t \notin scheduled
    <3>1. scheduled' = scheduled \cup {t} /\ pc'[m] = "send"
      BY <1>2, <1>4, <2>6 DEF Record
    <3> QED
      BY <1>1, <1>2, <2>1, <2>4, <3>1, WriterRoomy DEF SomeoneSends
  <2> QED
    BY <2>5, <2>6
<1>5. CASE Send(m)
  <2>1. UNCHANGED <<latest, scheduled>> /\ pc[m] = "send"
    BY <1>5 DEF Send
  <2>2. queue' # <<>>
    BY <1>2, <1>5, WarmAssumption DEF Send
  <2>3. \A u \in Writers : pc'[u] = "waiting" => pc[u] = "waiting"
    BY <1>2, <1>5 DEF Send
  <2>4. \A u \in Writers : pc'[u] = "waiting" => Full'
    BY <2>1, <2>3, FullStays DEF Roomy, Retained
  <2> QED
    BY <1>1, <1>2, <2>1, <2>2, <2>4, WriterRoomy
<1>6. CASE Unschedule(m) \/ RecordsDone(m)
  <2>1. UNCHANGED <<latest, queue>> /\ scheduled' \subseteq scheduled /\ pc[m] # "send"
    BY <1>6 DEF Unschedule, RecordsDone
  <2>2. \A u \in Writers : /\ pc'[u] = "waiting" => pc[u] = "waiting"
                           /\ pc[u] = "send" => pc'[u] = "send"
    BY <1>2, <1>6, <2>1 DEF Unschedule, RecordsDone
  <2>3. Retained' = Retained /\ \A u \in Writers : pc'[u] = "waiting" => Full'
    BY <2>1, <2>2, FullStays DEF Roomy, Retained
  <2> QED
    BY <1>1, <1>2, <2>1, <2>2, <2>3, WriterRoomy DEF SomeoneSends
<1> QED
  BY <1>3, <1>4, <1>5, <1>6 DEF RecordStep

\* With nothing in the channel and nothing with the worker, what is scheduled is held by
\* writers, one target each.
LEMMA ScheduledBound ==
  ASSUME Typed, Held, queue = <<>>, worker.key = None
  PROVE  Cardinality(scheduled) <= Cardinality(Writers)
<1> DEFINE Holder(t) == CHOOSE m \in Writers : Sending(m) /\ job[m].at = t
           f == [t \in scheduled |-> Holder(t)]
<1>1. ASSUME NEW t \in scheduled
      PROVE  Holder(t) \in Writers /\ Sending(Holder(t)) /\ job[Holder(t)].at = t
  <2>1. t \in Targets /\ t # None
    BY WarmAssumption DEF Typed, DataTyped
  <2>2. \E m \in Writers : Sending(m) /\ job[m].at = t
    BY <2>1 DEF Held
  <2> QED
    BY <2>2
<1> HIDE DEF Holder
<1>2. f \in [scheduled -> Writers]
  BY <1>1
<1>3. \A s, t \in scheduled : f[s] = f[t] => s = t
  BY <1>1
<1>4. f \in Injection(scheduled, Writers)
  BY <1>2, <1>3 DEF Injection, IsInjective
<1> QED
  BY <1>4, FS_Injection, WarmAssumption

LEMMA WorkerRoomy == ASSUME Typed, Held, Roomy, WorkerStep \/ WarmFails PROVE Roomy'
<1> USE DEF inner, WorkerAt, Then
<1>1. /\ pc \in [Writers -> WriterSteps] /\ worker \in Workers /\ KeyAt(worker.pc, worker.key)
      /\ scheduled \subseteq Targets /\ latest \in [Targets -> Generations]
      /\ queue \in Seq(Targets)
  BY DEF Typed, WritersTyped, WorkerTyped, DataTyped
<1>2. ASSUME \/ UNCHANGED pc /\ Retained \subseteq Retained'
             \/ Notify
      PROVE  \A u \in Writers : pc'[u] = "waiting" => Full'
  BY <1>1, <1>2, FullStays DEF Roomy, Notify, Awake
<1>3. UNCHANGED latest => Retained' = Retained
  BY DEF Retained
<1>4. ASSUME worker'.pc \notin {"giveup", "idle", "overflow"},
             UNCHANGED latest, UNCHANGED pc \/ Notify
      PROVE  Roomy'
  BY <1>2, <1>3, <1>4 DEF Roomy
<1>5. CASE Receive \/ Check \/ Expect \/ Build \/ Publish \/ Failed \/ Terminalize \/ Finish \/ WarmFails
  <2>1. UNCHANGED latest /\ (UNCHANGED pc \/ Notify)
    BY <1>5 DEF Receive, Check, Expect, Build, Publish, Failed, Terminalize, Finish, WarmFails
  <2>2. worker'.pc \notin {"giveup", "idle", "overflow"}
    BY <1>1, <1>5 DEF Receive, Check, Expect, Build, Publish, Failed, Terminalize, Finish,
                      WarmFails, Workers, Idle
  <2> QED
    BY <1>4, <2>1, <2>2
<1>6. CASE TakeLatest
  <2>1. worker'.pc \in {"check", "finish"}
    BY <1>1, <1>6 DEF TakeLatest, Workers
  <2>2. Notify \/ (UNCHANGED pc /\ latest[worker.key] = None)
    BY <1>6 DEF TakeLatest
  <2>3. latest[worker.key] = None => Retained' = Retained
    BY <1>1, <1>6 DEF TakeLatest, Retained
  <2> QED
    BY <1>2, <2>1, <2>2, <2>3 DEF Roomy
<1>7. ASSUME \/ \E t \in Targets : Retry(t)
             \/ \E p \in Projects : SearchProject(p)
             \/ Recover
      PROVE  Roomy'
  <2>1. UNCHANGED <<latest, pc>>
    BY <1>7 DEF Retry, SearchProject, Recover
  <2>2. worker'.pc \in {"resend", "recover", "insert"}
    BY <1>1, <1>7 DEF Retry, SearchProject, Recover, Workers
  <2> QED
    BY <1>4, <2>1, <2>2
<1>8. CASE NothingToRetry
  <2>1. UNCHANGED <<latest, pc, scheduled, queue>> /\ worker'.pc = "overflow"
    BY <1>1, <1>8 DEF NothingToRetry, Workers
  <2>2. Retained \cup scheduled = scheduled /\ worker.key = None
    BY <1>1, <1>8 DEF NothingToRetry, Unscheduled, KeyAt
  <2>3. queue = <<>> => Cardinality(Retained \cup scheduled) <= Cardinality(Writers)
    BY <2>2, ScheduledBound
  <2>4. \A u \in Writers : pc'[u] = "waiting" => Full'
    BY <1>2, <1>3, <2>1
  <2> QED
    BY <1>3, <2>1, <2>3, <2>4 DEF Roomy
<1>9. CASE Resend
  <2>1. UNCHANGED <<latest, pc>>
    BY <1>9 DEF Resend
  <2>2. \/ worker'.pc = "retry"
        \/ worker'.pc = "giveup" /\ queue' # <<>>
    BY <1>1, <1>9, WarmAssumption DEF Resend, Workers, Idle
  <2>3. \A u \in Writers : pc'[u] = "waiting" => Full'
    BY <1>2, <1>3, <2>1
  <2> QED
    BY <2>2, <2>3 DEF Roomy
<1>10. CASE GiveUp
  <2>1. UNCHANGED <<latest, pc>> /\ worker'.pc = "idle" /\ queue' # <<>>
    BY <1>10 DEF GiveUp, Idle, Roomy
  <2>2. \A u \in Writers : pc'[u] = "waiting" => Full'
    BY <1>2, <1>3, <2>1
  <2> QED
    BY <2>1, <2>2 DEF Roomy
<1>11. CASE NothingToSearch
  <2>1. /\ UNCHANGED <<latest, pc, scheduled, queue>>
        /\ worker.pc = "overflow" /\ worker'.pc = "idle"
    BY <1>11 DEF NothingToSearch, Idle
  <2>2. \A u \in Writers : pc'[u] = "waiting" => Full'
    BY <1>2, <1>3, <2>1
  <2> QED
    BY <1>3, <2>1, <2>2 DEF Roomy, SomeoneSends
<1>12. CASE Insert
  <2>1. UNCHANGED pc /\ worker'.pc = "retry"
    BY <1>12 DEF Insert, Idle
  <2>2. \A t \in Targets : latest'[t] = latest[t] \/ (worker.found[t] # None /\ latest'[t] = worker.found[t])
    BY <1>12 DEF Insert
  <2>3. Retained \subseteq Retained'
    BY <2>2 DEF Retained
  <2> QED
    BY <1>2, <2>1, <2>3 DEF Roomy
<1> QED
  BY <1>5, <1>6, <1>7, <1>8, <1>9, <1>10, <1>11, <1>12 DEF WorkerStep

LEMMA RoomyStart == Init => Roomy
<1> SUFFICES ASSUME Init PROVE Roomy
  OBVIOUS
<1>1. Retained \cup scheduled = {}
  BY DEF Init, Retained, Nothing
<1>2. Cardinality(Retained \cup scheduled) = 0 /\ Cardinality(Writers) \in Nat
  BY <1>1, FS_EmptySet, FS_CardinalityType, WarmAssumption
<1> QED
  BY <1>2 DEF Init, Roomy, Idle

LEMMA RoomyKept == Typed /\ Held /\ Roomy /\ [Next]_vars => Roomy'
<1> SUFFICES ASSUME Typed, Held, Roomy, [Next]_vars PROVE Roomy'
  OBVIOUS
<1>1. CASE UNCHANGED vars
  BY <1>1 DEF vars, inner, Roomy, SomeoneSends, Retained, Full
<1> QED
  BY <1>1, BoundariesRoomy, RecordsRoomy, WorkerRoomy DEF Next, WriterStep

(***************************************************************************)
(* The theorems.                                                           *)
(***************************************************************************)

\* The four parts together are kept by every step of every thread.
LEMMA Inductive == Spec => []IInv
<1>1. Init => IInv
  BY Start, FreshStart, RoomyStart DEF IInv
<1>2. IInv /\ [Next]_vars => IInv'
  BY TypesKept, HeldKept, FreshKept, RoomyKept DEF IInv
<1> QED
  BY <1>1, <1>2, PTL DEF Spec

\* The descriptors, the map, the channel and the control of the writers and of the worker
\* stay of their types, and the worker is always at a target, a Project or nothing, as the
\* step it is at needs (cache_warmer_queue.rs, the worker's loop).
THEOREM WarmTypeCorrect == Spec => []Typed
<1>1. IInv => Typed
  BY DEF IInv
<1> QED
  BY <1>1, Inductive, PTL

LEMMA OneOrNone ==
  ASSUME NEW S, \A x, y \in S : x = y
  PROVE  /\ IsFiniteSet(S)
         /\ Cardinality(S) = IF S = {} THEN 0 ELSE 1
<1>1. CASE S = {}
  BY <1>1, FS_EmptySet
<1>2. CASE S # {}
  <2>1. PICK x \in S : S = {x}
    BY <1>2
  <2> QED
    BY <1>2, <2>1, FS_Singleton
<1> QED
  BY <1>1, <1>2

\* Whatever the order of the writers and the worker, a target that is said to have a job
\* has exactly one, in the channel, with the worker or on its way, and no other has any.
THEOREM WarmScheduledIsHeld == Spec => []ScheduledIsHeld
<1>1. ASSUME IInv PROVE ScheduledIsHeld
  <2> SUFFICES ASSUME NEW t \in Targets
               PROVE  Holders(t) = (IF t \in scheduled THEN 1 ELSE 0)
    BY DEF ScheduledIsHeld
  <2> DEFINE Jobbed == {i \in DOMAIN queue : queue[i] = t}
             Senders == {m \in Writers : pc[m] \in {"send", "unschedule"} /\ job[m].at = t}
  <2>1. /\ \A i, j \in Jobbed : i = j
        /\ \A m, u \in Senders : m = u
        /\ Jobbed # {} => Senders = {} /\ worker.key # t
        /\ Senders # {} => worker.key # t
        /\ t \in scheduled <=> Jobbed # {} \/ Senders # {} \/ worker.key = t
    BY <1>1 DEF IInv, Held, Sending
  <2>2. /\ Cardinality(Jobbed) = IF Jobbed = {} THEN 0 ELSE 1
        /\ Cardinality(Senders) = IF Senders = {} THEN 0 ELSE 1
    <3> HIDE DEF Jobbed, Senders
    <3> QED
      BY <2>1, OneOrNone
  <2>3. Holders(t) = Cardinality(Jobbed) + Cardinality(Senders) + (IF worker.key = t THEN 1 ELSE 0)
    BY DEF Holders
  <2> HIDE DEF Jobbed, Senders
  <2> QED
    BY <2>1, <2>2, <2>3
<1> QED
  BY <1>1, Inductive, PTL

\* A Project that is said to be idle is one whose Scenes the worker leaves alone: the
\* deletion of a Project may rely on wait_for_project_idle.
THEOREM WarmIdleIsQuiet == Spec => []IdleIsQuiet
<1>1. ASSUME IInv PROVE IdleIsQuiet
  <2> SUFFICES ASSUME worker.pc \in Warming \cup {"failed", "terminal"}
               PROVE  Busy(ProjectOf[worker.key])
    BY DEF IdleIsQuiet
  <2>1. worker.key \in Targets
    BY <1>1 DEF IInv, Typed, WorkerTyped, KeyAt, WithTarget, WithScene
  <2>2. worker.key \in scheduled
    BY <1>1, <2>1 DEF IInv, Held
  <2> QED
    BY <2>2 DEF Busy
<1> QED
  BY <1>1, Inductive, PTL

\* No order of writes, boundaries, failures and steps of the worker leaves a usable cache
\* of content that is no longer the Scene's, except one that was reported or whose write
\* is still on its way.
THEOREM WarmUsableIsCurrent == Spec => []UsableIsCurrent
<1>1. IInv => UsableIsCurrent
  BY DEF IInv, Fresh
<1> QED
  BY <1>1, Inductive, PTL

\* As long as fewer threads write than the map has room for, a thread that waits for room
\* is never alone with an idle worker and an empty channel.
THEOREM WarmWaiterHasWaker ==
  Cardinality(Writers) < LatestCapacity => (Spec => []WaiterHasWaker)
<1> SUFFICES ASSUME Cardinality(Writers) < LatestCapacity PROVE Spec => []WaiterHasWaker
  OBVIOUS
<1>1. ASSUME IInv PROVE WaiterHasWaker
  <2> SUFFICES ASSUME NEW m \in Writers, pc[m] = "waiting", worker.pc = "idle", queue = <<>>,
                      \A u \in Writers : pc[u] \in {"idle", "waiting"}
               PROVE  FALSE
    BY DEF WaiterHasWaker
  <2>1. Full
    BY <1>1 DEF IInv, Roomy
  <2>2. Cardinality(Retained \cup scheduled) <= Cardinality(Writers)
    BY <1>1 DEF IInv, Roomy, SomeoneSends
  <2>3. Retained \cup scheduled \subseteq Targets
    BY <1>1 DEF IInv, Typed, DataTyped, Retained
  <2>4. /\ Cardinality(Retained) \in Nat /\ Cardinality(Retained \cup scheduled) \in Nat
        /\ Cardinality(Retained) <= Cardinality(Retained \cup scheduled)
    BY <2>3, Smaller
  <2>5. Cardinality(Writers) \in Nat
    BY FS_CardinalityType, WarmAssumption
  <2> QED
    BY <2>1, <2>2, <2>4, <2>5, WarmAssumption DEF Full
<1> QED
  BY <1>1, Inductive, PTL
=============================================================================
