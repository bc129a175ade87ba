------------------------ MODULE ProjectStorageProofs ------------------------
(***************************************************************************)
(* What is durable of a Project: the commits and exports that the render   *)
(* owner and the backend publish together (ProjectPublication), for any    *)
(* transactions, Scenes and bounds, and the migration of a legacy Project  *)
(* (StorageMigration), for any assets and any number of faults.            *)
(***************************************************************************)
EXTENDS ProjectPublication, StorageMigration, SequenceTheorems, TLAPS

\* TypeOK by the part of the state it is about.
Sessions == 0..MaxSession
Gens     == 0..MaxGen

StageTyped ==
  /\ scene \in Scenes \cup {None}
  /\ live \in [session : Sessions, gen : Gens, frozen : BOOLEAN]
  /\ lease \in [holder : Txns \cup {None}, session : Sessions, gen : Gens, due : BOOLEAN]
  /\ opened \in Sessions /\ restarts \in 0..MaxRestarts

ControlTyped ==
  /\ pc \in [Txns -> {"idle"} \cup InSection \cup Ended]
  /\ kind \in [Txns -> {"commit", "export"}]

Replies == {"none", "ready", "inactive", "ok", "busy"}

CallTyped ==
  /\ call \in [Txns -> [req : Requests, reply : Replies]]
  /\ \A t \in Txns : call[t].req # "none" => pc[t] \in {call[t].req, "crashed"}

SnapTyped == snap \in [Txns -> [session : Sessions, gen : Gens]]

PulseTyped ==
  /\ beat \in [Txns -> {"off", "idle", "sent"}]
  /\ renewals \in [Txns -> 0..MaxRenewals]

HeadTyped == head \in Seq([txn : Txns, session : Sessions, gen : Gens])

Parts == /\ StageTyped /\ ControlTyped /\ CallTyped
         /\ SnapTyped /\ PulseTyped /\ HeadTyped

LEMMA TypeParts == (TypeOK <=> Parts) /\ (TypeOK' <=> Parts')
BY DEF Parts, TypeOK, StageTyped, ControlTyped, CallTyped, SnapTyped, PulseTyped, HeadTyped,
       Sessions, Gens, Replies

\* What the bounds are for: zero is a session, a generation and a count.
LEMMA Bounds ==
  /\ MaxSession \in Nat /\ MaxGen \in Nat /\ MaxRenewals \in Nat /\ MaxRestarts \in Nat
  /\ 0 \in Sessions /\ 0 \in Gens /\ None \notin Txns
BY PublicationAssumption DEF PublicationAssumption, Sessions, Gens

-----------------------------------------------------------------------------
(* Types                                                                   *)

LEMMA InitTyped == Init => TypeOK
<1>. SUFFICES ASSUME Init
              PROVE  Parts
  BY TypeParts
<1>1. StageTyped
  BY Bounds DEF Init, StageTyped, NoLive, NoLease
<1>2. ControlTyped /\ CallTyped
  BY DEF Init, ControlTyped, CallTyped, NoCall, Requests, Replies
<1>3. SnapTyped /\ PulseTyped
  BY Bounds DEF Init, SnapTyped, PulseTyped, NoSnap
<1>4. HeadTyped
  BY DEF Init, HeadTyped
<1>. QED BY <1>1, <1>2, <1>3, <1>4 DEF Parts

\* A new stage, an edit, a lease that ends and a restart.
LEMMA StageKept ==
  ASSUME StageTyped,
         \/ \E s \in Scenes : OpenStage(s) \/ OpenStageFails(s)
         \/ Author \/ AuthorBim \/ LeaseComesDue \/ ExpireRuntimeLease \/ RestartOwner
  PROVE  StageTyped' /\ UNCHANGED <<txn, pulse, head>>
<1>. USE Bounds DEF StageTyped
<1>1. ASSUME NEW s \in Scenes, OpenStage(s) PROVE StageTyped' /\ UNCHANGED <<txn, pulse, head>>
  BY <1>1 DEF OpenStage, Sessions
<1>2. ASSUME NEW s \in Scenes, OpenStageFails(s)
      PROVE  StageTyped' /\ UNCHANGED <<txn, pulse, head>>
  BY <1>2 DEF OpenStageFails, NoLive
<1>3. CASE Author \/ AuthorBim
  <2>1. live.gen + 1 \in Gens
    BY <1>3 DEF Author, AuthorBim, Edit, Gens
  <2>. QED BY <1>3, <2>1 DEF Author, AuthorBim, Edit
<1>4. CASE LeaseComesDue
  BY <1>4 DEF LeaseComesDue
<1>5. CASE ExpireRuntimeLease
  BY <1>5 DEF ExpireRuntimeLease, ClearLease, NoLease
<1>6. CASE RestartOwner
  BY <1>6 DEF RestartOwner, NoLive, NoLease
<1>. QED BY <1>1, <1>2, <1>3, <1>4, <1>5, <1>6

\* The owner's answers.
LEMMA AnswersKept ==
  ASSUME StageTyped, CallTyped, SnapTyped, PulseTyped,
         NEW t \in Txns, Answer(t) \/ AnswerRenew(t)
  PROVE  /\ StageTyped' /\ CallTyped' /\ SnapTyped' /\ PulseTyped'
         /\ UNCHANGED <<pc, kind, head>>
<1>. USE DEF stage, txn, pulse
<1>1. ASSUME NEW r \in Replies, Reply(t, r), UNCHANGED pc PROVE CallTyped'
  BY <1>1 DEF CallTyped, Reply
<1>2. CASE GrantSnapshot(t)
  <2>1. /\ live' \in [session : Sessions, gen : Gens, frozen : BOOLEAN]
        /\ lease' \in [holder : Txns \cup {None}, session : Sessions, gen : Gens,
                       due : BOOLEAN]
    BY <1>2 DEF GrantSnapshot, StageTyped
  <2>2. SnapTyped'
    <3>1. [session |-> live.session, gen |-> live.gen] \in [session : Sessions, gen : Gens]
      BY DEF StageTyped
    <3>. QED BY <1>2, <3>1 DEF GrantSnapshot, SnapTyped
  <2>3. CallTyped' /\ PulseTyped' /\ UNCHANGED <<pc, kind, head>>
    BY <1>1, <1>2 DEF GrantSnapshot, PulseTyped, Replies
  <2>. QED BY <1>2, <2>1, <2>2, <2>3 DEF GrantSnapshot, StageTyped
<1>3. CASE AnswerInactive(t) \/ AnswerBusy(t) \/ AnswerValidate(t)
  BY <1>1, <1>3
     DEF AnswerInactive, AnswerBusy, AnswerValidate, StageTyped, SnapTyped, PulseTyped, Replies
<1>4. CASE AnswerFinish(t) \/ AnswerAbort(t)
  <2>1. ClearLease /\ UNCHANGED <<scene, opened, restarts>>
    BY <1>4 DEF AnswerFinish, AnswerAbort
  <2>2. StageTyped'
    BY <2>1, Bounds DEF ClearLease, NoLease, StageTyped
  <2>. QED BY <1>1, <1>4, <2>2 DEF AnswerFinish, AnswerAbort, SnapTyped, PulseTyped, Replies
<1>5. CASE AnswerRenew(t)
  BY <1>5 DEF AnswerRenew, StageTyped, CallTyped, SnapTyped, PulseTyped
<1>. QED BY <1>2, <1>3, <1>4, <1>5 DEF Answer

Host(t) == BeginCommit(t) \/ HostStep(t) \/ SubmitRenew(t) \/ RenewFails(t)

\* Whatever a transaction does, it leaves the stage alone and keeps its own call in step
\* with its control.
LEMMA HostKept ==
  ASSUME ControlTyped, CallTyped, SnapTyped, PulseTyped, HeadTyped, NEW t \in Txns, Host(t)
  PROVE  /\ ControlTyped' /\ CallTyped' /\ SnapTyped' /\ PulseTyped' /\ HeadTyped'
         /\ UNCHANGED stage
<1>. USE DEF Advance, ControlTyped, InSection, Ended
<1>. DEFINE Same == /\ SnapTyped' /\ PulseTyped' /\ HeadTyped' /\ UNCHANGED stage
<1>. DEFINE Control == ControlTyped' /\ CallTyped'
<1>1. ASSUME UNCHANGED <<snap, beat, renewals, head, stage>> PROVE Same
  BY <1>1 DEF SnapTyped, PulseTyped, HeadTyped
<1>. USE DEF CallTyped, Requests, Replies, Sent, NoCall, txn, pulse
<1>2. CASE BeginCommit(t)
  <2>1. Control
    BY <1>2 DEF BeginCommit
  <2>. QED BY <1>1, <1>2, <2>1 DEF BeginCommit
<1>3. CASE BeginReturns(t)
  <2>1. Control
    BY <1>3 DEF BeginReturns
  <2>2. PulseTyped'
    BY <1>3 DEF BeginReturns, PulseTyped
  <2>. QED BY <1>3, <2>1, <2>2 DEF BeginReturns, SnapTyped, HeadTyped
<1>4. CASE BeginTimesOut(t)
  <2>1. Control
    BY <1>4 DEF BeginTimesOut
  <2>2. SnapTyped'
    BY <1>4, Bounds DEF BeginTimesOut, SnapTyped, NoSnap
  <2>. QED BY <1>4, <2>1, <2>2 DEF BeginTimesOut, PulseTyped, HeadTyped
<1>5. CASE OperationFails(t) \/ ExportArchive(t) \/ CommitWithoutLease(t)
  <2>1. Control
    BY <1>5 DEF OperationFails, ExportArchive, CommitWithoutLease
  <2>. QED BY <1>1, <1>5, <2>1 DEF OperationFails, ExportArchive, CommitWithoutLease
<1>6. CASE SubmitValidate(t) \/ SubmitFinish(t)
  <2>1. Control
    BY <1>6 DEF SubmitValidate, SubmitFinish
  <2>. QED BY <1>1, <1>6, <2>1 DEF SubmitValidate, SubmitFinish
<1>7. CASE ValidateReturns(t) \/ FinishReturns(t) \/ AbortReturns(t)
  <2>1. call' = [call EXCEPT ![t] = NoCall]
    BY <1>7 DEF ValidateReturns, FinishReturns, AbortReturns
  <2>2. \E c \in {"validated", "unwinding", "finished", "done"} : pc' = [pc EXCEPT ![t] = c]
    BY <1>7 DEF ValidateReturns, FinishReturns, AbortReturns
  <2>3. UNCHANGED kind
    BY <1>7 DEF ValidateReturns, FinishReturns, AbortReturns
  <2>4. Control
    BY <2>1, <2>2, <2>3
  <2>. QED BY <1>1, <1>7, <2>4 DEF ValidateReturns, FinishReturns, AbortReturns
<1>8. CASE CreateCommit(t)
  <2>1. Control
    BY <1>8 DEF CreateCommit
  <2>2. [txn |-> t, session |-> snap[t].session, gen |-> snap[t].gen]
          \in [txn : Txns, session : Sessions, gen : Gens]
    BY DEF SnapTyped
  <2>3. HeadTyped'
    BY <1>8, <2>2, AppendProperties DEF CreateCommit, HeadTyped
  <2>. QED BY <1>8, <2>1, <2>3 DEF CreateCommit, SnapTyped, PulseTyped
<1>9. CASE StopHeartbeat(t)
  <2>1. Control
    BY <1>9 DEF StopHeartbeat
  <2>2. PulseTyped'
    BY <1>9 DEF StopHeartbeat, PulseTyped
  <2>. QED BY <1>9, <2>1, <2>2 DEF StopHeartbeat, SnapTyped, HeadTyped
<1>10. CASE SubmitRenew(t) \/ RenewFails(t)
  <2>0. renewals[t] < MaxRenewals => renewals[t] + 1 \in 0..MaxRenewals
    BY Bounds DEF PulseTyped
  <2>1. PulseTyped'
    BY <1>10, <2>0 DEF SubmitRenew, RenewFails, PulseTyped
  <2>. QED BY <1>10, <2>1 DEF SubmitRenew, RenewFails, SnapTyped, HeadTyped
<1>. QED BY <1>2, <1>3, <1>4, <1>5, <1>6, <1>7, <1>8, <1>9, <1>10 DEF Host, HostStep

LEMMA CrashKept ==
  ASSUME ControlTyped, CallTyped, NEW p \in Processes, CrashHost(p)
  PROVE  /\ ControlTyped' /\ CallTyped'
         /\ UNCHANGED <<stage, snap, pulse, head>>
BY DEF CrashHost, ControlTyped, CallTyped, Requests, InSection, Ended

LEMMA TypesKept == TypeOK /\ [Next]_vars => TypeOK'
<1>. SUFFICES ASSUME TypeOK, [Next]_vars PROVE TypeOK'
  OBVIOUS
<1>0. Parts
  BY TypeParts
<1>. SUFFICES Parts'
  BY TypeParts
<1>. USE DEF Parts, stage, txn, pulse
<1>1. CASE UNCHANGED vars
  BY <1>0, <1>1
     DEF vars, StageTyped, ControlTyped, CallTyped, SnapTyped, PulseTyped, HeadTyped
<1>2. CASE \/ \E s \in Scenes : OpenStage(s) \/ OpenStageFails(s)
           \/ Author \/ AuthorBim \/ LeaseComesDue \/ ExpireRuntimeLease \/ RestartOwner
  <2>1. StageTyped' /\ UNCHANGED <<txn, pulse, head>>
    BY <1>0, <1>2, StageKept
  <2>. QED BY <1>0, <2>1 DEF ControlTyped, CallTyped, SnapTyped, PulseTyped, HeadTyped
<1>3. ASSUME NEW t \in Txns, Answer(t) \/ AnswerRenew(t) PROVE Parts'
  <2>1. /\ StageTyped' /\ CallTyped' /\ SnapTyped' /\ PulseTyped'
        /\ UNCHANGED <<pc, kind, head>>
    BY <1>0, <1>3, AnswersKept
  <2>. QED BY <1>0, <2>1 DEF ControlTyped, HeadTyped
<1>4. ASSUME NEW t \in Txns, Host(t) PROVE Parts'
  <2>1. /\ ControlTyped' /\ CallTyped' /\ SnapTyped' /\ PulseTyped' /\ HeadTyped'
        /\ UNCHANGED stage
    BY <1>0, <1>4, HostKept
  <2>. QED BY <1>0, <2>1 DEF StageTyped
<1>5. ASSUME NEW p \in Processes, CrashHost(p) PROVE Parts'
  <2>1. ControlTyped' /\ CallTyped' /\ UNCHANGED <<stage, snap, pulse, head>>
    BY <1>0, <1>5, CrashKept
  <2>. QED BY <1>0, <2>1 DEF StageTyped, SnapTyped, PulseTyped, HeadTyped
<1>. QED BY <1>1, <1>2, <1>3, <1>4, <1>5 DEF Next, OwnerStep, Host

\* Type correctness, for any transactions, processes, Scenes and bounds.
THEOREM TypeCorrect == Safety => []TypeOK
BY InitTyped, TypesKept, PTL DEF Safety

-----------------------------------------------------------------------------
(* The freeze flag and the lease                                           *)

\* Sessions are numbered as they are opened, and a lease is on one of them.
SessionsCounted ==
  /\ live.session <= opened /\ lease.session <= opened
  /\ lease.holder # None => lease.session # 0

FreezeInv == SessionsCounted /\ FrozenIffLeased

LEMMA FreezeInit == Init => FreezeInv
BY DEF Init, NoLive, NoLease, FreezeInv, SessionsCounted, FrozenIffLeased

\* Only the owner touches the flag and the lease: it sets both, clears both, or leaves
\* the leased session behind.
LEMMA FreezeKept ==
  ASSUME StageTyped, FreezeInv, [Next]_vars
  PROVE  FreezeInv'
<1>. USE DEF FreezeInv, SessionsCounted, FrozenIffLeased
<1>0. /\ live \in [session : Nat, gen : Gens, frozen : BOOLEAN]
      /\ lease \in [holder : Txns \cup {None}, session : Nat, gen : Gens, due : BOOLEAN]
      /\ opened \in Nat /\ None \notin Txns
  BY Bounds DEF StageTyped, Sessions
<1>1. ASSUME UNCHANGED <<live, lease, opened>> PROVE FreezeInv'
  BY <1>1
<1>2. ASSUME ClearLease, UNCHANGED opened PROVE FreezeInv'
  BY <1>0, <1>2 DEF ClearLease, NoLease
<1>3. ASSUME NEW s \in Scenes, OpenStage(s) PROVE FreezeInv'
  BY <1>0, <1>3 DEF OpenStage
<1>4. ASSUME NEW s \in Scenes, OpenStageFails(s) PROVE FreezeInv'
  BY <1>0, <1>4 DEF OpenStageFails, NoLive
<1>5. CASE Author \/ AuthorBim
  BY <1>0, <1>5 DEF Author, AuthorBim, Edit
<1>6. CASE LeaseComesDue
  BY <1>0, <1>6 DEF LeaseComesDue
<1>7. CASE RestartOwner
  BY <1>0, <1>7 DEF RestartOwner, NoLive, NoLease
<1>8. CASE ExpireRuntimeLease
  BY <1>2, <1>8 DEF ExpireRuntimeLease
<1>9. ASSUME NEW t \in Txns, GrantSnapshot(t) PROVE FreezeInv'
  BY <1>0, <1>9 DEF GrantSnapshot
<1>10. ASSUME NEW t \in Txns, AnswerFinish(t) \/ AnswerAbort(t) PROVE FreezeInv'
  BY <1>2, <1>10 DEF AnswerFinish, AnswerAbort
<1>11. ASSUME NEW t \in Txns, AnswerInactive(t) \/ AnswerBusy(t) \/ AnswerValidate(t)
       PROVE  FreezeInv'
  BY <1>1, <1>11 DEF AnswerInactive, AnswerBusy, AnswerValidate, stage
<1>12. ASSUME NEW t \in Txns, AnswerRenew(t) PROVE FreezeInv'
  BY <1>0, <1>12 DEF AnswerRenew
<1>13. ASSUME NEW t \in Txns, Host(t) PROVE FreezeInv'
  <2>1. UNCHANGED stage
    BY <1>13 DEF Host, HostStep, BeginCommit, BeginReturns, BeginTimesOut, OperationFails,
         ExportArchive, SubmitValidate, ValidateReturns, CreateCommit, SubmitFinish,
         FinishReturns, CommitWithoutLease, StopHeartbeat, AbortReturns, SubmitRenew,
         RenewFails
  <2>. QED BY <1>1, <2>1 DEF stage
<1>14. ASSUME NEW p \in Processes, CrashHost(p) PROVE FreezeInv'
  BY <1>1, <1>14 DEF CrashHost, stage
<1>15. CASE UNCHANGED vars
  BY <1>1, <1>15 DEF vars, stage
<1>. QED BY <1>3, <1>4, <1>5, <1>6, <1>7, <1>8, <1>9, <1>10, <1>11, <1>12, <1>13, <1>14,
            <1>15 DEF Next, OwnerStep, Answer, Host

\* The stage is frozen exactly while a lease on its session is held, whatever the number
\* of transactions, sessions, crashes and restarts (project_stage.rs:177-192).
THEOREM FrozenExactlyWhileLeased == Safety => []FrozenIffLeased
<1>1. TypeOK /\ FreezeInv /\ [Next]_vars => FreezeInv'
  BY TypeParts, FreezeKept DEF Parts
<1>2. FreezeInv => FrozenIffLeased
  BY DEF FreezeInv
<1>. QED BY <1>1, <1>2, FreezeInit, TypeCorrect, PTL DEF Safety

-----------------------------------------------------------------------------
(* The order of the history, for one host process and one Project          *)

OnePublisher ==
  \A t, u \in Txns : ProcessOf[t] = ProcessOf[u] /\ Target[t] = Target[u]

\* The publication lock is the only thing that keeps two transactions apart.
Exclusive ==
  \A t, u \in Txns : pc[t] \in InSection /\ pc[u] \in InSection => t = u

\* The steps before the Git commit: those whose snapshot may still become one.
Bearing == {"begin", "leased", "validate", "validated"}

\* Snapshots and commits are of sessions that were opened, and of generations that the
\* session, as long as it is live, has reached.
Reached(entry) ==
  /\ entry.session <= opened
  /\ entry.session = live.session /\ live.session # 0 => entry.gen <= live.gen

\* Nothing newer than a snapshot is committed while it may still become a commit.
NotOvertaken ==
  \A t \in Txns : pc[t] \in Bearing /\ snap[t].session # 0 =>
    \A i \in 1..Len(head) : head[i].session = snap[t].session => head[i].gen <= snap[t].gen

HistoryInv ==
  /\ Exclusive
  /\ \A t \in Txns : Reached(snap[t])
  /\ \A i \in 1..Len(head) : Reached(head[i])
  /\ \A t \in Txns : pc[t] = "idle" => snap[t].session = 0
  /\ NotOvertaken
  /\ HistoryNeverRegresses

LEMMA HistoryInit == Init => HistoryInv
<1>. SUFFICES ASSUME Init PROVE HistoryInv
  OBVIOUS
<1>1. /\ \A t \in Txns : pc[t] = "idle" /\ snap[t] = [session |-> 0, gen |-> 0]
      /\ live.session = 0 /\ opened = 0 /\ head = <<>> /\ Len(head) = 0
  BY DEF Init, NoLive, NoSnap
<1>2. Exclusive
  BY <1>1 DEF Exclusive, InSection
<1>. QED BY <1>1, <1>2 DEF HistoryInv, Reached, NotOvertaken, HistoryNeverRegresses

\* A sequence over a set has its elements there, and is one over any larger set.
LEMMA SequenceElements ==
  ASSUME NEW S, NEW T, S \subseteq T, NEW q \in Seq(S)
  PROVE  Len(q) \in Nat /\ q \in Seq(T) /\ \A i \in 1..Len(q) : q[i] \in T
OBVIOUS

\* Sessions and generations as numbers.
LEMMA Numbers ==
  ASSUME Parts
  PROVE  /\ live \in [session : Nat, gen : Nat, frozen : BOOLEAN] /\ opened \in Nat
         /\ snap \in [Txns -> [session : Nat, gen : Nat]]
         /\ head \in Seq([txn : Txns, session : Nat, gen : Nat])
         /\ Len(head) \in Nat
         /\ \A i \in 1..Len(head) : head[i] \in [txn : Txns, session : Nat, gen : Nat]
<1>1. Sessions \subseteq Nat /\ Gens \subseteq Nat
  BY Bounds DEF Sessions, Gens
<1>2. live \in [session : Nat, gen : Nat, frozen : BOOLEAN] /\ opened \in Nat
  BY <1>1 DEF Parts, StageTyped
<1>3. snap \in [Txns -> [session : Nat, gen : Nat]]
  BY <1>1 DEF Parts, SnapTyped
<1>4. head \in Seq([txn : Txns, session : Sessions, gen : Gens])
  BY DEF Parts, HeadTyped
<1>. DEFINE Entry  == [txn : Txns, session : Sessions, gen : Gens]
            Number == [txn : Txns, session : Nat, gen : Nat]
<1>5. Entry \subseteq Number
  BY <1>1
<1>. HIDE DEF Entry, Number
<1>6. Len(head) \in Nat /\ head \in Seq(Number) /\ \A i \in 1..Len(head) : head[i] \in Number
  BY <1>4, <1>5, SequenceElements DEF Entry
<1>. QED BY <1>2, <1>3, <1>6 DEF Number

\* A step that changes neither the stage's numbers nor a snapshot or the history, and
\* lets transactions only leave: the lock, or the steps before the commit.
Leaves ==
  \A t \in Txns : /\ pc'[t] \in InSection => pc[t] \in InSection
                  /\ pc'[t] \in Bearing => pc[t] \in Bearing
                  /\ pc'[t] = "idle" => pc[t] = "idle"

LEMMA LeavingKeepsHistory ==
  ASSUME HistoryInv, Leaves, UNCHANGED <<live.session, live.gen, opened, snap, head>>
  PROVE  HistoryInv'
<1>. USE DEF HistoryInv, Leaves
<1>1. Exclusive'
  BY DEF Exclusive
<1>2. NotOvertaken' /\ HistoryNeverRegresses'
  BY DEF NotOvertaken, HistoryNeverRegresses
<1>. QED BY <1>1, <1>2 DEF Reached

\* The stage moves on: to a new session, to none, or to a later generation.
LEMMA StageKeepsHistory ==
  ASSUME Parts, HistoryInv, UNCHANGED <<pc, snap, head>>,
         \/ \E s \in Scenes : OpenStage(s) \/ OpenStageFails(s)
         \/ Author \/ AuthorBim \/ LeaseComesDue \/ ExpireRuntimeLease \/ RestartOwner
  PROVE  HistoryInv'
<1>0. /\ live \in [session : Nat, gen : Nat, frozen : BOOLEAN] /\ opened \in Nat
      /\ snap \in [Txns -> [session : Nat, gen : Nat]] /\ Len(head) \in Nat
      /\ \A i \in 1..Len(head) : head[i] \in [txn : Txns, session : Nat, gen : Nat]
  BY Numbers
<1>1. /\ opened' \in Nat /\ opened <= opened'
      /\ \/ live'.session = live.session /\ live'.gen \in Nat /\ live.gen <= live'.gen
         \/ live'.session = 0
         \/ live'.session = opened + 1
  <2>1. CASE \E s \in Scenes : OpenStage(s)
    BY <1>0, <2>1 DEF OpenStage
  <2>2. CASE (\E s \in Scenes : OpenStageFails(s)) \/ RestartOwner
    BY <1>0, <2>2 DEF OpenStageFails, RestartOwner, NoLive
  <2>3. CASE Author \/ AuthorBim
    BY <1>0, <2>3 DEF Author, AuthorBim, Edit
  <2>4. CASE LeaseComesDue \/ ExpireRuntimeLease
    BY <1>0, <2>4 DEF LeaseComesDue, ExpireRuntimeLease, ClearLease
  <2>. QED BY <2>1, <2>2, <2>3, <2>4
<1>2. ASSUME NEW e, e.session \in Nat, e.gen \in Nat, Reached(e)
      PROVE  /\ e.session <= opened'
             /\ e.session = live'.session /\ live'.session # 0 => e.gen <= live'.gen
  BY <1>0, <1>1, <1>2 DEF Reached
<1>3. \A t \in Txns : Reached(snap[t])'
  BY <1>0, <1>2 DEF HistoryInv, Reached
<1>4. \A i \in 1..Len(head') : Reached(head[i])'
  BY <1>0, <1>2 DEF HistoryInv, Reached
<1>5. Exclusive' /\ NotOvertaken' /\ HistoryNeverRegresses'
  BY DEF HistoryInv, Exclusive, NotOvertaken, HistoryNeverRegresses
<1>. QED BY <1>3, <1>4, <1>5 DEF HistoryInv

\* A snapshot is of what is on stage, which nothing in the history is ahead of.
LEMMA GrantKeepsHistory ==
  ASSUME Parts, SessionsCounted, HistoryInv, NEW t \in Txns, GrantSnapshot(t)
  PROVE  HistoryInv'
<1>0. /\ live \in [session : Nat, gen : Nat, frozen : BOOLEAN] /\ opened \in Nat
      /\ snap \in [Txns -> [session : Nat, gen : Nat]] /\ Len(head) \in Nat
      /\ \A i \in 1..Len(head) : head[i] \in [txn : Txns, session : Nat, gen : Nat]
  BY Numbers
<1>1. /\ UNCHANGED <<pc, head, opened, live.session, live.gen>>
      /\ snap' = [snap EXCEPT ![t] = [session |-> live.session, gen |-> live.gen]]
      /\ call[t].req = "begin"
  BY <1>0 DEF GrantSnapshot, Pending
<1>2. pc[t] \in {"begin", "crashed"}
  BY <1>1 DEF Parts, CallTyped
<1>3. \A u \in Txns : /\ u # t => snap'[u] = snap[u]
                      /\ snap'[t] = [session |-> live.session, gen |-> live.gen]
  BY <1>0, <1>1
<1>4. \A u \in Txns : Reached(snap[u])'
  BY <1>0, <1>1, <1>3 DEF HistoryInv, Reached, SessionsCounted
<1>5. NotOvertaken'
  BY <1>0, <1>1, <1>3 DEF HistoryInv, NotOvertaken, Reached
<1>6. Exclusive' /\ HistoryNeverRegresses' /\ \A i \in 1..Len(head') : Reached(head[i])'
  BY <1>1 DEF HistoryInv, Exclusive, HistoryNeverRegresses, Reached
<1>. QED BY <1>1, <1>2, <1>3, <1>4, <1>5, <1>6 DEF HistoryInv

\* The lock is free when it is taken.
LEMMA BeginKeepsHistory ==
  ASSUME OnePublisher, Parts, HistoryInv, NEW t \in Txns, BeginCommit(t)
  PROVE  HistoryInv'
<1>1. /\ UNCHANGED <<stage, snap, head>>
      /\ pc[t] = "idle" /\ pc' = [pc EXCEPT ![t] = "begin"]
      /\ ~PublisherLocked(t)
  BY DEF BeginCommit, Advance
<1>2. \A u \in Txns : pc[u] \notin InSection
  BY <1>1 DEF PublisherLocked, OnePublisher
<1>3. \A u \in Txns : u # t => pc'[u] = pc[u]
  BY <1>1 DEF Parts, ControlTyped
<1>4. Exclusive'
  BY <1>2, <1>3 DEF Exclusive
<1>5. NotOvertaken'
  BY <1>1, <1>3 DEF HistoryInv, NotOvertaken
<1>6. \A u \in Txns : pc'[u] = "idle" => snap'[u].session = 0
  BY <1>1, <1>3 DEF HistoryInv, Parts, ControlTyped
<1>. QED BY <1>1, <1>4, <1>5, <1>6 DEF HistoryInv, Reached, HistoryNeverRegresses, stage

\* A call that is given up takes its snapshot with it.
LEMMA TimeOutKeepsHistory ==
  ASSUME Parts, HistoryInv, NEW t \in Txns, BeginTimesOut(t)
  PROVE  HistoryInv'
<1>0. /\ opened \in Nat /\ snap \in [Txns -> [session : Nat, gen : Nat]]
      /\ live \in [session : Nat, gen : Nat, frozen : BOOLEAN]
  BY Numbers
<1>1. /\ UNCHANGED <<stage, head>>
      /\ pc' = [pc EXCEPT ![t] = "done"] /\ snap' = [snap EXCEPT ![t] = NoSnap]
  BY DEF BeginTimesOut, Advance
<1>2. /\ \A u \in Txns : u # t => pc'[u] = pc[u] /\ snap'[u] = snap[u]
      /\ pc'[t] = "done" /\ snap'[t].session = 0
  BY <1>0, <1>1 DEF Parts, ControlTyped, NoSnap
<1>3. \A u \in Txns : Reached(snap[u])'
  BY <1>0, <1>1, <1>2 DEF HistoryInv, Reached, stage
<1>4. Exclusive'
  BY <1>2 DEF HistoryInv, Exclusive, InSection
<1>5. NotOvertaken'
  BY <1>1, <1>2 DEF HistoryInv, NotOvertaken
<1>. QED BY <1>1, <1>2, <1>3, <1>4, <1>5
     DEF HistoryInv, Reached, HistoryNeverRegresses, stage

\* What is committed is a snapshot that nothing has overtaken, and nobody else holds one.
LEMMA CommitKeepsHistory ==
  ASSUME Parts, HistoryInv, NEW t \in Txns, CreateCommit(t)
  PROVE  HistoryInv'
<1>. DEFINE entry == [txn |-> t, session |-> snap[t].session, gen |-> snap[t].gen]
<1>0. /\ snap \in [Txns -> [session : Nat, gen : Nat]] /\ Len(head) \in Nat
      /\ live \in [session : Nat, gen : Nat, frozen : BOOLEAN] /\ opened \in Nat
      /\ head \in Seq([txn : Txns, session : Nat, gen : Nat])
      /\ \A i \in 1..Len(head) : head[i] \in [txn : Txns, session : Nat, gen : Nat]
  BY Numbers
<1>1. /\ UNCHANGED <<stage, snap>> /\ head' = Append(head, entry)
      /\ pc[t] \in {"leased", "validated"} /\ pc' = [pc EXCEPT ![t] = "committed"]
  BY DEF CreateCommit, Advance
<1>2. entry \in [txn : Txns, session : Nat, gen : Nat]
  BY <1>0
<1>3. /\ Len(head') = Len(head) + 1 /\ head'[Len(head) + 1] = entry
      /\ \A i \in 1..Len(head) : head'[i] = head[i]
  BY <1>0, <1>1, <1>2, AppendProperties
<1>. HIDE DEF entry
<1>4. entry.session = snap[t].session /\ entry.gen = snap[t].gen
  BY DEF entry
<1>5. \A u \in Txns : pc'[u] \in InSection => pc[u] \in InSection /\ u = t
  BY <1>1 DEF Parts, ControlTyped, HistoryInv, Exclusive, InSection
<1>6. Exclusive'
  BY <1>5 DEF Exclusive
<1>7. NotOvertaken'
  <2>1. \A u \in Txns : pc'[u] \notin Bearing
    BY <1>1, <1>5 DEF Parts, ControlTyped, Bearing, InSection
  <2>. QED BY <2>1 DEF NotOvertaken
<1>8. \A i \in 1..Len(head') : Reached(head[i])'
  <2>1. Reached(entry)
    BY <1>0, <1>4 DEF HistoryInv, Reached
  <2>2. \A i \in 1..Len(head') : Reached(head'[i])
    <3>1. \A i \in 1..Len(head) : Reached(head'[i])
      BY <1>3 DEF HistoryInv
    <3>. Len(head) \in Nat /\ Len(head') = Len(head) + 1
      BY <1>0, <1>3
    <3>2. \A i \in 1..Len(head') : i \in 1..Len(head) \/ i = Len(head) + 1
      OBVIOUS
    <3>3. \A i \in 1..Len(head') : i \in 1..Len(head) \/ head'[i] = entry
      BY <1>3, <3>2
    <3>. QED BY <2>1, <3>1, <3>3
  <2>. QED BY <1>1, <2>2 DEF Reached, stage
<1>9. HistoryNeverRegresses'
  <2>1. \A i \in 1..Len(head) :
          head[i].session = entry.session /\ entry.session # 0 => head[i].gen <= entry.gen
    BY <1>1, <1>4 DEF HistoryInv, NotOvertaken, Bearing
  <2>. Len(head) \in Nat /\ Len(head') = Len(head) + 1
    BY <1>0, <1>3
  <2>2. \A i \in 1..Len(head') : i \in 1..Len(head) \/ i = Len(head) + 1
    OBVIOUS
  <2>3. SUFFICES ASSUME NEW i \in 1..Len(head'), NEW j \in 1..Len(head'), i < j,
                        head'[i].session = head'[j].session, head'[i].session # 0
                 PROVE  head'[i].gen <= head'[j].gen
    BY DEF HistoryNeverRegresses
  <2>4. i \in 1..Len(head)
    BY <1>0, <1>3, <2>3
  <2>5. CASE j \in 1..Len(head)
    BY <1>3, <2>3, <2>4, <2>5 DEF HistoryInv, HistoryNeverRegresses
  <2>6. CASE j = Len(head) + 1
    BY <1>3, <2>1, <2>3, <2>4, <2>6
  <2>. QED BY <2>2, <2>3, <2>5, <2>6
<1>10. \A u \in Txns : pc'[u] = "idle" => pc[u] = "idle"
  BY <1>1 DEF Parts, ControlTyped
<1>. QED BY <1>1, <1>6, <1>7, <1>8, <1>9, <1>10 DEF HistoryInv, Reached, stage

\* What the host does otherwise: it leaves the stage, the snapshots and the history alone
\* and goes on to a step that is no more than the one before.
LEMMA OtherHostSteps ==
  ASSUME Parts, NEW t \in Txns,
         Host(t), ~BeginCommit(t), ~BeginTimesOut(t), ~CreateCommit(t)
  PROVE  Leaves /\ UNCHANGED <<stage, snap, head>>
<1>. USE DEF Advance, Parts, ControlTyped, Leaves, InSection, Bearing, txn, pulse
<1>1. CASE BeginReturns(t)
  BY <1>1 DEF BeginReturns
<1>2. CASE OperationFails(t) \/ ExportArchive(t) \/ CommitWithoutLease(t)
  BY <1>2 DEF OperationFails, ExportArchive, CommitWithoutLease
<1>3. CASE SubmitValidate(t) \/ SubmitFinish(t)
  BY <1>3 DEF SubmitValidate, SubmitFinish
<1>4. CASE ValidateReturns(t) \/ FinishReturns(t) \/ AbortReturns(t)
  BY <1>4 DEF ValidateReturns, FinishReturns, AbortReturns
<1>5. CASE StopHeartbeat(t)
  BY <1>5 DEF StopHeartbeat
<1>6. CASE SubmitRenew(t) \/ RenewFails(t)
  BY <1>6 DEF SubmitRenew, RenewFails
<1>. QED BY <1>1, <1>2, <1>3, <1>4, <1>5, <1>6 DEF Host, HostStep

LEMMA HistoryKept ==
  ASSUME OnePublisher, Parts, SessionsCounted, HistoryInv, [Next]_vars
  PROVE  HistoryInv'
<1>0. live \in [session : Nat, gen : Nat, frozen : BOOLEAN]
  BY Numbers
<1>1. ASSUME UNCHANGED <<live.session, live.gen, opened, pc, snap, head>> PROVE HistoryInv'
  BY <1>1, LeavingKeepsHistory DEF Leaves
<1>2. CASE UNCHANGED vars
  BY <1>1, <1>2 DEF vars, stage, txn
<1>3. CASE \/ \E s \in Scenes : OpenStage(s) \/ OpenStageFails(s)
           \/ Author \/ AuthorBim \/ LeaseComesDue \/ ExpireRuntimeLease \/ RestartOwner
  <2>1. UNCHANGED <<txn, pulse, head>>
    BY <1>3, StageKept DEF Parts
  <2>. QED BY <1>3, <2>1, StageKeepsHistory DEF txn
<1>4. ASSUME NEW t \in Txns, GrantSnapshot(t) PROVE HistoryInv'
  BY <1>4, GrantKeepsHistory
<1>5. ASSUME NEW t \in Txns,
             \/ AnswerInactive(t) \/ AnswerBusy(t) \/ AnswerValidate(t)
             \/ AnswerFinish(t) \/ AnswerAbort(t) \/ AnswerRenew(t)
      PROVE  HistoryInv'
  <2>1. UNCHANGED <<live.session, live.gen, opened, pc, snap, head>>
    BY <1>0, <1>5 DEF AnswerInactive, AnswerBusy, AnswerValidate, AnswerFinish, AnswerAbort,
         AnswerRenew, ClearLease, stage, txn
  <2>. QED BY <1>1, <2>1
<1>6. ASSUME NEW t \in Txns, Host(t) PROVE HistoryInv'
  <2>1. CASE BeginCommit(t) \/ BeginTimesOut(t) \/ CreateCommit(t)
    BY <2>1, BeginKeepsHistory, TimeOutKeepsHistory, CommitKeepsHistory
  <2>2. CASE ~(BeginCommit(t) \/ BeginTimesOut(t) \/ CreateCommit(t))
    <3>1. Leaves /\ UNCHANGED <<stage, snap, head>>
      BY <1>6, <2>2, OtherHostSteps
    <3>. QED BY <3>1, LeavingKeepsHistory DEF stage
  <2>. QED BY <2>1, <2>2
<1>7. ASSUME NEW p \in Processes, CrashHost(p) PROVE HistoryInv'
  <2>1. Leaves /\ UNCHANGED <<stage, snap, head>>
    BY <1>7 DEF CrashHost, Leaves, InSection, Bearing
  <2>. QED BY <2>1, LeavingKeepsHistory DEF stage
<1>. QED BY <1>2, <1>3, <1>4, <1>5, <1>6, <1>7 DEF Next, OwnerStep, Answer, Host

\* The commits of one host on one Project never go back behind what an earlier one took
\* from the same live session, however many they are and whatever becomes of their leases
\* and of the processes that answer them (commit.rs:46-98).
THEOREM HistoryInOrder ==
  ASSUME OnePublisher
  PROVE  Safety => []HistoryNeverRegresses
<1>1. /\ TypeOK /\ FreezeInv /\ [Next]_vars => FreezeInv'
      /\ TypeOK /\ FreezeInv /\ HistoryInv /\ [Next]_vars => HistoryInv'
  BY TypeParts, FreezeKept, HistoryKept DEF Parts, FreezeInv
<1>2. HistoryInv => HistoryNeverRegresses
  BY DEF HistoryInv
<1>. QED BY <1>1, <1>2, FreezeInit, HistoryInit, TypeCorrect, PTL DEF Safety

-----------------------------------------------------------------------------
(* What is finalized is the newest commit of the stage                     *)

\* The call to finalize is about to be made, or was made and may yet be served.
Finalizing(t) == pc[t] \in {"committed", "finish"} \/ call[t].req = "finish"

\* The last commit of a session is that of t.
IsNewest(t) ==
  \E i \in 1..Len(head) :
    /\ head[i] = [txn |-> t, session |-> snap[t].session, gen |-> snap[t].gen]
    /\ \A j \in 1..Len(head) : i < j => head[j].session # snap[t].session

\* As long as t holds the lease and has committed, its commit is the newest of the leased
\* session, and nobody else has a snapshot of which another commit could be made.
FinishInv ==
  \A t \in Txns : lease.holder = t =>
    /\ pc[t] # "done" => snap[t].session = lease.session
    /\ Finalizing(t) =>
         /\ IsNewest(t)
         /\ \A u \in Txns \ {t} : pc[u] \in Bearing => snap[u].session = 0

LEMMA FinishInit == Init => FinishInv
BY Bounds DEF Init, NoLease, FinishInv

\* A step that takes no lease, no snapshot and no commit, and brings nobody nearer to one.
LEMMA LeavingKeepsFinish ==
  ASSUME FinishInv, Leaves, UNCHANGED <<snap, head>>,
         lease'.holder = None \/ (lease'.holder = lease.holder /\ lease'.session = lease.session),
         \A t \in Txns : /\ Finalizing(t)' => Finalizing(t)
                         /\ pc[t] = "done" => pc'[t] = "done"
  PROVE  FinishInv'
BY Bounds DEF FinishInv, Leaves, IsNewest

\* The request that is served when the lease is granted is not one to finalize.
LEMMA GrantKeepsFinish ==
  ASSUME Parts, NEW t \in Txns, GrantSnapshot(t)
  PROVE  FinishInv'
<1>1. /\ call[t].req = "begin" /\ UNCHANGED pc /\ call' = [call EXCEPT ![t].reply = "ready"]
      /\ lease' = [holder |-> t, session |-> live.session, gen |-> live.gen, due |-> FALSE]
      /\ snap' = [snap EXCEPT ![t] = [session |-> live.session, gen |-> live.gen]]
  BY DEF GrantSnapshot, Pending, Reply
<1>2. pc[t] \in {"begin", "crashed"} /\ call'[t].req = "begin"
  BY <1>1 DEF Parts, CallTyped
<1>3. ~Finalizing(t)'
  BY <1>1, <1>2 DEF Finalizing
<1>4. snap'[t].session = lease'.session
  BY <1>1 DEF Parts, SnapTyped
<1>. QED BY <1>1, <1>3, <1>4 DEF FinishInv

\* Its lock keeps everybody else from holding a snapshot when t commits; a commit of
\* somebody else's is of no snapshot and so of no session.
LEMMA CommitKeepsFinish ==
  ASSUME Parts, SessionsCounted, HistoryInv, FinishInv, NEW t \in Txns, CreateCommit(t)
  PROVE  FinishInv'
<1>. DEFINE entry == [txn |-> t, session |-> snap[t].session, gen |-> snap[t].gen]
<1>0. /\ Len(head) \in Nat /\ head \in Seq([txn : Txns, session : Nat, gen : Nat])
      /\ snap \in [Txns -> [session : Nat, gen : Nat]]
  BY Numbers
<1>1. /\ UNCHANGED <<lease, snap, call>> /\ head' = Append(head, entry)
      /\ pc[t] \in {"leased", "validated"} /\ pc' = [pc EXCEPT ![t] = "committed"]
  BY DEF CreateCommit, Advance, stage
<1>2. entry \in [txn : Txns, session : Nat, gen : Nat]
  BY <1>0
<1>3. /\ Len(head') = Len(head) + 1 /\ head'[Len(head) + 1] = entry
      /\ \A i \in 1..Len(head) : head'[i] = head[i]
  BY <1>0, <1>1, <1>2, AppendProperties
<1>4. \A u \in Txns : /\ u # t => pc'[u] = pc[u] /\ pc'[u] \notin Bearing
                      /\ pc'[t] = "committed"
  BY <1>1 DEF Parts, ControlTyped, HistoryInv, Exclusive, Bearing, InSection
<1>5. IsNewest(t)'
  BY <1>0, <1>1, <1>3 DEF IsNewest
<1>6. ASSUME NEW u \in Txns, u # t, lease.holder = u, Finalizing(u)
      PROVE  IsNewest(u)'
  <2>1. snap[t].session = 0
    BY <1>1, <1>6 DEF FinishInv, Bearing
  <2>0. pc[u] # "done"
    BY <1>6 DEF Finalizing, Parts, CallTyped
  <2>2. snap[u].session # 0
    BY <1>6, <2>0, Bounds DEF FinishInv, SessionsCounted
  <2>3. PICK i \in 1..Len(head) :
          /\ head[i] = [txn |-> u, session |-> snap[u].session, gen |-> snap[u].gen]
          /\ \A j \in 1..Len(head) : i < j => head[j].session # snap[u].session
    <3>1. IsNewest(u)
      BY <1>6 DEF FinishInv
    <3>. QED BY <3>1 DEF IsNewest
  <2>4. \A j \in 1..Len(head') : j \in 1..Len(head) \/ head'[j].session = 0
    <3>1. entry.session = 0
      BY <2>1
    <3>2. \A j \in 1..Len(head') : j \in 1..Len(head) \/ j = Len(head) + 1
      <4>1. Len(head) \in Nat /\ Len(head') = Len(head) + 1
        BY <1>0, <1>3
      <4>. QED BY <4>1
    <3>. QED BY <1>3, <3>1, <3>2
  <2>5. i \in 1..Len(head') /\ head'[i] = head[i]
    BY <1>0, <1>3
  <2>6. \A j \in 1..Len(head') : i < j => head'[j].session # snap[u].session
    BY <1>3, <2>2, <2>3, <2>4
  <2>. QED BY <1>1, <2>3, <2>5, <2>6 DEF IsNewest
<1>7. \A u \in Txns : u # t => (Finalizing(u)' <=> Finalizing(u))
  BY <1>1, <1>4 DEF Finalizing
<1>8. lease.holder = t => snap[t].session = lease.session
  BY <1>1 DEF FinishInv
<1>9. \A u \in Txns : pc'[u] \notin Bearing
  BY <1>4 DEF Bearing
<1>10. \A u \in Txns : lease'.holder = u /\ Finalizing(u)' => IsNewest(u)'
  BY <1>1, <1>5, <1>6, <1>7
<1>11. \A u \in Txns : lease'.holder = u /\ pc'[u] # "done" => snap'[u].session = lease'.session
  BY <1>1, <1>4, <1>8 DEF FinishInv
<1>. QED BY <1>9, <1>10, <1>11 DEF FinishInv

\* The other steps of a host: only one that has committed asks to finalize.
LEMMA HostKeepsFinish ==
  ASSUME Parts, HistoryInv, FinishInv, NEW t \in Txns, Host(t), ~CreateCommit(t)
  PROVE  FinishInv'
<1>1. CASE BeginCommit(t)
  <2>1. /\ UNCHANGED <<lease, snap, head>> /\ pc[t] = "idle"
        /\ pc' = [pc EXCEPT ![t] = "begin"] /\ call' = [call EXCEPT ![t] = Sent("begin")]
    BY <1>1 DEF BeginCommit, Advance, stage
  <2>2. \A u \in Txns : /\ u # t => pc'[u] = pc[u] /\ call'[u] = call[u]
                        /\ pc'[t] = "begin" /\ call'[t].req = "begin"
    BY <2>1 DEF Parts, ControlTyped, CallTyped, Sent
  <2>3. snap[t].session = 0
    BY <2>1 DEF HistoryInv
  <2>. QED BY <2>1, <2>2, <2>3 DEF FinishInv, Finalizing, IsNewest
<1>2. CASE BeginTimesOut(t)
  <2>1. /\ UNCHANGED <<lease, head>> /\ pc' = [pc EXCEPT ![t] = "done"]
        /\ snap' = [snap EXCEPT ![t] = NoSnap] /\ call' = [call EXCEPT ![t] = NoCall]
    BY <1>2 DEF BeginTimesOut, Advance, stage
  <2>2. \A u \in Txns :
          /\ u # t => pc'[u] = pc[u] /\ call'[u] = call[u] /\ snap'[u] = snap[u]
          /\ pc'[t] = "done" /\ call'[t].req = "none"
    BY <2>1 DEF Parts, ControlTyped, CallTyped, SnapTyped, NoCall
  <2>3. ~Finalizing(t)' /\ "done" \notin Bearing
    BY <2>2 DEF Finalizing, Bearing
  <2>4. \A u \in Txns : u # t => (Finalizing(u)' <=> Finalizing(u)) /\ (IsNewest(u) => IsNewest(u)')
    BY <2>1, <2>2 DEF Finalizing, IsNewest
  <2>. QED BY <2>1, <2>2, <2>3, <2>4 DEF FinishInv
<1>3. CASE ~BeginCommit(t) /\ ~BeginTimesOut(t)
  <2>1. Leaves /\ UNCHANGED <<stage, snap, head>>
    BY <1>3, OtherHostSteps
  <2>2. \A u \in Txns : u # t => pc'[u] = pc[u] /\ call'[u] = call[u]
    BY <1>3 DEF Host, HostStep, BeginReturns, OperationFails, ExportArchive, SubmitValidate,
         ValidateReturns, SubmitFinish, FinishReturns, CommitWithoutLease, StopHeartbeat,
         AbortReturns, SubmitRenew, RenewFails, Advance, Parts, ControlTyped, CallTyped, txn
  <2>3. Finalizing(t)' => Finalizing(t)
    BY <1>3 DEF Host, HostStep, BeginReturns, OperationFails, ExportArchive, SubmitValidate,
         ValidateReturns, SubmitFinish, FinishReturns, CommitWithoutLease, StopHeartbeat,
         AbortReturns, SubmitRenew, RenewFails, Advance, Parts, ControlTyped, CallTyped, txn,
         Finalizing, NoCall, Sent
  <2>4. pc[t] = "done" => pc'[t] = "done"
    BY <1>3 DEF Host, HostStep, BeginReturns, OperationFails, ExportArchive, SubmitValidate,
         ValidateReturns, SubmitFinish, FinishReturns, CommitWithoutLease, StopHeartbeat,
         AbortReturns, SubmitRenew, RenewFails, Advance, txn, InSection
  <2>5. \A u \in Txns : /\ Finalizing(u)' => Finalizing(u)
                        /\ pc[u] = "done" => pc'[u] = "done"
    BY <2>2, <2>3, <2>4 DEF Finalizing
  <2>. QED BY <2>1, <2>5, LeavingKeepsFinish DEF stage
<1>. QED BY <1>1, <1>2, <1>3

LEMMA FinishKept ==
  ASSUME Parts, SessionsCounted, HistoryInv, FinishInv, [Next]_vars
  PROVE  FinishInv'
<1>1. ASSUME UNCHANGED <<pc, snap, head>>, \A t \in Txns : call'[t].req = call[t].req,
             lease'.holder = None \/ (lease'.holder = lease.holder /\ lease'.session = lease.session)
      PROVE  FinishInv'
  BY <1>1, LeavingKeepsFinish DEF Leaves, Finalizing
<1>2. CASE UNCHANGED vars
  BY <1>1, <1>2 DEF vars, stage, txn
<1>3. CASE \/ \E s \in Scenes : OpenStage(s) \/ OpenStageFails(s)
           \/ Author \/ AuthorBim \/ LeaseComesDue \/ ExpireRuntimeLease \/ RestartOwner
  <2>1. UNCHANGED <<txn, pulse, head>>
    BY <1>3, StageKept DEF Parts
  <2>2. lease'.holder = None \/ (lease'.holder = lease.holder /\ lease'.session = lease.session)
    <3>1. CASE \/ \E s \in Scenes : OpenStage(s) \/ OpenStageFails(s)
               \/ Author \/ AuthorBim
      BY <3>1 DEF OpenStage, OpenStageFails, Author, AuthorBim, Edit
    <3>2. CASE LeaseComesDue
      BY <3>2 DEF LeaseComesDue, Parts, StageTyped
    <3>3. CASE ExpireRuntimeLease \/ RestartOwner
      BY <3>3 DEF ExpireRuntimeLease, ClearLease, RestartOwner, NoLease
    <3>. QED BY <1>3, <3>1, <3>2, <3>3
  <2>. QED BY <1>1, <2>1, <2>2 DEF txn
<1>4. ASSUME NEW t \in Txns, GrantSnapshot(t) PROVE FinishInv'
  BY <1>4, GrantKeepsFinish
<1>5. ASSUME NEW t \in Txns,
             \/ AnswerInactive(t) \/ AnswerBusy(t) \/ AnswerValidate(t)
             \/ AnswerFinish(t) \/ AnswerAbort(t) \/ AnswerRenew(t)
      PROVE  FinishInv'
  <2>1. /\ UNCHANGED <<pc, snap, head>>
        /\ \/ UNCHANGED call
           \/ \E r \in Replies : call' = [call EXCEPT ![t].reply = r]
    BY <1>5 DEF AnswerInactive, AnswerBusy, AnswerValidate, AnswerFinish, AnswerAbort,
         AnswerRenew, Reply, Replies, txn
  <2>2. \A u \in Txns : call'[u].req = call[u].req
    BY <2>1 DEF Parts, CallTyped
  <2>3. lease'.holder = None \/ (lease'.holder = lease.holder /\ lease'.session = lease.session)
    <3>1. CASE AnswerInactive(t) \/ AnswerBusy(t) \/ AnswerValidate(t)
      BY <3>1 DEF AnswerInactive, AnswerBusy, AnswerValidate, stage
    <3>2. CASE AnswerFinish(t) \/ AnswerAbort(t)
      BY <3>2 DEF AnswerFinish, AnswerAbort, ClearLease, NoLease
    <3>3. CASE AnswerRenew(t)
      BY <3>3 DEF AnswerRenew, Parts, StageTyped
    <3>. QED BY <1>5, <3>1, <3>2, <3>3
  <2>. QED BY <1>1, <2>1, <2>2, <2>3
<1>6. ASSUME NEW t \in Txns, Host(t) PROVE FinishInv'
  BY <1>6, CommitKeepsFinish, HostKeepsFinish
<1>7. ASSUME NEW p \in Processes, CrashHost(p) PROVE FinishInv'
  <2>1. Leaves /\ UNCHANGED <<stage, snap, head, call>>
    BY <1>7 DEF CrashHost, Leaves, InSection, Bearing
  <2>2. \A u \in Txns : /\ Finalizing(u)' => Finalizing(u)
                        /\ pc[u] = "done" => pc'[u] = "done"
    BY <1>7, <2>1 DEF CrashHost, Finalizing, InSection
  <2>. QED BY <2>1, <2>2, LeavingKeepsFinish DEF stage
<1>. QED BY <1>2, <1>3, <1>4, <1>5, <1>6, <1>7 DEF Next, OwnerStep, Answer, Host

\* An answer to a call to finalize is that of AnswerFinish.
LEMMA FinishedByAnswer ==
  ASSUME Parts, [Next]_vars, NEW t \in Txns,
         call[t].req = "finish", call[t].reply = "none", call'[t].reply = "ok"
  PROVE  AnswerFinish(t)
<1>. USE DEF Parts, CallTyped, stage, txn
<1>1. call'[t] # call[t]
  OBVIOUS
<1>2. CASE UNCHANGED vars
  BY <1>1, <1>2 DEF vars
<1>3. CASE \/ \E s \in Scenes : OpenStage(s) \/ OpenStageFails(s)
           \/ Author \/ AuthorBim \/ LeaseComesDue \/ ExpireRuntimeLease \/ RestartOwner
  <2>1. UNCHANGED <<txn, pulse, head>>
    BY <1>3, StageKept
  <2>. QED BY <1>1, <2>1
<1>4. ASSUME NEW u \in Txns, Answer(u) \/ AnswerRenew(u) PROVE AnswerFinish(t)
  <2>1. u = t
    BY <1>1, <1>4 DEF Answer, GrantSnapshot, AnswerInactive, AnswerBusy, AnswerValidate,
         AnswerFinish, AnswerAbort, AnswerRenew, Reply
  <2>2. ~GrantSnapshot(u) /\ ~AnswerValidate(u) /\ ~AnswerAbort(u)
    BY <2>1 DEF GrantSnapshot, AnswerValidate, AnswerAbort, Pending
  <2>3. ~AnswerInactive(u) /\ ~AnswerBusy(u) /\ ~AnswerRenew(u)
    BY <1>1, <2>1 DEF AnswerInactive, AnswerBusy, AnswerRenew, Reply
  <2>. QED BY <1>4, <2>1, <2>2, <2>3 DEF Answer
<1>5. ASSUME NEW u \in Txns, Host(u) PROVE FALSE
  <2>1. \/ UNCHANGED call
        \/ \E c \in {NoCall, Sent("begin"), Sent("validate"), Sent("finish"), Sent("abort")} :
             call' = [call EXCEPT ![u] = c]
    BY <1>5 DEF Host, HostStep, BeginCommit, BeginReturns, BeginTimesOut, OperationFails,
         ExportArchive, SubmitValidate, ValidateReturns, CreateCommit, SubmitFinish,
         FinishReturns, CommitWithoutLease, StopHeartbeat, AbortReturns, SubmitRenew,
         RenewFails
  <2>. QED BY <1>1, <2>1 DEF NoCall, Sent
<1>6. ASSUME NEW p \in Processes, CrashHost(p) PROVE FALSE
  BY <1>1, <1>6 DEF CrashHost
<1>. QED BY <1>2, <1>3, <1>4, <1>5, <1>6 DEF Next, OwnerStep, Host

\* What the owner answers to is the newest commit of the stage it shows.
LEMMA FinishIsCurrent ==
  ASSUME Parts, SessionsCounted, FinishInv, NEW t \in Txns, AnswerFinish(t)
  PROVE  Newest(live.session) = [txn |-> t, session |-> live.session, gen |-> live.gen]
<1>1. /\ call[t].req = "finish" /\ lease.holder = t
      /\ live.session = lease.session /\ live.gen = snap[t].gen
  BY DEF AnswerFinish, Pending, RevisionHolds
<1>2. pc[t] # "done" /\ Finalizing(t)
  BY <1>1 DEF Parts, CallTyped, Finalizing
<1>3. snap[t].session = live.session /\ IsNewest(t)
  BY <1>1, <1>2 DEF FinishInv
<1>4. PICK i \in 1..Len(head) :
        /\ head[i] = [txn |-> t, session |-> live.session, gen |-> live.gen]
        /\ \A j \in 1..Len(head) : i < j => head[j].session # live.session
  BY <1>1, <1>3 DEF IsNewest
<1>. DEFINE I == {j \in 1..Len(head) : head[j].session = live.session}
<1>5. Len(head) \in Nat
  BY Numbers
<1>6. i \in I /\ \A j \in I : j <= i
  BY <1>4, <1>5
<1>7. \A k \in I : (\A j \in I : j <= k) => k = i
  BY <1>5, <1>6
<1>8. (CHOOSE k \in I : \A j \in I : j <= k) = i
  BY <1>6, <1>7
<1>. QED BY <1>4, <1>8 DEF Newest

\* When the owner finalizes a commit of one host on one Project, it is the newest of the
\* session on stage and holds what is on stage (project_stage.rs:112-128), for any number
\* of transactions, however many of them were given up or died on the way.
THEOREM FinalizedIsCurrent ==
  ASSUME OnePublisher
  PROVE  Safety => FinishedIsCurrent
<1>. DEFINE Inv == FreezeInv /\ HistoryInv /\ FinishInv
<1>1. TypeOK /\ Inv /\ [Next]_vars => Inv'
  BY TypeParts, FreezeKept, HistoryKept, FinishKept DEF Parts, FreezeInv
<1>2. TypeOK /\ Inv /\ [Next]_vars =>
        [\A t \in Txns :
           call[t].req = "finish" /\ call[t].reply = "none" /\ call'[t].reply = "ok"
             => Newest(live.session)
                  = [txn |-> t, session |-> live.session, gen |-> live.gen]]_vars
  BY TypeParts, FinishedByAnswer, FinishIsCurrent DEF FreezeInv
<1>3. Init => Inv
  BY FreezeInit, HistoryInit, FinishInit
<1>. QED BY <1>1, <1>2, <1>3, TypeCorrect, PTL DEF Safety, FinishedIsCurrent

(***************************************************************************)
(* The migration. The invariants TLC checks on two assets of each kind     *)
(* follow from MigrationInv, which says what the journal and the canonical *)
(* manifest allow the files to be.                                         *)
(***************************************************************************)

\* Before the commit nothing is deleted, and no asset is moved without a journal that
\* says so.
BeforeCommit ==
  ~canonicalManifest =>
    /\ legacyManifest
    /\ \A a \in Assets : place[a] # "deleted" /\ wrapper[a] # "dropped"
    /\ journal # "publishing" => \A a \in Assets : Legacy(a)
    /\ step \notin {"finalizing", "opened"}

\* After it every asset is in place, and the journal stays until the cleanup is done.
AfterCommit ==
  canonicalManifest =>
    /\ \A a \in Assets : Published(a)
    /\ step \notin {"planning", "journalling", "publishing", "undoing"}
    /\ journal # "torn"
    /\ step = "removing" \/ journal = "none" =>
         ~legacyManifest /\ \A a \in Assets : wrapper[a] # "marked"

\* Only a Model in place has its wrapper renamed.
WrapperOK == \A a \in Assets : wrapper[a] # "plain" => a \in Models /\ place[a] = "final"

ControlOK ==
  /\ step = "planning" => journal = "none"
  /\ step = "journalling" => journal = "torn"
  /\ journal = "torn" => step \in {"journalling", "closed"}
  /\ step \in {"publishing", "undoing", "finalizing"} => journal # "none"
  /\ step = "undoing" => then # "opened"
  /\ step = "finalizing" => then = "opened"
  /\ step = "removing" => /\ then = "opened" <=> canonicalManifest
                          /\ ~canonicalManifest => \A a \in Assets : Legacy(a)

MigrationInv == MigrationTypeOK /\ BeforeCommit /\ AfterCommit /\ WrapperOK /\ ControlOK

-----------------------------------------------------------------------------
LEMMA MigrationPreserved == MigrationInv /\ [MigrationNext]_migrationVars => MigrationInv'
<1> SUFFICES ASSUME MigrationInv, [MigrationNext]_migrationVars PROVE MigrationInv'
  OBVIOUS
<1> USE MigrationAssumption DEF files, migrationVars, Assets, Directories, Authored, Legacy, Published
<1> USE DEF MigrationInv, MigrationTypeOK, BeforeCommit, AfterCommit, WrapperOK, ControlOK
<1>1. ASSUME NEW a \in Assets, StageLayer(a) PROVE MigrationInv'
  BY <1>1 DEF StageLayer
<1>2. ASSUME NEW a \in Assets, BackUp(a) PROVE MigrationInv'
  BY <1>2 DEF BackUp, PublishTurn, Move
<1>3. ASSUME NEW a \in Assets, PublishDirectory(a) PROVE MigrationInv'
  BY <1>3 DEF PublishDirectory, PublishTurn, Move
<1>4. ASSUME NEW a \in Assets, MarkWrapper(a) PROVE MigrationInv'
  BY <1>4 DEF MarkWrapper, PublishTurn
<1>5. ASSUME NEW a \in Assets, PublishLayer(a) PROVE MigrationInv'
  BY <1>5 DEF PublishLayer, PublishTurn
<1>6. ASSUME NEW a \in Assets, RemoveLayer(a) PROVE MigrationInv'
  BY <1>6 DEF RemoveLayer, UndoTurn
<1>7. ASSUME NEW a \in Assets, RestoreWrapper(a) PROVE MigrationInv'
  BY <1>7 DEF RestoreWrapper, UndoTurn
<1>8. ASSUME NEW a \in Assets, WithdrawDirectory(a) PROVE MigrationInv'
  BY <1>8 DEF WithdrawDirectory, UndoTurn, Move
<1>9. ASSUME NEW a \in Assets, Restore(a) PROVE MigrationInv'
  BY <1>9 DEF Restore, UndoTurn, Move
<1>10. ASSUME NEW a \in Assets, RemoveMarker(a) PROVE MigrationInv'
  BY <1>10 DEF RemoveMarker
<1>11. CASE Open
  BY <1>11 DEF Open, BeginPlan
<1>12. CASE WriteJournal
  BY <1>12 DEF WriteJournal, Goto
<1>24. CASE CreateJournal
  BY <1>24 DEF CreateJournal, Goto
<1>13. CASE MarkPublishing
  BY <1>13 DEF MarkPublishing
<1>14. CASE WriteManifest
  BY <1>14 DEF WriteManifest, Goto
<1>15. CASE VerifyUndone
  BY <1>15 DEF VerifyUndone, Goto
<1>16. CASE RemoveLegacyManifest
  BY <1>16 DEF RemoveLegacyManifest
<1>17. CASE Finalized
  BY <1>17 DEF Finalized, Goto
<1>18. CASE RemoveFromTransaction
  BY <1>18 DEF RemoveFromTransaction
<1>19. CASE TransactionRemoved
  BY <1>19 DEF TransactionRemoved, BeginPlan
<1>20. CASE PublishFails
  BY <1>20 DEF PublishFails, Goto, Fault
<1>21. CASE JournalFails
  BY <1>21 DEF JournalFails, Goto, Fault
<1>22. CASE Stop
  BY <1>22 DEF Stop, Fault
<1>23. CASE UNCHANGED migrationVars
  BY <1>23
<1> QED
  BY <1>1, <1>2, <1>3, <1>4, <1>5, <1>6, <1>7, <1>8, <1>9, <1>10, <1>11, <1>12,
     <1>13, <1>14, <1>15, <1>16, <1>17, <1>18, <1>19, <1>20, <1>21, <1>22, <1>23, <1>24
     DEF MigrationNext, MigrationStep

LEMMA MigrationInductive == MigrationSafety => []MigrationInv
<1>1. MigrationInit => MigrationInv
  <2> SUFFICES ASSUME MigrationInit PROVE MigrationInv
    OBVIOUS
  <2> USE DEF MigrationInit
  <2>1. MigrationTypeOK
    <3>1. legacyManifest \in BOOLEAN /\ canonicalManifest \in BOOLEAN
      OBVIOUS
    <3>2. faults \in 0..MaxFaults
      BY MigrationAssumption
    <3> QED
      BY <3>1, <3>2 DEF MigrationTypeOK, Assets
  <2>2. ~canonicalManifest /\ legacyManifest /\ \A a \in Assets : Legacy(a)
    BY DEF Legacy
  <2> QED
    BY <2>1, <2>2 DEF MigrationInv, BeforeCommit, AfterCommit, WrapperOK, ControlOK, Legacy
<1> QED
  BY <1>1, MigrationPreserved, PTL DEF MigrationSafety

\* Every file and every control point keeps to its kind (MigrationTypeOK).
THEOREM MigrationTypeCorrect == MigrationSafety => []MigrationTypeOK
<1>1. MigrationInv => MigrationTypeOK
  BY DEF MigrationInv
<1> QED
  BY <1>1, MigrationInductive, PTL

\* No fault at any step loses an asset (NothingLost).
THEOREM MigrationLosesNothing == MigrationSafety => []NothingLost
<1>1. MigrationInv => NothingLost
  BY DEF MigrationInv, BeforeCommit, AfterCommit, NothingLost
<1> QED
  BY <1>1, MigrationInductive, PTL

\* The canonical manifest is there only with every asset in place, and the legacy one
\* until then (ManifestCommits).
THEOREM ManifestIsCommitMarker == MigrationSafety => []ManifestCommits
<1>1. MigrationInv => ManifestCommits
  BY DEF MigrationInv, BeforeCommit, AfterCommit, ManifestCommits
<1> QED
  BY <1>1, MigrationInductive, PTL

\* Without a journal to recover from, and behind one that is torn, the Project has one
\* layout (Settled).
THEOREM MigrationIsAllOrNothing == MigrationSafety => []Settled
<1>1. MigrationInv => Settled
  BY DEF MigrationInv, MigrationTypeOK, BeforeCommit, AfterCommit, Settled
<1> QED
  BY <1>1, MigrationInductive, PTL
=============================================================================
