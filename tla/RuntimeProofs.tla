---------------------------- MODULE RuntimeProofs ----------------------------
(***************************************************************************)
(* What the render process serves and follows while it runs. First the     *)
(* queue in which other processes call it (RuntimeAuthorityQueue), for any *)
(* calls; then the live stage over its frames, and the three that follow it: *)
(* the semantic store, the delivery and the recovery checkpoints, for any  *)
(* prims, keys, capacities and numbers of edits, stages, faults, restarts  *)
(* and crashes.                                                            *)
(***************************************************************************)
EXTENDS RuntimeAuthorityQueue, SemanticStore, RuntimeDelivery, RecoveryCheckpoint,
        WellFoundedInduction, TLAPS

(***************************************************************************)
(* The queue: type correctness, the claim discipline, the truth of an      *)
(* answer, no grant after giving up, and that the file protocol implements *)
(* CallContract.                                                           *)
(***************************************************************************)

\* The calls on which the owner has not yet decided anything.
Undecided ==
  requests \cup (envelopes \ {current})
    \cup (IF pc \in {"serving", "claiming"} THEN {current} ELSE {})

\* A pass of the owner: what it lists and holds is disjoint from the inbox.
PassOK ==
  /\ requests \cap envelopes = {} /\ listing \cap envelopes = {}
  /\ pc = "idle" => envelopes = {} /\ listing = {}
  /\ current # NoCall => current \in envelopes /\ listing = {}

\* A call that is not in the inbox yet has left no trace.
UnsentOK ==
  \A c \in Calls : caller[c] \in {"idle", "claimed"} =>
    /\ c \notin requests \cup listing \cup envelopes
    /\ c \notin active \cup cancellations
    /\ caller[c] = "idle" => c \notin waiting
    /\ effect[c] = "none" /\ responseFiles[c] = "none" /\ result[c] = "none"

UndecidedOK ==
  \A c \in Undecided : /\ effect[c] = "none" /\ c \notin active
                       /\ responseFiles[c] = "none" /\ result[c] = "none"

\* A decision that is on its way out agrees with what was done.
PublishingOK ==
  pc = "publishing" =>
    /\ responseFiles[current] = "none" /\ result[current] = "none"
    /\ \/ reply = "granted" /\ effect[current] = "applied"
       \/ reply = "refused" /\ effect[current] = "none"

\* A host that no longer waits on its claim has lost it or used it.
ClaimOK == \A c \in Calls : caller[c] \in {"grace", "busy"} => c \notin waiting

ResponseOK ==
  \A c \in Calls : /\ responseFiles[c] = "granted" => effect[c] = "applied"
                   /\ responseFiles[c] = "refused" => effect[c] = "none"

ResultOK == \A c \in Calls : (caller[c] = "answered") <=> (result[c] # "none")

Discipline ==
  /\ PassOK /\ UnsentOK /\ UndecidedOK /\ PublishingOK
  /\ OneClaimWinner /\ ClaimOK /\ ResponseOK /\ ResultOK /\ AnswerIsTrue

QueueInv == TypeOK /\ Discipline
-----------------------------------------------------------------------------
\* Every variable keeps its type, and the owner holds an envelope exactly in the
\* steps that work on one (TypeOK, over the whole of the queue).
THEOREM QueueTypeCorrect == Safety => []TypeOK
<1> USE QueueAssumption DEF files, claims, host, owner, vars, Replies, Polling, Closed
<1>1. Init => TypeOK
  BY DEF Init, TypeOK
<1>2. TypeOK /\ [Next]_vars => TypeOK'
  <2> SUFFICES ASSUME TypeOK, [Next]_vars PROVE TypeOK'
    OBVIOUS
  <2> USE DEF TypeOK
  <2>1. ASSUME NEW c \in Calls, CreateWaitingClaim(c) PROVE TypeOK'
    BY <2>1 DEF CreateWaitingClaim, CallerStep
  <2>2. ASSUME NEW c \in Calls, Enqueue(c) PROVE TypeOK'
    BY <2>2 DEF Enqueue, CallerStep
  <2>3. ASSUME NEW c \in Calls, TakeResponse(c) PROVE TypeOK'
    BY <2>3 DEF TakeResponse, CallerStep, ClearRequestState
  <2>4. ASSUME NEW c \in Calls, Deadline(c) PROVE TypeOK'
    BY <2>4 DEF Deadline, CallerStep
  <2>5. ASSUME NEW c \in Calls, CancelWaitingRequest(c) PROVE TypeOK'
    BY <2>5 DEF CancelWaitingRequest, CallerStep
  <2>6. ASSUME NEW c \in Calls, EnterGrace(c) PROVE TypeOK'
    BY <2>6 DEF EnterGrace, CallerStep
  <2>7. ASSUME NEW c \in Calls, GraceExpires(c) PROVE TypeOK'
    BY <2>7 DEF GraceExpires, CallerStep
  <2>8. ASSUME NEW c \in Calls, Detach(c) PROVE TypeOK'
    BY <2>8 DEF Detach, CallerStep
  <2>9. ASSUME NEW c \in Calls, RemoveStaleArtifact(c) PROVE TypeOK'
    BY <2>9 DEF RemoveStaleArtifact, ClearRequestState
  <2>10. ASSUME NEW c \in Calls, ConsumeRequest(c) PROVE TypeOK'
    BY <2>10 DEF ConsumeRequest
  <2>11. ASSUME NEW c \in Calls, ConsumeFails(c) PROVE TypeOK'
    BY <2>11 DEF ConsumeFails, OwnerIdle
  <2>12. ASSUME NEW c \in Calls, Refuse(c) PROVE TypeOK'
    BY <2>12 DEF Refuse
  <2>13. ASSUME NEW c \in Calls, Dispatch(c) PROVE TypeOK'
    BY <2>13 DEF Dispatch
  <2>14. ASSUME NEW r \in Replies, ServeLeaseRequest(r) PROVE TypeOK'
    BY <2>14 DEF ServeLeaseRequest, Serve
  <2>15. CASE RefuseSnapshot
    BY <2>15 DEF RefuseSnapshot, Serve
  <2>16. CASE FreezeAndExport
    BY <2>16 DEF FreezeAndExport
  <2>17. CASE ClaimRequest
    BY <2>17 DEF ClaimRequest
  <2>18. CASE ClaimLost
    BY <2>18 DEF ClaimLost, Serve
  <2>19. CASE PublishResponse
    BY <2>19 DEF PublishResponse, NextEnvelope, Ready
  <2>20. CASE PublishFails
    BY <2>20 DEF PublishFails, Ready
  <2>21. CASE ClearAfterReply
    BY <2>21 DEF ClearAfterReply, ClearRequestState, NextEnvelope
  <2>22. CASE OwnerRestart
    BY <2>22 DEF OwnerRestart, OwnerIdle
  <2>23. CASE ListRequests
    BY <2>23 DEF ListRequests
  <2>24. CASE UNCHANGED vars
    BY <2>24
  <2> QED
    BY <2>1, <2>2, <2>3, <2>4, <2>5, <2>6, <2>7, <2>8, <2>9, <2>10, <2>11, <2>12, <2>13,
       <2>14, <2>15, <2>16, <2>17, <2>18, <2>19, <2>20, <2>21, <2>22, <2>23, <2>24
       DEF Next, HostStep, OwnerStep
<1> QED
  BY <1>1, <1>2, PTL DEF Safety

-----------------------------------------------------------------------------
LEMMA DisciplineStep == QueueInv /\ TypeOK' /\ [Next]_vars => Discipline'
<1> SUFFICES ASSUME QueueInv, TypeOK', [Next]_vars PROVE Discipline'
  OBVIOUS
<1> USE QueueAssumption DEF files, claims, host, owner, vars, Replies, Polling, Closed
<1> USE DEF QueueInv, TypeOK, Discipline, PassOK, UnsentOK, Undecided, UndecidedOK,
            PublishingOK, OneClaimWinner, ClaimOK, ResponseOK, ResultOK, AnswerIsTrue
<1>1. ASSUME NEW c \in Calls, CreateWaitingClaim(c) PROVE Discipline'
  BY <1>1 DEF CreateWaitingClaim, CallerStep
<1>2. ASSUME NEW c \in Calls, Enqueue(c) PROVE Discipline'
  BY <1>2 DEF Enqueue, CallerStep
<1>3. ASSUME NEW c \in Calls, TakeResponse(c) PROVE Discipline'
  BY <1>3 DEF TakeResponse, CallerStep, ClearRequestState
<1>4. ASSUME NEW c \in Calls, Deadline(c) PROVE Discipline'
  BY <1>4 DEF Deadline, CallerStep
<1>5. ASSUME NEW c \in Calls, CancelWaitingRequest(c) PROVE Discipline'
  BY <1>5 DEF CancelWaitingRequest, CallerStep
<1>6. ASSUME NEW c \in Calls, EnterGrace(c) PROVE Discipline'
  BY <1>6 DEF EnterGrace, CallerStep
<1>7. ASSUME NEW c \in Calls, GraceExpires(c) PROVE Discipline'
  BY <1>7 DEF GraceExpires, CallerStep
<1>8. ASSUME NEW c \in Calls, Detach(c) PROVE Discipline'
  BY <1>8 DEF Detach, CallerStep
<1>9. ASSUME NEW c \in Calls, RemoveStaleArtifact(c) PROVE Discipline'
  BY <1>9 DEF RemoveStaleArtifact, ClearRequestState
<1>10. ASSUME NEW c \in Calls, ConsumeRequest(c) PROVE Discipline'
  BY <1>10 DEF ConsumeRequest
<1>11. ASSUME NEW c \in Calls, ConsumeFails(c) PROVE Discipline'
  BY <1>11 DEF ConsumeFails, OwnerIdle
<1>12. ASSUME NEW c \in Calls, Refuse(c) PROVE Discipline'
  BY <1>12 DEF Refuse
<1>13. ASSUME NEW c \in Calls, Dispatch(c) PROVE Discipline'
  BY <1>13 DEF Dispatch
<1>14. ASSUME NEW r \in Replies, ServeLeaseRequest(r) PROVE Discipline'
  BY <1>14 DEF ServeLeaseRequest, Serve
<1>15. CASE RefuseSnapshot
  BY <1>15 DEF RefuseSnapshot, Serve
<1>16. CASE FreezeAndExport
  BY <1>16 DEF FreezeAndExport
<1>17. CASE ClaimRequest
  BY <1>17 DEF ClaimRequest
<1>18. CASE ClaimLost
  BY <1>18 DEF ClaimLost, Serve
<1>19. CASE PublishResponse
  BY <1>19 DEF PublishResponse, NextEnvelope, Ready
<1>20. CASE PublishFails
  BY <1>20 DEF PublishFails, Ready
<1>21. CASE ClearAfterReply
  BY <1>21 DEF ClearAfterReply, ClearRequestState, NextEnvelope
<1>22. CASE OwnerRestart
  BY <1>22 DEF OwnerRestart, OwnerIdle
<1>23. CASE ListRequests
  BY <1>23 DEF ListRequests
<1>24. CASE UNCHANGED vars
  BY <1>24
<1> QED
  BY <1>1, <1>2, <1>3, <1>4, <1>5, <1>6, <1>7, <1>8, <1>9, <1>10, <1>11, <1>12, <1>13,
     <1>14, <1>15, <1>16, <1>17, <1>18, <1>19, <1>20, <1>21, <1>22, <1>23, <1>24 DEF Next,
     HostStep, OwnerStep

LEMMA InductiveInvariant == Safety => []QueueInv
<1>1. Init => QueueInv
  BY QueueAssumption
     DEF Init, QueueInv, TypeOK, Replies, Polling, Closed, Discipline, PassOK, UnsentOK,
         Undecided, UndecidedOK, PublishingOK, OneClaimWinner, ClaimOK, ResponseOK,
         ResultOK, AnswerIsTrue
<1>2. QueueInv /\ TypeOK' /\ [Next]_vars => QueueInv'
  BY DisciplineStep DEF QueueInv
<1> QED
  BY <1>1, <1>2, QueueTypeCorrect, PTL DEF Safety

\* The rename of a claim has one winner, for any number of calls and any order of
\* host and owner steps, crashes included (OneClaimWinner).
THEOREM ClaimHasOneWinner == Safety => []OneClaimWinner
<1>1. QueueInv => OneClaimWinner
  BY DEF QueueInv, Discipline
<1> QED
  BY <1>1, InductiveInvariant, PTL

\* What a host is told is what the owner did and stands by (AnswerIsTrue).
THEOREM AnswersAreTrue == Safety => []AnswerIsTrue
<1>1. QueueInv => AnswerIsTrue
  BY DEF QueueInv, Discipline
<1> QED
  BY <1>1, InductiveInvariant, PTL

\* A host that gave up on a snapshot is never granted it later (NoGrantAfterGivingUp).
THEOREM NoLateGrant == Safety => NoGrantAfterGivingUp
<1> DEFINE NoLate == \A c \in SnapshotCalls :
             caller[c] = "busy" /\ effect[c] = "none" => effect'[c] = "none"
<1>1. QueueInv /\ [Next]_vars => [NoLate]_vars
  <2> SUFFICES ASSUME QueueInv, [Next]_vars, NEW s \in SnapshotCalls,
                      caller[s] = "busy", effect[s] = "none"
               PROVE  effect'[s] = "none"
    OBVIOUS
  <2>1. s \notin waiting /\ s \in Calls
    BY QueueAssumption DEF QueueInv, Discipline, ClaimOK
  <2> USE <2>1 DEF QueueInv, TypeOK
  <2>2. CASE effect' = effect
    BY <2>2
  <2>3. ASSUME NEW r \in Replies, ServeLeaseRequest(r) PROVE effect'[s] = "none"
    BY <2>3 DEF ServeLeaseRequest, Serve
  <2>4. CASE ClaimRequest
    BY <2>4 DEF ClaimRequest
  <2>5. CASE PublishFails
    BY <2>5 DEF PublishFails, Ready, Discipline, PublishingOK
  <2> QED
    BY <2>2, <2>3, <2>4, <2>5
       DEF Next, HostStep, OwnerStep, vars, CreateWaitingClaim, Enqueue, TakeResponse,
           Deadline, CancelWaitingRequest, EnterGrace, GraceExpires, Detach,
           RemoveStaleArtifact, ListRequests, ConsumeRequest, ConsumeFails, Refuse,
           Dispatch, RefuseSnapshot, FreezeAndExport, ClaimLost, PublishResponse,
           ClearAfterReply, OwnerRestart
<1> QED
  BY <1>1, InductiveInvariant, PTL DEF Safety, NoGrantAfterGivingUp

-----------------------------------------------------------------------------
\* The outcome of one call follows its caller.
LEMMA OutcomeFollows ==
  ASSUME TypeOK, NEW c \in Calls, NEW from, NEW to, CallerStep(c, from, to)
  PROVE  Outcome' = [Outcome EXCEPT ![c] = OutcomeOf(to)] /\ Outcome[c] = OutcomeOf(caller[c])
  BY DEF TypeOK, CallerStep, Outcome

\* The files and renames of the queue implement the contract of a call (KeepsContract).
THEOREM QueueImplementsContract == Safety => KeepsContract
<1> USE QueueAssumption
<1>1. Init => Contract!Init
  BY DEF Init, Contract!Init, Outcome, OutcomeOf, Polling
<1>2. QueueInv /\ [Next]_vars => [Contract!Next]_(Contract!vars)
  <2> SUFFICES ASSUME QueueInv, [Next]_vars
               PROVE  Contract!Next \/ UNCHANGED Contract!vars
    OBVIOUS
  <2> USE DEF QueueInv, TypeOK, Polling, Closed, Replies, OutcomeOf
  <2>1. ASSUME NEW c \in Calls, CreateWaitingClaim(c) PROVE Contract!Open(c)
    BY <2>1, OutcomeFollows DEF CreateWaitingClaim, CallerStep, Contract!Open, Outcome
  <2>2. ASSUME NEW c \in Calls, TakeResponse(c) PROVE Contract!Answer(c, responseFiles[c])
    BY <2>2, OutcomeFollows
       DEF TakeResponse, CallerStep, Contract!Answer, Outcome, Discipline, ResponseOK
  <2>3. ASSUME NEW c \in Calls, CancelWaitingRequest(c) \/ GraceExpires(c)
        PROVE  Contract!Abandon(c, "gaveUp")
    BY <2>3, OutcomeFollows
       DEF CancelWaitingRequest, GraceExpires, CallerStep, Contract!Abandon, Outcome
  <2>4. ASSUME NEW c \in Calls, Detach(c) PROVE Contract!Abandon(c, "detached")
    BY <2>4, OutcomeFollows DEF Detach, CallerStep, Contract!Abandon, Outcome
  <2>5. ASSUME NEW r \in Replies, ServeLeaseRequest(r), r = "granted"
        PROVE  Contract!Apply(current)
    BY <2>5 DEF ServeLeaseRequest, Serve, Contract!Apply, Outcome, host, Discipline,
                PassOK, UnsentOK, Undecided, UndecidedOK, ResultOK
  <2>6. CASE ClaimRequest
    BY <2>6 DEF ClaimRequest, Contract!Apply, Contract!Next, Outcome, host, Discipline,
                PassOK, UnsentOK, Undecided, UndecidedOK, ClaimOK, ResultOK
  <2>7. CASE PublishFails /\ Ready
    BY <2>7 DEF PublishFails, Ready, Contract!Undo, Contract!Next, Outcome, host,
                Discipline, PublishingOK, ResultOK
  <2>8. ASSUME UNCHANGED <<result, effect>>, Outcome' = Outcome
        PROVE  UNCHANGED Contract!vars
    BY <2>8 DEF Contract!vars
  <2>9. ASSUME NEW c \in Calls, Enqueue(c) \/ Deadline(c) \/ EnterGrace(c)
        PROVE  Outcome' = Outcome
    BY <2>9 DEF Enqueue, Deadline, EnterGrace, CallerStep, Outcome
  <2>10. (caller' = caller) => Outcome' = Outcome
    BY DEF Outcome
  <2> QED
    BY <2>1, <2>2, <2>3, <2>4, <2>5, <2>6, <2>7, <2>8, <2>9, <2>10
       DEF Next, HostStep, OwnerStep, vars, host, Contract!Next, Enqueue, Deadline,
           EnterGrace, RemoveStaleArtifact, ListRequests, ConsumeRequest, ConsumeFails,
           Refuse, Dispatch, ServeLeaseRequest, Serve, RefuseSnapshot, FreezeAndExport,
           ClaimLost, PublishResponse, PublishFails, Ready, ClearAfterReply,
           OwnerRestart, TakeResponse
<1> QED
  BY <1>1, <1>2, InductiveInvariant, PTL DEF Safety, KeepsContract, Contract!Safety

(***************************************************************************)
(* The live stage over its frames.                                         *)
(***************************************************************************)

FrameInv == FrameTypeOK /\ FrameCounts

LEMMA FrameInit0 == FrameInit => FrameInv
  BY FrameAssumption DEF FrameInit, FrameInv, FrameTypeOK, FrameCounts, Phases

\* FrameInv is about frameVars only.
LEMMA FrameSame == FrameInv /\ UNCHANGED frameVars => FrameInv'
  BY DEF FrameInv, FrameTypeOK, FrameCounts, frameVars, live

\* What the frames and the edits do keeps the types of the frame, and its counts.
LEMMA FrameKept ==
  ASSUME FrameInv,
         \/ StartUpdate /\ UNCHANGED faults
         \/ Edit \/ OpenStage \/ DrainNotices \/ EndUpdate
  PROVE  FrameInv'
<1> USE FrameAssumption DEF FrameInv, FrameTypeOK, FrameCounts, live
<1>1. CASE Edit
  <2>1. PICK rows \in Rows \ {stage} :
           /\ stage' = rows
           /\ \/ queue' = queue \cup {p \in Paths : rows[p] # stage[p]}
              \/ queue' = {Root}
    BY <1>1 DEF Edit
  <2>2. queue' \subseteq Paths \cup {Root}
    BY <2>1
  <2>3. edits' \in 0 .. MaxEdits /\ revision' + (IF queue' = {} THEN 0 ELSE 1) <= edits'
    BY <1>1 DEF Edit
  <2> QED
    BY <1>1, <2>1, <2>2, <2>3 DEF Edit
<1>2. CASE OpenStage
  BY <1>2 DEF OpenStage
<1>3. CASE StartUpdate /\ UNCHANGED faults
  BY <1>3 DEF StartUpdate, Phases
<1>4. CASE DrainNotices
  <2>1. CASE queue = {}
    BY <1>4, <2>1 DEF DrainNotices, Phases
  <2>2. CASE queue # {}
    <3>1. revision + 1 \in 1 .. MaxEdits
      BY <2>2
    <3>2. batch' \in Batches /\ batch'.revision \in 1 .. MaxEdits
      BY <1>4, <2>2, <3>1 DEF DrainNotices, Batches
    <3> QED
      BY <1>4, <2>2, <3>1, <3>2 DEF DrainNotices, Phases
  <2> QED
    BY <2>1, <2>2
<1>5. CASE EndUpdate
  BY <1>5 DEF EndUpdate, Phases
<1> QED
  BY <1>1, <1>2, <1>3, <1>4, <1>5

(***************************************************************************)
(* SemanticSync. That the snapshot follows the stage rests on SnapshotInv: *)
(* a prim that the snapshot shows as it was is named by a notice that      *)
(* waits or by the batch of the frame.                                     *)
(***************************************************************************)

\* The snapshot's types are those of rows and of the frame's counters.
SnapshotTyped ==
  /\ \/ sync = None
     \/ sync \in [session : 1 .. MaxSessions, revision : 0 .. MaxEdits, rows : Rows]
  /\ lost \in BOOLEAN

\* Between the drain and synchronize_live_stage the batch is that of the frame.
InFrame == phase \in {"Commands", "PostUpdate"}

Waiting == queue \cup (IF InFrame /\ batch # None THEN batch.named ELSE {})

SnapshotInv ==
  /\ sync # None => /\ stage # None /\ sync.session = session
                    /\ sync.revision <= revision
  /\ sync # None /\ InFrame /\ batch # None =>
        batch.revision = revision /\ sync.revision < revision
  /\ sync # None /\ ~lost =>
        Root \in Waiting \/ \A p \in Paths \ Waiting : sync.rows[p] = stage[p]

SyncInv == FrameInv /\ SnapshotTyped /\ SnapshotInv

\* What a system does to the snapshot in its frame, or another only by a fault.
SyncStep ==
  \/ Change \/ Update \/ ByDelta \/ BySnapshot \/ ExtractionFails \/ NothingToDo

OnlyFaults == UNCHANGED <<live, batch, edits, sync, lost>> /\ (Fault \/ UNCHANGED faults)

LEMMA SyncStart == SyncInit => SyncInv
<1> SUFFICES ASSUME SyncInit PROVE SyncInv
  OBVIOUS
<1> QED
  BY FrameInit0 DEF SyncInit, SyncInv, SnapshotTyped, SnapshotInv

LEMMA RootIsNoPath == Root \notin Paths
  BY FrameAssumption DEF Root, Paths

\* A delta or a snapshot is of a revision that the one before had not.
LEMMA Newer ==
  ASSUME SyncInv, ByDelta \/ BySnapshot
  PROVE  /\ sync' = [session |-> session, revision |-> revision, rows |-> sync'.rows]
         /\ sync'.rows \in Rows /\ stage # None
         /\ sync # None => sync.revision < revision
<1>1. stage # None /\ stage \in Rows
  BY DEF ByDelta, BySnapshot, UpToDate, SyncInv, FrameInv, FrameTypeOK
<1>2. phase = "PostUpdate"
  BY DEF ByDelta, BySnapshot, Advance, Synchronizes
<1>3. sync # None => batch # None /\ sync.revision < revision
  BY <1>1, <1>2 DEF ByDelta, BySnapshot, UpToDate, SameSession, HasNewBatch, SyncInv,
                    SnapshotInv, InFrame
<1>4. CASE BySnapshot
  BY <1>1, <1>3, <1>4 DEF BySnapshot, Advance
<1>5. CASE ByDelta
  <2>1. sync # None /\ Injective(Refreshed)
    BY <1>5 DEF ByDelta, CanUseDelta, SameSession
  <2>2. sync.rows \in Rows
    BY <2>1 DEF SyncInv, SnapshotTyped
  <2>3. Refreshed \in [Paths -> Keys \cup {None}]
    BY <1>1, <2>2 DEF Refreshed, Rows
  <2>4. Refreshed \in Rows
    BY <2>1, <2>3 DEF Rows
  <2> QED
    BY <1>1, <1>3, <1>5, <2>4 DEF ByDelta, Advance
<1> QED
  BY <1>4, <1>5

LEMMA AdvanceKeeps == ASSUME SyncInv, ByDelta \/ BySnapshot PROVE SyncInv'
<1>1. UNCHANGED <<live, batch, edits>> /\ phase = "PostUpdate" /\ phase' = "Project"
  BY DEF ByDelta, BySnapshot, Advance, Synchronizes
<1>2. faults' \in 0 .. MaxFaults /\ lost' \in BOOLEAN
  <2>1. (faults' = faults \/ Fault) /\ (lost' = lost \/ lost' = FALSE)
    BY Zenon DEF ByDelta, BySnapshot
  <2>2. faults' \in 0 .. MaxFaults
    BY <2>1, FrameAssumption DEF Fault, SyncInv, FrameInv, FrameTypeOK
  <2>3. lost' \in BOOLEAN
    BY <2>1, Zenon DEF SyncInv, SnapshotTyped
  <2> QED
    BY <2>2, <2>3
<1>3. FrameInv'
  BY <1>1, <1>2 DEF SyncInv, FrameInv, FrameTypeOK, FrameCounts, live, Phases
<1>4. SnapshotTyped'
  BY <1>2, Newer DEF SyncInv, FrameInv, FrameTypeOK, SnapshotTyped
<1>5. sync' # None => stage' # None /\ sync'.session = session' /\ sync'.revision <= revision'
  BY <1>1, Newer, FrameAssumption DEF live, SyncInv, FrameInv, FrameTypeOK
<1>6. Waiting' = queue
  BY <1>1 DEF Waiting, InFrame, live
<1>7. ASSUME ~lost', Root \notin queue, NEW p \in Paths \ queue
      PROVE  sync'.rows[p] = stage[p]
  <2>1. CASE BySnapshot
    BY <2>1 DEF BySnapshot, Advance
  <2>2. CASE ByDelta
    <3>1. /\ sync # None /\ batch # None /\ Root \notin batch.named /\ ~lost
          /\ sync'.rows = Refreshed
      BY <1>7, <2>2 DEF ByDelta, CanUseDelta, SameSession, UpToDate, HasNewBatch, Advance
    <3>2. Root \notin Waiting
      BY <1>7, <3>1 DEF Waiting
    <3>3. p \notin batch.named => p \notin Waiting
      BY <1>7 DEF Waiting
    <3>4. p \notin batch.named => sync.rows[p] = stage[p]
      BY <3>1, <3>2, <3>3 DEF SyncInv, SnapshotInv
    <3> QED
      BY <3>1, <3>4 DEF Refreshed
  <2> QED
    BY <2>1, <2>2
<1>8. SnapshotInv'
  BY <1>1, <1>5, <1>6, <1>7 DEF SnapshotInv, InFrame, live
<1> QED
  BY <1>3, <1>4, <1>8 DEF SyncInv

LEMMA ChangeKeeps == ASSUME SyncInv, Change PROVE SyncInv'
<1>1. FrameInv'
  BY FrameKept DEF SyncInv, Change
<1>2. CASE Edit /\ UNCHANGED <<sync, lost>>
  <2>1. PICK rows \in Rows \ {stage} :
           /\ stage' = rows
           /\ \/ queue' = queue \cup {p \in Paths : rows[p] # stage[p]}
              \/ queue' = {Root}
    BY <1>2 DEF Edit
  <2>2. UNCHANGED <<session, revision, batch, phase, sync, lost>> /\ stage # None
    BY <1>2 DEF Edit
  <2>3. stage' # None
    BY <2>1, FrameAssumption DEF Rows
  <2>4. CASE queue' = {Root}
    BY <1>1, <2>2, <2>3, <2>4 DEF SyncInv, SnapshotTyped, SnapshotInv, InFrame, Waiting
  <2>5. CASE queue' = queue \cup {p \in Paths : rows[p] # stage[p]}
    <3>1. Waiting' = Waiting \cup {p \in Paths : rows[p] # stage[p]}
      BY <2>2, <2>5 DEF Waiting, InFrame
    <3> QED
      BY <1>1, <2>1, <2>2, <2>3, <3>1 DEF SyncInv, SnapshotTyped, SnapshotInv, InFrame
  <2> QED
    BY <2>1, <2>4, <2>5
<1>3. CASE OpenStage /\ sync' = None /\ UNCHANGED lost
  BY <1>1, <1>3 DEF SyncInv, SnapshotTyped, SnapshotInv
<1> QED
  BY <1>2, <1>3 DEF Change

LEMMA UpdateKeeps == ASSUME SyncInv, Update PROVE SyncInv'
<1>1. FrameInv'
  BY FrameKept DEF SyncInv, Update
<1>2. UNCHANGED <<sync, lost, stage, session>>
  BY DEF Update, StartUpdate, DrainNotices, EndUpdate, live
<1>3. CASE StartUpdate \/ EndUpdate
  <2>1. UNCHANGED <<queue, batch, revision, InFrame>>
    BY <1>3 DEF StartUpdate, EndUpdate, live, InFrame
  <2> QED
    BY <1>1, <1>2, <2>1 DEF SyncInv, SnapshotTyped, SnapshotInv, Waiting
<1>4. CASE DrainNotices
  <2>1. revision \in Nat /\ queue' = {} /\ phase = "Update" /\ phase' = "Commands"
    BY <1>4 DEF DrainNotices, SyncInv, FrameInv, FrameTypeOK
  <2>2. sync # None => sync.revision \in Nat /\ sync.revision <= revision
    BY DEF SyncInv, SnapshotTyped, SnapshotInv
  <2>3. Waiting = queue
    BY <2>1 DEF Waiting, InFrame
  <2>4. CASE queue = {}
    <3>1. batch' = None /\ revision' = revision
      BY <1>4, <2>4 DEF DrainNotices
    <3>2. Waiting' = {}
      BY <2>1, <3>1 DEF Waiting
    <3> QED
      BY <1>1, <1>2, <2>2, <2>3, <2>4, <3>1, <3>2 DEF SyncInv, SnapshotTyped, SnapshotInv
  <2>5. CASE queue # {}
    <3>1. revision' = revision + 1 /\ batch' = [revision |-> revision + 1, named |-> queue]
      BY <1>4, <2>5 DEF DrainNotices
    <3>2. batch' \in Batches
      BY <2>1, <3>1 DEF SyncInv, FrameInv, FrameTypeOK, Batches
    <3>3. Waiting' = queue
      BY <2>1, <3>1, <3>2, FrameAssumption DEF Waiting, InFrame
    <3> QED
      BY <1>1, <1>2, <2>1, <2>2, <2>3, <3>1, <3>3 DEF SyncInv, SnapshotTyped, SnapshotInv
  <2> QED
    BY <2>4, <2>5
<1> QED
  BY <1>3, <1>4 DEF Update

LEMMA NothingReadKeeps == ASSUME SyncInv, ExtractionFails \/ NothingToDo PROVE SyncInv'
<1>1. UNCHANGED <<live, batch, sync, edits>> /\ phase = "PostUpdate" /\ phase' = "Project"
  BY DEF ExtractionFails, NothingToDo, Synchronizes
<1>2. faults' \in 0 .. MaxFaults /\ lost' \in BOOLEAN
  <2>1. (faults' = faults \/ Fault) /\ (lost' = lost \/ lost' = (lost \/ SameSession))
    BY Zenon DEF ExtractionFails, NothingToDo
  <2>2. faults' \in 0 .. MaxFaults
    BY <2>1, FrameAssumption DEF Fault, SyncInv, FrameInv, FrameTypeOK
  <2>3. (lost \/ SameSession) \in BOOLEAN
    OBVIOUS
  <2>4. lost' \in BOOLEAN
    BY <2>1, <2>3, Zenon DEF SyncInv, SnapshotTyped
  <2> QED
    BY <2>2, <2>4
<1>3. FrameInv'
  BY <1>1, <1>2 DEF SyncInv, FrameInv, FrameTypeOK, FrameCounts, live, Phases
<1>4. sync # None /\ ~lost' => batch = None /\ ~lost
  <2> SUFFICES ASSUME sync # None, ~lost' PROVE batch = None /\ ~lost
    OBVIOUS
  <2>1. SameSession
    BY DEF SameSession, SyncInv, SnapshotInv
  <2>2. NothingToDo /\ UpToDate /\ ~lost
    <3>1. CASE ExtractionFails
      <4>1. lost' = (lost \/ SameSession)
        BY <3>1, Zenon DEF ExtractionFails
      <4> QED
        BY <2>1, <4>1, Zenon
    <3>2. CASE NothingToDo
      <4>1. lost' = lost
        BY <3>2 DEF NothingToDo
      <4>2. ~lost
        BY <4>1, Zenon
      <4> QED
        BY <3>2, <4>2 DEF NothingToDo
    <3> QED
      BY <3>1, <3>2
  <2>3. stage # None /\ ~HasNewBatch
    BY <2>1, <2>2 DEF UpToDate, SyncInv, SnapshotInv
  <2> QED
    BY <1>1, <2>2, <2>3 DEF HasNewBatch, SyncInv, SnapshotInv, InFrame
<1>5. batch = None => Waiting = queue
  BY DEF Waiting
<1>6. Waiting' = queue
  BY <1>1 DEF Waiting, InFrame, live
<1>7. SnapshotInv'
  BY <1>1, <1>4, <1>5, <1>6 DEF SyncInv, SnapshotInv, InFrame, live
<1> QED
  BY <1>1, <1>2, <1>3, <1>7 DEF SyncInv, SnapshotTyped

LEMMA SyncKept ==
  ASSUME SyncInv,
         SyncStep \/ UNCHANGED syncVars
           \/ (OnlyFaults /\ (StartUpdate \/ UNCHANGED phase))
  PROVE  SyncInv'
<1>1. CASE SyncStep
  BY <1>1, AdvanceKeeps, ChangeKeeps, UpdateKeeps, NothingReadKeeps DEF SyncStep
<1>2. CASE UNCHANGED syncVars
  BY <1>2, FrameSame
     DEF syncVars, frameVars, live, SyncInv, SnapshotTyped, SnapshotInv, InFrame, Waiting
<1>3. CASE OnlyFaults /\ (StartUpdate \/ UNCHANGED phase)
  <2>1. faults' \in 0 .. MaxFaults /\ phase' \in Phases
    BY <1>3, FrameAssumption
       DEF OnlyFaults, Fault, StartUpdate, SyncInv, FrameInv, FrameTypeOK, Phases
  <2>2. FrameInv'
    BY <1>3, <2>1 DEF OnlyFaults, SyncInv, FrameInv, FrameTypeOK, FrameCounts, live
  <2>3. UNCHANGED InFrame
    BY <1>3 DEF StartUpdate, InFrame
  <2> QED
    BY <1>3, <2>2, <2>3
       DEF OnlyFaults, live, SyncInv, SnapshotTyped, SnapshotInv, Waiting
<1> QED
  BY <1>1, <1>2, <1>3

LEMMA SyncInvTypes == SyncInv => SyncTypeOK
  BY DEF SyncInv, FrameInv, SnapshotTyped, SyncTypeOK

LEMMA SyncInvFollows == SyncInv => FollowsStage
<1> SUFFICES ASSUME SyncInv, sync # None, sync.revision = revision, queue = {}, ~lost
             PROVE  sync.rows = stage
  BY DEF FollowsStage, SameSession
<1>1. sync.rows \in Rows /\ stage \in Rows /\ revision \in Nat
  BY FrameAssumption DEF SyncInv, SnapshotInv, SnapshotTyped, FrameInv, FrameTypeOK
<1>2. Waiting = {}
  BY <1>1 DEF Waiting, SyncInv, SnapshotInv
<1>3. \A p \in Paths : sync.rows[p] = stage[p]
  BY <1>2 DEF SyncInv, SnapshotInv
<1> QED
  BY <1>1, <1>3 DEF Rows

(***************************************************************************)
(* SemanticStore: its types, of which the interesting one is that no two   *)
(* rows of the store share a key, whatever deltas it applies; and that the *)
(* snapshot follows the stage.                                             *)
(***************************************************************************)

StoreTyped ==
  /\ mailbox \in Seq(Commands) /\ Len(mailbox) <= MailboxCapacity
  /\ hand \in Commands \cup {None}
  /\ store \in [rows : Rows, loaded : BOOLEAN, failed : BOOLEAN]
  /\ responses \in 0 .. ResponseCapacity + 1
  /\ hand # None => responses <= ResponseCapacity

StoreIInv == SyncInv /\ StoreTyped

\* A delta that finds no key taken leaves every key to one prim.
LEMMA DeltaKeepsKeys ==
  ASSUME NEW rows \in Rows, NEW delta \in Commands, delta.kind = "delta",
         ~KeyIsTaken(rows, delta)
  PROVE  ApplyDelta(rows, delta) \in Rows
<1>1. delta.rows \in Rows /\ delta.removed \subseteq Paths
  BY DEF Commands
<1> DEFINE new == ApplyDelta(rows, delta)
<1>2. new \in [Paths -> Keys \cup {None}]
  BY <1>1 DEF ApplyDelta, Rows
<1>3. ASSUME NEW p \in Paths, NEW q \in Paths, new[p] = new[q], new[p] # None
      PROVE  p = q
  <2>1. \A r \in Paths : /\ r \in Upserts(delta) => new[r] = delta.rows[r]
                         /\ r \notin Upserts(delta) /\ r \in delta.removed => new[r] = None
                         /\ r \notin Upserts(delta) /\ r \notin delta.removed => new[r] = rows[r]
    BY DEF ApplyDelta
  <2> HIDE DEF new
  <2>2. CASE p \in Upserts(delta) /\ q \in Upserts(delta)
    BY <1>1, <1>3, <2>1, <2>2 DEF Rows, Injective
  <2>3. CASE p \notin Upserts(delta) /\ q \notin Upserts(delta)
    BY <1>3, <2>1, <2>3 DEF Rows, Injective
  <2>4. CASE p \in Upserts(delta) /\ q \notin Upserts(delta)
    BY <1>3, <2>1, <2>4 DEF KeyIsTaken
  <2>5. CASE p \notin Upserts(delta) /\ q \in Upserts(delta)
    BY <1>3, <2>1, <2>5 DEF KeyIsTaken
  <2> QED
    BY <2>2, <2>3, <2>4, <2>5
<1>4. Injective(new)
  BY <1>3 DEF Injective
<1> QED
  BY <1>2, <1>4 DEF Rows

LEMMA ApplyTyped ==
  ASSUME NEW s \in [rows : Rows, loaded : BOOLEAN, failed : BOOLEAN],
         NEW command \in Commands
  PROVE  Apply(s, command) \in [rows : Rows, loaded : BOOLEAN, failed : BOOLEAN]
<1>1. CASE Rejects(s, command)
  BY <1>1 DEF Apply
<1>2. CASE ~Rejects(s, command) /\ command.kind = "delta"
  <2>1. ApplyDelta(s.rows, command) \in Rows
    BY <1>2, DeltaKeepsKeys DEF Rejects
  <2> QED
    BY <1>2, <2>1 DEF Apply
<1>3. CASE ~Rejects(s, command) /\ command.kind # "delta"
  BY <1>3 DEF Apply, Commands
<1> QED
  BY <1>1, <1>2, <1>3

(***************************************************************************)
(* What the store will show: Replayed is a recursion over the commands, so *)
(* its laws rest on an induction, which WFMin gives: a set of numbers that *)
(* is not empty has a least one.                                           *)
(***************************************************************************)

LEMMA LeastNumber ==
  ASSUME NEW T \in SUBSET Nat, T # {}
  PROVE  \E n \in T : \A m \in T : ~(m < n)
<1>1. T \subseteq Nat
  OBVIOUS
<1>2. PICK n \in T : \A m \in T : ~ (<<m, n>> \in OpToRel(<, Nat))
  BY <1>1, NatLessThanWellFounded, WFMin, Zenon
<1>3. ASSUME NEW m \in T, m < n PROVE FALSE
  <2>1. <<m, n>> \in Nat \X Nat
    OBVIOUS
  <2>2. <<m, n>>[1] < <<m, n>>[2]
    BY <1>3
  <2>3. <<m, n>> \in OpToRel(<, Nat)
    BY <2>1, <2>2, Zenon DEF OpToRel
  <2> QED BY <1>2, <2>3, Zenon
<1> QED BY <1>3

LEMMA EveryNumber ==
  ASSUME NEW T \in SUBSET Nat, 0 \in T, \A n \in T : n + 1 \in T
  PROVE  \A n \in Nat : n \in T
<1> SUFFICES ASSUME Nat \ T # {} PROVE FALSE
  OBVIOUS
<1>1. Nat \ T \in SUBSET Nat
  OBVIOUS
<1>2. PICK n \in Nat \ T : \A m \in Nat \ T : ~(m < n)
  BY <1>1, LeastNumber
<1>3. n # 0 /\ n - 1 \in Nat /\ n - 1 < n
  OBVIOUS
<1>4. n - 1 \in T
  BY <1>2, <1>3
<1> QED BY <1>3, <1>4

Stores == [rows : Rows, loaded : BOOLEAN, failed : BOOLEAN]

\* The stores that the first n commands lead to, the one they start from included.
Leads(run, from, commands, n) ==
  /\ run \in [0 .. n -> Stores] /\ run[0] = from
  /\ \A i \in 1 .. n : run[i] = Apply(run[i - 1], commands[i])

LEMMA RunExists ==
  ASSUME NEW from \in Stores, NEW commands \in Seq(Commands)
  PROVE  \E run : Leads(run, from, commands, Len(commands))
<1> DEFINE T == {n \in Nat : n <= Len(commands) => \E run : Leads(run, from, commands, n)}
<1>1. 0 \in T
  <2>1. Leads([i \in 0 .. 0 |-> from], from, commands, 0)
    BY DEF Leads
  <2> QED BY <2>1
<1>2. ASSUME NEW n \in T PROVE n + 1 \in T
  <2> SUFFICES ASSUME n + 1 <= Len(commands)
               PROVE  \E run : Leads(run, from, commands, n + 1)
    OBVIOUS
  <2>1. n \in Nat /\ Len(commands) \in Nat /\ n <= Len(commands)
    OBVIOUS
  <2>2. PICK run : Leads(run, from, commands, n)
    BY <2>1
  <2>3. run \in [0 .. n -> Stores] /\ run[n] \in Stores /\ commands[n + 1] \in Commands
    BY <2>1, <2>2 DEF Leads
  <2> DEFINE last == Apply(run[n], commands[n + 1])
             next == [i \in 0 .. n + 1 |-> IF i = n + 1 THEN last ELSE run[i]]
  <2>4. last \in Stores
    BY <2>3, ApplyTyped DEF Stores
  <2> HIDE DEF last
  <2>5. next \in [0 .. n + 1 -> Stores]
    BY <2>1, <2>3, <2>4
  <2>6. next[0] = from
    BY <2>1, <2>2 DEF Leads
  <2>7. ASSUME NEW i \in 1 .. n + 1 PROVE next[i] = Apply(next[i - 1], commands[i])
    <3>1. CASE i = n + 1
      <4>1. next[i] = last /\ next[i - 1] = run[n]
        BY <2>1, <3>1
      <4> QED BY <3>1, <4>1 DEF last
    <3>2. CASE i # n + 1
      <4>1. i \in 1 .. n /\ next[i] = run[i] /\ next[i - 1] = run[i - 1]
        BY <2>1, <3>2
      <4> QED BY <2>2, <4>1 DEF Leads
    <3> QED BY <3>1, <3>2
  <2> HIDE DEF next
  <2> QED BY <2>5, <2>6, <2>7 DEF Leads
<1> HIDE DEF T
<1>3. T \in SUBSET Nat
  BY DEF T
<1>4. Len(commands) \in T
  BY <1>1, <1>2, <1>3, EveryNumber
<1> QED BY <1>4 DEF T

LEMMA ReplayedByRun ==
  ASSUME NEW from \in Stores, NEW commands \in Seq(Commands), NEW run,
         Leads(run, from, commands, Len(commands))
  PROVE  Replayed(from, commands) = run[Len(commands)]
<1> DEFINE after == CHOOSE after : after =
             [i \in 0 .. Len(commands) |->
                IF i = 0 THEN from ELSE Apply(after[i - 1], commands[i])]
<1>1. run = [i \in 0 .. Len(commands) |->
               IF i = 0 THEN from ELSE Apply(run[i - 1], commands[i])]
  BY DEF Leads
<1>2. after = [i \in 0 .. Len(commands) |->
                 IF i = 0 THEN from ELSE Apply(after[i - 1], commands[i])]
  BY <1>1, Zenon
<1>3. Replayed(from, commands) = after[Len(commands)]
  BY Zenon DEF Replayed
<1> HIDE DEF after
<1> DEFINE T == {n \in Nat : n <= Len(commands) => after[n] = run[n]}
<1>4. 0 \in T
  BY <1>2 DEF Leads
<1>5. ASSUME NEW n \in T PROVE n + 1 \in T
  <2> SUFFICES ASSUME n + 1 <= Len(commands) PROVE after[n + 1] = run[n + 1]
    OBVIOUS
  <2>1. n \in Nat /\ Len(commands) \in Nat /\ n <= Len(commands) /\ after[n] = run[n]
    OBVIOUS
  <2>2. n + 1 \in 1 .. Len(commands) /\ n + 1 # 0 /\ (n + 1) - 1 = n
    BY <2>1
  <2>3. after[n + 1] = Apply(after[(n + 1) - 1], commands[n + 1])
    BY <1>2, <2>2
  <2>4. run[n + 1] = Apply(run[(n + 1) - 1], commands[n + 1])
    BY <2>2 DEF Leads
  <2> QED BY <2>1, <2>2, <2>3, <2>4
<1> HIDE DEF T
<1>6. T \in SUBSET Nat
  BY DEF T
<1>7. Len(commands) \in T
  BY <1>4, <1>5, <1>6, EveryNumber
<1> QED BY <1>3, <1>7 DEF T

LEMMA ReplayedTyped ==
  ASSUME NEW from \in Stores, NEW commands \in Seq(Commands)
  PROVE  Replayed(from, commands) \in Stores
<1> PICK run : Leads(run, from, commands, Len(commands))
  BY RunExists
<1> QED BY ReplayedByRun DEF Leads

LEMMA ReplayedNone ==
  ASSUME NEW from \in Stores
  PROVE  Replayed(from, <<>>) = from
<1>1. <<>> \in Seq(Commands) /\ Len(<<>>) = 0
  OBVIOUS
<1>2. PICK run : Leads(run, from, <<>>, Len(<<>>))
  BY <1>1, RunExists
<1> QED BY <1>1, <1>2, ReplayedByRun DEF Leads

LEMMA ReplayedAppend ==
  ASSUME NEW from \in Stores, NEW commands \in Seq(Commands), NEW command \in Commands
  PROVE  Replayed(from, Append(commands, command)) = Apply(Replayed(from, commands), command)
<1> DEFINE all == Append(commands, command)
           n == Len(commands)
<1>1. /\ all \in Seq(Commands) /\ Len(all) = n + 1 /\ n \in Nat /\ all[n + 1] = command
      /\ \A i \in 1 .. n : all[i] = commands[i]
  OBVIOUS
<1> HIDE DEF all
<1>2. PICK run : Leads(run, from, all, n + 1)
  BY <1>1, RunExists
<1> DEFINE begin == [i \in 0 .. n |-> run[i]]
<1>3. begin \in [0 .. n -> Stores] /\ begin[0] = from
  BY <1>1, <1>2 DEF Leads
<1>4. ASSUME NEW i \in 1 .. n PROVE begin[i] = Apply(begin[i - 1], commands[i])
  <2>1. i \in 1 .. n + 1 /\ i - 1 \in 0 .. n
    BY <1>1
  <2>2. run[i] = Apply(run[i - 1], all[i])
    BY <1>2, <2>1 DEF Leads
  <2> QED BY <1>1, <2>1, <2>2
<1>5. begin[n] = run[n]
  BY <1>1
<1> HIDE DEF begin
<1>6. Leads(begin, from, commands, n)
  BY <1>3, <1>4 DEF Leads
<1>7. Replayed(from, commands) = run[n]
  BY <1>5, <1>6, ReplayedByRun
<1>8. Replayed(from, all) = run[n + 1]
  BY <1>1, <1>2, ReplayedByRun
<1>9. run[n + 1] = Apply(run[(n + 1) - 1], all[n + 1]) /\ (n + 1) - 1 = n
  BY <1>1, <1>2 DEF Leads
<1> QED BY <1>1, <1>7, <1>8, <1>9 DEF all

LEMMA ReplayedTail ==
  ASSUME NEW from \in Stores, NEW commands \in Seq(Commands), commands # <<>>
  PROVE  Replayed(from, commands) = Replayed(Apply(from, Head(commands)), Tail(commands))
<1> DEFINE rest == Tail(commands)
           n == Len(rest)
<1>1. /\ Head(commands) = commands[1] /\ commands[1] \in Commands
      /\ rest \in Seq(Commands) /\ n \in Nat /\ Len(commands) = n + 1
      /\ \A i \in 1 .. n : rest[i] = commands[i + 1]
  OBVIOUS
<1> HIDE DEF rest
<1>2. PICK run : Leads(run, from, commands, n + 1)
  BY <1>1, RunExists
<1>3. Apply(from, Head(commands)) \in Stores /\ run[1] = Apply(from, Head(commands))
  <2>1. 1 \in 1 .. n + 1 /\ 1 - 1 = 0
    BY <1>1
  <2>2. run[1] = Apply(run[1 - 1], commands[1])
    BY <1>2, <2>1 DEF Leads
  <2> QED BY <1>1, <1>2, <2>1, <2>2, ApplyTyped DEF Leads, Stores
<1> DEFINE later == [i \in 0 .. n |-> run[i + 1]]
<1>4. later \in [0 .. n -> Stores] /\ later[0] = run[1] /\ later[n] = run[n + 1]
  BY <1>1, <1>2 DEF Leads
<1>5. ASSUME NEW i \in 1 .. n PROVE later[i] = Apply(later[i - 1], rest[i])
  <2>1. i + 1 \in 1 .. n + 1 /\ i - 1 \in 0 .. n /\ (i + 1) - 1 = i /\ (i - 1) + 1 = i
    BY <1>1
  <2>2. run[i + 1] = Apply(run[(i + 1) - 1], commands[i + 1])
    BY <1>2, <2>1 DEF Leads
  <2>3. later[i] = run[i + 1] /\ later[i - 1] = run[i]
    BY <2>1
  <2> HIDE DEF later
  <2> QED BY <1>1, <2>1, <2>2, <2>3
<1> HIDE DEF later
<1>6. Leads(later, Apply(from, Head(commands)), rest, n)
  BY <1>3, <1>4, <1>5 DEF Leads
<1>7. Replayed(Apply(from, Head(commands)), rest) = later[n]
  BY <1>1, <1>3, <1>6, ReplayedByRun
<1>8. Replayed(from, commands) = run[n + 1]
  BY <1>1, <1>2, ReplayedByRun
<1> QED BY <1>4, <1>7, <1>8 DEF rest

\* A store in which a command was lost stays behind until a snapshot makes up for it.
LEMMA ReplayedFailed ==
  ASSUME NEW from \in Stores, NEW other \in Stores, NEW commands \in Seq(Commands), from.failed
  PROVE  \/ Replayed(from, commands).failed
         \/ Replayed(from, commands) = Replayed(other, commands)
<1> PICK run : Leads(run, from, commands, Len(commands))
  BY RunExists
<1> PICK run2 : Leads(run2, other, commands, Len(commands))
  BY RunExists
<1> DEFINE T == {n \in Nat : n <= Len(commands) => run[n].failed \/ run[n] = run2[n]}
<1>1. 0 \in T
  BY DEF Leads
<1>2. ASSUME NEW n \in T PROVE n + 1 \in T
  <2> SUFFICES ASSUME n + 1 <= Len(commands)
               PROVE  run[n + 1].failed \/ run[n + 1] = run2[n + 1]
    OBVIOUS
  <2>1. n \in Nat /\ Len(commands) \in Nat /\ n <= Len(commands)
        /\ (run[n].failed \/ run[n] = run2[n])
    OBVIOUS
  <2>2. n + 1 \in 1 .. Len(commands) /\ (n + 1) - 1 = n /\ commands[n + 1] \in Commands
    BY <2>1
  <2>3. run[n + 1] = Apply(run[n], commands[n + 1]) /\ run2[n + 1] = Apply(run2[n], commands[n + 1])
        /\ run[n] \in Stores
    BY <2>1, <2>2 DEF Leads
  <2>4. CASE run[n].failed /\ commands[n + 1].kind = "delta"
    <3>1. Apply(run[n], commands[n + 1]).failed
      BY <2>3, <2>4 DEF Apply, Stores
    <3> QED BY <2>3, <3>1
  <2>5. CASE run[n].failed /\ commands[n + 1].kind # "delta"
    <3>1. Apply(run[n], commands[n + 1]) = Apply(run2[n], commands[n + 1])
      BY <2>5 DEF Apply, Rejects
    <3> QED BY <2>3, <3>1
  <2>6. CASE run[n] = run2[n]
    BY <2>3, <2>6
  <2> QED BY <2>1, <2>4, <2>5, <2>6
<1> HIDE DEF T
<1>3. T \in SUBSET Nat
  BY DEF T
<1>4. Len(commands) \in T
  BY <1>1, <1>2, <1>3, EveryNumber
<1>5. run[Len(commands)].failed \/ run[Len(commands)] = run2[Len(commands)]
  BY <1>4 DEF T
<1> QED BY <1>5, ReplayedByRun

LEMMA DeltaTyped == ASSUME SyncInv, ByDelta PROVE Delta \in Commands
<1>1. /\ batch # None /\ Root \notin batch.named /\ stage # None
  BY DEF ByDelta, CanUseDelta, UpToDate, HasNewBatch, SameSession
<1>2. batch.named \subseteq Paths /\ stage \in Rows
  BY <1>1 DEF SyncInv, FrameInv, FrameTypeOK, Batches
<1> DEFINE rows == [p \in Paths |-> IF p \in batch.named THEN stage[p] ELSE None]
<1>3. rows \in [Paths -> Keys \cup {None}]
  BY <1>2 DEF Rows
<1>4. Injective(rows)
  BY <1>2 DEF Rows, Injective
<1>5. rows \in Rows
  BY <1>3, <1>4 DEF Rows
<1>6. {p \in batch.named : sync.rows[p] # None /\ stage[p] = None} \subseteq Paths
  BY <1>2
<1> QED
  BY <1>5, <1>6 DEF Delta, Commands

LEMMA SubmitTyped ==
  ASSUME StoreTyped, NEW command \in Commands, NEW rows \in Rows, SubmitToStore(command, rows)
  PROVE  mailbox' \in Seq(Commands) /\ Len(mailbox') <= MailboxCapacity
<1>1. CASE Len(mailbox) >= MailboxCapacity
  <2>1. [kind |-> "snapshot", rows |-> rows] \in Commands
    BY DEF Commands
  <2> QED
    BY <1>1, <2>1, StoreAssumption DEF SubmitToStore
<1>2. CASE ~(Len(mailbox) >= MailboxCapacity)
  BY <1>2, StoreAssumption DEF SubmitToStore, StoreTyped
<1> QED
  BY <1>1, <1>2

LEMMA StoreStart == StoreInit => StoreIInv
<1> SUFFICES ASSUME StoreInit PROVE StoreIInv
  OBVIOUS
<1>1. Absent \in Rows
  BY DEF Absent, Rows, Injective
<1> QED
  BY <1>1, SyncStart, StoreAssumption DEF StoreInit, StoreIInv, StoreTyped

LEMMA StoreKept == StoreIInv /\ [StoreNext]_storeVars => StoreIInv'
<1> SUFFICES ASSUME StoreIInv, [StoreNext]_storeVars PROVE StoreIInv'
  OBVIOUS
<1> USE DEF StoreIInv
<1>1. CASE UNCHANGED storeVars
  BY <1>1, SyncKept DEF storeVars, StoreTyped
<1>2. CASE StoreStageChanges \/ (Update /\ UNCHANGED <<mailbox, hand, store, responses>>)
  <2>1. SyncInv'
    BY <1>2, SyncKept DEF StoreStageChanges, SyncStep
  <2> QED
    BY <1>2, <2>1 DEF StoreStageChanges, StoreTyped
<1>3. CASE SynchronizeStore
  <2>1. SyncInv'
    BY <1>3, SyncKept DEF SynchronizeStore, SyncStep
  <2>2. mailbox' \in Seq(Commands) /\ Len(mailbox') <= MailboxCapacity
    <3>1. CASE ByDelta /\ SubmitToStore(Delta, Refreshed)
      <4>1. Refreshed \in Rows
        BY <3>1, Newer DEF ByDelta, Advance
      <4> QED
        BY <3>1, <4>1, DeltaTyped, SubmitTyped
    <3>2. CASE BySnapshot /\ SubmitToStore([kind |-> "snapshot", rows |-> stage], stage)
      <4>1. stage \in Rows
        BY <3>2, Newer DEF BySnapshot, Advance
      <4>2. [kind |-> "snapshot", rows |-> stage] \in Commands
        BY <4>1 DEF Commands
      <4> QED
        BY <3>2, <4>1, <4>2, SubmitTyped
    <3>3. CASE UNCHANGED mailbox
      BY <3>3 DEF StoreTyped
    <3> QED
      BY <1>3, <3>1, <3>2, <3>3 DEF SynchronizeStore
  <2> QED
    BY <1>3, <2>1, <2>2 DEF SynchronizeStore, StoreTyped
<1>4. CASE TakeCommand
  <2>1. SyncInv'
    BY <1>4, SyncKept DEF TakeCommand
  <2>2. /\ Head(mailbox) \in Commands /\ Tail(mailbox) \in Seq(Commands)
        /\ Len(Tail(mailbox)) <= MailboxCapacity
    BY <1>4, StoreAssumption DEF TakeCommand, StoreTyped
  <2> QED
    BY <1>4, <2>1, <2>2 DEF TakeCommand, StoreTyped
<1>5. CASE Execute
  <2>1. SyncInv'
    BY <1>5, SyncKept DEF Execute, OnlyFaults
  <2>2. hand \in Commands
    BY <1>5 DEF Execute, StoreTyped
  <2>3. store' \in [rows : Rows, loaded : BOOLEAN, failed : BOOLEAN]
    BY <1>5, <2>2, ApplyTyped DEF Execute, StoreTyped
  <2> QED
    BY <1>5, <2>1, <2>3, StoreAssumption DEF Execute, StoreTyped
<1> QED
  BY <1>1, <1>2, <1>3, <1>4, <1>5 DEF StoreNext, StoreFrame, StoreWorker

LEMMA StoreInvariance == StoreSpec => []StoreIInv
  BY StoreStart, StoreKept, PTL DEF StoreSpec

(***************************************************************************)
(* That the store catches up with the snapshot.                            *)
(***************************************************************************)

\* The store once the command in the worker's hand is done.
Taken == IF hand = None THEN store ELSE Apply(store, hand)

\* What the store comes to shows the snapshot, or a command failed.
Shows(final, rows) == final.failed \/ final.rows = rows

LEMMA TakenTyped == ASSUME StoreTyped PROVE Taken \in Stores
  BY ApplyTyped DEF StoreTyped, Taken, Stores

LEMMA ReplaysMeans == StoreReplays <=> (sync # None => Shows(Replayed(Taken, mailbox), sync.rows))
  BY Zenon DEF StoreReplays, Taken, Shows

\* A snapshot, or a delta that follows what the store shows, brings it up to the rows.
LEMMA ApplyShows ==
  ASSUME NEW final \in Stores, NEW command \in Commands, NEW rows,
         \/ command.kind = "snapshot" /\ command.rows = rows
         \/ command.kind = "delta" /\ (final.failed \/ ApplyDelta(final.rows, command) = rows)
  PROVE  Shows(Apply(final, command), rows)
<1>1. CASE command.kind = "snapshot" /\ command.rows = rows
  BY <1>1 DEF Apply, Rejects, Shows
<1>2. CASE command.kind = "delta" /\ (final.failed \/ ApplyDelta(final.rows, command) = rows)
  BY <1>2 DEF Apply, Shows, Stores
<1> QED BY <1>1, <1>2

\* The delta takes the rows of the snapshot before to those of the next.
LEMMA DeltaRefreshes ==
  ASSUME SyncInv, ByDelta
  PROVE  Delta.kind = "delta" /\ ApplyDelta(sync.rows, Delta) = Refreshed
<1>1. Delta.rows = [p \in Paths |-> IF p \in batch.named THEN stage[p] ELSE None]
      /\ Delta.removed = {p \in batch.named : sync.rows[p] # None /\ stage[p] = None}
      /\ Delta.kind = "delta"
  BY DEF Delta
<1>2. \A p \in Paths : p \in Upserts(Delta) <=> p \in batch.named /\ stage[p] # None
  BY <1>1 DEF Upserts
<1>3. \A p \in Paths : p \in Upserts(Delta) => Delta.rows[p] = stage[p]
  BY <1>1, <1>2
<1>4. ASSUME NEW p \in Paths
      PROVE  (IF p \in Upserts(Delta) THEN Delta.rows[p]
              ELSE IF p \in Delta.removed THEN None ELSE sync.rows[p])
               = IF p \in batch.named THEN stage[p] ELSE sync.rows[p]
  BY <1>1, <1>2, <1>3
<1> QED BY <1>1, <1>4 DEF ApplyDelta, Refreshed

\* What a frame submits, after all that waits, is the snapshot that the frame took.
LEMMA SubmitShows ==
  ASSUME StoreIInv, NEW command \in Commands, NEW rows \in Rows, SubmitToStore(command, rows),
         UNCHANGED <<hand, store>>,
         \/ command.kind = "snapshot" /\ command.rows = rows
         \/ /\ command.kind = "delta"
            /\ LET final == Replayed(Taken, mailbox)
               IN  final.failed \/ ApplyDelta(final.rows, command) = rows
  PROVE  Shows(Replayed(Taken, mailbox)', rows)
<1>1. Taken \in Stores /\ mailbox \in Seq(Commands) /\ Taken' = Taken
  BY TakenTyped DEF StoreIInv, StoreTyped, Taken
<1>2. CASE mailbox' = Append(mailbox, command)
  <2>1. Replayed(Taken, mailbox)' = Apply(Replayed(Taken, mailbox), command)
    BY <1>1, <1>2, ReplayedAppend
  <2>2. Replayed(Taken, mailbox) \in Stores
    BY <1>1, ReplayedTyped
  <2> QED BY <2>1, <2>2, ApplyShows
<1>3. CASE mailbox' = <<[kind |-> "snapshot", rows |-> rows]>>
  <2> DEFINE snapshot == [kind |-> "snapshot", rows |-> rows]
  <2>1. snapshot \in Commands /\ snapshot.kind = "snapshot" /\ snapshot.rows = rows
        /\ <<>> \in Seq(Commands) /\ mailbox' = Append(<<>>, snapshot)
    BY <1>3 DEF Commands
  <2> HIDE DEF snapshot
  <2>2. Replayed(Taken, mailbox)' = Apply(Replayed(Taken, <<>>), snapshot)
    BY <1>1, <2>1, ReplayedAppend
  <2>3. Replayed(Taken, <<>>) \in Stores
    BY <1>1, <2>1, ReplayedTyped
  <2> QED BY <2>1, <2>2, <2>3, ApplyShows
<1> QED BY <1>2, <1>3 DEF SubmitToStore

LEMMA SynchronizeReplays ==
  ASSUME StoreIInv, StoreReplays, SynchronizeStore
  PROVE  StoreReplays'
<1>1. SyncInv /\ UNCHANGED <<hand, store>>
  BY DEF StoreIInv, SynchronizeStore
<1>2. CASE ByDelta /\ SubmitToStore(Delta, Refreshed)
  <2>1. sync' = [session |-> session, revision |-> revision, rows |-> Refreshed] /\ sync # None
    BY <1>2 DEF ByDelta, Advance, CanUseDelta, SameSession
  <2>2. Refreshed \in Rows /\ Delta \in Commands
    BY <1>1, <1>2, Newer, DeltaTyped DEF ByDelta, Advance
  <2>3. Delta.kind = "delta" /\ ApplyDelta(sync.rows, Delta) = Refreshed
    BY <1>1, <1>2, DeltaRefreshes
  <2>4. Shows(Replayed(Taken, mailbox), sync.rows)
    BY <2>1, ReplaysMeans
  <2>5. Shows(Replayed(Taken, mailbox)', Refreshed)
    BY <1>1, <1>2, <2>2, <2>3, <2>4, SubmitShows DEF Shows
  <2>6. Shows(Replayed(Taken, mailbox)', sync'.rows)
    BY <2>1, <2>5
  <2> QED BY <2>6, ReplaysMeans DEF StoreReplays, Shows, Taken
<1>3. CASE BySnapshot /\ SubmitToStore([kind |-> "snapshot", rows |-> stage], stage)
  <2>1. sync' = [session |-> session, revision |-> revision, rows |-> stage]
    BY <1>3 DEF BySnapshot, Advance
  <2>2. stage \in Rows
    BY <1>1, <1>3, Newer DEF BySnapshot, Advance
  <2> DEFINE snapshot == [kind |-> "snapshot", rows |-> stage]
  <2>3. snapshot \in Commands /\ snapshot.kind = "snapshot" /\ snapshot.rows = stage
    BY <2>2 DEF Commands
  <2> HIDE DEF snapshot
  <2>4. Shows(Replayed(Taken, mailbox)', stage)
    BY <1>1, <1>3, <2>2, <2>3, SubmitShows DEF snapshot
  <2>5. Shows(Replayed(Taken, mailbox)', sync'.rows)
    BY <2>1, <2>4
  <2> QED BY <2>5 DEF StoreReplays, Shows, Taken
<1>4. CASE (ExtractionFails \/ NothingToDo) /\ UNCHANGED mailbox
  <2>1. sync' = sync /\ mailbox' = mailbox
    BY <1>4 DEF ExtractionFails, NothingToDo
  <2> QED BY <1>1, <2>1 DEF StoreReplays
<1> QED BY <1>2, <1>3, <1>4 DEF SynchronizeStore

LEMMA WorkerReplays ==
  ASSUME StoreIInv, StoreReplays, StoreWorker
  PROVE  StoreReplays'
<1>1. StoreTyped /\ sync' = sync /\ Taken \in Stores
  BY TakenTyped DEF StoreIInv, StoreWorker, TakeCommand, Execute, syncVars
<1>2. sync # None => Shows(Replayed(Taken, mailbox), sync.rows)
  BY ReplaysMeans
<1>3. CASE TakeCommand
  <2>1. /\ hand = None /\ mailbox # <<>> /\ mailbox \in Seq(Commands) /\ store \in Stores
        /\ hand' = Head(mailbox) /\ mailbox' = Tail(mailbox) /\ store' = store
    BY <1>1, <1>3 DEF TakeCommand, StoreTyped, Stores
  <2>2. Head(mailbox) \in Commands
    BY <2>1
  <2>3. Taken = store /\ Taken' = Apply(store, Head(mailbox))
    BY <2>1, <2>2, StoreAssumption DEF Taken
  <2>4. Replayed(Taken, mailbox)' = Replayed(Taken, mailbox)
    BY <2>1, <2>3, ReplayedTail
  <2> QED BY <1>1, <1>2, <2>4 DEF StoreReplays, Shows, Taken
<1>4. CASE Execute
  <2>1. hand # None /\ hand' = None /\ mailbox' = mailbox /\ mailbox \in Seq(Commands)
        /\ Taken = Apply(store, hand) /\ Taken' = store'
    BY <1>1, <1>4 DEF Execute, StoreTyped, Taken
  <2>2. CASE store' = Apply(store, hand)
    BY <1>1, <1>2, <2>1, <2>2 DEF StoreReplays, Shows, Taken
  <2>3. CASE store' = [store EXCEPT !.failed = TRUE]
    <3>1. store' \in Stores /\ store'.failed
      BY <1>1, <2>3 DEF StoreTyped, Stores
    <3>2. \/ Replayed(store', mailbox).failed
          \/ Replayed(store', mailbox) = Replayed(Taken, mailbox)
      BY <1>1, <2>1, <3>1, ReplayedFailed
    <3>3. sync # None => Shows(Replayed(store', mailbox), sync.rows)
      BY <1>2, <3>2 DEF Shows
    <3> QED BY <1>1, <2>1, <3>3 DEF StoreReplays, Shows
  <2> QED BY <1>4, <2>2, <2>3 DEF Execute
<1> QED BY <1>3, <1>4 DEF StoreWorker

LEMMA StoreReplaysKept ==
  ASSUME StoreIInv, StoreReplays, [StoreNext]_storeVars
  PROVE  StoreReplays'
<1>1. CASE StoreStageChanges
  BY <1>1 DEF StoreStageChanges, Change, StoreReplays
<1>2. CASE Update /\ UNCHANGED <<mailbox, hand, store, responses>>
  BY <1>2 DEF Update, StoreReplays
<1>3. CASE UNCHANGED storeVars
  BY <1>3 DEF storeVars, syncVars, StoreReplays
<1> QED BY <1>1, <1>2, <1>3, SynchronizeReplays, WorkerReplays DEF StoreNext, StoreFrame

\* Every variable keeps its type (StoreTypeOK): the mailbox holds no more than its
\* capacity, and the rows of the store never give two prims the same key.
THEOREM StoreTypeCorrect == StoreSpec => []StoreTypeOK
<1>1. StoreIInv => StoreTypeOK
  BY SyncInvTypes DEF StoreIInv, StoreTyped, StoreTypeOK
<1> QED
  BY <1>1, StoreInvariance, PTL

\* The snapshot patched by deltas is what a full extraction would give, unless a
\* batch was given up (FollowsStage).
THEOREM SnapshotFollowsStage == StoreSpec => []FollowsStage
<1>1. StoreIInv => FollowsStage
  BY SyncInvFollows DEF StoreIInv
<1> QED
  BY <1>1, StoreInvariance, PTL

\* The rows of the store and the commands on their way to it (apply_delta, replace_snapshot
\* and the mailbox that is emptied when it is full) make up the snapshot, unless a command
\* failed: for any number of prims, edits, stages and commands that wait (StoreReplays).
THEOREM StoreCatchesUp == StoreSpec => []StoreReplays
<1>1. StoreInit => StoreReplays
  BY DEF StoreInit, SyncInit, StoreReplays
<1>2. StoreIInv /\ StoreReplays /\ [StoreNext]_storeVars => StoreReplays'
  BY StoreReplaysKept
<1> QED
  BY <1>1, <1>2, StoreInvariance, PTL DEF StoreSpec

(***************************************************************************)
(* RuntimeDelivery. That what is published is the snapshot rests on        *)
(* KnownInv: a delivery on its way is of an older stage, of an older       *)
(* snapshot of this stage, or of the snapshot as it is.                    *)
(***************************************************************************)

Result == [id : Identities, rows : Rows, built : BOOLEAN]

DeliveryTyped ==
  /\ projection \in [session : 0 .. MaxSessions, ready : {"Busy", "Ready", "Failed"},
                     generation : Nat]
  /\ {pending, building, published} \subseteq Work \cup {None}
  /\ works \in Seq(Work) /\ Len(works) <= DeliveryCapacity
  /\ results \in Seq(Result) /\ Len(results) <= DeliveryResultCapacity
  /\ broken \in BOOLEAN /\ restarts \in 0 .. MaxRestarts

\* What is known of a delivery w while the snapshot is s, of session n.
Known(w, s, n) ==
  /\ w.id.session <= n
  /\ w.id.session = n =>
       /\ s # None /\ w.id.revision <= s.revision
       /\ w.id.revision = s.revision => w.rows = s.rows

KnownInv ==
  /\ pending # None => Known(pending, sync, session)
  /\ building # None => Known(building, sync, session)
  /\ \A i \in 1 .. Len(works) : Known(works[i], sync, session)
  /\ \A i \in 1 .. Len(results) : Known(results[i], sync, session)

DeliveryIInv == SyncInv /\ DeliveryTyped /\ KnownInv /\ PublishedIsSnapshot

LEMMA DeliveryStart == DeliveryInit => DeliveryIInv
<1> SUFFICES ASSUME DeliveryInit PROVE DeliveryIInv
  OBVIOUS
<1> USE DEF DeliveryInit
<1>1. SyncInv
  BY SyncStart
<1>2. DeliveryTyped
  <2>1. projection \in [session : 0 .. MaxSessions, ready : {"Busy", "Ready", "Failed"},
                        generation : Nat]
    BY FrameAssumption
  <2>2. works \in Seq(Work) /\ results \in Seq(Result) /\ Len(works) = 0 /\ Len(results) = 0
    OBVIOUS
  <2>3. broken \in BOOLEAN
    BY Zenon
  <2>4. restarts \in 0 .. MaxRestarts
    BY DeliveryAssumption
  <2> QED
    BY <2>1, <2>2, <2>3, <2>4, DeliveryAssumption DEF DeliveryTyped
<1> QED
  BY <1>1, <1>2 DEF DeliveryIInv, KnownInv, PublishedIsSnapshot

LEMMA Counters ==
  ASSUME SyncInv
  PROVE  /\ session \in Nat /\ session \in 1 .. MaxSessions /\ revision \in Nat
         /\ stage # None => stage \in Rows
         /\ sync # None => /\ sync.revision \in Nat /\ sync.rows \in Rows
                           /\ sync.session = session /\ stage # None
                           /\ sync.revision <= revision
  BY FrameAssumption DEF SyncInv, SnapshotInv, SnapshotTyped, FrameInv, FrameTypeOK

\* While the snapshot stays nothing that is known changes.
LEMMA SameSnapshot ==
  ASSUME DeliveryIInv, SyncInv', UNCHANGED <<sync, session, delivering>>,
         DeliveryTyped'
  PROVE  DeliveryIInv'
  BY DEF DeliveryIInv, delivering, KnownInv, PublishedIsSnapshot

LEMMA ProjectKeeps == ASSUME DeliveryIInv, ProjectOnLoad PROVE DeliveryIInv'
<1>1. UNCHANGED <<sync, session, delivering>>
  BY DEF ProjectOnLoad, StartUpdate, live
<1>2. SyncInv'
  <2>1. OnlyFaults /\ StartUpdate
    BY DEF ProjectOnLoad, OnlyFaults, StartUpdate, StartGeneration, EndGeneration, live
  <2> QED
    BY <2>1, SyncKept DEF DeliveryIInv
<1>3. DeliveryTyped'
  <2>1. CASE UNCHANGED <<projection, restarts>>
    BY <1>1, <2>1 DEF DeliveryIInv, DeliveryTyped, delivering
  <2>2. CASE StartGeneration
    <3>1. projection' \in [session : 0 .. MaxSessions, ready : {"Busy", "Ready", "Failed"},
                           generation : Nat]
      BY <2>2, Counters DEF StartGeneration, DeliveryIInv, DeliveryTyped
    <3>2. restarts' \in 0 .. MaxRestarts
      BY <2>2, DeliveryAssumption DEF StartGeneration, DeliveryIInv, DeliveryTyped
    <3> QED
      BY <1>1, <3>1, <3>2 DEF DeliveryIInv, DeliveryTyped, delivering
  <2>3. CASE EndGeneration
    <3>1. projection' \in [session : 0 .. MaxSessions, ready : {"Busy", "Ready", "Failed"},
                           generation : Nat]
      BY <2>3 DEF EndGeneration, DeliveryIInv, DeliveryTyped
    <3> QED
      BY <1>1, <2>3, <3>1 DEF EndGeneration, DeliveryIInv, DeliveryTyped, delivering
  <2> QED
    BY <2>1, <2>2, <2>3 DEF ProjectOnLoad
<1> QED
  BY <1>1, <1>2, <1>3, SameSnapshot

LEMMA ChangesKeep == ASSUME DeliveryIInv, DeliveryStageChanges \/ RestOfUpdate PROVE DeliveryIInv'
<1>1. SyncInv' /\ UNCHANGED <<projection, restarts, delivering>>
  BY SyncKept DEF DeliveryIInv, DeliveryStageChanges, RestOfUpdate, SyncStep
<1>2. DeliveryTyped'
  BY <1>1 DEF DeliveryIInv, DeliveryTyped, delivering
<1>3. CASE UNCHANGED <<sync, session>>
  BY <1>1, <1>2, <1>3, SameSnapshot
<1>4. CASE OpenStage /\ sync' = None
  <2>1. session' = session + 1 /\ session \in Nat
    BY <1>4, Counters DEF OpenStage, DeliveryIInv
  <2>2. ASSUME NEW w, w.id \in Identities, Known(w, sync, session)
        PROVE  Known(w, sync', session')
    BY <2>1, <2>2 DEF Known, Identities
  <2>3. /\ \A i \in 1 .. Len(works) : works[i].id \in Identities
        /\ \A i \in 1 .. Len(results) : results[i].id \in Identities
        /\ pending # None => pending.id \in Identities
        /\ building # None => building.id \in Identities
    <3>1. /\ \A i \in 1 .. Len(works) : works[i] \in Work
          /\ \A i \in 1 .. Len(results) : results[i] \in Result
      BY DEF DeliveryIInv, DeliveryTyped
    <3>2. {pending, building} \subseteq Work \cup {None}
      BY DEF DeliveryIInv, DeliveryTyped
    <3> QED
      BY <3>1, <3>2 DEF Work, Result
  <2>4. KnownInv'
    BY <1>1, <2>2, <2>3 DEF DeliveryIInv, KnownInv, delivering
  <2> QED
    BY <1>1, <1>2, <1>4, <2>4 DEF DeliveryIInv, PublishedIsSnapshot
<1> QED
  BY <1>3, <1>4
     DEF DeliveryStageChanges, RestOfUpdate, Change, Update, Edit, StartUpdate, DrainNotices,
         EndUpdate, live

LEMMA HandleKeeps == ASSUME DeliveryIInv, HandleResult PROVE DeliveryIInv'
<1> DEFINE answer == Head(results)
           id == answer.id
<1>1. SyncInv' /\ UNCHANGED <<syncVars, projection, restarts, works, building>>
  BY SyncKept DEF DeliveryIInv, HandleResult
<1>2. /\ UNCHANGED <<stage, session, revision, sync>>
      /\ results # <<>> /\ results' = Tail(results) /\ results \in Seq(Result)
  BY <1>1 DEF HandleResult, DeliveryIInv, DeliveryTyped, syncVars, frameVars, live
<1>3. answer \in Result /\ answer = results[1] /\ 1 \in 1 .. Len(results)
  BY <1>2
<1>4. Known(answer, sync, session)
  BY <1>3 DEF DeliveryIInv, KnownInv
<1>5. /\ results' \in Seq(Result) /\ Len(results') <= DeliveryResultCapacity
      /\ \A i \in 1 .. Len(results') : Known(results'[i], sync, session)
  <2>1. /\ results' \in Seq(Result) /\ Len(results') = Len(results) - 1
        /\ \A i \in 1 .. Len(results') :
              results'[i] = results[i + 1] /\ i + 1 \in 1 .. Len(results)
    BY <1>2
  <2> QED
    BY <1>2, <2>1, DeliveryAssumption DEF DeliveryIInv, KnownInv, DeliveryTyped
<1>6. answer.id \in Identities /\ answer.rows \in Rows /\ answer.built \in BOOLEAN
  BY <1>3 DEF Result
<1>7. CASE /\ IsCurrent(id) /\ UNCHANGED pending /\ broken' = ~answer.built
           /\ published' = IF answer.built THEN [id |-> id, rows |-> answer.rows] ELSE None
  <2>1. published' \in Work \cup {None}
    BY <1>6, <1>7 DEF Work
  <2>2. broken' \in BOOLEAN
    BY <1>7, Zenon
  <2>3. DeliveryTyped'
    BY <1>1, <1>5, <1>7, <2>1, <2>2 DEF DeliveryIInv, DeliveryTyped
  <2>4. KnownInv'
    BY <1>1, <1>2, <1>5, <1>7 DEF DeliveryIInv, KnownInv
  <2>5. sync # None => /\ id.session = sync.session /\ id.revision = sync.revision
                       /\ answer.rows = sync.rows
    BY <1>4, <1>7, Counters DEF DeliveryIInv, IsCurrent, OfThisRevision, Known
  <2>6. PublishedIsSnapshot'
    BY <1>2, <1>7, <2>5 DEF PublishedIsSnapshot
  <2> QED
    BY <1>1, <2>3, <2>4, <2>6 DEF DeliveryIInv
<1>8. CASE /\ ~IsCurrent(id) /\ IsRetried(id) /\ UNCHANGED <<published, broken>>
           /\ pending' = [id |-> [id EXCEPT !.generation = projection.generation],
                          rows |-> sync.rows]
  <2>1. sync # None /\ sync.rows \in Rows /\ id.session = session
    BY <1>8, Counters DEF DeliveryIInv, IsRetried, OfThisRevision
  <2>2. /\ pending'.id \in Identities /\ pending' \in Work
        /\ pending'.id.session = id.session /\ pending'.id.revision = id.revision
        /\ pending'.rows = sync.rows
    BY <1>6, <1>8, <2>1 DEF DeliveryIInv, DeliveryTyped, Identities, Work
  <2>3. DeliveryTyped'
    BY <1>1, <1>5, <1>8, <2>2 DEF DeliveryIInv, DeliveryTyped
  <2>4. Known(pending', sync, session)
    BY <1>4, <2>1, <2>2 DEF Known
  <2>5. KnownInv'
    BY <1>1, <1>2, <1>5, <2>4 DEF DeliveryIInv, KnownInv
  <2> QED
    BY <1>1, <1>2, <1>8, <2>3, <2>5 DEF DeliveryIInv, PublishedIsSnapshot
<1>9. CASE UNCHANGED <<pending, published, broken>>
  <2>1. DeliveryTyped'
    BY <1>1, <1>5, <1>9 DEF DeliveryIInv, DeliveryTyped
  <2>2. KnownInv'
    BY <1>1, <1>2, <1>5, <1>9 DEF DeliveryIInv, KnownInv
  <2> QED
    BY <1>1, <1>2, <1>9, <2>1, <2>2 DEF DeliveryIInv, PublishedIsSnapshot
<1> QED
  BY <1>7, <1>8, <1>9 DEF HandleResult

\* Work that makes room or finds it leaves the queue with what it had, and with the
\* new work.
LEMMA SubmitKeeps ==
  ASSUME DeliveryTyped, NEW work \in Work, SubmitDelivery(work)
  PROVE  /\ works' \in Seq(Work) /\ Len(works') <= DeliveryCapacity
         /\ \A i \in 1 .. Len(works') :
               works'[i] = work \/ \E j \in 1 .. Len(works) : works'[i] = works[j]
<1> USE DeliveryAssumption
<1> DEFINE kept == IF Len(works) >= DeliveryCapacity THEN Tail(works) ELSE works
<1>1. works' = Append(kept, work) /\ works \in Seq(Work) /\ Len(works) <= DeliveryCapacity
  BY DEF SubmitDelivery, DeliveryTyped
<1>2. CASE Len(works) >= DeliveryCapacity
  <2>1. works # <<>> /\ Len(works) \in Nat
    BY <1>1, <1>2
  <2>2. kept \in Seq(Work) /\ Len(kept) = Len(works) - 1
    BY <1>1, <1>2, <2>1
  <2>3. \A i \in 1 .. Len(kept) : kept[i] = works[i + 1] /\ i + 1 \in 1 .. Len(works)
    BY <1>1, <1>2, <2>1
  <2> HIDE DEF kept
  <2> QED
    BY <1>1, <1>2, <2>1, <2>2, <2>3
<1>3. CASE ~(Len(works) >= DeliveryCapacity)
  <2>1. kept = works
    BY <1>3
  <2> HIDE DEF kept
  <2> QED
    BY <1>1, <1>3, <2>1
<1> QED
  BY <1>2, <1>3

\* What is flushed was waiting; it may get another generation.
LEMMA FlushKeeps ==
  ASSUME DeliveryTyped, NEW parked \in Work \cup {None}, Flush(parked), NEW s, NEW n,
         parked # None => Known(parked, s, n),
         \A i \in 1 .. Len(works) : Known(works[i], s, n)
  PROVE  /\ works' \in Seq(Work) /\ Len(works') <= DeliveryCapacity
         /\ \A i \in 1 .. Len(works') : Known(works'[i], s, n)
         /\ pending' \in Work \cup {None}
         /\ pending' # None => Known(pending', s, n)
<1>1. CASE pending' = parked /\ UNCHANGED works
  BY <1>1 DEF DeliveryTyped
<1>2. CASE pending' = None /\ UNCHANGED works
  BY <1>2 DEF DeliveryTyped
<1> DEFINE work == [parked EXCEPT !.id.generation = projection.generation]
<1>3. CASE parked # None /\ pending' = None /\ SubmitDelivery(work)
  <2>1. parked \in Work /\ parked.id \in Identities
    BY <1>3 DEF Work
  <2>2. /\ work \in Work /\ work.rows = parked.rows
        /\ work.id.session = parked.id.session /\ work.id.revision = parked.id.revision
    BY <2>1 DEF Work, Identities, DeliveryTyped
  <2> HIDE DEF work
  <2>3. Known(work, s, n)
    BY <1>3, <2>2 DEF Known
  <2> QED
    BY <1>3, <2>2, <2>3, SubmitKeeps
<1> QED
  BY <1>1, <1>2, <1>3 DEF Flush

LEMMA SynchronizeKeeps == ASSUME DeliveryIInv, SynchronizeDelivery PROVE DeliveryIInv'
<1>1. /\ SyncInv' /\ UNCHANGED <<projection, restarts, building, results>>
      /\ results = <<>> /\ UNCHANGED session
  BY SyncKept
     DEF DeliveryIInv, SynchronizeDelivery, SyncStep, ByDelta, BySnapshot, Advance, ExtractionFails,
         NothingToDo, live
<1>2. CASE (ByDelta \/ BySnapshot) /\ QueueDelivery(sync'.rows)
  <2> DEFINE new == [id |-> [session |-> session, revision |-> revision,
                             generation |-> projection.generation],
                     rows |-> sync'.rows]
  <2>1. /\ sync' = [session |-> session, revision |-> revision, rows |-> sync'.rows]
        /\ sync'.rows \in Rows /\ (sync # None => sync.revision < revision)
    BY <1>2, Newer DEF DeliveryIInv
  <2>2. /\ new \in Work
        /\ published' = None /\ broken' = FALSE /\ Flush(new)
    BY <1>2, <2>1, Counters DEF DeliveryIInv, DeliveryTyped, Work, Identities, QueueDelivery
  <2>3. sync' # None
    <3>1. sync' \in Snapshots
      BY <2>1, Counters DEF DeliveryIInv, Snapshots
    <3> QED
      BY <3>1, SyncAssumption
  <2>4. Known(new, sync', session)
    BY <2>1, <2>3, Counters DEF DeliveryIInv, Known
  <2>5. ASSUME NEW w \in Work, Known(w, sync, session) PROVE Known(w, sync', session)
    <3>1. w.id.revision \in Nat
      BY DEF Work, Identities
    <3> QED
      BY <2>1, <2>3, <2>5, <3>1, Counters DEF DeliveryIInv, Known
  <2>6. \A i \in 1 .. Len(works) : Known(works[i], sync', session)
    BY <2>5 DEF DeliveryIInv, DeliveryTyped, KnownInv
  <2>7. building # None => Known(building, sync', session)
    BY <2>5 DEF DeliveryIInv, DeliveryTyped, KnownInv
  <2> HIDE DEF new
  <2>8. /\ works' \in Seq(Work) /\ Len(works') <= DeliveryCapacity
        /\ \A i \in 1 .. Len(works') : Known(works'[i], sync', session)
        /\ pending' \in Work \cup {None}
        /\ pending' # None => Known(pending', sync', session)
    BY <2>2, <2>4, <2>6, FlushKeeps DEF DeliveryIInv
  <2>9. DeliveryTyped'
    BY <1>1, <2>2, <2>8 DEF DeliveryIInv, DeliveryTyped
  <2>10. KnownInv'
    BY <1>1, <2>7, <2>8 DEF KnownInv
  <2> QED
    BY <1>1, <2>2, <2>9, <2>10 DEF DeliveryIInv, PublishedIsSnapshot
<1>3. CASE /\ ExtractionFails \/ NothingToDo
           /\ Flush(pending) /\ UNCHANGED <<published, broken>>
  <2>1. UNCHANGED sync
    BY <1>3 DEF ExtractionFails, NothingToDo
  <2>2. pending \in Work \cup {None}
    BY DEF DeliveryIInv, DeliveryTyped
  <2>3. /\ works' \in Seq(Work) /\ Len(works') <= DeliveryCapacity
        /\ \A i \in 1 .. Len(works') : Known(works'[i], sync, session)
        /\ pending' \in Work \cup {None}
        /\ pending' # None => Known(pending', sync, session)
    BY <1>3, <2>2, FlushKeeps DEF DeliveryIInv, KnownInv
  <2>4. DeliveryTyped'
    BY <1>1, <1>3, <2>3 DEF DeliveryIInv, DeliveryTyped
  <2>5. KnownInv'
    BY <1>1, <2>1, <2>3 DEF DeliveryIInv, KnownInv
  <2> QED
    BY <1>1, <1>3, <2>1, <2>4, <2>5 DEF DeliveryIInv, PublishedIsSnapshot
<1> QED
  <2>1. ByDelta => sync'.rows = Refreshed
    BY DEF ByDelta, Advance
  <2>2. BySnapshot => sync'.rows = stage
    BY DEF BySnapshot, Advance
  <2> QED
    BY <1>2, <1>3, <2>1, <2>2 DEF SynchronizeDelivery

LEMMA WorkerKeeps == ASSUME DeliveryIInv, TakeDeliveryWork \/ SendDeliveryResult PROVE DeliveryIInv'
<1>1. CASE TakeDeliveryWork
  <2>1. SyncInv' /\ UNCHANGED <<sync, session>>
    BY <1>1, SyncKept DEF DeliveryIInv, TakeDeliveryWork, syncVars, frameVars, live
  <2>2. /\ Head(works) \in Work /\ Head(works) = works[1] /\ 1 \in 1 .. Len(works)
        /\ Tail(works) \in Seq(Work) /\ Len(Tail(works)) = Len(works) - 1
        /\ \A i \in 1 .. Len(Tail(works)) :
              Tail(works)[i] = works[i + 1] /\ i + 1 \in 1 .. Len(works)
    BY <1>1 DEF TakeDeliveryWork, DeliveryIInv, DeliveryTyped
  <2>3. DeliveryTyped'
    BY <1>1, <2>2, DeliveryAssumption DEF TakeDeliveryWork, DeliveryIInv, DeliveryTyped
  <2>4. KnownInv'
    BY <1>1, <2>1, <2>2 DEF TakeDeliveryWork, DeliveryIInv, KnownInv
  <2> QED
    BY <1>1, <2>1, <2>3, <2>4 DEF TakeDeliveryWork, DeliveryIInv, PublishedIsSnapshot
<1>2. CASE SendDeliveryResult
  <2>1. SyncInv' /\ UNCHANGED <<sync, session>>
    <3>1. OnlyFaults /\ UNCHANGED phase
      BY <1>2 DEF SendDeliveryResult, OnlyFaults
    <3> QED
      BY <3>1, SyncKept DEF DeliveryIInv, OnlyFaults, live
  <2>2. PICK built \in BOOLEAN :
           results' = Append(results, [id |-> building.id, rows |-> building.rows,
                                       built |-> built])
    BY <1>2 DEF SendDeliveryResult
  <2> DEFINE answer == [id |-> building.id, rows |-> building.rows, built |-> built]
  <2>3. building \in Work /\ building # None
    BY <1>2 DEF SendDeliveryResult, DeliveryIInv, DeliveryTyped
  <2>4. answer \in Result /\ answer.id = building.id /\ answer.rows = building.rows
    BY <2>3 DEF Work, Result
  <2> HIDE DEF answer
  <2>5. /\ results' = Append(results, answer) /\ results \in Seq(Result)
        /\ Len(results) < DeliveryResultCapacity
    BY <1>2, <2>2 DEF answer, SendDeliveryResult, DeliveryIInv, DeliveryTyped
  <2>6. Known(answer, sync, session)
    BY <2>3, <2>4 DEF DeliveryIInv, KnownInv, Known
  <2>7. /\ results' \in Seq(Result) /\ Len(results') <= DeliveryResultCapacity
        /\ \A i \in 1 .. Len(results') : Known(results'[i], sync, session)
    <3>1. /\ results' \in Seq(Result) /\ Len(results') = Len(results) + 1
          /\ \A i \in 1 .. Len(results') :
                results'[i] = answer \/ (i \in 1 .. Len(results) /\ results'[i] = results[i])
      BY <2>4, <2>5
    <3> QED
      BY <2>5, <2>6, <3>1, DeliveryAssumption DEF DeliveryIInv, KnownInv
  <2>8. DeliveryTyped'
    BY <1>2, <2>7 DEF SendDeliveryResult, DeliveryIInv, DeliveryTyped
  <2>9. KnownInv'
    BY <1>2, <2>1, <2>7 DEF SendDeliveryResult, DeliveryIInv, KnownInv
  <2> QED
    BY <1>2, <2>1, <2>8, <2>9 DEF SendDeliveryResult, DeliveryIInv, PublishedIsSnapshot
<1> QED
  BY <1>1, <1>2

LEMMA DeliveryKept == DeliveryIInv /\ [DeliveryNext]_deliveryVars => DeliveryIInv'
<1> SUFFICES ASSUME DeliveryIInv, [DeliveryNext]_deliveryVars PROVE DeliveryIInv'
  OBVIOUS
<1>1. CASE UNCHANGED deliveryVars
  <2>1. SyncInv' /\ UNCHANGED <<sync, session, delivering>>
    BY <1>1, SyncKept DEF deliveryVars, DeliveryIInv, syncVars, frameVars, live
  <2>2. DeliveryTyped'
    BY <1>1 DEF deliveryVars, delivering, DeliveryIInv, DeliveryTyped
  <2> QED
    BY <2>1, <2>2, SameSnapshot
<1>2. CASE ProjectOnLoad
  BY <1>2, ProjectKeeps
<1>3. CASE DeliveryStageChanges \/ RestOfUpdate
  BY <1>3, ChangesKeep
<1>4. CASE HandleResult
  BY <1>4, HandleKeeps
<1>5. CASE SynchronizeDelivery
  BY <1>5, SynchronizeKeeps
<1>6. CASE DeliveryWorker
  BY <1>6, WorkerKeeps DEF DeliveryWorker
<1> QED
  BY <1>1, <1>2, <1>3, <1>4, <1>5, <1>6 DEF DeliveryNext, DeliveryFrame

LEMMA DeliveryInvariance == DeliverySpec => []DeliveryIInv
  BY DeliveryStart, DeliveryKept, PTL DEF DeliverySpec

\* Every variable keeps its type, and the queues of the worker their capacity
\* (DeliveryTypeOK).
THEOREM DeliveryTypeCorrect == DeliverySpec => []DeliveryTypeOK
<1>1. DeliveryIInv => DeliveryTypeOK
  BY SyncInvTypes DEF DeliveryIInv, DeliveryTyped, Result, DeliveryTypeOK
<1> QED
  BY <1>1, DeliveryInvariance, PTL

\* However late a delivery is built, what viewers download is the snapshot the host
\* itself works with, under its session and revision (PublishedIsSnapshot).
THEOREM PublishedIsTheSnapshot == DeliverySpec => []PublishedIsSnapshot
<1>1. DeliveryIInv => PublishedIsSnapshot
  BY DEF DeliveryIInv
<1> QED
  BY <1>1, DeliveryInvariance, PTL

(***************************************************************************)
(* RecoveryCheckpoint. That a restored stage is an export rests on         *)
(* SavedInv: what waits, what is written and what the metadata describes   *)
(* was exported.                                                           *)
(***************************************************************************)

(***************************************************************************)
(* Types.                                                                  *)
(***************************************************************************)

RecoveryTyped ==
  /\ checkpoints \in Seq(Exports) /\ Len(checkpoints) <= RecoveryCapacity
  /\ unread \in 0 .. RecoveryResultCapacity
  /\ writing = None \/ writing \in [work : Exports, step : {"stage", "metadata", "written"}]
  /\ disk \in [Sessions -> [stage : Rows \cup {None},
                            metadata : [revision : Nat, digest : Rows] \cup {None}]]
  /\ exported \cup failed \subseteq Exports /\ crashes \in 0 .. MaxCrashes

RecoveryTypeInv == FrameInv /\ RecoveryTyped

LEMMA RecoveryTypesSplit == RecoveryTypeInv => RecoveryTypeOK
  BY DEF RecoveryTypeInv, FrameInv, RecoveryTyped, RecoveryTypeOK

\* A queue with room made in it is within its capacity.
LEMMA QueueBound ==
  ASSUME NEW S, NEW work \in S, checkpoints \in Seq(S), Len(checkpoints) <= RecoveryCapacity,
         SubmitWork(work)
  PROVE  /\ checkpoints' \in Seq(S) /\ Len(checkpoints') <= RecoveryCapacity
         /\ \A i \in 1 .. Len(checkpoints') :
               checkpoints'[i] = work \/ \E j \in 1 .. Len(checkpoints) : checkpoints'[i] = checkpoints[j]
<1> USE RecoveryAssumption
<1> DEFINE kept == IF Len(checkpoints) >= RecoveryCapacity THEN Tail(checkpoints) ELSE checkpoints
<1>1. checkpoints' = Append(kept, work)
  BY DEF SubmitWork
<1>2. CASE Len(checkpoints) >= RecoveryCapacity
  <2>1. checkpoints # <<>> /\ Len(checkpoints) \in Nat
    BY <1>2
  <2>2. kept \in Seq(S) /\ Len(kept) = Len(checkpoints) - 1
    BY <1>2, <2>1
  <2>3. \A i \in 1 .. Len(kept) : kept[i] = checkpoints[i + 1] /\ i + 1 \in 1 .. Len(checkpoints)
    BY <1>2, <2>1
  <2> HIDE DEF kept
  <2> QED
    BY <1>1, <1>2, <2>1, <2>2, <2>3
<1>3. CASE ~(Len(checkpoints) >= RecoveryCapacity)
  <2>1. kept = checkpoints
    BY <1>3
  <2> HIDE DEF kept
  <2> QED
    BY <1>1, <1>3, <2>1
<1> QED
  BY <1>2, <1>3

LEMMA RevisionBound ==
  ASSUME FrameInv, batch # None, stage # None
  PROVE  [session |-> session, revision |-> batch.revision, rows |-> stage] \in Exports
<1>1. batch.revision \in Nat
  BY DEF FrameInv, FrameTypeOK, Batches
<1> QED
  BY <1>1 DEF FrameInv, FrameTypeOK, Exports, Sessions

LEMMA FaultTyped == ASSUME FrameInv, Fault, UNCHANGED <<live, batch, edits>>, phase' \in Phases
                    PROVE  FrameInv'
  BY FrameAssumption DEF FrameInv, FrameTypeOK, FrameCounts, Fault, live

(***************************************************************************)
(* What is on disk was exported.                                           *)
(***************************************************************************)

\* The export that the metadata of a directory describes.
Described(s) ==
  [session |-> s, revision |-> disk[s].metadata.revision,
   rows |-> disk[s].metadata.digest]

SavedInv ==
  /\ \A i \in 1 .. Len(checkpoints) : checkpoints[i] \in exported
  /\ writing # None => writing.work \in exported
  /\ \A s \in Sessions : disk[s].metadata # None => Described(s) \in exported

RecoveryIInv == RecoveryTypeInv /\ SavedInv

LEMMA RecoveryStart == RecoveryInit => RecoveryIInv
<1> SUFFICES ASSUME RecoveryInit PROVE RecoveryIInv
  OBVIOUS
<1> USE DEF RecoveryInit
<1>1. FrameInv
  BY FrameInit0
<1>2. RecoveryTyped
  BY RecoveryAssumption DEF RecoveryTyped, NoFiles
<1>3. SavedInv
  BY DEF SavedInv, NoFiles
<1> QED
  BY <1>1, <1>2, <1>3 DEF RecoveryIInv, RecoveryTypeInv

LEMMA FramesKeep == ASSUME RecoveryIInv, RecoveryUpdate \/ RecoveryStageChanges PROVE RecoveryIInv'
<1>1. FrameInv'
  <2>1. FrameInv
    BY DEF RecoveryIInv, RecoveryTypeInv
  <2>2. \/ StartUpdate /\ UNCHANGED faults
        \/ Edit \/ OpenStage \/ DrainNotices \/ EndUpdate
    BY DEF RecoveryUpdate, RecoveryStageChanges
  <2> QED
    BY <2>1, <2>2, FrameKept
<1>2. UNCHANGED <<checkpoints, unread, writing, disk, exported, failed, crashes>>
  BY DEF RecoveryUpdate, RecoveryStageChanges, recovering
<1> QED
  BY <1>1, <1>2 DEF RecoveryIInv, RecoveryTypeInv, RecoveryTyped, SavedInv, Described

LEMMA CheckpointKeeps == ASSUME RecoveryIInv, CheckpointRecovery PROVE RecoveryIInv'
<1> USE DEF CheckpointRecovery
<1> DEFINE export == [session |-> session, revision |-> batch.revision, rows |-> stage]
<1>1. unread' \in 0 .. RecoveryResultCapacity /\ phase' \in Phases
      /\ UNCHANGED <<live, batch, edits, writing, disk, crashes>>
  BY RecoveryAssumption DEF Phases
<1>2. CASE UNCHANGED <<checkpoints, exported, failed, faults>>
  <2>1. FrameInv'
    BY <1>1, <1>2 DEF RecoveryIInv, RecoveryTypeInv, FrameInv, FrameTypeOK, FrameCounts, live
  <2> QED
    BY <1>1, <1>2, <2>1 DEF RecoveryIInv, RecoveryTypeInv, RecoveryTyped, SavedInv, Described
<1>3. CASE batch # None /\ stage # None /\ SubmitWork(export)
           /\ exported' = exported \cup {export} /\ UNCHANGED <<failed, faults>>
  <2>1. FrameInv'
    BY <1>1, <1>3 DEF RecoveryIInv, RecoveryTypeInv, FrameInv, FrameTypeOK, FrameCounts, live
  <2>2. export \in Exports
    BY <1>3, RevisionBound DEF RecoveryIInv, RecoveryTypeInv
  <2> HIDE DEF export, CheckpointRecovery
  <2>3. /\ checkpoints' \in Seq(Exports) /\ Len(checkpoints') <= RecoveryCapacity
        /\ \A i \in 1 .. Len(checkpoints') :
              checkpoints'[i] = export \/ \E j \in 1 .. Len(checkpoints) : checkpoints'[i] = checkpoints[j]
    BY <1>3, <2>2, QueueBound DEF RecoveryIInv, RecoveryTypeInv, RecoveryTyped
  <2>4. RecoveryTyped'
    BY <1>1, <1>3, <2>2, <2>3 DEF RecoveryIInv, RecoveryTypeInv, RecoveryTyped
  <2>5. SavedInv'
    BY <1>1, <1>3, <2>3 DEF RecoveryIInv, SavedInv, Described
  <2> QED
    BY <2>1, <2>4, <2>5 DEF RecoveryIInv, RecoveryTypeInv
<1>4. CASE batch # None /\ stage # None /\ Fault /\ failed' = failed \cup {export}
           /\ UNCHANGED <<checkpoints, exported>>
  <2>1. FrameInv'
    BY <1>1, <1>4, FaultTyped DEF RecoveryIInv, RecoveryTypeInv
  <2>2. export \in Exports
    BY <1>4, RevisionBound DEF RecoveryIInv, RecoveryTypeInv
  <2> QED
    BY <1>1, <1>4, <2>1, <2>2 DEF RecoveryIInv, RecoveryTypeInv, RecoveryTyped, SavedInv, Described
<1> QED
  BY <1>2, <1>3, <1>4

LEMMA TakeKeeps == ASSUME RecoveryIInv, TakeRecoveryWork PROVE RecoveryIInv'
<1> USE DEF TakeRecoveryWork
<1>1. /\ checkpoints' = Tail(checkpoints) /\ checkpoints \in Seq(Exports) /\ checkpoints # <<>>
  BY DEF RecoveryIInv, RecoveryTypeInv, RecoveryTyped
<1>2. /\ checkpoints' \in Seq(Exports) /\ Len(checkpoints') <= Len(checkpoints)
      /\ \A i \in 1 .. Len(checkpoints') : checkpoints'[i] = checkpoints[i + 1] /\ i + 1 \in 1 .. Len(checkpoints)
  BY <1>1
<1>3. Head(checkpoints) \in Exports /\ Head(checkpoints) = checkpoints[1] /\ 1 \in 1 .. Len(checkpoints)
  BY <1>1
<1>4. FrameInv'
  BY FrameSame DEF RecoveryIInv, RecoveryTypeInv
<1>5. RecoveryTyped'
  BY <1>2, <1>3, RecoveryAssumption DEF RecoveryIInv, RecoveryTypeInv, RecoveryTyped
<1>6. SavedInv'
  BY <1>2, <1>3 DEF RecoveryIInv, SavedInv, Described
<1> QED
  BY <1>4, <1>5, <1>6 DEF RecoveryIInv, RecoveryTypeInv

LEMMA InstallsKeep == ASSUME RecoveryIInv, InstallStage \/ InstallMetadata PROVE RecoveryIInv'
<1>1. FrameInv'
  BY FrameSame DEF RecoveryIInv, RecoveryTypeInv, InstallStage, InstallMetadata
<1>2. UNCHANGED <<checkpoints, unread, exported, failed, crashes>> /\ writing # None
  BY DEF InstallStage, InstallMetadata
<1>3. writing \in [work : Exports, step : {"stage", "metadata", "written"}]
  BY <1>2 DEF RecoveryIInv, RecoveryTypeInv, RecoveryTyped
<1>4. /\ writing' \in [work : Exports, step : {"stage", "metadata", "written"}]
      /\ writing'.work = writing.work
  BY <1>3 DEF InstallStage, InstallMetadata
<1>5. writing.work.session \in Sessions /\ writing.work.revision \in Nat
      /\ writing.work.rows \in Rows
  BY <1>3 DEF Exports
<1>6. disk' \in [Sessions -> [stage : Rows \cup {None},
                              metadata : [revision : Nat, digest : Rows] \cup {None}]]
  BY <1>5 DEF RecoveryIInv, RecoveryTypeInv, RecoveryTyped, InstallStage, InstallMetadata
<1>7. ASSUME NEW s \in Sessions, disk'[s].metadata # None
      PROVE  Described(s)' \in exported
  <2>1. CASE InstallStage
    <3>1. disk'[s].metadata = disk[s].metadata
      BY <2>1 DEF InstallStage, RecoveryIInv, RecoveryTypeInv, RecoveryTyped
    <3> QED
      BY <1>7, <3>1 DEF RecoveryIInv, SavedInv, Described
  <2>2. CASE InstallMetadata /\ s = writing.work.session
    <3>1. disk'[s].metadata = [revision |-> writing.work.revision,
                               digest |-> writing.work.rows]
      BY <2>2 DEF InstallMetadata, RecoveryIInv, RecoveryTypeInv, RecoveryTyped
    <3>2. Described(s)' = writing.work
      BY <1>3, <2>2, <3>1 DEF Described, Exports
    <3> QED
      BY <1>2, <3>2 DEF RecoveryIInv, SavedInv
  <2>3. CASE InstallMetadata /\ s # writing.work.session
    <3>1. disk'[s] = disk[s]
      BY <2>3 DEF InstallMetadata, RecoveryIInv, RecoveryTypeInv, RecoveryTyped
    <3> QED
      BY <1>7, <3>1 DEF RecoveryIInv, SavedInv, Described
  <2> QED
    BY <2>1, <2>2, <2>3
<1>8. RecoveryTyped'
  BY <1>2, <1>4, <1>6 DEF RecoveryIInv, RecoveryTypeInv, RecoveryTyped
<1>9. SavedInv'
  BY <1>2, <1>4, <1>7 DEF RecoveryIInv, SavedInv
<1> QED
  BY <1>1, <1>8, <1>9 DEF RecoveryIInv, RecoveryTypeInv

LEMMA WriteEndsKeep == ASSUME RecoveryIInv, WriteFails \/ SendRecoveryResult PROVE RecoveryIInv'
<1>1. CASE WriteFails
  <2>1. FrameInv'
    BY <1>1, FrameAssumption
       DEF WriteFails, Fault, RecoveryIInv, RecoveryTypeInv, FrameInv, FrameTypeOK, FrameCounts, live
  <2>2. writing \in [work : Exports, step : {"stage", "metadata", "written"}]
    BY <1>1 DEF RecoveryIInv, RecoveryTypeInv, RecoveryTyped, WriteFails
  <2>3. /\ writing' \in [work : Exports, step : {"stage", "metadata", "written"}]
        /\ writing'.work = writing.work /\ writing.work \in Exports
    BY <1>1, <2>2 DEF WriteFails
  <2> QED
    BY <1>1, <2>1, <2>3
       DEF WriteFails, RecoveryIInv, RecoveryTypeInv, RecoveryTyped, SavedInv, Described
<1>2. CASE SendRecoveryResult
  <2>1. FrameInv'
    BY <1>2, FrameSame DEF SendRecoveryResult, RecoveryIInv, RecoveryTypeInv
  <2> QED
    BY <1>2, <2>1, RecoveryAssumption
       DEF SendRecoveryResult, RecoveryIInv, RecoveryTypeInv, RecoveryTyped, SavedInv, Described
<1> QED
  BY <1>1, <1>2

LEMMA CrashKeeps == ASSUME RecoveryIInv, Crash PROVE RecoveryIInv'
<1> USE DEF Crash
<1>1. FrameInv'
  BY FrameAssumption DEF RecoveryIInv, RecoveryTypeInv, FrameInv, FrameTypeOK, FrameCounts, Phases
<1>2. RecoveryTyped'
  BY RecoveryAssumption DEF RecoveryIInv, RecoveryTypeInv, RecoveryTyped
<1>3. SavedInv'
  BY DEF RecoveryIInv, SavedInv, Described
<1> QED
  BY <1>1, <1>2, <1>3 DEF RecoveryIInv, RecoveryTypeInv

LEMMA StepsKeep == RecoveryIInv /\ [RecoveryNext]_recoveryVars => RecoveryIInv'
<1> SUFFICES ASSUME RecoveryIInv, [RecoveryNext]_recoveryVars PROVE RecoveryIInv'
  OBVIOUS
<1>1. CASE UNCHANGED recoveryVars
  <2>1. FrameInv'
    BY <1>1, FrameSame DEF recoveryVars, RecoveryIInv, RecoveryTypeInv
  <2> QED
    BY <1>1, <2>1 DEF recoveryVars, recovering, RecoveryIInv, RecoveryTypeInv,
       RecoveryTyped, SavedInv, Described
<1>2. CASE RecoveryUpdate \/ RecoveryStageChanges
  BY <1>2, FramesKeep
<1>3. CASE CheckpointRecovery
  BY <1>3, CheckpointKeeps
<1>4. CASE RecoveryWorker
  BY <1>4, TakeKeeps, InstallsKeep, WriteEndsKeep DEF RecoveryWorker
<1>5. CASE Crash
  BY <1>5, CrashKeeps
<1> QED
  BY <1>1, <1>2, <1>3, <1>4, <1>5 DEF RecoveryNext, RecoveryFrame

LEMMA RecoveryInvariance == RecoverySpec => []RecoveryIInv
  BY RecoveryStart, StepsKeep, PTL DEF RecoverySpec

\* Every variable of recovery_worker and checkpoint_recovery keeps its type, and
\* their queues their capacity (RecoveryTypeOK).
THEOREM RecoveryTypeCorrect == RecoverySpec => []RecoveryTypeOK
<1>1. RecoveryIInv => RecoveryTypeOK
  BY RecoveryTypesSplit DEF RecoveryIInv
<1> QED
  BY <1>1, RecoveryInvariance, PTL

\* However often and whenever the process dies, what restore opens is a whole
\* export of its session, of the revision its metadata names (RestoresAnExport).
THEOREM RestoredIsAnExport == RecoverySpec => []RestoresAnExport
<1>1. RecoveryIInv => RestoresAnExport
  <2> SUFFICES ASSUME RecoveryIInv, NEW s \in Sessions, Restorable(disk[s])
               PROVE  [session |-> s, revision |-> disk[s].metadata.revision,
                       rows |-> disk[s].stage] \in exported
    BY DEF RestoresAnExport
  <2>1. disk[s].metadata # None /\ disk[s].metadata.digest = disk[s].stage
    BY DEF Restorable, Complete
  <2> QED
    BY <2>1 DEF RecoveryIInv, SavedInv, Described
<1> QED
  BY <1>1, RecoveryInvariance, PTL
=============================================================================
