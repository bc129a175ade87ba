-------------------------- MODULE RuntimeDelivery ---------------------------
(***************************************************************************)
(* The delivery of the stage that viewers download. The systems of         *)
(* PostUpdate first take the results of the delivery worker, then          *)
(* synchronise the snapshot, and last submit it to be built once the       *)
(* projection is ready; a worker thread builds it.                         *)
(*                                                                         *)
(* The projection is known by its readiness and its generation only:       *)
(* LiveProjection has the rest.                                            *)
(***************************************************************************)
EXTENDS SemanticSync

CONSTANTS
  DeliveryCapacity, DeliveryResultCapacity,
  MaxRestarts      \* bound: projections started again over the same stage

ASSUME DeliveryAssumption ==
  {DeliveryCapacity, DeliveryResultCapacity} \subseteq Nat \ {0} /\ MaxRestarts \in Nat

VARIABLES
  projection,      \* ProgressiveProjectionState
  pending, works, building, results, \* RuntimeDeliveryRuntime and its worker
  published,       \* the delivery viewers are offered
  broken,          \* the last delivery could not be built
  restarts

delivering == <<pending, works, building, results, published, broken>>
deliveryVars == <<syncVars, projection, restarts, delivering>>

Identities == [session : Nat, revision : Nat, generation : Nat]

Work == [id : Identities, rows : Rows]

DeliveryInit ==
  /\ SyncInit
  /\ projection = [session |-> 0, ready |-> "Busy", generation |-> 0]
  /\ restarts = 0
  /\ pending = None /\ works = <<>> /\ building = None /\ results = <<>>
  /\ published = None /\ broken = FALSE

(***************************************************************************)
(* The projection, and the rest of Update.                                 *)
(***************************************************************************)

\* A generation starts over a new stage, or again over the same one.
StartGeneration ==
  /\ projection' = [session |-> session, ready |-> "Busy",
                    generation |-> projection.generation + 1]
  /\ IF projection.session # session
       THEN UNCHANGED restarts
       ELSE restarts < MaxRestarts /\ restarts' = restarts + 1
  /\ UNCHANGED faults

EndGeneration ==
  /\ projection.ready = "Busy" /\ projection.session = session
  /\ \/ projection' = [projection EXCEPT !.ready = "Ready"] /\ UNCHANGED faults
     \/ projection' = [projection EXCEPT !.ready = "Failed"] /\ Fault
  /\ UNCHANGED restarts

ProjectOnLoad ==
  /\ StartUpdate
  /\ \/ /\ stage = None \/ projection.session = session
        /\ UNCHANGED <<projection, restarts, faults>>
     \/ stage # None /\ (StartGeneration \/ EndGeneration)
  /\ UNCHANGED <<sync, lost, delivering>>

\* What was published stays, also when another stage is opened.
DeliveryStageChanges ==
  Change /\ UNCHANGED <<projection, restarts, delivering>>

RestOfUpdate ==
  /\ phase # "Project" /\ Update
  /\ UNCHANGED <<projection, restarts, delivering>>

(***************************************************************************)
(* The results of the delivery worker.                                     *)
(***************************************************************************)

CurrentAtAnyRevision(id) ==      \* mutant: the revision is not compared
  /\ stage # None => id.session = session
  /\ projection.ready = "Ready" /\ id.generation = projection.generation

OfThisRevision(id) == id.session = session /\ id.revision = revision

IsCurrent(id) ==
  /\ stage # None => OfThisRevision(id)
  /\ projection.ready = "Ready" /\ id.generation = projection.generation

NeverRetries(id) == FALSE        \* mutant: a delivery of another generation is dropped

\* The stage is the one that was delivered but its entities were projected
\* anew: the delivery is built again.
IsRetried(id) ==
  /\ stage # None /\ OfThisRevision(id)
  /\ id.generation # projection.generation
  /\ sync # None /\ pending = None

HandleResult ==
  /\ phase = "PostUpdate" /\ results # <<>>
  /\ results' = Tail(results)
  /\ LET result == Head(results)
         id == result.id
     IN  \/ /\ IsCurrent(id)
            /\ published' = IF result.built THEN [id |-> id, rows |-> result.rows]
                                            ELSE None
            /\ broken' = ~result.built
            /\ UNCHANGED pending
         \/ /\ ~IsCurrent(id) /\ IsRetried(id)
            /\ pending' = [id |-> [id EXCEPT !.generation = projection.generation],
                           rows |-> sync.rows]
            /\ UNCHANGED <<published, broken>>
         \/ /\ ~IsCurrent(id) /\ ~IsRetried(id)
            /\ UNCHANGED <<pending, published, broken>>
  /\ UNCHANGED <<syncVars, projection, restarts, works, building>>

(***************************************************************************)
(* synchronize_live_stage and flush_pending_runtime_delivery.              *)
(***************************************************************************)

\* Work that is not started yet makes room for the newest.
SubmitDelivery(work) ==
  works' = Append(IF Len(works) >= DeliveryCapacity THEN Tail(works) ELSE works,
                  work)

Flush(waiting) ==
  IF projection.ready # "Ready" \/ waiting = None
    THEN pending' = waiting /\ UNCHANGED works
    ELSE /\ pending' = None
         /\ IF stage # None /\ ~OfThisRevision(waiting.id)
              THEN UNCHANGED works
              ELSE SubmitDelivery([waiting EXCEPT
                                     !.id.generation = projection.generation])

QueueDelivery(rows) ==
  /\ published' = None /\ broken' = FALSE
  /\ Flush([id |-> [session |-> session, revision |-> revision,
                    generation |-> projection.generation],
            rows |-> rows])

SynchronizeDelivery ==
  /\ results = <<>>
  /\ \/ ByDelta /\ QueueDelivery(Refreshed)
     \/ BySnapshot /\ QueueDelivery(stage)
     \/ /\ ExtractionFails \/ NothingToDo
        /\ Flush(pending) /\ UNCHANGED <<published, broken>>
  /\ UNCHANGED <<projection, restarts, building, results>>

(***************************************************************************)
(* delivery_worker.                                                        *)
(***************************************************************************)

TakeDeliveryWork ==
  /\ building = None /\ works # <<>>
  /\ building' = Head(works) /\ works' = Tail(works)
  /\ UNCHANGED <<syncVars, projection, restarts, pending, results, published,
                 broken>>

\* It waits while the results are not taken.
SendDeliveryResult ==
  /\ building # None /\ Len(results) < DeliveryResultCapacity
  /\ building' = None
  /\ \E built \in BOOLEAN :
        /\ results' = Append(results, [id |-> building.id, rows |-> building.rows,
                                       built |-> built])
        /\ IF built THEN UNCHANGED faults ELSE Fault
  /\ UNCHANGED <<live, batch, phase, sync, lost, edits, projection, restarts,
                 pending, works, published, broken>>

DeliveryFrame == ProjectOnLoad \/ RestOfUpdate \/ HandleResult \/ SynchronizeDelivery

DeliveryWorker == TakeDeliveryWork \/ SendDeliveryResult

DeliveryNext == DeliveryFrame \/ DeliveryStageChanges \/ DeliveryWorker

\* Frames follow one another and the worker is a thread. A generation ends
\* after some frames, each of which works on it (LiveProjection).
DeliveryFairness ==
  /\ WF_deliveryVars(DeliveryFrame) /\ WF_deliveryVars(DeliveryWorker)
  /\ SF_deliveryVars(ProjectOnLoad /\ EndGeneration)

DeliverySpec == DeliveryInit /\ [][DeliveryNext]_deliveryVars /\ DeliveryFairness

(***************************************************************************)
(* Properties.                                                             *)
(***************************************************************************)

\* Every variable has its type, and no queue holds more than its capacity.
DeliveryTypeOK ==
  /\ SyncTypeOK
  /\ projection \in [session : 0 .. MaxSessions, ready : {"Busy", "Ready", "Failed"},
                     generation : Nat]
  /\ {pending, building, published} \subseteq Work \cup {None}
  /\ works \in Seq(Work) /\ Len(works) <= DeliveryCapacity
  /\ results \in Seq([id : Identities, rows : Rows, built : BOOLEAN])
  /\ Len(results) <= DeliveryResultCapacity
  /\ broken \in BOOLEAN /\ restarts \in 0 .. MaxRestarts

\* What viewers download is what the host itself takes for the state of the
\* stage: the published delivery is that of the snapshot, its session and its
\* revision. Only between the opening of another stage and its first snapshot
\* does the delivery of the stage before stay published.
PublishedIsSnapshot ==
  sync # None /\ published # None =>
    /\ published.id.session = sync.session
    /\ published.id.revision = sync.revision
    /\ published.rows = sync.rows

Delivered ==
  /\ published # None
  /\ OfThisRevision(published.id) /\ published.rows = stage

\* Once edits and restarts end, viewers are offered the stage as it is, unless
\* its extraction, its projection or the construction of its delivery failed.
DeliveryArrives ==
  <>[](Delivered \/ stage = None \/ lost \/ broken \/ projection.ready = "Failed")

=============================================================================
