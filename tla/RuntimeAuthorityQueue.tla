----------------------- MODULE RuntimeAuthorityQueue -----------------------
(***************************************************************************)
(* The file queue through which a Project host asks the render owner for   *)
(* commit and export authority.  Every call is one uuid; its state is five *)
(* files under .usdhub/cache/project-runtime-authority:                    *)
(*                                                                         *)
(*   requests/<id>.json       written by the host, consumed by the owner   *)
(*   claims/<id>.waiting      the right to cancel or to grant, renamed by  *)
(*   claims/<id>.active         the owner when it grants, or by the host   *)
(*   cancellations/<id>.json    when it stops waiting: one rename wins     *)
(*   responses/<id>.json      written by the owner, consumed by the host   *)
(*                                                                         *)
(* The host side is submit_and_wait; the owner side is one Bevy exclusive  *)
(* system.  Clocks are not modelled: a deadline may pass at any moment at  *)
(* which the code looks at it, and an envelope may be found expired.       *)
(***************************************************************************)
EXTENDS Naturals, FiniteSets

CONSTANTS Calls,     \* request ids
          SnapshotCalls, \* the ids of BeginCommit and ExportScene requests
          NoCall         \* no call in hand

ASSUME QueueAssumption == SnapshotCalls \subseteq Calls /\ NoCall \notin Calls

VARIABLES
  requests, waiting, active, cancellations,   \* the calls that have that file
  responseFiles,                              \* the reply in the response file
  caller, result,                             \* submit_and_wait, per call
  pc, listing, envelopes, current, reply,     \* the owner's pass over the inbox
  effect                                      \* history: what was done for a call

files  == <<requests, waiting, active, cancellations, responseFiles>>
claims == <<waiting, active, cancellations>>
host   == <<caller, result>>
owner  == <<pc, listing, envelopes, current, reply>>
vars   == <<files, host, owner, effect>>

Replies == {"granted", "refused"}
Polling == {"polling", "cancelling", "grace"}
Closed  == {"answered", "busy", "detached"}

TypeOK ==
  /\ requests \subseteq Calls /\ waiting \subseteq Calls
  /\ active \subseteq Calls /\ cancellations \subseteq Calls
  /\ responseFiles \in [Calls -> Replies \cup {"none"}]
  /\ caller \in [Calls -> {"idle", "claimed"} \cup Polling \cup Closed]
  /\ result \in [Calls -> Replies \cup {"none"}]
  /\ pc \in {"idle", "collecting", "serving", "claiming", "publishing", "clearing"}
  /\ listing \subseteq Calls /\ envelopes \subseteq Calls
  /\ current \in Calls \cup {NoCall}
  /\ current = NoCall <=> pc \in {"idle", "collecting"}
  /\ reply \in Replies \cup {"none"}
  /\ effect \in [Calls -> {"none", "applied", "undone"}]

Init ==
  /\ requests = {} /\ waiting = {} /\ active = {} /\ cancellations = {}
  /\ responseFiles = [c \in Calls |-> "none"]
  /\ caller = [c \in Calls |-> "idle"]
  /\ result = [c \in Calls |-> "none"]
  /\ pc = "idle" /\ listing = {} /\ envelopes = {}
  /\ current = NoCall /\ reply = "none"
  /\ effect = [c \in Calls |-> "none"]

-----------------------------------------------------------------------------
(* The host: submit_and_wait                                               *)

CallerStep(c, from, to) ==
  /\ caller[c] \in from
  /\ caller' = [caller EXCEPT ![c] = to]

CreateWaitingClaim(c) ==
  /\ CallerStep(c, {"idle"}, "claimed")
  /\ waiting' = waiting \cup {c}
  /\ UNCHANGED <<requests, active, cancellations, responseFiles, result, owner, effect>>

\* The temporary file is renamed into the inbox: the owner sees all or nothing.
Enqueue(c) ==
  /\ CallerStep(c, {"claimed"}, "polling")
  /\ requests' = requests \cup {c}
  /\ UNCHANGED <<claims, responseFiles, result, owner, effect>>

ClearRequestState(c) ==
  /\ waiting' = waiting \ {c}
  /\ active' = active \ {c}
  /\ cancellations' = cancellations \ {c}

TakeResponse(c) ==
  /\ responseFiles[c] # "none"
  /\ CallerStep(c, {"polling", "grace"}, "answered")
  /\ result' = [result EXCEPT ![c] = responseFiles[c]]
  /\ responseFiles' = [responseFiles EXCEPT ![c] = "none"]
  /\ ClearRequestState(c)
  /\ UNCHANGED <<requests, owner, effect>>

\* The deadline passes and the response is looked for a last time.
Deadline(c) ==
  /\ responseFiles[c] = "none"
  /\ CallerStep(c, {"polling"}, "cancelling")
  /\ UNCHANGED <<files, result, owner, effect>>

CancelWithoutClaim(c) ==      \* mutant: a cancellation that does not take the claim
  /\ CallerStep(c, {"cancelling"}, "busy")
  /\ cancellations' = cancellations \cup {c}
  /\ requests' = requests \ {c}
  /\ UNCHANGED <<waiting, active, responseFiles, result, owner, effect>>

\* The rename of the waiting claim succeeds: nobody can grant this call now.
CancelWaitingRequest(c) ==
  /\ c \in waiting
  /\ CallerStep(c, {"cancelling"}, "busy")
  /\ waiting' = waiting \ {c}
  /\ cancellations' = cancellations \cup {c}
  /\ requests' = requests \ {c}
  /\ UNCHANGED <<active, responseFiles, result, owner, effect>>

PollOn(c) ==                  \* mutant: a lost claim sends the caller back to its loop
  /\ c \notin waiting
  /\ CallerStep(c, {"cancelling"}, "polling")
  /\ UNCHANGED <<files, result, owner, effect>>

\* There is no waiting claim: the owner is at work on it, so wait for the answer.
EnterGrace(c) ==
  /\ c \notin waiting
  /\ CallerStep(c, {"cancelling"}, "grace")
  /\ UNCHANGED <<files, result, owner, effect>>

GraceExpires(c) ==
  /\ responseFiles[c] = "none"
  /\ CallerStep(c, {"grace"}, "busy")
  /\ requests' = requests \ {c}
  /\ UNCHANGED <<claims, responseFiles, result, owner, effect>>

\* The host dies, or an I/O error leaves submit_and_wait through a `?`: no file is removed.
Detach(c) ==
  /\ CallerStep(c, {"claimed"} \cup Polling, "detached")
  /\ UNCHANGED <<files, result, owner, effect>>

\* maybe_cleanup, run by any process: files older than ARTIFACT_RETENTION (300 s),
\* which is far longer than a caller waits.
RemoveStaleArtifact(c) ==
  /\ caller[c] \in Closed
  /\ \/ requests' = requests \ {c} /\ UNCHANGED <<claims, responseFiles>>
     \/ ClearRequestState(c) /\ UNCHANGED <<requests, responseFiles>>
     \/ responseFiles' = [responseFiles EXCEPT ![c] = "none"] /\ UNCHANGED <<requests, claims>>
  /\ UNCHANGED <<host, owner, effect>>

-----------------------------------------------------------------------------
(* The render owner: consume_project_runtime_authority                     *)

OwnerIdle ==
  /\ pc' = "idle" /\ listing' = {} /\ envelopes' = {}
  /\ current' = NoCall /\ reply' = "none"

ListRequests ==
  /\ pc = "idle" /\ requests # {}
  /\ pc' = "collecting"
  /\ listing' = requests
  /\ UNCHANGED <<files, host, envelopes, current, reply, effect>>

ReadRequest(c) ==             \* mutant: the request is read and not deleted
  /\ pc = "collecting" /\ c \in listing \cap requests
  /\ listing' = listing \ {c}
  /\ envelopes' = envelopes \cup {c}
  /\ UNCHANGED <<files, host, pc, current, reply, effect>>

ConsumeRequest(c) ==
  /\ pc = "collecting" /\ c \in listing \cap requests
  /\ requests' = requests \ {c}
  /\ listing' = listing \ {c}
  /\ envelopes' = envelopes \cup {c}
  /\ UNCHANGED <<claims, responseFiles, host, pc, current, reply, effect>>

\* A listed file was removed meanwhile: consume_pending fails as a whole, and with
\* it go the requests that were already read and deleted in this pass.
ConsumeFails(c) ==
  /\ pc = "collecting" /\ c \in listing \ requests
  /\ OwnerIdle
  /\ UNCHANGED <<files, host, effect>>

\* Expired, cancelled, for an unregistered Project or for one that is not on stage:
\* answered without looking at the lease.
Refuse(c) ==
  /\ pc = "collecting" /\ listing = {} /\ c \in envelopes
  /\ pc' = "publishing" /\ current' = c /\ reply' = "refused"
  /\ UNCHANGED <<files, host, listing, envelopes, effect>>

Dispatch(c) ==
  /\ pc = "collecting" /\ listing = {} /\ c \in envelopes
  /\ c \notin cancellations
  /\ pc' = "serving" /\ current' = c
  /\ UNCHANGED <<files, host, listing, envelopes, reply, effect>>

Serve(r) ==
  /\ pc' = "publishing" /\ reply' = r
  /\ UNCHANGED <<files, host, listing, envelopes, current>>

\* Validate, Finish, Renew and Abort act on the lease without claiming the request.
ServeLeaseRequest(r) ==
  /\ pc = "serving" /\ current \notin SnapshotCalls
  /\ Serve(r)
  /\ effect' = IF r = "granted" THEN [effect EXCEPT ![current] = "applied"] ELSE effect

\* A snapshot is refused: lease held, no stage, stage frozen, export failed, cancelled.
RefuseSnapshot ==
  /\ pc = "serving" /\ current \in SnapshotCalls
  /\ Serve("refused")
  /\ UNCHANGED effect

\* The stage is frozen and its root layer exported; the claim comes last.
FreezeAndExport ==
  /\ pc = "serving" /\ current \in SnapshotCalls
  /\ current \notin cancellations
  /\ pc' = "claiming"
  /\ UNCHANGED <<files, host, listing, envelopes, current, reply, effect>>

ClaimRequest ==
  /\ pc = "claiming" /\ current \in waiting
  /\ waiting' = waiting \ {current}
  /\ active' = active \cup {current}
  /\ effect' = [effect EXCEPT ![current] = "applied"]
  /\ pc' = "publishing" /\ reply' = "granted"
  /\ UNCHANGED <<requests, cancellations, responseFiles, host, listing, envelopes, current>>

LeaseBeforeClaim ==           \* mutant: the lease is stored before the claim is tried
  /\ pc = "claiming"
  /\ Serve("refused")
  /\ effect' = [effect EXCEPT ![current] = "applied"]

\* The claim is gone or the rename failed: unfreeze and refuse.
ClaimLost ==
  /\ pc = "claiming"
  /\ Serve("refused")
  /\ UNCHANGED effect

Ready == current \in SnapshotCalls /\ reply = "granted"

\* Done with one of the envelopes.
NextEnvelope ==
  /\ envelopes' = envelopes \ {current} /\ current' = NoCall /\ reply' = "none"
  /\ pc' = IF envelopes = {current} THEN "idle" ELSE "collecting"
  /\ UNCHANGED listing

\* A Ready reply leaves the active claim to the caller; any other is cleared next.
PublishResponse ==
  /\ pc = "publishing"
  /\ responseFiles' = [responseFiles EXCEPT ![current] = reply]
  /\ IF Ready THEN NextEnvelope
              ELSE pc' = "clearing" /\ UNCHANGED <<listing, envelopes, current, reply>>
  /\ UNCHANGED <<requests, claims, host, effect>>

\* The response cannot be written: an undeliverable lease is released at once.
PublishFails ==
  /\ pc = "publishing"
  /\ effect' = IF Ready THEN [effect EXCEPT ![current] = "undone"] ELSE effect
  /\ pc' = "clearing"
  /\ UNCHANGED <<files, host, listing, envelopes, current, reply>>

ClearAfterReply ==
  /\ pc = "clearing"
  /\ ClearRequestState(current)
  /\ NextEnvelope
  /\ UNCHANGED <<requests, responseFiles, host, effect>>

\* The render process dies and a new one starts with an empty hand.
OwnerRestart ==
  /\ pc # "idle"
  /\ OwnerIdle
  /\ UNCHANGED <<files, host, effect>>

-----------------------------------------------------------------------------
HostStep(c) ==
  \/ CreateWaitingClaim(c) \/ Enqueue(c) \/ TakeResponse(c) \/ Deadline(c)
  \/ CancelWaitingRequest(c) \/ EnterGrace(c) \/ GraceExpires(c)

OwnerStep ==
  \/ ListRequests
  \/ \E c \in Calls : ConsumeRequest(c) \/ ConsumeFails(c) \/ Refuse(c) \/ Dispatch(c)
  \/ \E r \in Replies : ServeLeaseRequest(r)
  \/ RefuseSnapshot \/ FreezeAndExport \/ ClaimRequest \/ ClaimLost
  \/ PublishResponse \/ PublishFails \/ ClearAfterReply

Next ==
  \/ \E c \in Calls : HostStep(c) \/ Detach(c) \/ RemoveStaleArtifact(c)
  \/ OwnerStep
  \/ OwnerRestart

Safety == Init /\ [][Next]_vars

\* Only the host's own polling loop is scheduled fairly: its clock passes the deadline
\* and the grace period whether the owner runs or not.
Fairness == \A c \in Calls :
  WF_vars(Enqueue(c) \/ TakeResponse(c) \/ Deadline(c) \/ CancelWaitingRequest(c)
            \/ EnterGrace(c) \/ GraceExpires(c))

Spec == Safety /\ Fairness

-----------------------------------------------------------------------------
(* Properties                                                              *)

\* One rename wins: no call is both granted and cancelled, and while either is
\* still possible neither has happened (runtime_authority_queue_storage.rs:201-234).
OneClaimWinner ==
  /\ waiting \cap active = {}
  /\ waiting \cap cancellations = {}
  /\ active \cap cancellations = {}

\* A caller that stopped waiting for a snapshot after it took the claim never has a
\* lease granted to it later (runtime_authority_queue.rs:205-208).
NoGrantAfterGivingUp ==
  [][\A c \in SnapshotCalls :
       caller[c] = "busy" /\ effect[c] = "none" => effect'[c] = "none"]_vars

\* A success at the host is a success at the owner that was not taken back, and a
\* refusal leaves nothing done (runtime_authority_queue.rs:194-200).
AnswerIsTrue ==
  \A c \in Calls :
    /\ result[c] = "granted" => effect[c] = "applied"
    /\ result[c] = "refused" => effect[c] = "none"

\* The queue keeps the contract of a call, with its liveness.
OutcomeOf(s) == IF s \in {"claimed"} \cup Polling THEN "open"
                ELSE IF s = "busy" THEN "gaveUp" ELSE s

Outcome == [c \in Calls |-> OutcomeOf(caller[c])]

Contract == INSTANCE CallContract
              WITH Snapshots <- SnapshotCalls,
                   outcome <- Outcome, verdict <- result

KeepsContract == Contract!Safety
EveryCallCloses == Contract!Closed
=============================================================================
