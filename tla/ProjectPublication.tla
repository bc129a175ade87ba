------------------------- MODULE ProjectPublication -------------------------
(***************************************************************************)
(* Commit and export of a Project whose Scene may be open on the render    *)
(* owner's LiveStage.  A transaction runs in a host process, under that    *)
(* process's publication lock of the Project: it asks the owner for a      *)
(* snapshot and a lease that freezes authoring, builds a staging tree,     *)
(* has the lease validated, publishes to Git, finalizes the lease, and     *)
(* aborts it on any other way out.  A heartbeat thread renews the lease;   *)
(* the owner expires one that is not renewed.                              *)
(*                                                                         *)
(* A request to the owner is one step at the owner (CallContract, which    *)
(* RuntimeAuthorityQueue implements): it is served at most once, and a     *)
(* caller that gives up either had it served already or never will.  Only  *)
(* a crashed host leaves a request behind that may still be served.        *)
(***************************************************************************)
EXTENDS Naturals, Sequences

CONSTANTS
  Txns,                     \* commit and export transactions, each run once
  Processes, ProcessOf,     \* the host process of each transaction
  Scenes, Projects, ProjectOf,
  Target,                   \* the Project of each transaction
  Closure,                  \* the Scenes in its commit or export closure
  None,
  MaxGen, MaxSession, MaxRenewals, MaxRestarts   \* bounds of the model

ASSUME PublicationAssumption ==
  /\ ProcessOf \in [Txns -> Processes] /\ Target \in [Txns -> Projects]
  /\ ProjectOf \in [Scenes -> Projects] /\ Closure \in [Txns -> SUBSET Scenes]
  /\ None \notin Txns \cup Scenes
  /\ {MaxGen, MaxSession, MaxRenewals, MaxRestarts} \subseteq Nat

VARIABLES
  scene,       \* the Scene the StageHandle names
  live,        \* the LiveStage: session (0: none), authoring generation, freeze flag
  lease,       \* ActiveProjectRuntimeLease; due: its expiry time has passed
  opened,      \* LiveStage sessions so far (the code restarts this counter with the
               \*   owner, but compares sessions under one lease id only)
  restarts,    \* restarts of the render owner so far
  pc, kind, snap,            \* per transaction: control, operation, snapshot
  call,        \* its outstanding request to the owner
  beat, renewals,            \* its heartbeat thread
  head         \* the Git history: whose commit, of which live generation

stage == <<scene, live, lease, opened, restarts>>
txn   == <<pc, kind, snap, call>>
pulse == <<beat, renewals>>
vars  == <<stage, txn, pulse, head>>

NoLive  == [session |-> 0, gen |-> 0, frozen |-> FALSE]
NoLease == [holder |-> None, session |-> 0, gen |-> 0, due |-> FALSE]
NoSnap  == [session |-> 0, gen |-> 0]
NoCall  == [req |-> "none", reply |-> "none"]
Sent(req) == [req |-> req, reply |-> "none"]

Ended     == {"done", "crashed"}
InSection == {"begin", "leased", "validate", "validated", "committed", "finish",
              "finished", "unwinding", "abort"}
Requests  == {"none", "begin", "validate", "finish", "abort"}

TypeOK ==
  /\ scene \in Scenes \cup {None}
  /\ live \in [session : 0..MaxSession, gen : 0..MaxGen, frozen : BOOLEAN]
  /\ lease \in [holder : Txns \cup {None}, session : 0..MaxSession,
                gen : 0..MaxGen, due : BOOLEAN]
  /\ opened \in 0..MaxSession /\ restarts \in 0..MaxRestarts
  /\ pc \in [Txns -> {"idle"} \cup InSection \cup Ended]
  /\ kind \in [Txns -> {"commit", "export"}]
  /\ snap \in [Txns -> [session : 0..MaxSession, gen : 0..MaxGen]]
  /\ call \in [Txns -> [req : Requests,
                        reply : {"none", "ready", "inactive", "ok", "busy"}]]
  /\ \A t \in Txns : call[t].req # "none" => pc[t] \in {call[t].req, "crashed"}
  /\ beat \in [Txns -> {"off", "idle", "sent"}]
  /\ renewals \in [Txns -> 0..MaxRenewals]
  /\ head \in Seq([txn : Txns, session : 0..MaxSession, gen : 0..MaxGen])

Init ==
  /\ scene = None /\ live = NoLive /\ lease = NoLease
  /\ opened = 0 /\ restarts = 0
  /\ pc = [t \in Txns |-> "idle"]
  /\ kind \in [Txns -> {"commit", "export"}]
  /\ snap = [t \in Txns |-> NoSnap]
  /\ call = [t \in Txns |-> NoCall]
  /\ beat = [t \in Txns |-> "off"]
  /\ renewals = [t \in Txns |-> 0]
  /\ head = <<>>

-----------------------------------------------------------------------------
(* The render owner: stage                                                 *)

\* Opening a Scene, or a Project activation, replaces the LiveStage by a new session.
OpenStage(s) ==
  /\ opened < MaxSession
  /\ opened' = opened + 1
  /\ scene' = s
  /\ live' = [session |-> opened + 1, gen |-> 0, frozen |-> FALSE]
  /\ UNCHANGED <<lease, restarts, txn, pulse, head>>

\* The old LiveStage is dropped first; if the layer cannot be opened there is none.
OpenStageFails(s) ==
  /\ scene' = s /\ live' = NoLive
  /\ UNCHANGED <<lease, opened, restarts, txn, pulse, head>>

Edit ==
  /\ live.session # 0 /\ live.gen < MaxGen
  /\ live' = [live EXCEPT !.gen = @ + 1]
  /\ UNCHANGED <<scene, lease, opened, restarts, txn, pulse, head>>

\* Editor commands, runtime mutation batches, variants, Project stage mutations.
Author == ~live.frozen /\ Edit

\* BIM property edits are dispatched before the frozen check of the editor commands.
AuthorBim == Edit

ClearLeaseOnly ==             \* mutant: the freeze outlives the lease
  /\ lease' = NoLease
  /\ UNCHANGED live

ClearLease ==
  /\ live' = [live EXCEPT !.frozen = FALSE]
  /\ lease' = NoLease

\* RUNTIME_LEASE_GRACE_MS pass without a renewal.
LeaseComesDue ==
  /\ lease.holder # None /\ ~lease.due
  /\ lease' = [lease EXCEPT !.due = TRUE]
  /\ UNCHANGED <<scene, live, opened, restarts, txn, pulse, head>>

ExpireRuntimeLease ==
  /\ lease.due
  /\ ClearLease
  /\ UNCHANGED <<scene, opened, restarts, txn, pulse, head>>

\* The render process dies; the next one has no stage and no lease.
RestartOwner ==
  /\ restarts < MaxRestarts
  /\ restarts' = restarts + 1
  /\ scene' = None /\ live' = NoLive /\ lease' = NoLease
  /\ UNCHANGED <<opened, txn, pulse, head>>

-----------------------------------------------------------------------------
(* The render owner: requests                                              *)

OnStage(t) == scene # None /\ ProjectOf[scene] = Target[t]

Reply(t, r) == call' = [call EXCEPT ![t].reply = r]

Pending(t, reqs) == call[t].req \in reqs /\ call[t].reply = "none"

RevisionHoldsBySession(t) ==  \* mutant: the authoring generation is not compared
  /\ OnStage(t)
  /\ lease.holder = t /\ live.session # 0 /\ live.session = lease.session

\* Lease, session and authoring generation are those of the caller's snapshot.
RevisionHolds(t) ==
  /\ OnStage(t)
  /\ lease.holder = t /\ lease.gen = snap[t].gen
  /\ live.session # 0 /\ live.session = lease.session
  /\ live.gen = snap[t].gen

\* Freeze, export the root layer, claim, and lease, in one pass of the owner.
GrantSnapshot(t) ==
  /\ Pending(t, {"begin"}) /\ OnStage(t) /\ scene \in Closure[t]
  /\ lease.holder = None /\ live.session # 0 /\ ~live.frozen
  /\ live' = [live EXCEPT !.frozen = TRUE]
  /\ lease' = [holder |-> t, session |-> live.session, gen |-> live.gen, due |-> FALSE]
  /\ snap' = [snap EXCEPT ![t] = [session |-> live.session, gen |-> live.gen]]
  /\ Reply(t, "ready")
  /\ UNCHANGED <<scene, opened, restarts, pc, kind, pulse, head>>

AnswerInactive(t) ==
  /\ Pending(t, Requests \ {"none"})
  /\ ~OnStage(t) \/ (call[t].req = "begin" /\ scene \notin Closure[t])
  /\ Reply(t, "inactive")
  /\ UNCHANGED <<stage, pc, kind, snap, pulse, head>>

RefuseFrozen(t) ==            \* mutant: an error after the freeze returns without the thaw
  /\ Pending(t, {"begin"}) /\ OnStage(t) /\ live.session # 0
  /\ live' = [live EXCEPT !.frozen = TRUE]
  /\ Reply(t, "busy")
  /\ UNCHANGED <<scene, lease, opened, restarts, pc, kind, snap, pulse, head>>

\* Busy or ConcurrentChange: the check fails, or the envelope expired, or the
\* Project is not registered, or the snapshot could not be exported.
AnswerBusy(t) ==
  /\ Pending(t, Requests \ {"none"})
  /\ Reply(t, "busy")
  /\ UNCHANGED <<stage, pc, kind, snap, pulse, head>>

AnswerValidate(t) ==
  /\ Pending(t, {"validate"}) /\ RevisionHolds(t)
  /\ Reply(t, "ok")
  /\ UNCHANGED <<stage, pc, kind, snap, pulse, head>>

AnswerFinish(t) ==
  /\ Pending(t, {"finish"}) /\ RevisionHolds(t)
  /\ ClearLease
  /\ Reply(t, "ok")
  /\ UNCHANGED <<scene, opened, restarts, pc, kind, snap, pulse, head>>

AnswerAbort(t) ==
  /\ Pending(t, {"abort"}) /\ OnStage(t) /\ lease.holder = t
  /\ ClearLease
  /\ Reply(t, "ok")
  /\ UNCHANGED <<scene, opened, restarts, pc, kind, snap, pulse, head>>

\* Every request kind but renew goes through here, renew through the heartbeat.
Answer(t) ==
  \/ GrantSnapshot(t) \/ AnswerInactive(t) \/ AnswerBusy(t)
  \/ AnswerValidate(t) \/ AnswerFinish(t) \/ AnswerAbort(t)

\* A renewal that holds restarts the grace period; the heartbeat goes back to sleep.
AnswerRenew(t) ==
  /\ beat[t] = "sent" /\ RevisionHolds(t)
  /\ beat' = [beat EXCEPT ![t] = "idle"]
  /\ lease' = [lease EXCEPT !.due = FALSE]
  /\ UNCHANGED <<scene, live, opened, restarts, txn, renewals, head>>

-----------------------------------------------------------------------------
(* The host: commit and export_scene                                       *)

PublisherUnlocked(t) == FALSE \* mutant: no publication lock

\* ProjectPublicationCoordinator: one mutex per Project in each process.
PublisherLocked(t) ==
  \E u \in Txns : /\ ProcessOf[u] = ProcessOf[t] /\ Target[u] = Target[t]
                  /\ pc[u] \in InSection

Advance(t, from, to) ==
  /\ pc[t] = from
  /\ pc' = [pc EXCEPT ![t] = to]

BeginCommit(t) ==
  /\ ~PublisherLocked(t)
  /\ Advance(t, "idle", "begin")
  /\ call' = [call EXCEPT ![t] = Sent("begin")]
  /\ UNCHANGED <<stage, kind, snap, pulse, head>>

\* Ready starts the guard and its heartbeat, Inactive means that the canonical files
\* are the authority, anything else ends the operation.
BeginReturns(t) ==
  /\ pc[t] = "begin" /\ call[t].reply # "none"
  /\ call' = [call EXCEPT ![t] = NoCall]
  /\ pc' = [pc EXCEPT ![t] = IF call[t].reply = "busy" THEN "done" ELSE "leased"]
       /\ beat' = [beat EXCEPT ![t] = IF call[t].reply = "ready" THEN "idle" ELSE @]
  /\ UNCHANGED <<stage, kind, snap, renewals, head>>

\* The call times out; a Ready that arrives too late leaves its lease to expire.
BeginTimesOut(t) ==
  /\ Advance(t, "begin", "done")
  /\ call' = [call EXCEPT ![t] = NoCall]
  /\ snap' = [snap EXCEPT ![t] = NoSnap]
  /\ UNCHANGED <<stage, kind, pulse, head>>

Leased(t) == snap[t] # NoSnap

\* An error between two requests drops the guard: the repository, the staging tree,
\* the archive, or, after the Git commit, the changed-path and summary reads.
OperationFails(t) ==
  /\ pc[t] \in {"leased", "validated", "committed"}
  /\ pc' = [pc EXCEPT ![t] = "unwinding"]
  /\ UNCHANGED <<stage, kind, snap, call, pulse, head>>

\* The archive is validated and renamed over the destination.
ExportArchive(t) ==
  /\ kind[t] = "export" /\ Advance(t, "leased", "unwinding")
  /\ UNCHANGED <<stage, kind, snap, call, pulse, head>>

SubmitValidate(t) ==
  /\ kind[t] = "commit" /\ Leased(t)
  /\ Advance(t, "leased", "validate")
  /\ call' = [call EXCEPT ![t] = Sent("validate")]
  /\ UNCHANGED <<stage, kind, snap, pulse, head>>

\* Anything but Validated, a timeout included, is an error.
ValidateReturns(t) ==
  /\ pc[t] = "validate"
  /\ call' = [call EXCEPT ![t] = NoCall]
  /\ \/ call[t].reply = "ok" /\ pc' = [pc EXCEPT ![t] = "validated"]
     \/ pc' = [pc EXCEPT ![t] = "unwinding"]
  /\ UNCHANGED <<stage, kind, snap, pulse, head>>

\* The new HEAD has whatever HEAD is now as its parent.  Without a snapshot the
\* staging tree holds the canonical files only.
CreateCommit(t) ==
  /\ kind[t] = "commit"
  /\ Advance(t, IF Leased(t) THEN "validated" ELSE "leased", "committed")
  /\ head' = Append(head, [txn |-> t, session |-> snap[t].session, gen |-> snap[t].gen])
  /\ UNCHANGED <<stage, kind, snap, call, pulse>>

SubmitFinish(t) ==
  /\ Leased(t) /\ Advance(t, "committed", "finish")
  /\ call' = [call EXCEPT ![t] = Sent("finish")]
  /\ UNCHANGED <<stage, kind, snap, pulse, head>>

\* Finished disarms the guard; any other outcome is deferred to its drop.  (What the
\* host is told, which also depends on reading the new state back, is not modelled.)
FinishReturns(t) ==
  /\ pc[t] = "finish"
  /\ call' = [call EXCEPT ![t] = NoCall]
  /\ \/ call[t].reply = "ok" /\ pc' = [pc EXCEPT ![t] = "finished"]
     \/ pc' = [pc EXCEPT ![t] = "unwinding"]
  /\ UNCHANGED <<stage, kind, snap, pulse, head>>

CommitWithoutLease(t) ==
  /\ ~Leased(t) /\ Advance(t, "committed", "unwinding")
  /\ UNCHANGED <<stage, kind, snap, call, pulse, head>>

\* The guard stops its heartbeat, which is joined: no renewal is in flight after this.
StopHeartbeat(t) ==
  /\ pc[t] \in {"finished", "unwinding"} /\ beat[t] \in {"off", "idle"}
  /\ beat' = [beat EXCEPT ![t] = "off"]
  /\ LET abort == pc[t] = "unwinding" /\ Leased(t) IN
       /\ pc' = [pc EXCEPT ![t] = IF abort THEN "abort" ELSE "done"]
       /\ call' = [call EXCEPT ![t] = IF abort THEN Sent("abort") ELSE NoCall]
  /\ UNCHANGED <<stage, kind, snap, renewals, head>>

AbortNeedsAnswer(t) ==        \* mutant: the guard waits for the owner without a timeout
  /\ call[t].reply # "none"
  /\ Advance(t, "abort", "done")
  /\ call' = [call EXCEPT ![t] = NoCall]
  /\ UNCHANGED <<stage, kind, snap, pulse, head>>

\* The answer to an abort, or its absence, is ignored.
AbortReturns(t) ==
  /\ Advance(t, "abort", "done")
  /\ call' = [call EXCEPT ![t] = NoCall]
  /\ UNCHANGED <<stage, kind, snap, pulse, head>>

\* The heartbeat thread wakes while the guard has not stopped it.
SubmitRenew(t) ==
  /\ pc[t] \in InSection /\ beat[t] = "idle" /\ renewals[t] < MaxRenewals
  /\ beat' = [beat EXCEPT ![t] = "sent"]
  /\ renewals' = [renewals EXCEPT ![t] = @ + 1]
  /\ UNCHANGED <<stage, txn, head>>

\* Refused or timed out: logged, and tried again at the next interval.
RenewFails(t) ==
  /\ pc[t] \in InSection /\ beat[t] = "sent"
  /\ beat' = [beat EXCEPT ![t] = "idle"]
  /\ UNCHANGED <<stage, txn, renewals, head>>

\* The host process dies; the requests it sent stay in the owner's inbox.
CrashHost(p) ==
  /\ \E t \in Txns : ProcessOf[t] = p /\ pc[t] \in InSection
  /\ pc' = [t \in Txns |->
       IF ProcessOf[t] = p /\ pc[t] \in InSection THEN "crashed" ELSE pc[t]]
  /\ UNCHANGED <<stage, kind, snap, call, pulse, head>>

-----------------------------------------------------------------------------
HostStep(t) ==
  \/ BeginReturns(t) \/ BeginTimesOut(t) \/ OperationFails(t) \/ ExportArchive(t)
  \/ SubmitValidate(t) \/ ValidateReturns(t) \/ CreateCommit(t) \/ SubmitFinish(t)
  \/ FinishReturns(t) \/ CommitWithoutLease(t) \/ StopHeartbeat(t) \/ AbortReturns(t)

OwnerStep ==
  \/ \E s \in Scenes : OpenStage(s) \/ OpenStageFails(s)
  \/ Author \/ AuthorBim \/ LeaseComesDue \/ ExpireRuntimeLease \/ RestartOwner
  \/ \E t \in Txns : Answer(t) \/ AnswerRenew(t)

Next ==
  \/ OwnerStep
  \/ \E t \in Txns : BeginCommit(t) \/ HostStep(t) \/ SubmitRenew(t) \/ RenewFails(t)
  \/ \E p \in Processes : CrashHost(p)

Safety == Init /\ [][Next]_vars

\* A host thread runs and its calls time out; the owner's clock passes the expiry and
\* its system runs every frame.  Nobody has to start, edit, answer or renew.
Fairness ==
  /\ \A t \in Txns : WF_vars(HostStep(t)) /\ WF_vars(RenewFails(t))
  /\ WF_vars(LeaseComesDue) /\ WF_vars(ExpireRuntimeLease)

Spec == Safety /\ Fairness

-----------------------------------------------------------------------------
(* Properties                                                              *)

\* The stage is frozen exactly while a lease on this very session is held: no lease
\* leaves the stage editable, and no lost answer, expiry, abort, switch of stage or
\* crash leaves it frozen with nobody to thaw it (project_stage.rs:177-192).
FrozenIffLeased ==
  live.frozen <=> lease.holder # None /\ lease.session = live.session

\* Git history of one live session never goes back to an older generation: a
\* transaction that lost its lease cannot overwrite what a later one committed.
HistoryNeverRegresses ==
  \A i, j \in 1..Len(head) :
    i < j /\ head[i].session = head[j].session /\ head[i].session # 0
      => head[i].gen <= head[j].gen

\* When the owner finalizes a commit, the newest commit of the session on stage is
\* that transaction's and holds exactly what is on stage (project_stage.rs:112-128).
Newest(s) == LET I == {i \in 1..Len(head) : head[i].session = s}
             IN  head[CHOOSE i \in I : \A j \in I : j <= i]

FinishedIsCurrent ==
  [][\A t \in Txns :
       call[t].req = "finish" /\ call[t].reply = "none" /\ call'[t].reply = "ok"
         => Newest(live.session) = [txn |-> t, session |-> live.session, gen |-> live.gen]]_vars

\* A frozen stage thaws, whoever died holding the lease.
AuthoringResumes == []<>~live.frozen

\* Every operation ends and frees the publication lock, whether the owner answers or not
\* (each runs once).
OperationsEnd == []<>(\A t \in Txns : pc[t] \notin InSection)
=============================================================================
