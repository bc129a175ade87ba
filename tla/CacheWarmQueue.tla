--------------------------- MODULE CacheWarmQueue ---------------------------
(***************************************************************************)
(* How a Project host keeps the derived caches of its Scenes current.      *)
(*                                                                         *)
(* A write that has published its canonical layers first invalidates the   *)
(* cache of every Scene it touched: it advances the generation of the      *)
(* descriptor on disk.  Then it hands the targets to one worker thread, by *)
(* way of a small channel, of a map with the latest target per key, and,   *)
(* when that map is full, of a set of Projects whose descriptors are to be *)
(* searched.  The worker builds a cache and publishes it if its descriptor *)
(* is still the one it started from.                                       *)
(* A deletion and a switch to another branch take away the caches of what  *)
(* is gone, and a switch that fails takes away those of all the Project.   *)
(*                                                                         *)
(* Each action is what a thread does between two looks at something that   *)
(* others may change: a section under a lock, a channel operation, a file. *)
(* Targets are taken in the order of their keys, in any order within a rank.*)
(***************************************************************************)
EXTENDS Naturals, Sequences, FiniteSets

CONSTANTS
  Writers,          \* the threads of the host
  Projects, Scenes,
  Others,           \* Project roots and Models: targets without a generation
  ProjectOf,        \* the Project of a target
  Rank,             \* the order of the keys of the targets
  Writes,           \* what one write takes away, touches, and takes away if it fails
  None,
  QueueCapacity,    \* WARM_QUEUE_CAPACITY
  LatestCapacity,   \* WARM_LATEST_CAPACITY
  DirtyCapacity,    \* WARM_DIRTY_PROJECT_CAPACITY
  MaxWrites,        \* bound, per target: its writes
  MaxFaults         \* bound: I/O errors

Targets == Scenes \cup Others

ASSUME WarmAssumption ==
  /\ IsFiniteSet(Writers) /\ IsFiniteSet(Targets)
  /\ Scenes \cap Others = {} /\ Projects \cap Targets = {}
  /\ None \notin Targets \cup Nat \cup Projects
  /\ ProjectOf \in [Targets -> Projects] /\ Rank \in [Targets -> Nat]
  /\ Writes \subseteq [gone : SUBSET Targets, todo : SUBSET Targets, undo : SUBSET Targets]
  /\ \A w \in Writes : w.undo = {} \/ w.gone \cup (w.todo \cap Scenes) \subseteq w.undo
  /\ QueueCapacity \in Nat \ {0} /\ LatestCapacity \in Nat \ {0}
  /\ DirtyCapacity \in Nat \ {0}
  /\ MaxWrites \in [Targets -> Nat] /\ MaxFaults \in Nat

VARIABLES
  source,       \* the canonical content of each target, as a count of its writes
  descriptor,   \* on disk, per Scene: absent, building, partial or fallback
  latest,       \* per target, the generation to be warmed, if it is retained
  scheduled,    \* the targets said to have a job
  dirty,        \* the Projects whose descriptors are to be searched
  queue,        \* the jobs in the channel
  pc, job,      \* per thread: control, and the write it works for
  worker,
  exposed,      \* Scenes whose stale cache was reported (read by a property only)
  faults

inner == <<latest, scheduled, dirty>>
vars == <<source, descriptor, inner, queue, pc, job, worker, exposed, faults>>

Absent == [generation |-> 0, state |-> "absent", content |-> None]

Nothing == [t \in Targets |-> None]

NoJob == [gone |-> {}, todo |-> {}, undo |-> {}, wanted |-> Nothing, at |-> None,
          refused |-> FALSE, failed |-> FALSE]

Idle == [pc |-> "idle", key |-> None, generation |-> None, hash |-> 0,
         expected |-> Absent, found |-> Nothing]

Warming == {"check", "expect", "build", "publish"}

Retained == {t \in Targets : latest[t] # None}

First(t, S) == t \in S /\ \A u \in S : Rank[t] <= Rank[u]

\* Every Scene has been warmed.
Init ==
  /\ source = [t \in Targets |-> 0]
  /\ descriptor = [s \in Scenes |-> [generation |-> 1, state |-> "partial", content |-> 0]]
  /\ latest = Nothing /\ scheduled = {} /\ dirty = {} /\ queue = <<>>
  /\ pc = [m \in Writers |-> "idle"] /\ job = [m \in Writers |-> NoJob]
  /\ worker = Idle
  /\ exposed = {} /\ faults = 0

Fault == faults < MaxFaults /\ faults' = faults + 1

Silence == UNCHANGED pc         \* mutant: nobody is told that there is room

\* notify_all wakes every thread that waits for room.
Awake(m) == IF pc[m] = "waiting" THEN "record" ELSE pc[m]

Notify == pc' = [m \in Writers |-> Awake(m)]

Goto(m, to) == pc' = [pc EXCEPT ![m] = to]

---------------------------------------------------------------------------
(* A write: the boundaries.                                                *)

\* The canonical files of a write are published, then what is gone loses its cache and
\* what is changed is enqueued.  A target that is gone may come back with another branch.
Write(m, w) ==
  /\ pc[m] = "idle"
  /\ LET changed == w.gone \cup w.todo IN
       /\ \A t \in changed : source[t] < MaxWrites[t]
       /\ source' = [t \in Targets |-> IF t \in changed THEN source[t] + 1 ELSE source[t]]
  /\ Goto(m, "boundary")
  /\ job' = [job EXCEPT ![m] = [NoJob EXCEPT !.gone = w.gone, !.todo = w.todo, !.undo = w.undo]]
  /\ UNCHANGED <<descriptor, inner, queue, worker, exposed, faults>>

\* The next target that a deletion, a switch or its undoing takes away.
Discard(m, t) ==
  /\ pc[m] = "boundary" /\ t \in job[m].gone
  /\ Goto(m, "cancel")
  /\ job' = [job EXCEPT ![m].gone = @ \ {t}, ![m].at = t]
  /\ UNCHANGED <<source, descriptor, inner, queue, worker, exposed, faults>>

AtTargets(m) == pc[m] = "boundary" /\ job[m].gone = {}

Prepared(m, t, generation) ==
  job' = [job EXCEPT ![m].todo = @ \ {t}, ![m].wanted[t] = generation]

\* advance_generation reads and publishes under the lock of the Scene's generation.
Advance(m, s) ==
  /\ AtTargets(m) /\ First(s, job[m].todo)
  /\ LET next == descriptor[s].generation + 1 IN
       /\ descriptor' = [descriptor EXCEPT ![s] =
            [generation |-> next, state |-> "building", content |-> None]]
       /\ Prepared(m, s, next)
  /\ exposed' = exposed \ {s}
  /\ UNCHANGED <<source, inner, queue, pc, worker, faults>>

NoBoundary(m, t) ==
  /\ AtTargets(m) /\ First(t, job[m].todo)
  /\ Prepared(m, t, 0)
  /\ UNCHANGED <<source, descriptor, inner, queue, pc, worker, exposed, faults>>

\* Fail closed: a Scene without a boundary loses its cache.
AdvanceFails(m, s) ==
  /\ Fault /\ AtTargets(m) /\ First(s, job[m].todo)
  /\ Goto(m, "cancel")
  /\ job' = [job EXCEPT ![m].todo = @ \ {s}, ![m].at = s, ![m].refused = TRUE]
  /\ UNCHANGED <<source, descriptor, inner, queue, worker, exposed>>

\* remove_target_descriptors: first, no retained target.
Cancel(m) ==
  /\ pc[m] = "cancel"
  /\ latest' = [latest EXCEPT ![job[m].at] = None]
  /\ pc' = [u \in Writers |-> IF u = m THEN "remove" ELSE Awake(u)]
  /\ UNCHANGED <<source, descriptor, scheduled, dirty, queue, job, worker, exposed, faults>>

\* The lifecycle lock of a Scene: the worker holds it while it warms.
LifecycleLocked(s) == worker.key = s /\ worker.pc \in Warming

Remove(m) ==
  /\ pc[m] = "remove" /\ ~LifecycleLocked(job[m].at)
  /\ descriptor' = [s \in Scenes |-> IF s = job[m].at THEN Absent ELSE descriptor[s]]
  /\ exposed' = exposed \ {job[m].at}
  /\ Goto(m, "boundary")
  /\ UNCHANGED <<source, inner, queue, job, worker, faults>>

Undoing(m) == job' = [job EXCEPT ![m] = [NoJob EXCEPT !.gone = job[m].undo]]

\* The write reports a failure.  A switch is undone: at once when it was taking away
\* what is gone, after the last boundary when one of those failed.
RemoveFails(m) ==
  /\ pc[m] = "remove" /\ ~LifecycleLocked(job[m].at)
  /\ exposed' = exposed \cup ({job[m].at} \cap Scenes)
  /\ IF job[m].undo = {} THEN UNCHANGED job
     ELSE IF job[m].refused THEN job' = [job EXCEPT ![m].failed = TRUE]
     ELSE Undoing(m)
  /\ Goto(m, "boundary")
  /\ UNCHANGED <<source, descriptor, inner, queue, worker, faults>>

Undo(m) ==
  /\ AtTargets(m) /\ job[m].todo = {} /\ job[m].failed
  /\ Undoing(m)
  /\ UNCHANGED <<source, descriptor, inner, queue, pc, worker, exposed, faults>>

\* Nothing is recorded when a boundary failed.
BoundariesDone(m) ==
  /\ AtTargets(m) /\ job[m].todo = {} /\ ~job[m].failed
  /\ IF job[m].refused
       THEN Goto(m, "idle") /\ job' = [job EXCEPT ![m] = NoJob]
       ELSE Goto(m, "record") /\ UNCHANGED job
  /\ UNCHANGED <<source, descriptor, inner, queue, worker, exposed, faults>>

---------------------------------------------------------------------------
(* A write: handing the targets to the worker.                             *)

Known(t) == latest[t] # None \/ t \in scheduled

Full == Cardinality(Retained) >= LatestCapacity

Represented(p) == p \in dirty \/ Cardinality(dirty) < DirtyCapacity

Recording(m, t) ==
  pc[m] = "record" /\ First(t, {u \in Targets : job[m].wanted[u] # None})

Recorded(m, t) == job' = [job EXCEPT ![m].wanted[t] = None, ![m].at = None]

\* A target without a generation is dropped when there is no room.
RecordRefused(m, t) ==
  /\ Recording(m, t) /\ ~Known(t) /\ Full /\ t \in Others
  /\ Recorded(m, t)
  /\ UNCHANGED <<source, descriptor, inner, queue, pc, worker, exposed, faults>>

RecordProject(m, t) ==
  /\ Recording(m, t) /\ ~Known(t) /\ Full /\ t \in Scenes
  /\ Represented(ProjectOf[t])
  /\ dirty' = dirty \cup {ProjectOf[t]}
  /\ Recorded(m, t) /\ Notify
  /\ UNCHANGED <<source, descriptor, latest, scheduled, queue, worker, exposed, faults>>

RecordWaits(m, t) ==
  /\ Recording(m, t) /\ ~Known(t) /\ Full /\ t \in Scenes
  /\ ~Represented(ProjectOf[t])
  /\ Goto(m, "waiting")
  /\ UNCHANGED <<source, descriptor, inner, queue, job, worker, exposed, faults>>

RecordUnscheduled(m, t) ==      \* mutant: a job is sent for every record
  /\ Recording(m, t) /\ (Known(t) \/ ~Full)
  /\ latest' = [latest EXCEPT ![t] = job[m].wanted[t]]
  /\ scheduled' = scheduled \cup {t}
  /\ Goto(m, "send") /\ job' = [job EXCEPT ![m].at = t]
  /\ UNCHANGED <<source, descriptor, dirty, queue, worker, exposed, faults>>

\* The target replaces the one that is retained, whichever generation that has; a
\* job is sent unless there is one.
Record(m, t) ==
  /\ Recording(m, t) /\ (Known(t) \/ ~Full)
  /\ latest' = [latest EXCEPT ![t] = job[m].wanted[t]]
  /\ IF t \in scheduled
       THEN Recorded(m, t) /\ UNCHANGED <<scheduled, pc>>
       ELSE /\ scheduled' = scheduled \cup {t}
            /\ Goto(m, "send") /\ job' = [job EXCEPT ![m].at = t]
  /\ UNCHANGED <<source, descriptor, dirty, queue, worker, exposed, faults>>

Send(m) ==
  /\ pc[m] = "send"
  /\ IF Len(queue) < QueueCapacity
       THEN /\ queue' = Append(queue, job[m].at)
            /\ Recorded(m, job[m].at) /\ Goto(m, "record")
       ELSE Goto(m, "unschedule") /\ UNCHANGED <<queue, job>>
  /\ UNCHANGED <<source, descriptor, inner, worker, exposed, faults>>

\* The channel was full when it was tried: the target is left to a later retry.
Unschedule(m) ==
  /\ pc[m] = "unschedule"
  /\ scheduled' = scheduled \ {job[m].at}
  /\ Recorded(m, job[m].at) /\ Goto(m, "record")
  /\ UNCHANGED <<source, descriptor, latest, dirty, queue, worker, exposed, faults>>

RecordsDone(m) ==
  /\ pc[m] = "record" /\ job[m].wanted = Nothing
  /\ Goto(m, "idle") /\ job' = [job EXCEPT ![m] = NoJob]
  /\ UNCHANGED <<source, descriptor, inner, queue, worker, exposed, faults>>

---------------------------------------------------------------------------
(* The worker: one job.                                                    *)

WorkerAt(step) == worker.pc = step

Then(step) == worker' = [worker EXCEPT !.pc = step]

Receive ==
  /\ WorkerAt("idle") /\ queue # <<>>
  /\ worker' = [Idle EXCEPT !.pc = "take", !.key = Head(queue)]
  /\ queue' = Tail(queue)
  /\ UNCHANGED <<source, descriptor, inner, pc, job, exposed, faults>>

TakeDone ==                     \* mutant: the job is done once its target is taken
  /\ WorkerAt("take")
  /\ latest' = [latest EXCEPT ![worker.key] = None]
  /\ scheduled' = scheduled \ {worker.key}
  /\ worker' = [worker EXCEPT !.generation = latest[worker.key],
                  !.pc = IF latest[worker.key] # None /\ worker.key \in Scenes
                           THEN "check" ELSE "finish"]
  /\ Notify
  /\ UNCHANGED <<source, descriptor, dirty, queue, job, exposed, faults>>

\* A target without a generation is warmed apart from the descriptors of the Scenes.
TakeLatest ==
  /\ WorkerAt("take")
  /\ latest' = [latest EXCEPT ![worker.key] = None]
  /\ worker' = [worker EXCEPT !.generation = latest[worker.key],
                  !.pc = IF latest[worker.key] # None /\ worker.key \in Scenes
                           THEN "check" ELSE "finish"]
  /\ IF latest[worker.key] # None THEN Notify ELSE UNCHANGED pc
  /\ UNCHANGED <<source, descriptor, scheduled, dirty, queue, job, exposed, faults>>

HasGeneration == descriptor[worker.key].generation = worker.generation

\* The content is hashed only for the generation that was asked for.
Check ==
  /\ WorkerAt("check")
  /\ IF HasGeneration
       THEN worker' = [worker EXCEPT !.pc = "expect", !.hash = source[worker.key]]
       ELSE Then("finish")
  /\ UNCHANGED <<source, descriptor, inner, queue, pc, job, exposed, faults>>

\* The snapshot that the publication is compared with.
Expect ==
  /\ WorkerAt("expect")
  /\ IF HasGeneration /\ descriptor[worker.key].content \in {None, worker.hash}
       THEN worker' = [worker EXCEPT !.pc = "build", !.expected = descriptor[worker.key]]
       ELSE Then("finish")
  /\ UNCHANGED <<source, descriptor, inner, queue, pc, job, exposed, faults>>

\* Built, and the content is still the one that was hashed.
Build ==
  /\ WorkerAt("build")
  /\ Then(IF source[worker.key] = worker.hash THEN "publish" ELSE "failed")
  /\ UNCHANGED <<source, descriptor, inner, queue, pc, job, exposed, faults>>

Warm(s) ==
  descriptor' = [descriptor EXCEPT ![s] =
    [worker.expected EXCEPT !.state = IF @ = "building" THEN "partial" ELSE @,
                            !.content = worker.hash]]

PublishUncompared ==            \* mutant: published whatever the descriptor is now
  /\ WorkerAt("publish")
  /\ Warm(worker.key)
  /\ Then("finish")
  /\ UNCHANGED <<source, inner, queue, pc, job, exposed, faults>>

\* publish_generation_if_current compares and publishes under the generation lock.
Publish ==
  /\ WorkerAt("publish")
  /\ IF descriptor[worker.key] = worker.expected THEN Warm(worker.key)
                                                  ELSE UNCHANGED descriptor
  /\ Then("finish")
  /\ UNCHANGED <<source, inner, queue, pc, job, exposed, faults>>

WarmFails ==
  /\ Fault /\ worker.pc \in Warming
  /\ Then("failed")
  /\ UNCHANGED <<source, descriptor, inner, queue, pc, job, exposed>>

\* mark_warm_failure_terminal reads the descriptor and publishes it again under no
\* lock: neither that of the generation nor that of the Scene's lifecycle.
Failed ==
  /\ WorkerAt("failed")
  /\ LET found == descriptor[worker.key] IN
       IF HasGeneration /\ found.state = "building"
         THEN worker' = [worker EXCEPT !.pc = "terminal", !.expected = found]
         ELSE Then("finish")
  /\ Notify
  /\ UNCHANGED <<source, descriptor, inner, queue, job, exposed, faults>>

Terminalize ==
  /\ WorkerAt("terminal")
  /\ descriptor' = [descriptor EXCEPT ![worker.key] =
                      [worker.expected EXCEPT !.state = "fallback"]]
  /\ Then("finish")
  /\ UNCHANGED <<source, inner, queue, pc, job, exposed, faults>>

---------------------------------------------------------------------------
(* The worker: after a job, retry what found no place in the channel, and  *)
(* what did not even find a place in the map.                              *)

Finish ==
  /\ WorkerAt("finish")
  /\ scheduled' = scheduled \ {worker.key}
  /\ worker' = [Idle EXCEPT !.pc = "retry"]
  /\ Notify
  /\ UNCHANGED <<source, descriptor, latest, dirty, queue, job, exposed, faults>>

Unscheduled == Retained \ scheduled

Retry(t) ==
  /\ WorkerAt("retry") /\ First(t, Unscheduled)
  /\ scheduled' = scheduled \cup {t}
  /\ worker' = [worker EXCEPT !.pc = "resend", !.key = t]
  /\ UNCHANGED <<source, descriptor, latest, dirty, queue, pc, job, exposed, faults>>

NothingToRetry ==
  /\ WorkerAt("retry") /\ Unscheduled = {}
  /\ Then("overflow")
  /\ UNCHANGED <<source, descriptor, inner, queue, pc, job, exposed, faults>>

Resend ==
  /\ WorkerAt("resend")
  /\ IF Len(queue) < QueueCapacity
       THEN queue' = Append(queue, worker.key) /\ worker' = [Idle EXCEPT !.pc = "retry"]
       ELSE UNCHANGED queue /\ Then("giveup")
  /\ UNCHANGED <<source, descriptor, inner, pc, job, exposed, faults>>

GiveUp ==
  /\ WorkerAt("giveup")
  /\ scheduled' = scheduled \ {worker.key}
  /\ worker' = Idle
  /\ UNCHANGED <<source, descriptor, latest, dirty, queue, pc, job, exposed, faults>>

\* A Project leaves the set before its Scenes are searched.
SearchProject(p) ==
  /\ WorkerAt("overflow") /\ ~Full /\ p \in dirty
  /\ dirty' = dirty \ {p}
  /\ worker' = [worker EXCEPT !.pc = "recover", !.key = p]
  /\ UNCHANGED <<source, descriptor, latest, scheduled, queue, pc, job, exposed, faults>>

NothingToSearch ==
  /\ WorkerAt("overflow") /\ (Full \/ dirty = {})
  /\ worker' = Idle
  /\ UNCHANGED <<source, descriptor, inner, queue, pc, job, exposed, faults>>

\* recover_building_scene_targets
Recover ==
  /\ WorkerAt("recover")
  /\ worker' = [worker EXCEPT !.pc = "insert", !.found =
       [t \in Targets |->
          IF t \in Scenes /\ ProjectOf[t] = worker.key /\ descriptor[t].state = "building"
            THEN descriptor[t].generation ELSE None]]
  /\ UNCHANGED <<source, descriptor, inner, queue, pc, job, exposed, faults>>

\* As many as there is room for; when some are left, their Project is dirty again,
\* if there is room for it.
Insert ==
  /\ WorkerAt("insert")
  /\ LET new == {t \in Targets : worker.found[t] # None /\ ~Known(t)} IN
     \E chosen \in SUBSET new :
       /\ Cardinality(Retained) + Cardinality(chosen) <= LatestCapacity \/ chosen = {}
       /\ chosen = new \/ Cardinality(Retained) + Cardinality(chosen) >= LatestCapacity
       /\ latest' = [t \in Targets |-> IF t \in chosen THEN worker.found[t] ELSE latest[t]]
       /\ dirty' = IF chosen # new /\ Represented(worker.key)
                     THEN dirty \cup {worker.key} ELSE dirty
  /\ worker' = [Idle EXCEPT !.pc = "retry"]
  /\ UNCHANGED <<source, descriptor, scheduled, queue, pc, job, exposed, faults>>

---------------------------------------------------------------------------

BoundaryStep(m) ==
  \/ \E s \in Scenes : Advance(m, s)
  \/ \E t \in Others : NoBoundary(m, t)
  \/ \E t \in Targets : Discard(m, t)
  \/ Cancel(m) \/ Remove(m) \/ Undo(m)
  \/ BoundariesDone(m)

RecordStep(m) ==
  \/ \E t \in Targets : RecordRefused(m, t) \/ RecordProject(m, t) \/ RecordWaits(m, t)
                        \/ Record(m, t)
  \/ Send(m) \/ Unschedule(m) \/ RecordsDone(m)

WriterStep(m) == BoundaryStep(m) \/ RecordStep(m)

WriteFails(m) == (\E s \in Scenes : AdvanceFails(m, s)) \/ RemoveFails(m)

WorkerStep ==
  \/ Receive \/ TakeLatest \/ Check \/ Expect \/ Build \/ Publish \/ Failed \/ Terminalize
  \/ Finish \/ (\E t \in Targets : Retry(t)) \/ NothingToRetry \/ Resend \/ GiveUp
  \/ (\E p \in Projects : SearchProject(p)) \/ NothingToSearch \/ Recover \/ Insert

Next ==
  \/ \E m \in Writers : \/ \E w \in Writes : Write(m, w)
                        \/ WriterStep(m) \/ WriteFails(m)
  \/ WorkerStep \/ WarmFails

Spec == Init /\ [][Next]_vars

---------------------------------------------------------------------------
(* Properties.                                                             *)

\* A target in "scheduled" has exactly one holder: a job in the channel, the worker, or
\* a thread that is about to send it or to take it back.  Two jobs for one target would
\* warm it twice at a time; none at all would leave its latest target to no one.
Holders(t) ==
  Cardinality({i \in DOMAIN queue : queue[i] = t})
    + Cardinality({m \in Writers : pc[m] \in {"send", "unschedule"} /\ job[m].at = t})
    + (IF worker.key = t THEN 1 ELSE 0)

ScheduledIsHeld ==
  \A t \in Targets : Holders(t) = (IF t \in scheduled THEN 1 ELSE 0)

\* wait_for_project_idle, on which the deletion of a Project waits.
Busy(p) ==
  p \in dirty \/ \E t \in Retained \cup scheduled : ProjectOf[t] = p

\* While a Project is said to be idle, the worker warms none of its Scenes.
IdleIsQuiet ==
  worker.pc \in Warming \cup {"failed", "terminal"} => Busy(ProjectOf[worker.key])

\* A cache that activation would use is that of the content on disk, unless the write
\* that changed the content has yet to set its boundary or to take the cache away, or
\* could not and has said so.  No order of the writes, the worker's steps and their
\* failures leaves a stale one.
UsableIsCurrent ==
  \A s \in Scenes :
    descriptor[s].state = "partial" /\ descriptor[s].content # source[s] =>
      \/ s \in exposed
      \/ \E m \in Writers :
           \/ s \in job[m].gone \cup job[m].todo
           \/ pc[m] \in {"cancel", "remove"} /\ job[m].at = s

\* While fewer threads write than the map has places, a thread that waits for room is
\* never left with nobody who could make any: as long as it waits there is work for the
\* worker, or another thread is on its way, although the worker may have gone idle over
\* targets whose jobs found the channel full, and a deletion or a switch may have taken
\* away the target that a job was for.  With as many threads as places it is false.
WaiterHasWaker ==
  \A m \in Writers :
    pc[m] = "waiting" =>
      \/ worker.pc # "idle" \/ queue # <<>>
      \/ \E u \in Writers : pc[u] \notin {"idle", "waiting"}
=============================================================================
