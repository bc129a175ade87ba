-------------------------- MODULE PayloadResidency --------------------------
(***************************************************************************)
(* The residency of the cached payloads of the presented Scene. Cameras,   *)
(* selections and animations give reasons to hold a payload; once a frame  *)
(* the viewport admits loads within its CPU budget, takes the results of   *)
(* the cache worker, has missing payloads repaired by a second worker, and *)
(* uploads what is ready within its GPU budget. Payloads without a reason  *)
(* stay warm until their bytes are needed.                                 *)
(*                                                                         *)
(* The authority is one record and its methods are operators on it. A      *)
(* payload takes as many bytes of the one budget as of the other: the      *)
(* metadata that the CPU keeps is left out. A mounted viewpoint asks as a  *)
(* selection does. Payloads of child Scenes, and the materials and         *)
(* animations that are installed beside the meshes, are left out.          *)
(***************************************************************************)
EXTENDS Naturals, Sequences, SequencesExt, FiniteSetsExt, TLC

CONSTANTS
  NumKeys,                   \* the payloads of the Scene, in the order of their hashes
  Animated,                  \* those with an animation
  Geometry, Animation,       \* the encoded bytes of the parts of each payload
  Decoded,                   \* the bytes of each mesh
  CpuBudget, GpuBudget, UploadBudget,
  LoaderCapacity,            \* BoundedLoader
  WorkerCapacity,            \* each channel of the cache worker
  RepairCapacity,            \* TargetedRepairQueue
  PersistenceCapacity,       \* each channel of the repair worker
  None,
  Cameras, Selections,       \* bounds: what may be near the camera, and selected
  MaxChanges,                \* bound: changes of what is wanted and of the Scene
  MaxGeneration              \* bound: generations of the Scene

Keys == 1 .. NumKeys

ASSUME ResidencyAssumption ==
  /\ NumKeys \in Nat \ {0} /\ Animated \subseteq Keys
  /\ Cameras \cup Selections \subseteq SUBSET Keys
  /\ {Geometry, Animation, Decoded} \subseteq [Keys -> Nat]
  /\ {CpuBudget, GpuBudget, UploadBudget, MaxChanges, MaxGeneration} \subseteq Nat
  /\ {LoaderCapacity, WorkerCapacity, RepairCapacity, PersistenceCapacity}
       \subseteq Nat \ {0}
  /\ None \notin Nat /\ None \notin [key : Keys, generation : Nat, bytes : Nat]

VARIABLES
  generation,      \* of the presented Scene, None when there is none
  auth,            \* ResidencyAuthority
  wants,           \* the camera's sample, SelectedTargets, UsdStageTime
  loads, loaded,   \* the channels of the cache worker
  repairs,         \* TargetedRepairQueue
  works, persisted,\* the channels of the repair worker
  phase,           \* the system that runs next
  changes

channels == <<loads, loaded, works, persisted>>
vars == <<generation, auth, wants, channels, repairs, phase, changes>>

Parts == {"geometry", "material", "animation"}

MaskFor(reason) ==
  IF reason = "AnimationRequired" THEN Parts ELSE {"geometry", "material"}

\* What the reason expects the payload to take.
Estimate(k, reason) ==
  Geometry[k] + IF reason = "AnimationRequired" THEN Animation[k] ELSE 0

NoRecord ==
  [state |-> "Unloaded", reasons |-> {}, satisfied |-> {}, queued |-> {},
   flight |-> {}, bytes |-> 0, payload |-> FALSE, handle |-> FALSE]

\* Two fields are not the code's: "mislaid" has the payloads that were held once
\* and yet had to wait for a repair, "lost" those whose mesh was dropped then and
\* whose bytes are still counted.
NoAuthority ==
  [records |-> [k \in Keys |-> NoRecord], loader |-> <<>>,
   phases |-> [k \in Keys |-> "NeedScenePayload"], failed |-> {}, ready |-> <<>>,
   warm |-> <<>>, pending |-> {}, retry |-> {}, mislaid |-> {}, lost |-> {},
   cpuUsed |-> 0, cpuReserved |-> 0, gpuUsed |-> 0]

Requested(record) == UNION {MaskFor(r) : r \in record.reasons}

Minus(a, b) == IF a > b THEN a - b ELSE 0

(***************************************************************************)
(* Capacity: the payloads without a reason, the oldest first.              *)
(***************************************************************************)

\* Of the warm payloads and of the jobs of the loader.
Without(list, k) == RemoveFirstMatch(list, LAMBDA w : w.key = k)

WarmOffDevice(a, k, gpu) ==      \* mutant: the bytes on the device are forgotten
  [a EXCEPT !.records[k].state = "Warm",
            !.warm = Append(Without(@, k), [key |-> k, cpu |-> a.records[k].bytes,
                                            gpu |-> 0])]

Warmed(a, k, gpu) ==
  [a EXCEPT !.records[k].state = "Warm",
            !.warm = Append(Without(@, k), [key |-> k, cpu |-> a.records[k].bytes,
                                            gpu |-> gpu])]

EvictOldestWarm(a) ==
  LET w == Head(a.warm)
  IN  [a EXCEPT !.warm = Tail(@),
                !.cpuUsed = Minus(@, w.cpu), !.gpuUsed = Minus(@, w.gpu),
                !.records[w.key].state = "Unloaded",
                !.records[w.key].payload = FALSE, !.records[w.key].handle = FALSE,
                !.lost = @ \ {w.key}]

FitsUnreserved(a, cpu, gpu) ==   \* mutant: loads under way are not counted
  a.cpuUsed + cpu <= CpuBudget /\ a.gpuUsed + gpu <= GpuBudget

Fits(a, cpu, gpu) ==
  a.cpuUsed + a.cpuReserved + cpu <= CpuBudget /\ a.gpuUsed + gpu <= GpuBudget

\* What does not fit evicts everything that is warm before it is refused.
EnsureCapacity(a, cpu, gpu) ==
  IF cpu > CpuBudget \/ gpu > GpuBudget THEN a
  ELSE FoldLeft(LAMBDA b, w : IF Fits(b, cpu, gpu) \/ b.warm = <<>> THEN b
                              ELSE EvictOldestWarm(b),
                a, a.warm)

EvictToBudget(a) ==
  FoldLeft(LAMBDA b, w : IF \/ b.cpuUsed <= CpuBudget /\ b.gpuUsed <= GpuBudget
                            \/ b.warm = <<>>
                           THEN b ELSE EvictOldestWarm(b),
           a, a.warm)

(***************************************************************************)
(* The loader.                                                             *)
(***************************************************************************)

Queued(a, k) == \E i \in DOMAIN a.loader : a.loader[i].key = k

CanEnqueue(a, k) == Queued(a, k) \/ Len(a.loader) < LoaderCapacity

\* A job of a payload that has one replaces it where it is.
Enqueue(a, job) ==
  IF Queued(a, job.key)
    THEN [a EXCEPT !.loader = [i \in DOMAIN @ |-> IF @[i].key = job.key THEN job ELSE @[i]]]
    ELSE [a EXCEPT !.loader = Append(@, job)]

Missing(record) ==
  Requested(record) \ (record.satisfied \cup record.queued \cup record.flight)

\* enqueue_missing_load: what is wanted and neither held nor on its way.
EnqueueMissing(a, k) ==
  LET r == a.records[k]
  IN  CASE Missing(r) = {} -> [a EXCEPT !.pending = @ \ {k}]
        [] Missing(r) # {} /\ r.flight # {} -> [a EXCEPT !.pending = @ \cup {k}]
        [] Missing(r) # {} /\ r.flight = {} /\ r.queued # {} ->
             [a EXCEPT !.records[k].queued = @ \cup Missing(r)]
        [] OTHER ->
             IF k \in a.failed THEN a
             ELSE IF ~CanEnqueue(a, k) THEN [a EXCEPT !.pending = @ \cup {k}]
             ELSE [Enqueue(a, [key |-> k, generation |-> generation, bytes |-> r.bytes])
                     EXCEPT !.pending = @ \ {k},
                            !.records[k].queued = Missing(r),
                            !.records[k].state = IF @ = "Unloaded" THEN "Queued" ELSE @]

\* Whether it returns true.
Admitted(a, k) ==
  LET r == a.records[k]
  IN  Missing(r) = {} \/ r.flight # {} \/ r.queued # {}
        \/ (k \notin a.failed /\ CanEnqueue(a, k))

EnqueueReady(a, k) ==
  IF k \in Range(a.ready) THEN a ELSE [a EXCEPT !.ready = Append(@, k)]

(***************************************************************************)
(* request_reason and remove_reason.                                       *)
(***************************************************************************)

\* With a new reason; a payload that was warm leaves the warm ones.
WithReason(a, k, reason, bytes) ==
  LET r == a.records[k]
      unread == r.state \in {"Unloaded", "Queued", "Loading", "RepairWaiting"}
  IN  [a EXCEPT !.records[k].reasons = @ \cup {reason},
                !.records[k].bytes = IF unread THEN bytes ELSE @,
                !.warm = IF r.state = "Warm" THEN Without(@, k) ELSE @]

Rewarmed(a, k) ==
  LET r == a.records[k]
  IN  IF r.state # "Warm" THEN a
      ELSE IF r.handle THEN [a EXCEPT !.records[k].state = "GpuResident"]
      ELSE EnqueueReady([a EXCEPT !.records[k].state = "CpuReady"], k)

\* [auth, ok]: the authority after the request and whether it was admitted.
RequestReason(a, k, reason, bytes) ==
  LET b == WithReason(a, k, reason, bytes)
      c == Rewarmed(b, k)
  IN  IF k \in a.failed THEN [auth |-> b, ok |-> FALSE]
      ELSE [auth |-> EnqueueMissing(c, k), ok |-> Admitted(c, k)]

StillReady(a, k) ==              \* mutant: it stays in line for its upload
  LET r == a.records[k]
  IN  EvictToBudget(
        CASE r.state = "GpuResident" -> Warmed(a, k, r.bytes)
          [] r.state = "CpuReady"    -> Warmed(a, k, 0)
          [] OTHER -> a)

\* The last reason went: nothing is loaded for it, and what is held is warm.
Released(a, k) ==
  LET r == a.records[k]
      b == [a EXCEPT !.phases[k] = "NeedScenePayload", !.pending = @ \ {k},
                     !.loader = IF r.queued = {} THEN @
                                ELSE Without(@, k),
                     !.records[k].queued = {},
                     !.ready = IF r.state = "CpuReady"
                                 THEN RemoveFirst(@, k) ELSE @]
  IN  EvictToBudget(
        CASE r.state = "GpuResident" -> Warmed(b, k, r.bytes)
          [] r.state = "CpuReady"    -> Warmed(b, k, 0)
          [] r.state \in {"Queued", "RepairWaiting"} ->
               [b EXCEPT !.records[k].state = "Unloaded"]
          [] OTHER -> b)

RemoveReason(a, k, reason) ==
  LET b == [a EXCEPT !.records[k].reasons = @ \ {reason},
                     !.retry = IF reason = "CameraNear" THEN @ \ {k} ELSE @]
  IN  IF b.records[k].reasons # {} THEN b ELSE Released(b, k)

(***************************************************************************)
(* What the frame asks for, once it has seen the Scene.                    *)
(***************************************************************************)

Holding(a, reason) == {k \in Keys : reason \in a.records[k].reasons}

InOrder(set) ==
  FoldLeft(LAMBDA s, k : IF k \in set THEN Append(s, k) ELSE s, <<>>, [k \in Keys |-> k])

RemoveAll(a, set, reason) == FoldLeft(LAMBDA b, k : RemoveReason(b, k, reason), a, InOrder(set))

\* sync_animation_residency: all that is animated while the clock runs.
SyncAnimation(a) ==
  LET active == Holding(a, "AnimationRequired")
  IN  IF ~wants.playing THEN RemoveAll(a, active, "AnimationRequired")
      ELSE FoldLeft(LAMBDA b, k :
                      RequestReason(b, k, "AnimationRequired",
                                    Estimate(k, "AnimationRequired")).auth,
                    a, InOrder(Animated \ active))

\* sync_selected_residency: a target that is not admitted is tried again.
SyncSelected(a) ==
  LET Try(b, k) ==
        LET asked == RequestReason(b, k, "Selected", Estimate(k, "Selected"))
        IN  IF asked.ok THEN asked.auth ELSE RemoveReason(asked.auth, k, "Selected")
      kept == RemoveAll(a, Holding(a, "Selected") \ wants.selected, "Selected")
  IN  FoldLeft(Try, kept, InOrder(wants.selected \ Holding(kept, "Selected")))

RequestCameraNear(a, k, bytes) ==
  LET asked == RequestReason(a, k, "CameraNear", bytes)
      eligible == k \notin asked.auth.failed /\ asked.auth.records[k].state = "Unloaded"
  IN  [asked.auth EXCEPT !.retry = IF asked.ok THEN @ \ {k}
                                   ELSE IF eligible THEN @ \cup {k} ELSE @]

\* A camera at rest asks again for as many as the loader has room for.
RetryCameraDemand(a) ==
  LET room == Minus(LoaderCapacity, Len(a.loader))
      sorted == InOrder(a.retry)
      Try(b, k) ==
        LET c == [b EXCEPT !.retry = @ \ {k}]
        IN  IF c.records[k].state = "Unloaded" /\ "CameraNear" \in c.records[k].reasons
              THEN RequestCameraNear(c, k, c.records[k].bytes) ELSE c
  IN  FoldLeft(Try, a, SubSeq(sorted, 1, IF Len(sorted) < room THEN Len(sorted) ELSE room))

UpdateCameraNear(a) ==
  IF ~wants.moved THEN RetryCameraDemand(a)
  ELSE FoldLeft(LAMBDA b, k : RequestCameraNear(b, k, Estimate(k, "CameraNear")),
                RemoveAll(a, Holding(a, "CameraNear") \ wants.near, "CameraNear"),
                InOrder(wants.near))

(***************************************************************************)
(* begin_next_load and what may become of the load.                        *)
(***************************************************************************)

\* A payload whose geometry is not held takes the state.
Becomes(a, k, state) ==
  [a EXCEPT !.records[k].state =
     IF "geometry" \in a.records[k].satisfied THEN @ ELSE state]

Dropped(a, k) ==
  IF a.records[k].queued = {} THEN a
  ELSE Becomes([a EXCEPT !.records[k].queued = {}], k, "Unloaded")

Begun(a, job) ==
  Becomes([a EXCEPT !.records[job.key].flight = a.records[job.key].queued,
                    !.records[job.key].queued = {}, !.cpuReserved = @ + job.bytes],
          job.key, "Loading")

\* [auth, deferred, job]: the queue is searched for the first job that can start.
Search(found, turn) ==
  LET job == Head(found.auth.loader)
      a == [found.auth EXCEPT !.loader = Tail(@)]
      r == a.records[job.key]
      made == EnsureCapacity(a, job.bytes, 0)
      over == found.job # None \/ found.auth.loader = <<>>
  IN  CASE over -> found
        [] ~over /\ (job.bytes > CpuBudget \/ job.bytes > GpuBudget) ->
             [found EXCEPT !.auth = Dropped(a, job.key)]
        [] OTHER ->
             IF r.queued = {} \/ r.flight # {} THEN [found EXCEPT !.auth = a]
             ELSE IF ~Fits(made, job.bytes, 0)
               THEN [found EXCEPT !.auth = made, !.deferred = Append(@, job)]
             ELSE [found EXCEPT !.auth = Begun(made, job), !.job = job]

BeginNextLoad(a) ==
  LET found == FoldLeft(Search, [auth |-> a, deferred |-> <<>>, job |-> None], a.loader)
  IN  [found EXCEPT !.auth.loader = found.deferred \o @]

Landed(a, k, bytes) ==
  [a EXCEPT !.records[k].flight = {}, !.cpuReserved = Minus(@, bytes)]

DeferLoad(a, job) ==
  LET r == a.records[job.key]
  IN  [Enqueue(Landed(a, job.key, job.bytes), job)
         EXCEPT !.records[job.key].queued = r.flight,
                !.records[job.key].state = IF @ = "Loading" THEN "Queued" ELSE @]

DispatchOrLose(sent, queued) ==  \* mutant: what the worker refuses is not deferred
  LET next == BeginNextLoad(sent.auth)
      request == [job |-> next.job, mask |-> Requested(next.auth.records[next.job.key])]
  IN  IF sent.done \/ next.job = None THEN sent
      ELSE [sent EXCEPT !.auth = next.auth, !.done = Len(sent.loads) >= WorkerCapacity,
                        !.loads = IF Len(@) < WorkerCapacity THEN Append(@, request) ELSE @]

\* dispatch_cached_residency_loads: [auth, loads, done]. The worker is asked
\* for all that is wanted of the payload.
DispatchNext(sent, queued) ==
  LET next == BeginNextLoad(sent.auth)
      request == [job |-> next.job, mask |-> Requested(next.auth.records[next.job.key])]
  IN  CASE sent.done -> sent
        [] ~sent.done /\ next.job = None -> [sent EXCEPT !.auth = next.auth, !.done = TRUE]
        [] OTHER ->
             IF Len(sent.loads) < WorkerCapacity
               THEN [sent EXCEPT !.auth = next.auth, !.loads = Append(@, request)]
               ELSE [sent EXCEPT !.auth = DeferLoad(next.auth, next.job), !.done = TRUE]

Dispatch(a) == FoldLeft(DispatchNext, [auth |-> a, loads |-> loads, done |-> FALSE], a.loader)

RetryPendingLoads(a) == FoldLeft(EnqueueMissing, a, InOrder(a.pending))

LoadIsCurrent(a, job) == job.generation = generation /\ a.records[job.key].flight # {}

\* complete_cached_cpu_with_mask: the mesh of a load.
CompleteCpu(a, done) ==
  LET k == done.job.key
      r == a.records[k]
      landed == Landed(a, k, r.bytes)
      made == EnsureCapacity(landed, Decoded[k], 0)
      held == [made EXCEPT !.records[k].bytes = Decoded[k], !.records[k].payload = TRUE,
                           !.records[k].satisfied = @ \cup r.flight,
                           !.cpuUsed = @ + Decoded[k]]
      placed == IF r.reasons = {} THEN Warmed(held, k, 0)
                ELSE EnqueueReady([held EXCEPT !.records[k].state = "CpuReady"], k)
  IN  IF ~(done.mask \subseteq r.flight) THEN a
      ELSE IF ~Fits(made, Decoded[k], 0) \/ Decoded[k] > GpuBudget THEN Becomes(made, k, "Unloaded")
      ELSE EvictToBudget(EnqueueMissing(placed, k))

\* suppress_failed_load: not tried again while the generation lasts.
SuppressFailedLoad(a, job) ==
  Becomes([Landed(a, job.key, job.bytes) EXCEPT !.failed = @ \cup {job.key},
                                                !.retry = @ \ {job.key}],
          job.key, "Unloaded")

(***************************************************************************)
(* Repair of a payload that is missing from the cache.                     *)
(***************************************************************************)

RepairWaitingIsCurrent(a, job) ==
  job.generation = generation /\ a.records[job.key].state = "RepairWaiting"

WaitForRepair(a, job) ==
  LET found == a.records[job.key].satisfied
  IN  [Landed(a, job.key, job.bytes) EXCEPT
         !.records[job.key].state = "RepairWaiting",
         !.mislaid = IF found = {} THEN @ ELSE @ \cup {job.key}]

Abandoned(a, k) ==
  [a EXCEPT !.phases[k] = "NeedScenePayload", !.records[k].flight = {},
            !.records[k].state = "Unloaded", !.records[k].payload = FALSE,
            !.lost = IF a.records[k].payload THEN @ \cup {k} ELSE @]

RejectRepair(a, job) ==
  [Abandoned(a, job.key) EXCEPT
     !.retry = IF "CameraNear" \in a.records[job.key].reasons THEN @ \cup {job.key} ELSE @]

SuppressRepair(a, job) ==
  [Abandoned(a, job.key) EXCEPT !.failed = @ \cup {job.key}, !.retry = @ \ {job.key}]

\* requeue_repair_waiting, where the loader has room.
RequeueRepairWaiting(a, job, repairPhase) ==
  LET wanted == Requested(a.records[job.key]) \ a.records[job.key].satisfied
  IN  [Enqueue(a, job) EXCEPT !.phases[job.key] = repairPhase,
                              !.records[job.key].state = "Queued",
                              !.records[job.key].queued =
                                IF wanted = {} THEN {"geometry"} ELSE wanted]

SameRepair(r, q) == r.job.key = q.job.key /\ r.job.generation = q.job.generation

\* enqueue_repair_or_requeue: the state is [auth, repairs].
EnqueueRepair(s, request) ==
  CASE \E q \in Range(s.repairs) : SameRepair(q, request) ->
         [s EXCEPT !.repairs = [i \in DOMAIN @ |-> IF SameRepair(@[i], request)
                                                     THEN request ELSE @[i]]]
    [] (\A q \in Range(s.repairs) : ~SameRepair(q, request))
         /\ Len(s.repairs) < RepairCapacity ->
         [s EXCEPT !.repairs = Append(@, request)]
    [] OTHER ->
         [s EXCEPT !.auth = IF CanEnqueue(@, request.job.key)
                              THEN RequeueRepairWaiting(@, request.job, request.phase)
                              ELSE RejectRepair(@, request.job)]

\* retry_cached_load: the load is tried again before anything is repaired.
RetryCachedLoad(s, job) ==
  IF CanEnqueue(s.auth, job.key)
    THEN [s EXCEPT !.auth = RequeueRepairWaiting(@, job, "CacheReady")]
    ELSE EnqueueRepair(s, [job |-> job, phase |-> "CacheReady"])

\* enqueue_missing_payload_repair: what was found in the cache and is missing
\* again is looked up again.
EnqueueMissingRepair(s, job, path) ==
  LET waits == [s EXCEPT !.auth = [WaitForRepair(@, job)
                                     EXCEPT !.phases[job.key] = "NeedScenePayload"]]
      before == s.auth.phases[job.key]
  IN  CASE before = "NeedScenePayload" /\ path[job.key] = "Rejected" ->
             [waits EXCEPT !.auth = SuppressRepair(@, job)]
        [] before = "NeedScenePayload" /\ path[job.key] = "Error" ->
             [waits EXCEPT !.auth = RejectRepair(@, job)]
        [] before = "NeedScenePayload" /\ path[job.key] \in {"Ready", "Waiting"} ->
             EnqueueRepair(waits, [job |-> job, phase |-> "NeedScenePayload"])
        [] OTHER -> EnqueueRepair(waits, [job |-> job, phase |-> "NeedProjectLookup"])

\* What the drain of the cache worker's results does with one of them.
Completion(s, done, result, path) ==
  LET a == [s.auth EXCEPT !.phases[done.job.key] = "NeedScenePayload"]
  IN  IF ~LoadIsCurrent(s.auth, done.job) THEN s
      ELSE CASE result = "Error"   -> [s EXCEPT !.auth = SuppressFailedLoad(a, done.job)]
             [] result # "Error" /\ done.mask = {} -> s
             [] result = "Mesh" /\ done.mask # {} -> [s EXCEPT !.auth = CompleteCpu(a, done)]
             [] result = "Missing" /\ done.mask # {} ->
                  EnqueueMissingRepair(s, done.job, path)

\* What the drain of the repair worker's results does with one of them.
Repaired(s, done, result) ==
  LET lookup == [job |-> done.job, phase |-> "NeedProjectLookup"]
  IN  IF ~RepairWaitingIsCurrent(s.auth, done.job) THEN s
      ELSE CASE result = "Repaired" -> RetryCachedLoad(s, done.job)
             [] result = "Pending"  -> EnqueueRepair(s, lookup)
             [] result = "Missing"  ->
                  EnqueueRepair(s, [lookup EXCEPT !.phase = "NeedScenePayload"])
             [] result = "NotOwned" -> [s EXCEPT !.auth = SuppressRepair(@, done.job)]
             [] result = "Waiting"  -> EnqueueRepair(s, [lookup EXCEPT !.phase = done.phase])
             [] result = "Error"    -> [s EXCEPT !.auth = RejectRepair(@, done.job)]

Process(s, turn, path) ==
  LET request == Head(s.repairs)
      over == s.done \/ s.repairs = <<>>
      rest == [s EXCEPT !.repairs = Tail(@)]
      back == [rest EXCEPT !.repairs = Append(@, request)]
      sent == IF Len(s.works) < PersistenceCapacity
                THEN [rest EXCEPT !.works = Append(@, request), !.done = TRUE]
                ELSE [back EXCEPT !.done = TRUE]
  IN  CASE over -> s
        [] ~over /\ ~RepairWaitingIsCurrent(s.auth, request.job) -> rest
        [] OTHER ->
             IF request.phase # "NeedScenePayload" \/ path[request.job.key] = "Ready" THEN sent
             ELSE CASE path[request.job.key] = "Waiting"  -> back
                    [] path[request.job.key] = "Rejected" ->
                         [rest EXCEPT !.auth = SuppressRepair(@, request.job)]
                    [] path[request.job.key] = "Error"    ->
                         [rest EXCEPT !.auth = RejectRepair(@, request.job)]

(***************************************************************************)
(* Upload.                                                                 *)
(***************************************************************************)

Uploaded(a, k) ==
  LET b == [a EXCEPT !.records[k].payload = FALSE, !.records[k].handle = TRUE,
                     !.records[k].state = "GpuResident",
                     !.gpuUsed = @ + a.records[k].bytes]
  IN  IF a.records[k].reasons = {} THEN Warmed(b, k, b.records[k].bytes) ELSE b

\* The first payload of a frame goes whatever it takes: [auth, left, first, done].
Upload(s, turn) ==
  LET k == Head(s.auth.ready)
      over == s.done \/ s.auth.ready = <<>>
      a == [s.auth EXCEPT !.ready = Tail(@)]
      bytes == a.records[k].bytes
      made == EnsureCapacity(a, 0, bytes)
      tooBig == [made EXCEPT !.cpuUsed = Minus(@, bytes), !.records[k].state = "Unloaded",
                             !.records[k].payload = FALSE]
  IN  CASE over -> s
        [] ~over /\ a.records[k].state # "CpuReady" -> [s EXCEPT !.auth = a]
        [] OTHER ->
             IF bytes > s.left /\ ~s.first THEN [s EXCEPT !.done = TRUE]
             ELSE IF ~Fits(made, 0, bytes)
               THEN [s EXCEPT !.auth = IF bytes > GpuBudget THEN tooBig ELSE EnqueueReady(made, k)]
             ELSE IF ~a.records[k].payload
               THEN [s EXCEPT !.auth = made, !.left = Minus(@, bytes)]
             ELSE [s EXCEPT !.auth = Uploaded(made, k), !.left = Minus(@, bytes), !.first = FALSE]

PumpUploads(a) ==
  EvictToBudget(FoldLeft(Upload, [auth |-> a, left |-> UploadBudget, first |-> TRUE,
                                  done |-> FALSE], a.ready).auth)

(***************************************************************************)
(* The frame: its systems in their order.                                  *)
(***************************************************************************)

Init ==
  /\ generation = None /\ auth = NoAuthority
  /\ \E keys \in Cameras :
       wants = [near |-> keys, moved |-> TRUE, selected |-> {}, playing |-> FALSE]
  /\ loads = <<>> /\ loaded = <<>> /\ repairs = <<>> /\ works = <<>> /\ persisted = <<>>
  /\ phase = "demand" /\ changes = 0

\* The camera moves, the selection changes, the clock starts or stops, as the
\* frame will find them.
Demand(next) ==
  /\ phase = "demand" /\ changes < MaxChanges
  /\ next # wants
  /\ changes' = changes + 1 /\ wants' = next
  /\ UNCHANGED <<generation, auth, channels, repairs, phase>>

MoveCamera(near) == Demand([wants EXCEPT !.near = near, !.moved = TRUE])
Select(targets) == Demand([wants EXCEPT !.selected = targets])
PlayOrPause == Demand([wants EXCEPT !.playing = ~@])

\* sync_scene_cache_candidates: the Scene is presented, or presented again.
InstallScene(next) ==
  /\ phase = "demand" /\ changes < MaxChanges
  /\ changes' = changes + 1
  /\ generation' = next /\ auth' = NoAuthority /\ repairs' = <<>>
  /\ wants' = [wants EXCEPT !.moved = TRUE]
  /\ UNCHANGED <<channels, phase>>

\* The presentation went; nothing is wanted without one.
Retire ==
  /\ phase = "demand" /\ generation # None
  /\ changes < MaxChanges
  /\ changes' = changes + 1
  /\ generation' = None /\ auth' = NoAuthority /\ repairs' = <<>>
  /\ UNCHANGED <<wants, channels, phase>>

SyncDemand ==
  /\ phase = "demand" /\ generation # None
  /\ auth' = UpdateCameraNear(SyncSelected(SyncAnimation(auth)))
  /\ wants' = [wants EXCEPT !.moved = FALSE]
  /\ phase' = "loads"
  /\ UNCHANGED <<generation, channels, repairs, changes>>

\* owned_prim_path_for_payload and, where it is ready, the extraction.
Paths(requests) ==
  [{r.job.key : r \in Range(requests)} -> {"Ready", "Waiting", "Rejected", "Error"}]

Results == {"Mesh", "Missing", "Error"}

\* Of the Scene's payload and of the lookup; only a lookup finds it not owned.
Outcomes == {"Repaired", "Pending", "Missing", "NotOwned", "Waiting", "Error"}

DrainCompletions(path, results) ==
  /\ phase = "loads"
  /\ LET s == FoldLeft(LAMBDA b, i : Completion(b, loaded[i], results[i], path),
                       [auth |-> auth, repairs |-> repairs], [i \in DOMAIN loaded |-> i])
     IN  auth' = s.auth /\ repairs' = s.repairs
  /\ loaded' = <<>> /\ phase' = "persisted"
  /\ UNCHANGED <<generation, wants, loads, works, persisted, changes>>

DrainPersisted(results) ==
  /\ phase = "persisted"
  /\ \A i \in DOMAIN results :
       results[i] = "NotOwned" => persisted[i].phase # "NeedScenePayload"
  /\ LET s == FoldLeft(LAMBDA b, i : Repaired(b, persisted[i], results[i]),
                       [auth |-> auth, repairs |-> repairs], [i \in DOMAIN persisted |-> i])
     IN  auth' = s.auth /\ repairs' = s.repairs
  /\ persisted' = <<>> /\ phase' = "repairs"
  /\ UNCHANGED <<generation, wants, loads, loaded, works, changes>>

ProcessRepairs(path) ==
  /\ phase = "repairs"
  /\ LET s == FoldLeft(LAMBDA b, turn : Process(b, turn, path),
                       [auth |-> auth, repairs |-> repairs, works |-> works, done |-> FALSE],
                       repairs)
     IN  auth' = s.auth /\ repairs' = s.repairs /\ works' = s.works
  /\ phase' = "dispatch"
  /\ UNCHANGED <<generation, wants, loads, loaded, persisted, changes>>

DispatchLoads ==
  /\ phase = "dispatch"
  /\ LET sent == Dispatch(RetryPendingLoads(auth))
     IN  auth' = sent.auth /\ loads' = sent.loads
  /\ phase' = "pump"
  /\ UNCHANGED <<generation, wants, loaded, repairs, works, persisted, changes>>

Pump ==
  /\ phase = "pump"
  /\ auth' = PumpUploads(auth) /\ phase' = "demand"
  /\ UNCHANGED <<generation, wants, channels, repairs, changes>>

(***************************************************************************)
(* The workers. What one has in hand counts as still queued, and what it   *)
(* found shows when it is read.                                            *)
(***************************************************************************)

Load ==
  /\ loads # <<>> /\ Len(loaded) < WorkerCapacity
  /\ loads' = Tail(loads) /\ loaded' = Append(loaded, Head(loads))
  /\ UNCHANGED <<generation, auth, wants, repairs, works, persisted, phase, changes>>

\* persist_scene_payloads_for_repair, persist_lookup_repair.
Persist ==
  /\ works # <<>> /\ Len(persisted) < PersistenceCapacity
  /\ works' = Tail(works) /\ persisted' = Append(persisted, Head(works))
  /\ UNCHANGED <<generation, auth, wants, loads, loaded, repairs, phase, changes>>

Frame ==
  \/ SyncDemand
  \/ \E path \in Paths(loaded), results \in [DOMAIN loaded -> Results] :
       DrainCompletions(path, results)
  \/ \E results \in [DOMAIN persisted -> Outcomes] : DrainPersisted(results)
  \/ \E path \in Paths(repairs) : ProcessRepairs(path)
  \/ DispatchLoads
  \/ Pump

Next ==
  \/ \E keys \in Cameras : MoveCamera(keys)
  \/ \E keys \in Selections : Select(keys)
  \/ PlayOrPause
  \/ \E next \in 1 .. MaxGeneration :
       (generation # None => generation <= next) /\ InstallScene(next)
  \/ Retire
  \/ Frame \/ Load \/ Persist

Spec == Init /\ [][Next]_vars

(***************************************************************************)
(* Properties.                                                             *)
(***************************************************************************)

Bytes(set) == SumFunctionOnSet(Decoded, set)

OnDevice == {k \in Keys : auth.records[k].handle}
InMemory == OnDevice \cup {k \in Keys : auth.records[k].payload}

\* The meshes that are in memory, and those on the device, fit their budgets
\* together with what is reserved for loads.
HeldWithinBudget ==
  /\ Bytes(InMemory) + auth.cpuReserved <= CpuBudget
  /\ Bytes(OnDevice) <= GpuBudget

\* The counters are what is held, and on the CPU what was lost: a mesh that is
\* dropped when its repair is given up stays counted.
Accounted ==
  /\ auth.cpuUsed = Bytes(InMemory \cup auth.lost)
  /\ auth.gpuUsed = Bytes(OnDevice)

\* What waits for its upload is queued for it, once, and of all that was never
\* mislaid nothing else is.
ReadyExactly ==
  /\ {k \in Keys : auth.records[k].state = "CpuReady"} = Range(auth.ready) \ auth.mislaid
  /\ IsInjective(auth.ready)

\* What is queued of a payload that was not mislaid has its job in the loader,
\* and a job has its payload.
QueuedHasJob ==
  \A k \in Keys \ auth.mislaid : auth.records[k].queued # {} <=> Queued(auth, k)

\* A payload that waits for its repair has a request for it somewhere.
RepairHeld ==
  \A k \in Keys : auth.records[k].state = "RepairWaiting" =>
    \E r \in Range(repairs) \cup Range(works) \cup Range(persisted) :
      r.job.key = k /\ r.job.generation = generation

\* The payloads nothing of which was held yet since the Scene was presented.
Fresh == {k \in Keys : auth.records[k].satisfied = {}}

\* One of them that is queued is in line with its job.
FreshQueued ==
  \A k \in Fresh : auth.records[k].state = "Queued" =>
    auth.records[k].queued # {} /\ Queued(auth, k)

\* A load that was begun when nobody wanted the payload any more asks the worker
\* for no part of it, and the answer moves nothing.
LoadedInVain(k) == auth.records[k].flight = {"geometry"}

\* One of them with a load under way is loading, and unless a load of it has
\* failed or it is loaded in vain, the load is on its way and asks for no more
\* than complete_cached_cpu_with_mask will take. (A payload that failed may be
\* asked for more than is in flight, and what comes back is then refused.)
FreshLoading ==
  /\ \A k \in Fresh : auth.records[k].state = "Loading" <=> auth.records[k].flight # {}
  /\ \A k \in Fresh \ auth.failed :
       auth.records[k].flight # {} =>
         \/ LoadedInVain(k)
         \/ \E r \in Range(loads) \cup Range(loaded) :
              /\ r.job.key = k /\ r.job.generation = generation
              /\ r.mask \subseteq auth.records[k].flight

\* What the authority has a payload wait for is under way. Of a first load that
\* is so in each state: one that is queued has its job, one that is loading its
\* load, one that waits for a repair its request. Of a payload that was held
\* before, and is wanted again or for more, only the jobs and the repairs are:
\* its supplemental load asks for all that is wanted and is refused when it
\* returns, so that the payload then waits in vain, in whatever state it had.
FirstLoadIsUnderWay == QueuedHasJob /\ RepairHeld /\ FreshQueued /\ FreshLoading
=============================================================================
