# A TLA+ model of USDHub's Project host and viewport

This directory specifies the parts of the program (`src/project`, `src/viewport` and the
crates they use) that keep shared state: canonical Project files on disk, the LiveStage
of the render server with what is derived from it frame by frame, and the file queues,
locks, leases and threads between them. Paths below are relative to the repository, e.g.
`src/project/service/commit.rs`; where two files have the same name the directory is
given.

1. [The system](#1-the-system)
2. [What is hard about it](#2-what-is-hard-about-it)
3. [Modules](#3-modules)
4. [Runs](#4-runs)
5. [Fairness](#5-fairness)
6. [Proofs](#6-proofs)
7. [Where the code and its documentation disagree](#7-where-the-code-and-its-documentation-disagree)
8. [What is not modelled](#8-what-is-not-modelled)
9. [Plan](#9-plan)

To check a module: `tlc -config <run>.cfg <module>.tla`, with the pairs of section 4;
to check a proof: `tlapm <module>.tla` for a module of section 6.

## 1. The system

Two kinds of process work on a Project directory. A **Project host** answers the
Project API (create, adopt, import, rename, delete, commit, export, branch, open).
The **render server** is a Bevy application that shows one stage, the LiveStage, and
lets sessions edit it. They share no memory, only files under `<project>/.usdhub`.
Inside the render server, systems run one after another in every frame and derive from
the LiveStage its entities, a semantic snapshot with a store, the delivery that viewers
download, and recovery checkpoints; threads do the slow part of each behind bounded
queues.

| Component | State it keeps | Operations | Talks to |
|---|---|---|---|
| Runtime authority queue (`service/runtime_authority_queue*.rs`, `viewport/app/project_runtime_authority.rs`) | five files per call: request, waiting/active claim, cancellation, response | submit and wait; consume, claim, answer; remove stale files | host ↔ render server |
| Publication (`service/commit.rs`, `commit_runtime.rs`, `export.rs`, `viewport/app/project_stage.rs`) | publication lock, lease, heartbeat, freeze flag, Git history | begin, stage, validate, publish, finalize, abort, renew, expire | through the queue |
| Storage migration (`project/storage/migration*.rs`, `catalog/manifest_store.rs`) | old and new layout, transaction directory, journal, manifest | plan, publish, finalize, undo, recover | every open of a Project |
| Project writes (`service/scene.rs`, `scene_adoption.rs`, `model.rs`, `deletion.rs`, `rename.rs`) | manifest, layers, placements | create, adopt, import, delete, rename, roll back | outbox, cache warming |
| Stage mutation outbox (`service/stage_mutation*.rs`) | at most a fixed number of record files | check room, submit, list, apply, remove | host → render server |
| Stage activation (`service/stage_activation.rs`, `viewport/app/project_activation*.rs`, `viewport/session/`) | newest request per session, one slot, preparation thread, deferred activation, cached picture, live stage | admit, prepare, apply, bootstrap, continue, revalidate | sessions, cache |
| Cache warming (`project/cache_warmer*.rs`, `cache_scene_store.rs`, `cache_warm_runtime.rs`) | a descriptor with a generation per Scene; channel, latest targets, scheduled keys, dirty Projects | set a boundary, record, warm, publish if current, retry, recover | writes, activation |
| LiveStage (`crates/usd_bevy/src/live/`) | composed stage, session, revision, notices, suppressed paths | edit, open, hot reload, drain | everything below |
| Progressive projection (`usd_bevy/src/prim/projection/`, `live/`) | plan, generation, readiness, an entity per prim | expand, project, finalize, cancel, reconcile a batch | LiveStage |
| Semantic snapshot and store (`viewport/semantic/`) | snapshot of the stage, mailbox, rows in a database | delta, full extraction, recovery of a full mailbox, apply | LiveStage, delivery |
| Runtime delivery (`viewport/delivery/`) | waiting, queued, built and published delivery | flush, build, publish, retry, drop | snapshot, projection, sessions |
| Recovery checkpoints (`project/recovery.rs`, `project/recovery_worker.rs`) | two files per session, queue of the worker | export, write, inspect, restore | LiveStage |
| Residency (`viewport/residency/`) | a record per payload, budgets, LRU list, load and upload queues, repair queue, two workers | request, release, load, repair, upload, evict | cache, presented Scene |
| Stream configuration (`crates/viewport_streaming/`, `viewport/app/offscreen_resize.rs`, `viewport/transport/`) | the last generation, a request for Bevy, one per session, shared and per-target configuration, an encoder queue and a worker per session | join, ask for a size, flush, resize, capture, push, encode, leave | clients ↔ Bevy |
| Branches, editor commit pipeline, blob store, rendering, conversion | see section 8 | not modelled | |

What makes each correct:

* **Queue** - one call takes effect at most once; a host is told the truth; a host
  that gave up is not granted anything afterwards; every call comes back.
* **Publication** - the stage is frozen exactly as long as a lease is held; what is
  finalized is what is on stage and newest in Git; history does not go backwards;
  operations end and authoring resumes.
* **Migration** - no file is lost at any crash; the manifest is the commit marker;
  outside a transaction the Project is all old or all new; it gets upgraded, if no crash
  cuts the writing of the journal short.
* **Writes** - manifest, layers and placements agree whatever fails; an acknowledged
  write stays; the live stage ends up with the canonical placements.
* **Activation** - no request is answered twice and the newest is answered; the stage
  does not go back; what is on the screen belongs to something alive.
* **Cache** - no stale cache is usable; every scheduled target has exactly one holder;
  nobody waits for room for ever; an idle Project is really idle.
* **Projection** - when it says it is ready, there is one entity per prim and it shows
  current values; it comes to an end.
* **Snapshot and store** - deltas add up to a full extraction, in the snapshot and in
  the store's rows, even when the mailbox overflows.
* **Delivery** - what viewers download is the snapshot the host works with, and it
  arrives.
* **Checkpoints** - what a restore opens is one whole export, never halves of two; the
  last revision is saved.
* **Stream configuration** - a frame meets an encoder of its size; the size a controller
  was promised reaches every viewer and is announced, unless a controller that is leaving
  asks after it.
* **Residency** - memory stays within the budgets and the books are right; what is
  loaded for the first time, or repaired, is under way as long as it waits.

## 2. What is hard about it

`PROJECT.json` lists the hazards at their lines. In short:

* **Two processes, files only.** Requests are claimed and cancelled by renames that
  race; a response may come after the deadline; either end may die with its files in
  the queue.
* **A lease across processes.** Granting it freezes the stage; its holder may die, its
  abort may be lost, the stage may be switched under it, and its heartbeat may still
  be sending a renewal when it ends.
* **Multi-file updates without a transaction.** A write changes two layers and a
  manifest and hands out records, with a rollback for every partial failure; a
  checkpoint is two renames; only the migration has a journal.
* **Check, then act.** Room in the outbox, the manifest that was read, the revision
  that was validated, the descriptor that was compared.
* **Work that finishes late.** A preparation, a cache build, a delivery, a payload load
  or repair, or a frame of the cached picture completes after what it was for has been
  superseded: by another session, another revision, another generation.
* **Bounded buffers that must not lose the last word**: the one-place activation slot,
  the prepared channel, the warm queue and its overflow sets, the semantic mailbox, the
  queues of the delivery and the recovery worker, the loader and the repair queue.
* **Order within a frame.** Who drains the notices, who still works from the batch of
  the frame before, and what an edit does that comes between the two.

## 3. Modules

Every module has the state as `VARIABLES`, one action per step of the code between
two looks at something that another thread or process can change, and its properties
at the end. `MC*` modules only give constants their values. Helper definitions
before an action and marked `mutant` are altered versions of it; the runs below must
fail when one takes the action's place, which shows that the property depends on the
code it is about.

### CallContract and RuntimeAuthorityQueue

`CallContract` is what the queue promises, with no file in it: a call is opened,
applied at most once, possibly undone, answered truthfully or abandoned.
`RuntimeAuthorityQueue` is `submit_and_wait` on the host's side
(`CreateWaitingClaim`, `Enqueue`, `TakeResponse`, `Deadline`,
`CancelWaitingRequest`, `EnterGrace`, `GraceExpires`), the owner's pass over the
inbox (`ListRequests`, `ConsumeRequest`, `ConsumeFails`, `Refuse`, `Dispatch`,
`ServeLeaseRequest`, `RefuseSnapshot`, `FreezeAndExport`, `ClaimRequest`,
`ClaimLost`, `PublishResponse`, `PublishFails`, `ClearAfterReply`), the janitor
(`RemoveStaleArtifact`), and the death of either end (`Detach`, `OwnerRestart`). One
file name is one set of calls; a rename is one step and has one winner. Clocks are
left out: a deadline may pass whenever the code looks at it. The queue implements the
contract under the mapping at the end of the module.

### ProjectPublication

Commits and exports (`BeginCommit` to `AbortReturns`), their heartbeat (`SubmitRenew`,
`AnswerRenew`, `RenewFails`), the owner (`Answer`, `OpenStage`, `Author`, `AuthorBim`,
`LeaseComesDue`, `ExpireRuntimeLease`, `RestartOwner`) and the death of a host
(`CrashHost`). A request to the owner is one step at the owner, as `CallContract`
allows: served at most once, and never after its caller gave up, except when the
caller died. `head` is the Git history, each entry with the session and generation of
the stage it was taken from. Session numbers are unique here; in the code the counter
restarts with the render server, but two sessions are compared only under one lease,
which does not survive it. The state of the LiveStage is its session, its authoring
generation and its freeze flag.

### StorageMigration

`place[a]`, `layer[a]` and `wrapper[a]` say where the files of an asset are;
`journal` and its phase, the two manifests and `step` are the rest. One action is one
rename, copy or removal of `migration_publish.rs`, `migration.rs` and
`migration_recovery.rs`; `Stop` is a crash or an error after any of them. Order
within one kind of asset is left open. The journal is created on its final path and then written
(`CreateJournal`, `WriteJournal`), so that in between it is there and cannot be read
(`torn`); `MarkPublishing` replaces it by a rename and is one step. Assumed: one opener at a
time (the code takes no lock), and that a process crash loses nothing already written (power loss is
another matter: directories are synced before the manifest is published). The
`.gitignore` that the migration installs is not undone by the code either and is left
out.

### ProjectWrites

A write is `Start`, `ReadComposition`, `EnsureCapacity`, `EnsureCurrentManifest`,
`PublishParent`, `PublishLayer`, `WriteManifest`, `ListOutbox`, `Submit`,
`PublishRecord` per record, `CleanUp`, with the order and the subset that its kind has
in the code, `IoError` at any of them, and the rollback that belongs to that step. The
render server opens and leaves the Scene and applies records, one at a time, in any
order (`Apply`, `ApplyKeepingRecord`, `ConsumeElsewhere`). Of the writes, only import
and rename take the publication lock and only adopt and import look again at the
manifest they have read; that is how the code is. One parent Scene, one placement per
definition. `overlapped` records that a write was started while another one ran, since
most of what is promised is promised to writes that do not overlap. A rollback is one
step. A write does not crash between its steps: it has no journal, so there is no
recovery to model, only a hazard to name. A write whose cleanup or cache boundary fails
after the handoff is reported as failed although it happened (`deletion.rs:293`,
`model.rs:184`); the properties speak of writes before their handoff for that reason. A
stage opened during a write that is later undone may show it; `Delivered` leaves that
case out.

### StageActivation

The sessions (`Connect`, `Send`, `Receive`, `Disconnect`), the preparation thread
(`Take`, `Prepare`, `HandOver`), the update of the main world in its three phases
(`AdmitStale`, `Admit`, `EndAdmission`; `ApplyFailure`, `ApplyEmpty`, `ApplyStage`,
`Bootstrap`, `EndApplication`; `ContinueWaits`, `ContinueFails`, `ContinueInstalls`),
and what happens beside them (`Warm`, `FrameRendered`, `Revalidate`). The thread's
three looks at whether it is superseded are one. An error in opening and one in
installing are one. A frame may be reported at any moment between two updates. Shutdown,
the cache context of the Project as a whole and the seeds of archives are left out.

How the owner recognises the Scene on stage is not part of it (section 7).
ProjectPublication and the consumer of ProjectWrites model the protocol for a stage
that is recognised.

### CacheWarmQueue

A writing thread publishes its layers (`Write`), takes away the caches of what is gone,
which only a deletion and a switch of branch do (`Discard`, then `Cancel` and `Remove`), sets
the boundary of every Scene it touched (`Advance`, or `AdvanceFails`, `Cancel`, `Remove`,
`RemoveFails` when it cannot), takes away the caches of the whole Project if it is a switch
that fails (`Undo`), and records its targets (`Record`, `Send`, `Unschedule`, `RecordProject`,
`RecordWaits`, `RecordRefused`). The worker takes one job (`Receive`, `TakeLatest`),
looks at generation and content (`Check`, `Expect`), builds (`Build`), publishes if the
descriptor is the one it expects (`Publish`) or marks a failure (`Failed`,
`Terminalize`), and retries what did not fit (`Finish`, `Retry`, `Resend`, `GiveUp`,
`SearchProject`, `Recover`, `Insert`). A thread takes its targets in the order of
their keys, of which `Rank` is what the properties can tell apart. Contents are counted, so a content that changes
and changes back is not in the model. The map under one mutex, the condition variable,
the lifecycle lock and the generation lock are the atomicity of the actions.

### LiveProjection

The entities of the LiveStage. `SetValue`, `AddPrim`, `RemovePrim`, `ReplaceStage`,
`HotReload` and `CancelProjection` change what there is to show; a frame is
`StartFrame`, the projection system (`DeferToChanges`, `LeaveAsIs`,
`ContinueGeneration`, `StartGeneration`, then `ExpandParent`, `ProjectEntry`,
`FinalizePlan`, `PlanFails` until `EndDrain`), the drain of the notices
(`DrainChanges`) and the reconciliation of the batch (`Reconcile`, `ReconcileFails`).
The budget of a frame is any number of items from one on. What a prim is made of is
one bit: its entity shows the current values, or it is stale. The editor marks what it
authors so that the notice is not applied a second time (`suppressed`); `swallowed`
remembers the prims this left stale, and `missed` the edits that slip between the
projection system and the drain, which section 7 describes.

### LiveFrame and SemanticSync

Two modules that three others extend. `LiveFrame` is the stage as a row per prim, its
session, revision and notices, and the phases of a frame: `StartUpdate`, `Edit` and
`OpenStage` before or after `DrainNotices`, `EndUpdate`, then the systems of PostUpdate.
A prim's content is its key, and no two prims share one. `SemanticSync` adds the
snapshot: `ByDelta` reads the prims of the batch again, `BySnapshot` extracts the whole
stage, `ExtractionFails` gives the batch up. A system of PostUpdate that works from the
batch is one action, because nothing runs beside it; what its threads do is between.

### SemanticStore

What synchronisation puts in the mailbox (`SubmitToStore`: a full mailbox is emptied and
gets a complete snapshot) and what the worker does with it (`TakeCommand`, `Execute`,
`Apply`): a transaction per command that fails when the store has no snapshot or two
rows would have the same key, the prims in the order of their paths. The responses
nobody reads are counted, and stop the worker when their channel is full, as in the code.

### RuntimeDelivery

`HandleResult` publishes, retries or drops a delivery by its session, revision and
generation of the projection; `SynchronizeDelivery` and `Flush` queue the next one;
`TakeDeliveryWork` and `SendDeliveryResult` are its worker. The projection is reduced to readiness and generation
(`StartGeneration`, `EndGeneration`): LiveProjection has the rest.

### RecoveryCheckpoint

`CheckpointRecovery` is the export in PostUpdate; `TakeRecoveryWork`, `InstallStage`,
`InstallMetadata`, `WriteFails` and `SendRecoveryResult` the worker, whose two renames
are two steps; `Crash` ends the process between any two steps and starts another one, which
counts its sessions from one again in the same directories. `Restorable` is what
`inspect` accepts: the digest of the metadata is that of the stage.

### PayloadResidency

`ResidencyAuthority` is one record, `auth`, and its methods are operators on it, named
as in the code. The systems of a frame are actions in their order (`SyncDemand`,
`DrainCompletions`, `DrainPersisted`, `ProcessRepairs`, `DispatchLoads`, `Pump`); the
two workers move one request each (`Load`, `Persist`); cameras, selections, the
animation and the presented Scene change between two frames (`MoveCamera`, `Select`,
`PlayOrPause`, `InstallScene`, `Retire`). What a load or a repair found is chosen when
its result is read: nothing depends on it before. A payload takes as many bytes of the
CPU's budget as of the GPU's; the metadata the CPU keeps beside the mesh is left out.
A load asks for geometry and material, for the animation as well, or for nothing at all:
`complete_cached_payloads`, which takes the answers to loads without geometry, refuses
the last kind and meets no other, so such an answer changes nothing. Two fields are not
the code's: `mislaid` remembers the payloads that were held once and had to wait for a
repair, which section 7 describes, and `lost` those of them whose mesh was dropped while
its bytes stay counted. Changes of the Project root, of the budgets and of the
catalog are left out.

### StreamConfiguration

The size of the shared video stream, by the thread that acts: the callbacks of a control
channel (`Handshake`, `ConfigureViewport`), the session manager (`Connect`, `Activate`,
`Flush`, `Drop`, `Shutdown`), Bevy (`Resize`, `Capture`), the pump (`Push`, which chooses
the targets under the router's lock, and `TrySend`, which no longer holds it) and a worker
per session (`Receive`, `SetCaps`, `PushFrame`, `ApplyConfiguration`, `ResetInFlight`). A
frame is known by its generation, which stands for the size and the rate that were asked
for, since no generation is given twice. A connection that ended is not used again, so a
client that reconnects is another session, and one that never says hello stands for one that
only watches. A call of the encoder may fail at any of the three places where it is made, as
often as it likes.

### Composition

The modules are composed by their interfaces: ProjectPublication uses the queue through
CallContract; ProjectWrites, StageActivation and CacheWarmQueue share the Scene's
placements and descriptors, and each models what the others do to them as an action
that may happen at any time (`OpenScene`, `Warm`, `Write`). SemanticStore and
RuntimeDelivery extend SemanticSync, which extends LiveFrame, as RecoveryCheckpoint
does: each is the whole frame with one of the consumers of the stage, which do not
read each other's state. RuntimeDelivery takes of LiveProjection that a generation ends.

## 4. Runs

| Run | Module, configuration | What it shows |
|---|---|---|
| `authority_queue` | RuntimeAuthorityQueue, `RuntimeAuthorityQueue.cfg` | claim discipline, truth of answers, the contract and its liveness |
| `publication` | MCProjectPublication, `publication.cfg` | two transactions of one host on one Project, a second stage, a restart of the render server: freeze and lease agree, history, finalization, operations end, authoring resumes |
| `storage_migration` | StorageMigration, `storage_migration.cfg` | nothing lost, commit marker, all or nothing, finally upgraded unless the journal is torn, with three faults |
| `writes` | MCProjectWrites, `writes.cfg` | two writes, in sequence or overlapping, and one I/O error anywhere: consistency, writes under the lock, the stage agrees, consumption |
| `activation` | MCStageActivation, `activation.cfg` | three requests of two sessions: screen, replies, order, progress |
| `cache_warm` | MCCacheWarmQueue, `cache_warm.cfg` | two writers that edit, delete and switch branches, and the worker: bookkeeping, no stale usable cache, no waiting for nobody, idle means idle |
| `live_projection` | MCLiveProjection, `live_projection.cfg` | one entity per prim, with current values, once the projection is ready; the projection comes to an end |
| `semantic_store` | MCSemanticStore, `semantic_store.cfg` | deltas add up to a full extraction, in the snapshot and in the rows of the store |
| `runtime_delivery` | MCRuntimeDelivery, `runtime_delivery.cfg` | what is published is the snapshot, and is published in the end |
| `recovery` | MCRecoveryCheckpoint, `recovery.cfg` | what a restore opens is one whole export; the last revision is checkpointed |
| `residency` | MCPayloadResidency, `residency.cfg` | budgets and books of the payloads, first loads and repairs under way, with loads and repairs of every outcome |
| `stream` | StreamConfiguration, `stream.cfg` | encoders, targets and router agree, with two clients that come, ask and go and encoder calls that fail; what a controller was promised is applied by every viewer's encoder |

**Bounds.** *Queue*: two calls, one a snapshot; calls meet only in the owner's pass
over the inbox, and two are enough for one to be processed while another fails.
*Publication*: two transactions because the lock, the lease and the history relate
pairs, of either kind; one generation step distinguishes an old snapshot from a new one.
`BoundedSpec` restricts two steps that no fairness is about, so it cuts behaviours off
without forcing any: which of two like transactions begins first, and the opening of a
second stage, which is left to behaviours in which only one has begun. `MaxRenewals` is
1: after it the heartbeat only fails, so `AuthoringResumes` is relative to a heartbeat
that stops. *Migration*: two assets of each kind, so one can be moved and the other not,
and three faults: one in publishing, one in undoing or finalizing and one in removing
the transaction. *Writes*: one definition exists and two more can come, so
that two writes meet on the same item or on two, and a capacity of two fills with one
deletion's records. *Activation*: two requests of one session
give supersession, one of its successor gives the change of session;
`FallbackUpdates` = 3 and `PreparedCapacity` = 2 are the code's values; there is room for
all replies (`ResultCapacity`), so the loss of a reply at a full queue is not exercised.
*Cache*: five targets, which a map of three and one dirty Project cannot hold together, so that the map
fills, a write has to wait and the worker leaves a Project to be searched again; a channel of
one, which fills while the map has room; two writers, fewer than the places of the map, as
`WaiterHasWaker` needs (section 7); edits of one and of several targets, a deletion, a switch
to a branch without a Scene and one that fails; one Scene is written twice, so that a newer
generation can meet an older job; every Scene starts warmed. *Projection*: a prim with a child and one without, because subtrees are
what resyncs and plans cover; two edits, for one that is drained and one that is not;
two stages; one fault, a cancellation or a failed traversal. *Store*: two prims that can
change, lose and exchange their keys, a mailbox of two, which overflows and still holds
more than one command. *Delivery*: two prims and one key that wanders between them, queues
of one, so that the newest finds both full, two stages and one projection started again.
*Recovery*: one prim and two keys, so that an edit can bring an earlier stage back; three
edits fill the queue of one behind the write that is under way; one crash. *Residency*:
two payloads, the first with a mesh twice as large as it was expected to be, the second
animated, in budgets of 3 on the CPU and 2 on the GPU: they never fit together on the
device, and only just in memory, but the second is held while its wider load is under way;
queues of one; three changes, enough to want, drop and want again, or to present a Scene a second time
while the work of the first presentation is under way. *Stream*: two clients, so that one may watch
what the other asks for, join in the middle or take over; three generations, so that a newer request
meets one that is in flight, and a controller that is leaving can ask after its successor's
hello; queues of one (the code has four frames and two requests), which fill soonest. Only the
first client asks again after its hello, and only it may say that it watches (`Resizers`,
`Watchers`), since clients differ only in the order in which they join; the proofs have no
such bound.

`CHECK_DEADLOCK FALSE` is set everywhere because each model ends: all writes, calls,
edits or requests are done and nobody has to start more.

## 5. Fairness

Fairness is stated only for what the code schedules by itself.

* `RuntimeAuthorityQueue`: the host's polling loop, whose clock passes the deadline and
  the grace period whether the owner runs or not. Not the owner, and not the creation of
  a call.
* `ProjectPublication`: the steps of a host thread that has begun (its calls time out),
  the passing of the lease's expiry, and the owner's expiry system, which runs each
  frame. Answers, renewals, edits and stage switches are not fair.
* `StorageMigration`: the call of `read_validated` goes on, and somebody opens the
  Project again after a failed open, which a torn journal refuses each time. Faults are
  bounded.
* `ProjectWrites`: a started write goes on, and the server consumes what it can each
  frame. Nobody has to open the Scene, which is why `HandoffConsumed` is relative to it.
* `StageActivation`: the update loop, the preparation thread and the loop that delivers
  replies. Not rendering: `NewestIsAnswered` holds with a backend that never draws.
* `LiveProjection`: the frames. Edits, reloads and cancellations are not fair and are
  bounded, so `EventuallyShown` speaks of what happens once they are over.
* `RuntimeDelivery`: the frames and the delivery thread, and that a generation of the
  projection ends when frames go on (strong fairness: each frame may end it or not), which
  is `EventuallyShown` of LiveProjection.
* `RecoveryCheckpoint`: the frames and the recovery thread.
* `StreamConfiguration`: the session manager, the pump and the workers run, and Bevy renders
  continuously. Clients are not fair: none has to join,
  ask or leave.
* `CacheWarmQueue`, `SemanticStore`, `PayloadResidency`: none. `WaiterHasWaker`,
  `StoreReplays` and `FirstLoadIsUnderWay` are the safety properties
  behind progress: whoever waits, somebody who can end the wait has something to do.

## 6. Proofs

Proved by TLAPS for all values of the constants, under the named assumption of each
module (types of the constants, disjointness of model values, capacities that are not
zero), which TLC evaluates in the runs.

* **RuntimeProofs, of the queue.** `QueueTypeCorrect`, `ClaimHasOneWinner`,
  `AnswersAreTrue`, `NoLateGrant`, `QueueImplementsContract`, for any set of calls. The
  inductive invariant is `QueueInv == TypeOK /\ Discipline`. The claim property is not
  inductive by itself: that an active claim excludes a cancellation needs to know which
  calls the owner has not decided yet (`UndecidedOK`), that an unsent call has left no
  file (`UnsentOK`), that a decision on its way out agrees with its effect
  (`PublishingOK`) and that a host past its deadline has lost or used its claim
  (`ClaimOK`). The refinement follows action by action: each maps to a step of the
  contract or to a stutter.
* **ProjectStorageProofs, of the publication.** `TypeCorrect` and `FrozenExactlyWhileLeased` for any
  transactions and processes; `HistoryInOrder` and `FinalizedIsCurrent` for any number of
  transactions of one process on one Project (`OnePublisher`: the publication lock is an
  object of the process, and transactions of two processes do interleave). `FreezeInv`
  adds that no session number is ahead of the counter. `HistoryInv` says that at most one
  transaction is in its section (`Exclusive`) and that the snapshot of one that may still
  commit is not older than anything in the history (`NotOvertaken`); `FinishInv`
  carries this through the answer of the owner.
* **ProjectStorageProofs, of the migration.** `MigrationTypeCorrect`, `MigrationLosesNothing`,
  `ManifestIsCommitMarker`, `MigrationIsAllOrNothing`, for any set of assets and any
  number of faults. `MigrationInv` says what the canonical manifest and the journal allow the
  files to be: before the commit nothing is deleted and nothing moved without a journal
  (`BeforeCommit`), after it everything is in place and the journal outlasts the
  cleanup (`AfterCommit`); a torn journal is one before which nothing was moved; `ControlOK` ties the recovery's program counter to both.
* **StageActivationProofs.** `ActivationTypeCorrect`, `DeferredIsCurrent`,
  `NoStageGoesBack`, `ScreenBelongsToSomething`, `NoRequestAnsweredTwice`, for any
  sessions, requests, Scenes and capacities. `NoStageGoesBack` rests on `StageIsPast`:
  the generation of the live stage is never newer than the newest admitted of its
  session, and `is_current` lets only the newest install. `ScreenInv` says that what the
  live stage does not back is the very picture of the deferred activation, since a
  rollback takes down only a picture that matches. `PlaceInv` follows a request through
  its seven places - ingress, slot, thread, channel, deferral, replies, session: none holds
  it twice and no two hold it (`Once`, `Apart`).
* **CacheWarmQueueProofs.** `WarmTypeCorrect`, `WarmScheduledIsHeld`,
  `WarmUsableIsCurrent`, `WarmIdleIsQuiet`, `WarmWaiterHasWaker`, for any writers, Scenes,
  Projects and capacities. The invariant has four parts. `Typed`: the types, and where each
  thread can be with what in its hands. `Held`: a key that is marked as scheduled is in
  exactly one of the channel, the worker and the writer that is about to send it. `Fresh`:
  a usable descriptor shows what the Scene's source holds, and if the worker is about to
  publish what the source no longer holds, either the descriptor is not the one it expects
  or a writer has yet to say that it changed the source. `Roomy`: a writer waits only while
  the map is full, and once the worker runs out of jobs no more targets are left in the map
  than there are writers, unless one is about to send. Deletions, switches of branch and what
  they cancel are part of it. The last theorem has the hypothesis that fewer threads write than
  the map has room for, which its property states (section 7).
* **ProjectWritesProofs.** `WritesTypeCorrect`, `SerialWritesConsistent`,
  `LockedWritesAreKept`, `StageShowsTheScene`, for any writes, definitions and errors.
  `ControlInv` says how far each write has come with its records; `SerialInv` what a write
  that runs alone has made of the manifest, the layers and the placements at each of its
  steps, from the manifest it read; `LockedInv` that the manifest the holder of the
  publication lock has read keeps what was acknowledged under it; `HandoffInv` that the
  open stage shows the Scene but for what records on their way, or a write that has sent
  none yet, will tell it.
* **RuntimeProofs, of the frame.** The proofs about LiveFrame and SemanticSync and the three
  modules on top of them. `SnapshotFollowsStage`, `StoreTypeCorrect`, `StoreCatchesUp`,
  `DeliveryTypeCorrect`, `PublishedIsTheSnapshot`, `RecoveryTypeCorrect` and
  `RestoredIsAnExport`, for any prims, keys, stages, sessions and capacities.
  `FollowsStage` speaks of the quiet moments only; the inductive `SnapshotInv` says at
  every moment that a prim the snapshot does not show as it is is named by a notice that
  waits or by the batch of the frame. It is proved once (`SyncKept`), and the store and the
  delivery cite it. For the store, `DeltaKeepsKeys`: no delta that is not refused gives two
  rows the same key; and `StoreReplays`, that the commands on their way lead from the rows
  to the snapshot. What commands lead to is a recursive function; that it exists, and that
  one more command is one more step, is an induction over their number (`EveryNumber`),
  which the theorem on well-founded minima gives without an operator for a parameter.
  `KnownInv` of the delivery: one that waits, is queued, is built or has been built is of an
  older stage, of an older snapshot, or the snapshot as it is, so the identity that
  `IsCurrent` compares determines the contents. `SavedInv` of the checkpoints: what waits,
  what is being written and what the metadata on disk describes were exported; the stage on
  disk need not be, between the two renames, and that is what the digest is for.
* **ViewportProofs.** Of the stream, `StreamTypeCorrect`, `StreamCapsFitFrame`,
  `StreamTargetsFollowShared`, for any clients, generations and capacities. A session has a
  target just while it is open (`Seated`); a target that expects a configuration has none
  (`Undecided`); a frame on its way that belongs to the current configuration is older than
  what is expected (`Ordered`); and the encoder of a session has the caps of its target's
  configuration, or its worker is at the step that sets them (`Fitted`).
  Of the projection, `ProjectionFaithful`, for any tree of prims. A generation under way is `Doomed` - something that waits to be
  drained or looked at will start it again - or `Built`: it has an entity for every prim
  that its plan has passed, and the plan still names the rest. While the projection shows a
  generation, whatever differs from the stage is known to a notice or to the batch
  (`DifferencesKnown`). It rests on an assumption of its own: the prims lie under the root.

* **PayloadResidencyProofs, FoldTheorems.** `BudgetsHold`, `CountersAreExact`,
  `ReadyIsQueued` and `FirstLoadsAreUnderWay`, for any payloads, sizes, budgets and capacities, all
  from `InductiveInvariant`. `IInv` says of the authority alone (`Good`): the counters are the
  bytes of what is held or lost, and a warm payload knows what its eviction gives back
  (`Stored`); the loader has one job for a payload, and the uploads each payload once
  (`Lists`); and of each payload how its state, its masks and the queues it is in fit
  together (`Sound`), where one of which something was held and one of which nothing ever
  was are told apart, and what is queued of the latter is all that is wanted of it
  (`Covered`), so that the answer to its first load is not refused, unless that load was begun when nobody
  wanted it. Of the channels it says that
  a payload that waits for a repair has a request somewhere (`RepairsHeld`), and that the load
  of one that is loading is under way and asks for no more than is in flight (`LoadsHeld`).
  The methods of the authority keep this one by one (`Onward`), and call each other; what is
  left is their loops: eviction, demand, dispatch, uploads and the three drains work through
  queues that they change as they go. Each loop is a fold, and a fold of an operator is out of
  reach of a theorem that has an operator for a parameter. FoldTheorems has it for a CONSTANT
  instead and is instantiated once for each loop: `FoldKeeps`, and `FoldReaches` for loops
  whose invariant depends on how far they have come, as those over the answers of a worker,
  of which the first n are dealt with. Its induction over the length is `EveryNumber`.
  `FirstLoadsAreUnderWay` speaks of what is loaded for the first time: of a payload that was
  held before, the theorems say that its job and its repair are where they should be, and not
  that its supplemental load comes to anything, because it does not (section 7). Nor do they
  say it of a payload of which a load has failed.

Only model-checked: every liveness property and everything that needs `ENABLED`, which are
out of the prover's reach. Every invariant and every safety property of a step that a run
checks is stated by a theorem.

## 7. Where the code and its documentation disagree

All of the following was met while modelling. The models do what the code does, and each
property is stated so that it holds with it; no run is meant to fail.

*Publication and writes:*

* BIM edits are dispatched before the check of the authoring lease
  (`bridge/bim_commands.rs:37`), so a stage that a commit has leased is edited;
  `usd_bevy/src/live/stage.rs:183` calls the lease exclusive. `AuthorBim` is in the model.
* The owner recognises Scenes only at the legacy path
  (`viewport/app/project_stage.rs:286-303`), which a migrated Project does not have.
  For such stages the outbox and the authority queue find no owner.
* Scene creation, adoption and deletion take no publication lock
  (`service/scene.rs:18`), so a creation and a rename that overlap lose one of two
  acknowledged writes; `service/mod.rs:40-45` says that publication is serialized.
  `LockedWritesStay` is about the writes that do take it, and TLC refutes
  `AcknowledgedStays` without that condition.
* The journal of the migration is created on its final path and then written
  (`project/storage/migration_journal.rs:278-288`), while each of its later phases is a
  temporary file and a rename (`:66-86`). A crash in between leaves a journal that cannot be
  decoded; every later open fails when it reads it (`:86-91`, called from
  `migration_recovery.rs:48`), so a Project of which nothing was moved yet can be opened no
  more until the user removes the transaction directory. An
  error in the writing is cleaned up (`migration.rs:98-101`), but whether that succeeds is not
  looked at. `FinallyUpgraded` names this state (`Blocked`) and says that there is no other.
* The room checked by `ensure_capacity` is not reserved (`stage_mutation.rs:91-93`):
  with two overlapping creations the second is published and then reported as busy.
* A creation and a deletion of the same item whose records wait together may be applied
  in the opposite order, since record names are random (`stage_mutation_outbox.rs:109`);
  the placement stays on the stage.
* A batch of records is not atomic for its consumer (`stage_mutation_outbox.rs:55`,
  against `stage_mutation.rs:132-134`).

*Activation and cache:*

* A deferred activation of a session that left replaces the stage of its successor
  (`service/stage_activation.rs:112`), against `:79-81`.
* A deferred activation that is superseded gets no reply
  (`project_activation_flow.rs:56`), unlike one replaced in the slot.
* A failed cache-first activation removes the save tracking of the stage that stays
  live instead of restoring it (`project_activation_flow.rs:281`).
* A warm target can be left in the map with an idle worker: the writer finds the channel
  full, the worker finishes all its jobs and its retry skips the key that is still
  marked, then the mark is taken back (`cache_warmer_queue.rs:94-96`); the test at
  `cache_warmer_c1_tests.rs:67` promises a retry without orphans. In the model a state
  with the worker idle, the channel empty, no write running and `latest` not empty is
  reachable in fifteen steps.
  If a job is also cancelled while it is in the channel, which a deletion or a branch
  switch that fails late does (`service/deletion.rs:260`, `service/branch.rs:229`), the
  worker has nothing to warm and goes idle sooner: with two targets left in a full map and
  a full dirty set, a write that then waits for room (`cache_warmer_queue.rs:83`) is never
  woken. With two threads that write, a map of two, and a deletion beside three edits in two
  Projects the model reaches this in 34 steps; with a map of three it does not.
  `WaiterHasWaker` therefore says it, and is proved, for fewer threads than the map has
  places. The map of the code has eight (`cache_warmer_queue.rs:21-23`), and nothing keeps the
  number of writing threads below that. The run has two threads and three places.
* A failed build may republish a descriptor over a newer one (`cache_warmer.rs:238`), so
  a generation can go back, which `cache_scene_store.rs:91-94` wants to avoid; the
  model shows that no stale cache becomes usable by it.
* Two writers may advance a Scene's generation in one order and record it in the other
  (`cache_warmer_queue.rs:86`); the newer one is then not built until something else
  touches the Scene.

*LiveStage, projection and what is derived from it:*

* A change of the host that comes between the projection system and the drain is not
  noticed by a generation under way (`live/progressive.rs:48-57` looks at the notices,
  which the drain then takes): the generation ends with the old prims. `Faithful` leaves
  that case out (`missed`).
* `observe_project_open_readiness` reads the readiness without comparing the session.
* One suppressed path is enough to swallow other notices of the batch: the set is
  emptied with each batch, and whatever it names is ignored, however often it was
  changed.
* Two prims that exchange their keys in one batch make the store reject the delta
  (`store/delta.rs:76`), which nobody learns of; `docs/h1-runtime-isolation.md:25-26`
  says that no delta is dropped silently.
* A batch is lost when both its delta and the full extraction fail (`sync/mod.rs:305`):
  later deltas build on a snapshot that misses it.
* After 33 commands the store's worker waits for ever to send a response nobody reads
  (`semantic/worker.rs:304`).
* With no stage, after a hot reload that failed, a delivery of the stage before is still
  published (`sync/delivery.rs:147`, against `docs/h1-runtime-isolation.md:27-28`), and
  a published delivery is not withdrawn when another stage is opened. A build that
  failed is not tried again.
* Session numbers start at one in each process, so a new process overwrites the
  checkpoints of the one that crashed. A checkpoint exported after a hot reload in the
  same frame carries the revision of the old batch (`bridge/plugin.rs:171`). A crash
  between the two renames loses the checkpoint before, too: its stage is already
  replaced.

*Streaming:*

* A controller that leaves between its request and the next tick takes the router's copy
  along (`stream_session/session.rs`), while Bevy has its own. Bevy then renders a
  generation the router does not expect, and the viewers that stay get no frame until
  somebody asks for a size again; `application/state.rs:30-33` says that a reconnect cannot
  make the two disagree.
* A controller that is being dropped gives up its place first and closes its channels last
  (`stream_session/session.rs:223-225`), and what it asks for meanwhile is still handed to Bevy
  (`data_channel/dispatch/commands.rs:206-244`). If its successor has said hello by then, Bevy
  renders the generation of the one that left, the router expects that of the successor, and
  the successor is never told of its own: S1 asks for the first generation, is dropped, S2
  says hello with the second, S1 asks for a third. `AcceptedIsApplied` leaves this case out by
  name (`Overtaken`): it lasts until the successor asks again.
* A session that is dropped first gives up its place as controller and only at the end
  closes its channels; a hello handled in between takes the place for good. The test at
  `viewport_streaming/src/session.rs:317` has a new controller admitted after the old one
  is unregistered.
* A readback that was started before a resize and has as many bytes as the new size needs
  is labelled with the new size and generation (`transport/frame_capture.rs`).
* A client that watches and joins after a configuration was applied is not told of it.
* The generations come from the clients: one that proposes the largest number leaves no
  number for those that follow.

*Residency:*

* A resident payload that an animation asks for is loaded for the animation alone, but the
  load is dispatched with every part (`residency/mod.rs:178`): its completion is refused
  (`authority_completion.rs:160-171`) and its reservation is never given back. It keeps the
  state it had and waits for the animation in vain. `authority_payload_satisfaction_tests.rs:36`
  and `:96` have the supplemental load complete, with the right mask. `FirstLoadIsUnderWay`
  does not speak of it: it is about payloads of which nothing was held before. In the same way
  a failed payload that gets a wider reason while it is queued is loaded for more than is in
  flight, and stays loading; `FreshLoading` leaves failed payloads out.
* A payload whose last reason goes while it is loading, and whose load then has to be
  repaired, is queued for its geometry (`authority_loading.rs`, `requeue_repair_waiting`)
  but dispatched for nothing (`residency/mod.rs:178`). `complete_cached_payloads` refuses
  the answer, so the payload stays loading with its bytes reserved, and a reason that comes
  back waits for it in vain until the Scene is presented again (`LoadedInVain`). The test
  at `repair_waiting_tests.rs:137` has the retry complete without a leak, for a payload that
  is still wanted.
* A load for the animation of a payload that is already held makes it wait for a repair like
  any other when it finds nothing (`authority_loading.rs`, `wait_for_repair`): its mesh is no
  longer in line for its upload, never warm and never released while the Scene is
  presented, a request meanwhile overwrites its size and may queue a second load, and a
  repair that is given up drops a mesh that was not uploaded without giving its bytes back.
  The same happens to a payload that was evicted. The properties name what they leave out
  for it: `mislaid`.
* Eviction does not clear what the record says is satisfied
  (`authority_capacity.rs:45-58`), so an evicted payload that is wanted again is not loaded
  again in that generation. Wanted by the camera or a selection it stays "Unloaded", with
  nothing under way; wanted by an animation it is queued for the animation alone and loaded,
  keeps the state "Queued" meanwhile (`authority_loading.rs:158`), has its answer refused like
  the one above, and stays so, with no job and its bytes reserved. `FirstLoadIsUnderWay` does
  not speak of such payloads either.
* A reason that goes while its load is queued narrows the load, but not what completes.
* A completion refused for want of room is not tried again. A load that is deferred has
  evicted every warm payload by then. A warm payload whose request was suppressed is no
  longer in the list of those that can be evicted.

## 8. What is not modelled

`PROJECT.json` gives every component with its status. Branch switching and `usd_git`, the
editor's commit pipeline, linking and reparenting, the data channel's sequence numbers and
chunks, signalling, the client's assembler and the undo history are protocols a model checker can
reach and are left to the plan below. Rendering, camera, physics, animation, USD and BIM
conversion, path rewriting, the blob store and the API surface are data transformation or
I/O with no protocol of their own, and they are the larger part of the source.

Within the modelled components: two host processes on one Project (they share no
lock; `HistoryNeverRegresses` is not claimed for them), two openers of a legacy
Project, a crash of a write between its publications, the failures map, timeouts and
shutdown of the warm queue, shutdown of the preparation thread, the render server's own
advances of cache generations (`api/bridge/save.rs`), the removal of all derived caches when
the Scenes of the branch before cannot be listed (`service/branch.rs:218`), what the recovery
of a Project cancels in the warm queue (`cache_warmer_recovery.rs:35`), Projects with several parents of one
definition, queries to the semantic store, the contents of a delivery, child Scenes in
residency, and workers that cannot be started.

## 9. Plan

Done: the modules of section 3 and the proofs of section 6. Next, in this order:

1. The order of activation, projection, synchronisation and delivery as one composition,
   with LiveProjection in place of the readiness RuntimeDelivery uses.
2. The branch switch itself, composed with ProjectPublication and with what CacheWarmQueue has
   of it.
3. DataChannel: chunked delivery and the assembler, against the abstract message that
   was sent; RuntimeDelivery on top.
4. Undo history of the LiveStage.
5. Pure algorithms over bounded inputs: the closure of `deletion_graph.rs`, the
   composition check of `usd_project`, `usd_diff`.
6. Two host processes, and two openers of a legacy Project, as variants of the modules
   that assume one.
