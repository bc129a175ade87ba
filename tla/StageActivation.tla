-------------------------- MODULE StageActivation --------------------------
(***************************************************************************)
(* How the render host turns Project activation requests into the stage it *)
(* shows.                                                                  *)
(*                                                                         *)
(* A controlling session queues requests; the Bevy main world admits them  *)
(* and hands the newest one to a preparation thread through a single slot; *)
(* prepared targets come back over a bounded channel, and the main world   *)
(* installs the stage, at once or, when the Scene has a metadata cache,    *)
(* after the cached picture has been rendered.                             *)
(*                                                                         *)
(* Three parties interleave: the sessions, the preparation thread, and the *)
(* main world, whose update runs the phases "admit", "apply", "continue".  *)
(***************************************************************************)
EXTENDS Naturals, Sequences, FiniteSets

CONSTANTS
  Sessions,        \* transport sessions; each connects at most once
  Requests,        \* activation commands; the value is the request id
  SessionOf,       \* the session that sends a request
  GenerationOf,    \* the generation its client gave it
  TargetOf,        \* a Scene, or another target: a Model, the empty root
  Scenes,
  EmptyRoot,
  None,
  PreparedCapacity,    \* sync_channel(2)
  ResultCapacity,      \* MAX_PENDING_MESSAGES
  FallbackUpdates,     \* CACHE_RENDER_FALLBACK_UPDATES
  MaxCacheGeneration   \* bound: warms of one Scene's cache

\* A deferred activation, which shows the cached picture while it waits.
Deferral == [request : Requests, cached : Nat \ {0}, wait : BOOLEAN]

ASSUME ActivationAssumption ==
  /\ SessionOf \in [Requests -> Sessions]
  /\ GenerationOf \in [Requests -> Nat \ {0}]
  /\ DOMAIN TargetOf = Requests
  /\ PreparedCapacity \in Nat \ {0} /\ ResultCapacity \in Nat \ {0}
  /\ FallbackUpdates \in Nat /\ MaxCacheGeneration \in Nat
  /\ None \notin Requests \cup Scenes \cup Sessions \cup Deferral
  /\ EmptyRoot \notin Scenes

VARIABLES
  controller,    \* the session admitted as controller
  sent,          \* the requests the sessions have sent
  gone,          \* the sessions that have disconnected
  ingress,       \* project_activations: what the main world has yet to pop
  latest,        \* latest_by_session of the authority
  newest,        \* latest_by_session of the cancellation the thread reads
  slot,          \* the single request the preparation thread may take
  worker,        \* the preparation thread
  prepared,      \* its channel to the main world
  phase,         \* where the main world is in its update
  pending,       \* PendingCanonicalStageActivation
  gate,          \* CachePresentationGate
  stage,         \* the request whose stage is live; None before the first
  presentation,  \* SceneCachePresentation: the cached picture on screen
  owner,         \* SceneCacheOwnershipContext: the Scene whose saves are tracked
  revalidation,  \* PendingSceneCacheRevalidation of the live stage
  cache,         \* on disk, each Scene's cache generation and whether it is usable
  results,       \* project_activation_results, waiting for their session
  told,          \* the replies sessions have received
  admitted       \* the admitted requests in order (read by the properties only)

requestVars == <<controller, sent, gone, ingress>>
workerVars == <<slot, worker, prepared>>
screenVars == <<pending, gate, stage, presentation, owner, revalidation>>
vars == <<requestVars, latest, newest, workerVars, phase, screenVars, cache,
          results, told, admitted>>

Picture == [scene : Scenes, generation : Nat]

\* What the thread found: an error, the empty root, or a stage to open, with
\* the cache generation it loaded (0: none).
Outcome == [kind : {"error", "empty", "stage"}, cached : Nat]

Prepared == [request : Requests, outcome : Outcome]

Answer == Requests \X {"activated", "failed"}

TypeOK ==
  /\ controller \in Sessions \cup {None}
  /\ sent \subseteq Requests /\ gone \subseteq Sessions
  /\ ingress \in Seq(Requests)
  /\ latest \in [Sessions -> Requests \cup {None}]
  /\ newest \in [Sessions -> Requests \cup {None}]
  /\ slot \in Requests \cup {None}
  /\ worker \in [request : Requests \cup {None}, outcome : Outcome \cup {None}]
  /\ worker.outcome # None => worker.request # None
  /\ prepared \in Seq(Prepared) /\ Len(prepared) <= PreparedCapacity
  /\ phase \in {"admit", "apply", "continue"}
  /\ pending # None => pending \in Deferral
  /\ gate # None =>
       gate \in [picture : Picture, rendered : BOOLEAN, waited : 0..FallbackUpdates]
  /\ stage \in Requests \cup {None}
  /\ presentation \in Picture \cup {None}
  /\ owner \in Scenes \cup {None}
  /\ revalidation \in Nat
  /\ cache \in [Scenes -> [generation : Nat, usable : BOOLEAN]]
  /\ results \in Seq(Answer) /\ Len(results) <= ResultCapacity
  /\ told \subseteq Answer
  /\ admitted \in Seq(Requests)

Init ==
  /\ controller = None
  /\ sent = {} /\ gone = {}
  /\ ingress = <<>>
  /\ latest = [s \in Sessions |-> None]
  /\ newest = [s \in Sessions |-> None]
  /\ slot = None
  /\ worker = [request |-> None, outcome |-> None]
  /\ prepared = <<>>
  /\ phase = "admit"
  /\ pending = None /\ gate = None /\ stage = None
  /\ presentation = None /\ owner = None /\ revalidation = 0
  /\ cache \in [Scenes -> {[generation |-> 0, usable |-> FALSE],
                           [generation |-> 1, usable |-> TRUE]}]
  /\ results = <<>> /\ told = {} /\ admitted = <<>>

---------------------------------------------------------------------------
(* Sessions.  One session at a time controls; a session that leaves takes  *)
(* neither its queued requests nor its unread replies with it.             *)

Connect(s) ==
  /\ controller = None
  /\ s \notin gone
  /\ controller' = s
  /\ UNCHANGED <<sent, gone, ingress, latest, newest, workerVars, phase,
                 screenVars, cache, results, told, admitted>>

Disconnect ==
  /\ controller # None
  /\ gone' = gone \cup {controller}
  /\ controller' = None
  /\ UNCHANGED <<sent, ingress, latest, newest, workerVars, phase, screenVars,
                 cache, results, told, admitted>>

\* A request id is accepted once per session.  The generation is the client's.
Send(r) ==
  /\ controller = SessionOf[r]
  /\ r \notin sent
  /\ sent' = sent \cup {r}
  /\ ingress' = Append(ingress, r)
  /\ UNCHANGED <<controller, gone, latest, newest, workerVars, phase, screenVars,
                 cache, results, told, admitted>>

\* The session's loop takes the first reply that is its own.
Receive ==
  \E i \in DOMAIN results :
    /\ SessionOf[results[i][1]] = controller
    /\ \A j \in 1..(i - 1) : SessionOf[results[j][1]] # controller
    /\ told' = told \cup {results[i]}
    /\ results' = SubSeq(results, 1, i - 1) \o SubSeq(results, i + 1, Len(results))
    /\ UNCHANGED <<requestVars, latest, newest, workerVars, phase, screenVars,
                   cache, admitted>>

---------------------------------------------------------------------------
(* The preparation thread.  It looks whether its request is still the      *)
(* session's newest before the resolution, after it and after the cache    *)
(* probe; nothing of what it does in between is visible to others, so one  *)
(* look, in the step that reads the cache, stands for the three.           *)

CachedGeneration(target) ==
  IF target \in Scenes /\ cache[target].usable THEN cache[target].generation ELSE 0

Superseded == [kind |-> "error", cached |-> 0]

\* Registry, manifest and path are read afresh: the resolution may fail.
Resolved(r) ==
  {[kind |-> "error", cached |-> 0],
   IF TargetOf[r] = EmptyRoot
     THEN [kind |-> "empty", cached |-> 0]
     ELSE [kind |-> "stage", cached |-> CachedGeneration(TargetOf[r])]}

Take ==
  /\ worker.request = None
  /\ slot # None
  /\ worker' = [request |-> slot, outcome |-> None]
  /\ slot' = None
  /\ UNCHANGED <<requestVars, latest, newest, prepared, phase, screenVars,
                 cache, results, told, admitted>>

Prepare ==
  /\ worker.request # None
  /\ worker.outcome = None
  /\ \E outcome \in IF newest[SessionOf[worker.request]] = worker.request
                      THEN Resolved(worker.request)
                      ELSE {Superseded} :
       worker' = [request |-> worker.request, outcome |-> outcome]
  /\ UNCHANGED <<requestVars, latest, newest, slot, prepared, phase, screenVars,
                 cache, results, told, admitted>>

\* prepared.send blocks while the channel is full.
HandOver ==
  /\ worker.outcome # None
  /\ Len(prepared) < PreparedCapacity
  /\ prepared' = Append(prepared, worker)
  /\ worker' = [request |-> None, outcome |-> None]
  /\ UNCHANGED <<requestVars, latest, newest, slot, phase, screenVars, cache,
                 results, told, admitted>>

\* The cache warmer publishes a new generation of a Scene's metadata.
Warm(scene) ==
  /\ cache[scene].generation < MaxCacheGeneration
  /\ cache' = [cache EXCEPT ![scene] =
                 [generation |-> @.generation + 1, usable |-> TRUE]]
  /\ UNCHANGED <<requestVars, latest, newest, workerVars, phase, screenVars,
                 results, told, admitted>>

---------------------------------------------------------------------------
(* The main world.                                                         *)

IsOfKnownSession(r) ==         \* mutant: any request of a session that has one
  latest[SessionOf[r]] # None

IsCurrent(r) == latest[SessionOf[r]] = r

\* observe_request: only a newer generation of the session is admitted.
IsNewer(r) ==
  LET last == latest[SessionOf[r]] IN
    last # None => GenerationOf[r] > GenerationOf[last]

\* Publishing logs and forgets a reply for which the queue has no room.
Replied(queue, r, answer) ==
  IF Len(queue) < ResultCapacity THEN Append(queue, <<r, answer>>) ELSE queue

PictureOf(r, cached) == [scene |-> TargetOf[r], generation |-> cached]

OwnerOf(r) == IF r # None /\ TargetOf[r] \in Scenes THEN TargetOf[r] ELSE None

CacheIsCurrent(r, cached) ==
  cached # 0 /\ cache[TargetOf[r]] = [generation |-> cached, usable |-> TRUE]

\* discard_scene_cache_bootstrap: only a matching picture is taken down, and
\* with it the ownership of its Scene.
Discard(picture) ==
  IF presentation = picture
    THEN /\ presentation' = None
         /\ owner' = IF owner = picture.scene THEN None ELSE owner
    ELSE UNCHANGED <<presentation, owner>>

RemoveGate(activation) ==      \* mutant: the picture stays
  /\ gate' = None
  /\ UNCHANGED <<presentation, owner>>

\* rollback_cache_bootstrap
RollBack(activation) ==
  /\ gate' = None
  /\ Discard(PictureOf(activation.request, activation.cached))

\* activate_open_stage_with_cache_context_for_generation and the commit that
\* follows it; a continued activation keeps the picture it already shows.
Install(r, cached, continued) ==
  LET usable == CacheIsCurrent(r, cached)
      kept == continued /\ presentation = PictureOf(r, cached)
  IN /\ stage' = r
     /\ presentation' = CASE usable /\ kept -> presentation
                          [] usable /\ ~kept -> PictureOf(r, cached)
                          [] OTHER -> None
     /\ owner' = OwnerOf(r)
     /\ revalidation' = IF usable THEN cached ELSE 0
     /\ gate' = None

AdmitStale ==
  /\ phase = "admit" /\ ingress # <<>>
  /\ ~IsNewer(Head(ingress))
  /\ results' = Replied(results, Head(ingress), "failed")
  /\ ingress' = Tail(ingress)
  /\ UNCHANGED <<controller, sent, gone, latest, newest, workerVars, phase,
                 screenVars, cache, told, admitted>>

\* A newer request drops the deferred activation, whoever asked for it, without
\* a word, and takes the slot from the request that waits in it.
Admit ==
  LET r == Head(ingress) IN
  /\ phase = "admit" /\ ingress # <<>>
  /\ IsNewer(r)
  /\ latest' = [latest EXCEPT ![SessionOf[r]] = r]
  /\ newest' = [newest EXCEPT ![SessionOf[r]] = r]
  /\ admitted' = Append(admitted, r)
  /\ pending' = None
  /\ IF pending # None THEN RollBack(pending)
                       ELSE UNCHANGED <<gate, presentation, owner>>
  /\ slot' = r
  /\ results' = IF slot = None THEN results ELSE Replied(results, slot, "failed")
  /\ ingress' = Tail(ingress)
  /\ UNCHANGED <<controller, sent, gone, worker, prepared, phase, stage,
                 revalidation, cache, told>>

EndAdmission ==
  /\ phase = "admit" /\ ingress = <<>>
  /\ phase' = "apply"
  /\ UNCHANGED <<requestVars, latest, newest, workerVars, screenVars, cache,
                 results, told, admitted>>

\* One prepared result leaves the channel, with or without its reply.
Applies(r, answered) ==
  /\ phase = "apply" /\ prepared # <<>>
  /\ r = Head(prepared).request
  /\ prepared' = Tail(prepared)
  /\ results' = IF answered = "later" THEN results ELSE Replied(results, r, answered)
  /\ UNCHANGED <<requestVars, latest, newest, slot, worker, phase, cache, told,
                 admitted>>

\* A superseded result, a failed preparation, or a stage that does not open
\* leaves the screen as it was.
ApplyFailure(r) ==
  /\ Applies(r, "failed")
  /\ \/ ~IsCurrent(r)
     \/ Head(prepared).outcome.kind = "error"
     \/ /\ Head(prepared).outcome.kind = "stage"
        /\ ~CacheIsCurrent(r, Head(prepared).outcome.cached)
  /\ UNCHANGED screenVars

ApplyEmpty(r) ==
  /\ Applies(r, "activated")
  /\ IsCurrent(r)
  /\ Head(prepared).outcome.kind = "empty"
  /\ stage' = r
  /\ presentation' = None /\ owner' = None /\ revalidation' = 0
  /\ UNCHANGED <<pending, gate>>

\* No usable cache: the stage is opened and installed in this update.
ApplyStage(r) ==
  /\ Applies(r, "activated")
  /\ IsCurrent(r)
  /\ Head(prepared).outcome.kind = "stage"
  /\ ~CacheIsCurrent(r, Head(prepared).outcome.cached)
  /\ Install(r, Head(prepared).outcome.cached, FALSE)
  /\ UNCHANGED pending

BootstrapAnswered(r) ==        \* mutant: the reply is sent at bootstrap
  LET cached == Head(prepared).outcome.cached IN
  /\ Applies(r, "activated")
  /\ IsCurrent(r)
  /\ Head(prepared).outcome.kind = "stage"
  /\ CacheIsCurrent(r, cached)
  /\ pending' = [request |-> r, cached |-> cached, wait |-> TRUE]
  /\ gate' = [picture |-> PictureOf(r, cached), rendered |-> FALSE, waited |-> 0]
  /\ presentation' = PictureOf(r, cached)
  /\ owner' = TargetOf[r]
  /\ UNCHANGED <<stage, revalidation>>

\* Cache first: the cached picture is shown over the previous stage, and the
\* canonical stage is opened in a later update.
Bootstrap(r) ==
  LET cached == Head(prepared).outcome.cached IN
  /\ Applies(r, "later")
  /\ IsCurrent(r)
  /\ Head(prepared).outcome.kind = "stage"
  /\ CacheIsCurrent(r, cached)
  /\ pending' = [request |-> r, cached |-> cached, wait |-> TRUE]
  /\ gate' = [picture |-> PictureOf(r, cached), rendered |-> FALSE, waited |-> 0]
  /\ presentation' = PictureOf(r, cached)
  /\ owner' = TargetOf[r]
  /\ UNCHANGED <<stage, revalidation>>

EndApplication ==
  /\ phase = "apply" /\ prepared = <<>>
  /\ phase' = "continue"
  /\ UNCHANGED <<requestVars, latest, newest, workerVars, screenVars, cache,
                 results, told, admitted>>

\* A gate that another activation removed is created again, waiting afresh.
OpenGate ==
  IF gate # None THEN gate
  ELSE [picture |-> PictureOf(pending.request, pending.cached),
        rendered |-> FALSE, waited |-> 0]

AwaitFrame == OpenGate.rendered    \* mutant: no fallback without a renderer

CanOpen == OpenGate.rendered \/ OpenGate.waited + 1 >= FallbackUpdates

Continues ==
  /\ phase = "continue"
  /\ phase' = "admit"
  /\ UNCHANGED <<requestVars, latest, newest, workerVars, cache, told, admitted>>

ContinueWaits ==
  /\ Continues
  /\ \/ pending = None /\ UNCHANGED <<pending, gate>>
     \/ /\ pending # None /\ pending.wait
        /\ pending' = [pending EXCEPT !.wait = FALSE]
        /\ UNCHANGED gate
     \/ /\ pending # None /\ ~pending.wait /\ ~CanOpen
        /\ gate' = [OpenGate EXCEPT !.waited =
                       IF @ < FallbackUpdates THEN @ + 1 ELSE @]
        /\ UNCHANGED pending
  /\ UNCHANGED <<stage, presentation, owner, revalidation, results>>

\* A stale or unopenable stage: the picture is taken down again.
ContinueFails ==
  /\ pending # None /\ ~pending.wait /\ CanOpen
  /\ Continues
  /\ RollBack(pending)
  /\ pending' = None
  /\ results' = Replied(results, pending.request, "failed")
  /\ UNCHANGED <<stage, revalidation>>

ContinueInstalls ==
  /\ pending # None /\ ~pending.wait /\ CanOpen
  /\ IsCurrent(pending.request)
  /\ Continues
  /\ Install(pending.request, pending.cached, TRUE)
  /\ pending' = None
  /\ results' = Replied(results, pending.request, "activated")

\* Between two updates the render world reports a completed frame of the picture.
FrameRendered ==
  /\ phase = "admit"
  /\ gate # None /\ ~gate.rendered
  /\ gate' = [gate EXCEPT !.rendered = TRUE]
  /\ UNCHANGED <<requestVars, latest, newest, workerVars, phase, pending, stage,
                 presentation, owner, revalidation, cache, results, told, admitted>>

\* poll_scene_cache_revalidation: the source of the live Scene was hashed in the
\* background; when it changed, the cache generation and its picture go.
Revalidate(changed) ==
  LET picture == PictureOf(stage, revalidation) IN
  /\ revalidation # 0
  /\ revalidation' = 0
  /\ IF changed /\ presentation = picture
       THEN /\ Discard(picture)
            /\ cache' = IF cache[picture.scene].generation = revalidation
                          THEN [cache EXCEPT ![picture.scene] =
                                  [generation |-> @.generation + 1, usable |-> FALSE]]
                          ELSE cache
       ELSE UNCHANGED <<presentation, owner, cache>>
  /\ UNCHANGED <<requestVars, latest, newest, workerVars, phase, pending, gate,
                 stage, results, told, admitted>>

---------------------------------------------------------------------------

SessionStep ==
  \/ \E s \in Sessions : Connect(s)
  \/ Disconnect
  \/ \E r \in Requests : Send(r)

WorkerStep == Take \/ Prepare \/ HandOver

Apply(r) == ApplyFailure(r) \/ ApplyEmpty(r) \/ ApplyStage(r) \/ Bootstrap(r)

UpdateStep ==
  \/ AdmitStale \/ Admit \/ EndAdmission
  \/ \E r \in Requests : Apply(r)
  \/ EndApplication
  \/ ContinueWaits \/ ContinueFails \/ ContinueInstalls

BackgroundStep ==
  \/ \E scene \in Scenes : Warm(scene)
  \/ FrameRendered
  \/ \E changed \in BOOLEAN : Revalidate(changed)

Next == SessionStep \/ Receive \/ WorkerStep \/ UpdateStep \/ BackgroundStep

Safety == Init /\ [][Next]_vars

\* The update loop runs every frame, the thread and the session's loop whenever
\* they can; nothing obliges a renderer to report a frame.
Spec == Safety /\ WF_vars(UpdateStep) /\ WF_vars(WorkerStep) /\ WF_vars(Receive)

---------------------------------------------------------------------------
(* Properties.                                                             *)

\* A deferred activation is always the newest request of its session: between
\* the bootstrap update and the one that opens the stage, whatever supersedes
\* the request also removes the deferral and its picture.
PendingIsCurrent == pending # None => IsCurrent(pending.request)

\* The cached picture on screen and the Scene whose saves are tracked are those
\* of the live stage or of the activation that is about to replace it, never of
\* an activation that was dropped, failed or was itself replaced.
ScreenIsBacked ==
  LET backing == {stage} \cup (IF pending = None THEN {} ELSE {pending.request}) IN
    /\ presentation # None =>
         \E r \in backing \ {None} : TargetOf[r] = presentation.scene
    /\ owner # None => \E r \in backing \ {None} : TargetOf[r] = owner

\* No request is answered twice: not by the slot it lost and the thread that had
\* it, not by its bootstrap and its continuation.
AnsweredOnce ==
  \A r \in Requests :
    Cardinality({i \in DOMAIN results : results[i][1] = r})
      + Cardinality({answer \in told : answer[1] = r}) <= 1

\* A session's stage never goes back: a completion that arrives late, after a
\* newer request of the session was admitted, does not replace the stage.
StageNeverGoesBack ==
  [][(stage' # stage /\ stage # None /\ SessionOf[stage'] = SessionOf[stage])
       => GenerationOf[stage'] > GenerationOf[stage]]_vars

\* The request a connected session last had admitted is answered, unless the
\* session asks again or leaves: no render backend is needed for it, and the
\* thread never waits for ever on its full channel.
NewestIsAnswered ==
  \A r \in Requests :
    (IsCurrent(r) /\ controller = SessionOf[r])
      ~> (\/ \E answer \in told : answer[1] = r
          \/ ~IsCurrent(r)
          \/ controller # SessionOf[r])
=============================================================================
