----------------------- MODULE StageActivationProofs -----------------------
(* Proofs about StageActivation, for any sessions, requests and capacities. *)
EXTENDS StageActivation, SequenceTheorems, FiniteSetTheorems, TLAPS

\* A cache generation travels only with a request that targets a Scene.
CachedAreScenes ==
  /\ worker.outcome # None /\ worker.outcome.cached # 0 =>
       TargetOf[worker.request] \in Scenes
  /\ \A i \in DOMAIN prepared :
       prepared[i].outcome.cached # 0 => TargetOf[prepared[i].request] \in Scenes
  /\ pending # None => TargetOf[pending.request] \in Scenes
  /\ revalidation # 0 => stage # None /\ TargetOf[stage] \in Scenes

Typed == TypeOK /\ CachedAreScenes

\* A live stage is that of its session's newest request or of an older one.
StageIsPast ==
  stage # None =>
    /\ latest[SessionOf[stage]] # None
    /\ IsCurrent(stage)
         \/ GenerationOf[stage] < GenerationOf[latest[SessionOf[stage]]]

---------------------------------------------------------------------------

\* What the result queue holds after a reply was published.
LEMMA RepliedTyped ==
  ASSUME NEW queue \in Seq(Answer), Len(queue) <= ResultCapacity,
         NEW r \in Requests, NEW answer \in {"activated", "failed"}
  PROVE  /\ Replied(queue, r, answer) \in Seq(Answer)
         /\ Len(Replied(queue, r, answer)) <= ResultCapacity
BY ActivationAssumption DEF Replied, Answer, ActivationAssumption

\* The head of a queue and its tail.
LEMMA HeadTail ==
  ASSUME NEW S, NEW q \in Seq(S), q # <<>>
  PROVE  /\ Head(q) \in S /\ Head(q) = q[1] /\ 1 \in DOMAIN q
         /\ Tail(q) \in Seq(S) /\ Len(Tail(q)) = Len(q) - 1
         /\ \A i \in DOMAIN Tail(q) : i + 1 \in DOMAIN q /\ Tail(q)[i] = q[i + 1]
BY HeadTailProperties

\* Taking one element out of the result queue.
LEMMA RemovedTyped ==
  ASSUME NEW S, NEW q \in Seq(S), NEW i \in DOMAIN q
  PROVE  /\ q[i] \in S
         /\ SubSeq(q, 1, i - 1) \o SubSeq(q, i + 1, Len(q)) \in Seq(S)
         /\ Len(SubSeq(q, 1, i - 1) \o SubSeq(q, i + 1, Len(q))) = Len(q) - 1
<1>1. i \in 1..Len(q) /\ Len(q) \in Nat /\ q[i] \in S
  OBVIOUS
<1>2. /\ SubSeq(q, 1, i - 1) \in Seq(S)
      /\ SubSeq(q, i + 1, Len(q)) \in Seq(S)
  BY <1>1
<1>3. Len(SubSeq(q, 1, i - 1)) = i - 1 /\ Len(SubSeq(q, i + 1, Len(q))) = Len(q) - i
  BY <1>1
<1>. DEFINE before == SubSeq(q, 1, i - 1)
            after == SubSeq(q, i + 1, Len(q))
<1>4. before \o after \in Seq(S) /\ Len(before \o after) = Len(before) + Len(after)
  BY <1>2, ConcatProperties
<1>5. Len(before) = i - 1 /\ Len(after) = Len(q) - i
  BY <1>3
<1>. HIDE DEF before, after
<1>6. before \o after \in Seq(S) /\ Len(before \o after) = Len(q) - 1
  BY <1>1, <1>4, <1>5
<1>. QED BY <1>1, <1>6 DEF before, after

---------------------------------------------------------------------------
(* Types.                                                                  *)

LEMMA TypedInit == Init => Typed
<1>. SUFFICES ASSUME Init PROVE Typed
  OBVIOUS
<1>1. /\ results = <<>> /\ prepared = <<>> /\ ingress = <<>> /\ admitted = <<>>
      /\ Len(results) = 0 /\ Len(prepared) = 0
  BY DEF Init
<1>2. cache \in [Scenes -> [generation : Nat, usable : BOOLEAN]]
  <2>1. {[generation |-> 0, usable |-> FALSE], [generation |-> 1, usable |-> TRUE]}
          \subseteq [generation : Nat, usable : BOOLEAN]
    OBVIOUS
  <2>2. cache \in [Scenes -> {[generation |-> 0, usable |-> FALSE],
                              [generation |-> 1, usable |-> TRUE]}]
    BY DEF Init
  <2>. QED BY <2>1, <2>2
<1>3. /\ latest \in [Sessions -> Requests \cup {None}]
      /\ newest \in [Sessions -> Requests \cup {None}]
      /\ worker \in [request : Requests \cup {None}, outcome : Outcome \cup {None}]
      /\ worker.outcome = None
  BY DEF Init
<1>4. /\ results \in Seq(Answer) /\ prepared \in Seq(Prepared)
      /\ ingress \in Seq(Requests) /\ admitted \in Seq(Requests)
  BY <1>1
<1>5. Len(results) <= ResultCapacity /\ Len(prepared) <= PreparedCapacity
  BY <1>1, ActivationAssumption DEF ActivationAssumption
<1>6. \A i \in DOMAIN prepared :
        prepared[i].outcome.cached # 0 => TargetOf[prepared[i].request] \in Scenes
  BY <1>1
<1>7. TypeOK
  BY <1>2, <1>3, <1>4, <1>5 DEF Init, TypeOK, Deferral
<1>. QED BY <1>3, <1>6, <1>7 DEF Init, Typed, CachedAreScenes

\* The sessions touch their own variables and the two ends of the queues.
LEMMA SessionsKeepTypes ==
  ASSUME Typed, SessionStep \/ Receive
  PROVE  Typed'
<1>. USE DEF Typed, TypeOK, Deferral, CachedAreScenes, requestVars, workerVars, screenVars
<1>1. ASSUME NEW s \in Sessions, Connect(s) PROVE Typed'
  BY <1>1 DEF Connect
<1>2. CASE Disconnect
  BY <1>2 DEF Disconnect
<1>3. ASSUME NEW r \in Requests, Send(r) PROVE Typed'
  <2>1. ingress' \in Seq(Requests)
    BY <1>3, AppendProperties DEF Send
  <2>. QED BY <1>3, <2>1 DEF Send
<1>4. CASE Receive
  <2>1. PICK i \in DOMAIN results :
          /\ told' = told \cup {results[i]}
          /\ results' = SubSeq(results, 1, i - 1) \o SubSeq(results, i + 1, Len(results))
    BY <1>4 DEF Receive
  <2>2. /\ results[i] \in Answer
        /\ results' \in Seq(Answer)
        /\ Len(results') = Len(results) - 1
    BY <2>1, RemovedTyped
  <2>3. Len(results') <= ResultCapacity
    BY <2>2, LenProperties, ActivationAssumption DEF ActivationAssumption
  <2>. QED BY <1>4, <2>1, <2>2, <2>3 DEF Receive
<1>. QED BY <1>1, <1>2, <1>3, <1>4 DEF SessionStep

\* The thread moves a request from the slot to the channel.
LEMMA WorkerKeepsTypes ==
  ASSUME Typed, WorkerStep
  PROVE  Typed'
<1>. USE DEF Typed, TypeOK, Deferral, CachedAreScenes, requestVars, screenVars
<1>1. CASE Take
  BY <1>1 DEF Take
<1>2. CASE Prepare
  <2>1. /\ CachedGeneration(TargetOf[worker.request]) \in Nat
        /\ CachedGeneration(TargetOf[worker.request]) # 0 =>
             TargetOf[worker.request] \in Scenes
    BY DEF CachedGeneration
  <2>2. PICK outcome \in {Superseded} \cup Resolved(worker.request) :
          worker' = [request |-> worker.request, outcome |-> outcome]
    BY <1>2 DEF Prepare
  <2>3. outcome \in Outcome /\ (outcome.cached # 0 => TargetOf[worker.request] \in Scenes)
    BY <2>1, <2>2 DEF Superseded, Resolved, Outcome
  <2>. QED BY <1>2, <2>2, <2>3 DEF Prepare
<1>3. CASE HandOver
  <2>1. worker \in Prepared
    BY <1>3 DEF HandOver, Prepared
  <2>2. /\ prepared' \in Seq(Prepared)
        /\ Len(prepared') = Len(prepared) + 1
        /\ \A i \in DOMAIN prepared' :
             prepared'[i] = IF i \in DOMAIN prepared THEN prepared[i] ELSE worker
    BY <1>3, <2>1, AppendProperties DEF HandOver
  <2>3. Len(prepared') <= PreparedCapacity
    BY <1>3, <2>2, ActivationAssumption DEF HandOver, ActivationAssumption
  <2>. QED BY <1>3, <2>2, <2>3 DEF HandOver
<1>. QED BY <1>1, <1>2, <1>3 DEF WorkerStep

\* The head of the ingress or of the channel is well typed, and so is the rest.
LEMMA IngressHead ==
  ASSUME Typed, ingress # <<>>
  PROVE  Head(ingress) \in Requests /\ Tail(ingress) \in Seq(Requests)
BY HeadTail DEF Typed, TypeOK

LEMMA PreparedHead ==
  ASSUME Typed, prepared # <<>>
  PROVE  /\ Head(prepared).request \in Requests
         /\ Head(prepared).outcome.cached \in Nat
         /\ Head(prepared).outcome.cached # 0 =>
              TargetOf[Head(prepared).request] \in Scenes
         /\ Tail(prepared) \in Seq(Prepared)
         /\ Len(Tail(prepared)) <= PreparedCapacity
         /\ \A i \in DOMAIN Tail(prepared) :
              Tail(prepared)[i].outcome.cached # 0 =>
                TargetOf[Tail(prepared)[i].request] \in Scenes
<1>1. /\ Head(prepared) \in Prepared /\ Head(prepared) = prepared[1]
      /\ 1 \in DOMAIN prepared
      /\ Tail(prepared) \in Seq(Prepared) /\ Len(Tail(prepared)) = Len(prepared) - 1
      /\ \A i \in DOMAIN Tail(prepared) :
           i + 1 \in DOMAIN prepared /\ Tail(prepared)[i] = prepared[i + 1]
  BY HeadTail DEF Typed, TypeOK
<1>2. Len(Tail(prepared)) <= PreparedCapacity
  BY <1>1, ActivationAssumption, LenProperties DEF Typed, TypeOK, ActivationAssumption
<1>. QED BY <1>1, <1>2 DEF Typed, CachedAreScenes, Prepared, Outcome

\* Taking a picture down leaves a typed picture and owner.
LEMMA DiscardTyped ==
  ASSUME Typed, NEW picture, Discard(picture)
  PROVE  presentation' \in Picture \cup {None} /\ owner' \in Scenes \cup {None}
BY DEF Typed, TypeOK, Discard

LEMMA InstallTyped ==
  ASSUME Typed, NEW r \in Requests, NEW cached \in Nat,
         cached # 0 => TargetOf[r] \in Scenes,
         NEW continued \in BOOLEAN, Install(r, cached, continued)
  PROVE  /\ stage' = r /\ gate' = None
         /\ presentation' \in Picture \cup {None} /\ owner' \in Scenes \cup {None}
         /\ revalidation' \in Nat
         /\ revalidation' # 0 => TargetOf[r] \in Scenes
<1>1. CacheIsCurrent(r, cached) => cached # 0
  BY DEF CacheIsCurrent
<1>2. cached # 0 => PictureOf(r, cached) \in Picture
  BY DEF PictureOf, Picture
<1>. QED BY <1>1, <1>2 DEF Install, OwnerOf, Typed, TypeOK, Deferral

\* The three phases of an update.
LEMMA AdmissionKeepsTypes ==
  ASSUME Typed, AdmitStale \/ Admit \/ EndAdmission
  PROVE  Typed'
<1>. USE DEF Typed, TypeOK, Deferral, CachedAreScenes, requestVars, workerVars, screenVars
<1>1. CASE AdmitStale
  <2>1. Head(ingress) \in Requests /\ ingress' \in Seq(Requests)
    BY <1>1, IngressHead DEF AdmitStale
  <2>2. results' \in Seq(Answer) /\ Len(results') <= ResultCapacity
    BY <1>1, <2>1, RepliedTyped DEF AdmitStale
  <2>. QED BY <1>1, <2>1, <2>2 DEF AdmitStale
<1>2. CASE Admit
  <2>1. Head(ingress) \in Requests /\ ingress' \in Seq(Requests)
    BY <1>2, IngressHead DEF Admit
  <2>2. SessionOf[Head(ingress)] \in Sessions
    BY <2>1, ActivationAssumption DEF ActivationAssumption
  <2>3. /\ latest' \in [Sessions -> Requests \cup {None}]
        /\ newest' \in [Sessions -> Requests \cup {None}]
    BY <1>2, <2>1, <2>2 DEF Admit
  <2>4. admitted' \in Seq(Requests)
    BY <1>2, <2>1, AppendProperties DEF Admit
  <2>5. results' \in Seq(Answer) /\ Len(results') <= ResultCapacity
    BY <1>2, RepliedTyped DEF Admit
  <2>6. /\ presentation' \in Picture \cup {None} /\ owner' \in Scenes \cup {None}
        /\ gate' = gate \/ gate' = None
    BY <1>2, DiscardTyped DEF Admit, RollBack
  <2>7. /\ slot' \in Requests /\ pending' = None
        /\ UNCHANGED <<controller, sent, gone, worker, prepared, phase, stage,
                      revalidation, cache, told>>
    BY <1>2, <2>1 DEF Admit
  <2>. QED BY <2>1, <2>3, <2>4, <2>5, <2>6, <2>7
<1>3. CASE EndAdmission
  BY <1>3 DEF EndAdmission
<1>. QED BY <1>1, <1>2, <1>3

LEMMA ApplicationKeepsTypes ==
  ASSUME Typed, NEW r \in Requests, Apply(r)
  PROVE  Typed'
<1>. USE DEF requestVars, workerVars, screenVars
<1>. DEFINE cached == Head(prepared).outcome.cached
<1>0. PICK answered \in {"activated", "failed", "later"} : Applies(r, answered)
  BY DEF Apply, ApplyFailure, ApplyEmpty, ApplyStage, Bootstrap
<1>1. /\ prepared # <<>> /\ r = Head(prepared).request /\ prepared' = Tail(prepared)
      /\ UNCHANGED <<requestVars, latest, newest, slot, worker, phase, cache, told,
                    admitted>>
      /\ \/ results' = results
         \/ \E answer \in {"activated", "failed"} : results' = Replied(results, r, answer)
  <2>1. CASE answered = "later"
    BY <1>0, <2>1 DEF Applies
  <2>2. CASE answered # "later"
    BY <1>0, <2>2 DEF Applies
  <2>. QED BY <2>1, <2>2
<1>2. results' \in Seq(Answer) /\ Len(results') <= ResultCapacity
  <2>1. results \in Seq(Answer) /\ Len(results) <= ResultCapacity
    BY DEF Typed, TypeOK, Deferral
  <2>2. ASSUME NEW answer \in {"activated", "failed"}, results' = Replied(results, r, answer)
        PROVE  results' \in Seq(Answer) /\ Len(results') <= ResultCapacity
    BY <2>1, <2>2, RepliedTyped
  <2>. QED BY <1>1, <2>1, <2>2
<1>3. /\ prepared' \in Seq(Prepared) /\ Len(prepared') <= PreparedCapacity
      /\ \A i \in DOMAIN prepared' :
           prepared'[i].outcome.cached # 0 => TargetOf[prepared'[i].request] \in Scenes
      /\ cached \in Nat /\ (cached # 0 => TargetOf[r] \in Scenes)
  BY <1>1, PreparedHead
<1>. HIDE DEF cached
<1>4. SUFFICES
        /\ pending' # None =>
             /\ pending' \in [request : Requests, cached : Nat \ {0}, wait : BOOLEAN]
             /\ TargetOf[pending'.request] \in Scenes
        /\ gate' # None =>
             gate' \in [picture : Picture, rendered : BOOLEAN,
                        waited : 0..FallbackUpdates]
        /\ stage' \in Requests \cup {None}
        /\ presentation' \in Picture \cup {None}
        /\ owner' \in Scenes \cup {None}
        /\ revalidation' \in Nat
        /\ revalidation' # 0 => stage' # None /\ TargetOf[stage'] \in Scenes
  BY <1>1, <1>2, <1>3 DEF Typed, TypeOK, Deferral, CachedAreScenes
<1>5. CASE ApplyFailure(r)
  BY <1>5 DEF ApplyFailure, Typed, TypeOK, Deferral, CachedAreScenes
<1>6. CASE ApplyEmpty(r)
  BY <1>6 DEF ApplyEmpty, Typed, TypeOK, Deferral, CachedAreScenes
<1>7. CASE ApplyStage(r)
  <2>1. Install(r, cached, FALSE) /\ UNCHANGED pending
    BY <1>7 DEF ApplyStage, cached
  <2>. QED BY <2>1, <1>3, InstallTyped, ActivationAssumption
           DEF Typed, TypeOK, Deferral, CachedAreScenes, ActivationAssumption
<1>8. CASE Bootstrap(r)
  <2>1. /\ CacheIsCurrent(r, cached)
        /\ pending' = [request |-> r, cached |-> cached, wait |-> TRUE]
        /\ gate' = [picture |-> PictureOf(r, cached), rendered |-> FALSE, waited |-> 0]
        /\ presentation' = PictureOf(r, cached)
        /\ owner' = TargetOf[r]
        /\ UNCHANGED <<stage, revalidation>>
    BY <1>8 DEF Bootstrap, cached
  <2>2. cached \in Nat \ {0} /\ TargetOf[r] \in Scenes
    BY <1>3, <2>1 DEF CacheIsCurrent
  <2>3. PictureOf(r, cached) \in Picture
    BY <2>2 DEF PictureOf, Picture
  <2>4. 0 \in 0..FallbackUpdates
    BY ActivationAssumption DEF ActivationAssumption
  <2>. QED BY <2>1, <2>2, <2>3, <2>4 DEF Typed, TypeOK, Deferral, CachedAreScenes
<1>. QED BY <1>5, <1>6, <1>7, <1>8 DEF Apply

LEMMA ContinuationKeepsTypes ==
  ASSUME Typed, EndApplication \/ ContinueWaits \/ ContinueFails \/ ContinueInstalls
  PROVE  Typed'
<1>. USE DEF requestVars, workerVars, screenVars
<1>1. CASE EndApplication
  BY <1>1 DEF EndApplication, Typed, TypeOK, Deferral, CachedAreScenes
<1>2. CASE ContinueWaits
  <2>1. phase' = "admit"
        /\ UNCHANGED <<requestVars, latest, newest, workerVars, cache, told, admitted,
                      stage, presentation, owner, revalidation, results>>
    BY <1>2 DEF ContinueWaits, Continues
  <2>2. CASE UNCHANGED <<pending, gate>>
    BY <2>1, <2>2 DEF Typed, TypeOK, Deferral, CachedAreScenes
  <2>3. CASE pending # None /\ pending' = [pending EXCEPT !.wait = FALSE] /\ UNCHANGED gate
    <3>1. /\ pending' \in [request : Requests, cached : Nat \ {0}, wait : BOOLEAN]
          /\ pending'.request = pending.request
      BY <2>3 DEF Typed, TypeOK, Deferral
    <3>. QED BY <2>1, <2>3, <3>1 DEF Typed, TypeOK, Deferral, CachedAreScenes
  <2>4. CASE /\ pending # None /\ UNCHANGED pending
             /\ gate' = [OpenGate EXCEPT !.waited =
                           IF @ < FallbackUpdates THEN @ + 1 ELSE @]
    <3>1. OpenGate \in [picture : Picture, rendered : BOOLEAN, waited : 0..FallbackUpdates]
      BY <2>4, ActivationAssumption
      DEF OpenGate, PictureOf, Picture, Typed, TypeOK, Deferral, CachedAreScenes, ActivationAssumption
    <3>2. gate' \in [picture : Picture, rendered : BOOLEAN, waited : 0..FallbackUpdates]
      BY <2>4, <3>1, ActivationAssumption DEF ActivationAssumption
    <3>. QED BY <2>1, <2>4, <3>2 DEF Typed, TypeOK, Deferral, CachedAreScenes
  <2>. QED BY <1>2, <2>2, <2>3, <2>4 DEF ContinueWaits
<1>3. CASE ContinueFails
  <2>1. /\ pending # None /\ pending' = None /\ gate' = None /\ phase' = "admit"
        /\ Discard(PictureOf(pending.request, pending.cached))
        /\ results' = Replied(results, pending.request, "failed")
        /\ UNCHANGED <<requestVars, latest, newest, workerVars, cache, told, admitted,
                      stage, revalidation>>
    BY <1>3 DEF ContinueFails, Continues, RollBack
  <2>2. presentation' \in Picture \cup {None} /\ owner' \in Scenes \cup {None}
    BY <2>1, DiscardTyped
  <2>3. results' \in Seq(Answer) /\ Len(results') <= ResultCapacity
    BY <2>1, RepliedTyped DEF Typed, TypeOK, Deferral
  <2>. QED BY <2>1, <2>2, <2>3 DEF Typed, TypeOK, Deferral, CachedAreScenes
<1>4. CASE ContinueInstalls
  <2>1. /\ pending # None /\ pending' = None /\ phase' = "admit"
        /\ Install(pending.request, pending.cached, TRUE)
        /\ results' = Replied(results, pending.request, "activated")
        /\ UNCHANGED <<requestVars, latest, newest, workerVars, cache, told, admitted>>
    BY <1>4 DEF ContinueInstalls, Continues
  <2>2. /\ pending.request \in Requests /\ pending.cached \in Nat
        /\ TargetOf[pending.request] \in Scenes
    BY <2>1 DEF Typed, TypeOK, Deferral, CachedAreScenes
  <2>3. /\ stage' = pending.request /\ gate' = None
        /\ presentation' \in Picture \cup {None} /\ owner' \in Scenes \cup {None}
        /\ revalidation' \in Nat
    BY <2>1, <2>2, InstallTyped
  <2>4. results' \in Seq(Answer) /\ Len(results') <= ResultCapacity
    BY <2>1, <2>2, RepliedTyped DEF Typed, TypeOK, Deferral
  <2>5. stage' # None
    BY <2>2, <2>3, ActivationAssumption DEF ActivationAssumption
  <2>. QED BY <2>1, <2>2, <2>3, <2>4, <2>5 DEF Typed, TypeOK, Deferral, CachedAreScenes
<1>. QED BY <1>1, <1>2, <1>3, <1>4

LEMMA BackgroundKeepsTypes ==
  ASSUME Typed, BackgroundStep
  PROVE  Typed'
<1>. USE DEF requestVars, workerVars, screenVars
<1>1. ASSUME NEW scene \in Scenes, Warm(scene) PROVE Typed'
  <2>1. cache' \in [Scenes -> [generation : Nat, usable : BOOLEAN]]
    BY <1>1 DEF Warm, Typed, TypeOK, Deferral
  <2>. QED BY <1>1, <2>1 DEF Warm, Typed, TypeOK, Deferral, CachedAreScenes
<1>2. CASE FrameRendered
  <2>1. gate' \in [picture : Picture, rendered : BOOLEAN, waited : 0..FallbackUpdates]
    BY <1>2 DEF FrameRendered, Typed, TypeOK, Deferral
  <2>. QED BY <1>2, <2>1 DEF FrameRendered, Typed, TypeOK, Deferral, CachedAreScenes
<1>3. ASSUME NEW changed \in BOOLEAN, Revalidate(changed) PROVE Typed'
  <2>. DEFINE picture == PictureOf(stage, revalidation)
  <2>1. picture.scene \in Scenes
    BY <1>3 DEF Revalidate, PictureOf, Typed, TypeOK, Deferral, CachedAreScenes
  <2>2. /\ revalidation' = 0
        /\ UNCHANGED <<requestVars, latest, newest, workerVars, phase, pending, gate,
                      stage, results, told, admitted>>
        /\ \/ /\ Discard(picture)
              /\ cache' = IF cache[picture.scene].generation = revalidation
                            THEN [cache EXCEPT ![picture.scene] =
                                    [generation |-> @.generation + 1, usable |-> FALSE]]
                            ELSE cache
           \/ UNCHANGED <<presentation, owner, cache>>
    BY <1>3 DEF Revalidate
  <2>. HIDE DEF picture
  <2>3. cache' \in [Scenes -> [generation : Nat, usable : BOOLEAN]]
    <3>1. cache \in [Scenes -> [generation : Nat, usable : BOOLEAN]]
      BY DEF Typed, TypeOK
    <3>2. CASE cache' = cache
      BY <3>1, <3>2
    <3>3. CASE cache' = [cache EXCEPT ![picture.scene] =
                           [generation |-> @.generation + 1, usable |-> FALSE]]
      BY <2>1, <3>1, <3>3
    <3>. QED BY <2>2, <3>2, <3>3
  <2>4. presentation' \in Picture \cup {None} /\ owner' \in Scenes \cup {None}
    BY <2>2, DiscardTyped DEF Typed, TypeOK, Deferral
  <2>. QED BY <2>2, <2>3, <2>4 DEF Typed, TypeOK, Deferral, CachedAreScenes
<1>. QED BY <1>1, <1>2, <1>3 DEF BackgroundStep

\* Every step keeps the types.
LEMMA TypedStep == Typed /\ [Next]_vars => Typed'
<1>. SUFFICES ASSUME Typed, [Next]_vars PROVE Typed'
  OBVIOUS
<1>1. CASE Next
  BY <1>1, SessionsKeepTypes, WorkerKeepsTypes, AdmissionKeepsTypes,
     ApplicationKeepsTypes, ContinuationKeepsTypes, BackgroundKeepsTypes
  DEF Next, UpdateStep
<1>2. CASE UNCHANGED vars
  BY <1>2 DEF vars, requestVars, workerVars, screenVars, Typed, TypeOK, Deferral, CachedAreScenes
<1>. QED BY <1>1, <1>2

\* The activation state is well typed in every behaviour of the render host.
THEOREM ActivationTypeCorrect == Safety => []TypeOK
<1>1. Typed => TypeOK
  BY DEF Typed
<1>. QED BY <1>1, TypedInit, TypedStep, PTL DEF Safety

---------------------------------------------------------------------------
(* Deferred activations and the order of a session's stages.               *)

\* Where the admission map changes, the deferral is dropped; where a deferral is
\* made, its request was just found current.
LEMMA PendingStep ==
  ASSUME Typed, Typed', PendingIsCurrent, [Next]_vars
  PROVE  PendingIsCurrent'
<1>. USE DEF PendingIsCurrent, IsCurrent, requestVars, workerVars, screenVars
<1>1. CASE Admit
  BY <1>1 DEF Admit
<1>2. ASSUME NEW r \in Requests, Bootstrap(r) PROVE PendingIsCurrent'
  BY <1>2 DEF Bootstrap, Applies
<1>3. CASE ContinueWaits
  <2>1. /\ pending = None => pending' = None
        /\ pending # None => pending'.request = pending.request
    BY <1>3 DEF ContinueWaits, Typed, TypeOK, Deferral
  <2>2. latest' = latest
    BY <1>3 DEF ContinueWaits, Continues
  <2>. QED BY <2>1, <2>2
<1>4. CASE ContinueFails \/ ContinueInstalls
  BY <1>4 DEF ContinueFails, ContinueInstalls
<1>5. ASSUME latest' = latest, pending' = pending PROVE PendingIsCurrent'
  BY <1>5
<1>6. ASSUME NEW r \in Requests, Apply(r), ~Bootstrap(r) PROVE PendingIsCurrent'
  BY <1>5, <1>6 DEF Apply, ApplyFailure, ApplyEmpty, ApplyStage, Applies
<1>7. CASE SessionStep \/ Receive \/ WorkerStep \/ BackgroundStep
  BY <1>5, <1>7 DEF SessionStep, Connect, Disconnect, Send, Receive, WorkerStep, Take,
     Prepare, HandOver, BackgroundStep, Warm, FrameRendered, Revalidate
<1>8. CASE AdmitStale \/ EndAdmission \/ EndApplication
  BY <1>5, <1>8 DEF AdmitStale, EndAdmission, EndApplication
<1>9. CASE UNCHANGED vars
  BY <1>5, <1>9 DEF vars
<1>. QED BY <1>1, <1>2, <1>3, <1>4, <1>6, <1>7, <1>8, <1>9 DEF Next, UpdateStep

\* A deferred activation is the newest request of its session, for any number of
\* sessions and requests.
THEOREM DeferredIsCurrent == Safety => []PendingIsCurrent
<1>1. Init => PendingIsCurrent
  BY DEF Init, PendingIsCurrent
<1>2. Typed /\ PendingIsCurrent /\ [Next]_vars => (Typed /\ PendingIsCurrent)'
  BY TypedStep, PendingStep
<1>. QED BY <1>1, <1>2, TypedInit, PTL DEF Safety

\* A step either leaves the stage alone, or makes it that of a current request.
LEMMA StageStep ==
  ASSUME Typed, [Next]_vars
  PROVE  \/ stage' = stage
         \/ /\ stage' \in Requests /\ IsCurrent(stage')
            /\ latest' = latest
<1>. USE DEF requestVars, workerVars, screenVars
<1>1. ASSUME NEW r \in Requests, Apply(r)
      PROVE  stage' = stage \/ (stage' = r /\ IsCurrent(r) /\ latest' = latest)
  BY <1>1 DEF Apply, ApplyFailure, ApplyEmpty, ApplyStage, Bootstrap, Applies, Install
<1>2. CASE ContinueInstalls
  BY <1>2 DEF ContinueInstalls, Continues, Install, Typed, TypeOK, Deferral
<1>3. CASE ContinueWaits \/ ContinueFails
  BY <1>3 DEF ContinueWaits, ContinueFails
<1>4. CASE SessionStep \/ Receive \/ WorkerStep \/ BackgroundStep
  BY <1>4 DEF SessionStep, Connect, Disconnect, Send, Receive, WorkerStep, Take,
     Prepare, HandOver, BackgroundStep, Warm, FrameRendered, Revalidate
<1>5. CASE AdmitStale \/ Admit \/ EndAdmission \/ EndApplication
  BY <1>5 DEF AdmitStale, Admit, EndAdmission, EndApplication
<1>6. CASE UNCHANGED vars
  BY <1>6 DEF vars
<1>. QED BY <1>1, <1>2, <1>3, <1>4, <1>5, <1>6 DEF Next, UpdateStep

\* The admission map moves only to newer requests.
LEMMA LatestStep ==
  ASSUME Typed, [Next]_vars
  PROVE  \/ latest' = latest
         \/ /\ stage' = stage
            /\ \E r \in Requests :
                 /\ IsNewer(r)
                 /\ latest' = [latest EXCEPT ![SessionOf[r]] = r]
<1>. USE DEF requestVars, workerVars, screenVars
<1>1. CASE Admit
  BY <1>1, IngressHead DEF Admit
<1>2. ASSUME NEW r \in Requests, Apply(r) PROVE latest' = latest
  BY <1>2 DEF Apply, ApplyFailure, ApplyEmpty, ApplyStage, Bootstrap, Applies
<1>3. CASE ContinueWaits \/ ContinueFails \/ ContinueInstalls
  BY <1>3 DEF ContinueWaits, ContinueFails, ContinueInstalls, Continues
<1>4. CASE SessionStep \/ Receive \/ WorkerStep \/ BackgroundStep
  BY <1>4 DEF SessionStep, Connect, Disconnect, Send, Receive, WorkerStep, Take,
     Prepare, HandOver, BackgroundStep, Warm, FrameRendered, Revalidate
<1>5. CASE AdmitStale \/ EndAdmission \/ EndApplication
  BY <1>5 DEF AdmitStale, EndAdmission, EndApplication
<1>6. CASE UNCHANGED vars
  BY <1>6 DEF vars
<1>. QED BY <1>1, <1>2, <1>3, <1>4, <1>5, <1>6 DEF Next, UpdateStep

LEMMA StageIsPastStep ==
  ASSUME Typed, Typed', StageIsPast, [Next]_vars
  PROVE  StageIsPast'
<1>. USE DEF StageIsPast, IsCurrent
<1>1. CASE latest' = latest
  <2>1. CASE stage' = stage
    BY <1>1, <2>1
  <2>2. CASE stage' \in Requests /\ IsCurrent(stage')
    BY <1>1, <2>2, ActivationAssumption DEF ActivationAssumption
  <2>. QED BY <1>1, <2>1, <2>2, StageStep, ActivationAssumption DEF ActivationAssumption
<1>2. ASSUME stage' = stage, stage # None,
             NEW r \in Requests, IsNewer(r),
             latest' = [latest EXCEPT ![SessionOf[r]] = r]
      PROVE  StageIsPast'
  <2>. DEFINE last == latest[SessionOf[stage]]
  <2>1. /\ stage \in Requests /\ SessionOf[stage] \in Sessions /\ SessionOf[r] \in Sessions
        /\ last \in Requests /\ last # None /\ r # None
        /\ GenerationOf[stage] \in Nat /\ GenerationOf[last] \in Nat
        /\ GenerationOf[r] \in Nat
    BY <1>2, ActivationAssumption DEF Typed, TypeOK, ActivationAssumption
  <2>2. GenerationOf[stage] <= GenerationOf[last]
    BY <1>2, <2>1
  <2>3. CASE SessionOf[r] = SessionOf[stage]
    <3>1. latest'[SessionOf[stage]] = r
      BY <1>2, <2>1, <2>3 DEF Typed, TypeOK
    <3>2. GenerationOf[stage] < GenerationOf[r]
      BY <1>2, <2>1, <2>2, <2>3 DEF IsNewer
    <3>. QED BY <1>2, <2>1, <3>1, <3>2
  <2>4. CASE SessionOf[r] # SessionOf[stage]
    <3>1. latest'[SessionOf[stage]] = last
      BY <1>2, <2>1, <2>4 DEF Typed, TypeOK
    <3>. QED BY <1>2, <3>1
  <2>. QED BY <2>3, <2>4
<1>. QED BY <1>1, <1>2, LatestStep

\* No session's stage is ever replaced by one it asked for earlier, however late
\* the preparation finished.
THEOREM NoStageGoesBack == Safety => StageNeverGoesBack
<1>1. Init => StageIsPast
  BY DEF Init, StageIsPast
<1>2. Typed /\ StageIsPast /\ [Next]_vars => (Typed /\ StageIsPast)'
  BY TypedStep, StageIsPastStep
<1>3. ASSUME Typed, StageIsPast, [Next]_vars
      PROVE  [(stage' # stage /\ stage # None /\ SessionOf[stage'] = SessionOf[stage])
                => GenerationOf[stage'] > GenerationOf[stage]]_vars
  <2>1. ASSUME stage' # stage, stage # None, SessionOf[stage'] = SessionOf[stage]
        PROVE  GenerationOf[stage'] > GenerationOf[stage]
    <3>1. stage' \in Requests /\ IsCurrent(stage') /\ stage \in Requests
      BY <1>3, <2>1, StageStep DEF Typed, TypeOK
    <3>2. ~IsCurrent(stage) /\ latest[SessionOf[stage]] = stage'
      BY <2>1, <3>1 DEF IsCurrent
    <3>3. GenerationOf[stage] < GenerationOf[stage']
      BY <1>3, <2>1, <3>2 DEF StageIsPast
    <3>. QED BY <3>1, <3>3, ActivationAssumption DEF ActivationAssumption
  <2>. QED BY <2>1
<1>. QED BY <1>1, <1>2, <1>3, TypedInit, PTL DEF Safety, StageNeverGoesBack
---------------------------------------------------------------------------
(* What is on the screen.                                                  *)

\* The Scene is that of the live stage.
OfStage(scene) == stage # None /\ TargetOf[stage] = scene

\* The picture of the deferred activation is on the screen.
ShowsPending ==
  pending # None /\ presentation = PictureOf(pending.request, pending.cached)

\* What the live stage does not back is the picture of the deferred activation
\* itself, so that taking down just that picture leaves nothing behind.
ScreenInv ==
  /\ presentation # None => OfStage(presentation.scene) \/ ShowsPending
  /\ owner # None =>
       OfStage(owner) \/ (ShowsPending /\ TargetOf[pending.request] = owner)

LEMMA ScreenInvBacks ==
  ASSUME Typed, ScreenInv
  PROVE  ScreenIsBacked
<1>1. pending # None => pending.request # None
  BY ActivationAssumption DEF Typed, TypeOK, Deferral, ActivationAssumption
<1>2. ShowsPending => TargetOf[pending.request] = presentation.scene
  BY DEF ShowsPending, PictureOf
<1>. QED BY <1>1, <1>2 DEF ScreenInv, ScreenIsBacked, OfStage, ShowsPending

\* A deferral that is dropped takes its picture along, and the ownership.
LEMMA RollBackKeepsScreen ==
  ASSUME ScreenInv, pending # None, RollBack(pending), pending' = None, stage' = stage
  PROVE  ScreenInv'
<1>. DEFINE picture == PictureOf(pending.request, pending.cached)
<1>0. picture.scene = TargetOf[pending.request]
  BY DEF PictureOf
<1>1. CASE presentation = picture
  <2>1. presentation' = None /\ (owner' = None \/ (owner' = owner /\ owner # picture.scene))
    BY <1>1 DEF RollBack, Discard
  <2>. QED BY <1>0, <2>1 DEF ScreenInv, OfStage
<1>2. CASE presentation # picture
  <2>1. presentation' = presentation /\ owner' = owner /\ ~ShowsPending
    BY <1>2 DEF RollBack, Discard, ShowsPending
  <2>. QED BY <2>1 DEF ScreenInv, OfStage
<1>. QED BY <1>1, <1>2

\* A stage that is installed backs whatever is on the screen after it.
LEMMA InstallKeepsScreen ==
  ASSUME NEW r \in Requests, NEW cached, NEW continued \in BOOLEAN,
         Install(r, cached, continued)
  PROVE  ScreenInv'
<1>1. stage' = r /\ r # None
  BY ActivationAssumption DEF Install, ActivationAssumption
<1>2. presentation' = None \/ presentation' = PictureOf(r, cached)
  BY DEF Install
<1>3. owner' = None \/ owner' = TargetOf[r]
  BY DEF Install, OwnerOf
<1>4. PictureOf(r, cached).scene = TargetOf[r]
  BY DEF PictureOf
<1>. QED BY <1>1, <1>2, <1>3, <1>4 DEF ScreenInv, OfStage

LEMMA RevalidateKeepsScreen ==
  ASSUME ScreenInv, NEW changed \in BOOLEAN, Revalidate(changed)
  PROVE  ScreenInv'
<1>. DEFINE picture == PictureOf(stage, revalidation)
<1>1. stage' = stage /\ pending' = pending
  BY DEF Revalidate
<1>2. CASE changed /\ presentation = picture
  <2>1. presentation' = None /\ (owner' = None \/ (owner' = owner /\ owner # picture.scene))
    BY <1>2 DEF Revalidate, Discard
  <2>2. ShowsPending => TargetOf[pending.request] = picture.scene
    BY <1>2 DEF ShowsPending, PictureOf
  <2>. QED BY <1>1, <2>1, <2>2 DEF ScreenInv, OfStage
<1>3. CASE ~(changed /\ presentation = picture)
  BY <1>1, <1>3 DEF Revalidate, ScreenInv, OfStage, ShowsPending
<1>. QED BY <1>2, <1>3

LEMMA ScreenStep ==
  ASSUME Typed, ScreenInv, [Next]_vars
  PROVE  ScreenInv'
<1>. USE DEF requestVars, workerVars, screenVars
<1>0. ASSUME UNCHANGED <<pending, stage, presentation, owner>> PROVE ScreenInv'
  BY <1>0 DEF ScreenInv, OfStage, ShowsPending
<1>1. CASE Admit
  <2>1. pending' = None /\ stage' = stage
    BY <1>1 DEF Admit
  <2>2. CASE pending # None
    BY <1>1, <2>1, <2>2, RollBackKeepsScreen DEF Admit
  <2>3. CASE pending = None
    BY <1>0, <1>1, <2>1, <2>3 DEF Admit
  <2>. QED BY <2>2, <2>3
<1>2. ASSUME NEW r \in Requests, Apply(r) PROVE ScreenInv'
  <2>1. CASE ApplyFailure(r)
    BY <1>0, <2>1 DEF ApplyFailure
  <2>2. CASE ApplyEmpty(r)
    BY <2>2 DEF ApplyEmpty, ScreenInv
  <2>3. CASE ApplyStage(r)
    BY <2>3, InstallKeepsScreen DEF ApplyStage
  <2>4. CASE Bootstrap(r)
    <3>. DEFINE cached == Head(prepared).outcome.cached
    <3>1. /\ pending' = [request |-> r, cached |-> cached, wait |-> TRUE]
          /\ presentation' = PictureOf(r, cached) /\ owner' = TargetOf[r]
      BY <2>4 DEF Bootstrap
    <3>2. pending' # None
      <4>1. pending' \in Deferral
        BY <3>1, <2>4, PreparedHead DEF Bootstrap, Applies, CacheIsCurrent, Deferral
      <4>. QED BY <4>1, ActivationAssumption DEF ActivationAssumption
    <3>. QED BY <3>1, <3>2 DEF ScreenInv, ShowsPending
  <2>. QED BY <1>2, <2>1, <2>2, <2>3, <2>4 DEF Apply
<1>3. CASE ContinueWaits
  <2>1. UNCHANGED <<stage, presentation, owner>>
    BY <1>3 DEF ContinueWaits
  <2>2. \/ pending' = pending
        \/ pending # None /\ pending' = [pending EXCEPT !.wait = FALSE]
    BY <1>3 DEF ContinueWaits
  <2>3. CASE pending # None /\ pending' = [pending EXCEPT !.wait = FALSE]
    <3>1. pending'.request = pending.request /\ pending'.cached = pending.cached
      BY <2>3 DEF Typed, TypeOK, Deferral
    <3>2. pending' # None
      <4>1. pending' \in Deferral
        BY <2>3 DEF Typed, TypeOK, Deferral
      <4>. QED BY <4>1, ActivationAssumption DEF ActivationAssumption
    <3>. QED BY <2>1, <2>3, <3>1, <3>2 DEF ScreenInv, OfStage, ShowsPending, PictureOf
  <2>. QED BY <1>0, <2>1, <2>2, <2>3
<1>4. CASE ContinueFails
  BY <1>4, RollBackKeepsScreen DEF ContinueFails
<1>5. CASE ContinueInstalls
  <2>1. pending.request \in Requests
    BY <1>5 DEF ContinueInstalls, Typed, TypeOK, Deferral
  <2>. QED BY <1>5, <2>1, InstallKeepsScreen DEF ContinueInstalls
<1>6. ASSUME NEW changed \in BOOLEAN, Revalidate(changed) PROVE ScreenInv'
  BY <1>6, RevalidateKeepsScreen
<1>7. CASE SessionStep \/ Receive \/ WorkerStep \/ FrameRendered
           \/ \E scene \in Scenes : Warm(scene)
  BY <1>0, <1>7 DEF SessionStep, Connect, Disconnect, Send, Receive, WorkerStep, Take,
     Prepare, HandOver, Warm, FrameRendered
<1>8. CASE AdmitStale \/ EndAdmission \/ EndApplication
  BY <1>0, <1>8 DEF AdmitStale, EndAdmission, EndApplication
<1>9. CASE UNCHANGED vars
  BY <1>0, <1>9 DEF vars
<1>. QED BY <1>1, <1>2, <1>3, <1>4, <1>5, <1>6, <1>7, <1>8, <1>9
     DEF Next, UpdateStep, BackgroundStep

\* The cached picture and the Scene whose saves are tracked belong to the live
\* stage or to the activation that is about to replace it, for any number of
\* sessions, requests and Scenes.
THEOREM ScreenBelongsToSomething == Safety => []ScreenIsBacked
<1>1. Init => ScreenInv
  BY DEF Init, ScreenInv
<1>2. Typed /\ ScreenInv /\ [Next]_vars => (Typed /\ ScreenInv)'
  BY TypedStep, ScreenStep
<1>3. Typed /\ ScreenInv => ScreenIsBacked
  BY ScreenInvBacks
<1>. QED BY <1>1, <1>2, <1>3, TypedInit, PTL DEF Safety
---------------------------------------------------------------------------
(* Where a request is.                                                     *)

Asked    == {ingress[i] : i \in DOMAIN ingress}
Slotted  == {slot} \ {None}
Taken    == {worker.request} \ {None}
Found    == {prepared[i].request : i \in DOMAIN prepared}
Deferred == IF pending = None THEN {} ELSE {pending.request}
Replying == {results[i][1] : i \in DOMAIN results}
Told     == {answer[1] : answer \in told}

\* No place holds a request twice.
Once ==
  /\ \A i, j \in DOMAIN ingress : ingress[i] = ingress[j] => i = j
  /\ \A i, j \in DOMAIN prepared : prepared[i].request = prepared[j].request => i = j
  /\ \A i, j \in DOMAIN results : results[i][1] = results[j][1] => i = j
  /\ \A a, b \in told : a[1] = b[1] => a = b

\* No two places hold the same request.
Apart ==
  /\ Asked \cap (Slotted \cup Taken \cup Found \cup Deferred \cup Replying \cup Told) = {}
  /\ Slotted \cap (Taken \cup Found \cup Deferred \cup Replying \cup Told) = {}
  /\ Taken \cap (Found \cup Deferred \cup Replying \cup Told) = {}
  /\ Found \cap (Deferred \cup Replying \cup Told) = {}
  /\ Deferred \cap (Replying \cup Told) = {}
  /\ Replying \cap Told = {}

\* A request is nowhere before it is sent.
OnlySent ==
  Asked \cup Slotted \cup Taken \cup Found \cup Deferred \cup Replying \cup Told
    \subseteq sent

PlaceInv == Once /\ Apart /\ OnlySent

\* A place that holds the answer to a request holds one, and only one place does.
LEMMA PlacesAnswerOnce ==
  ASSUME PlaceInv
  PROVE  AnsweredOnce
<1>. SUFFICES ASSUME NEW r \in Requests
              PROVE  Cardinality({i \in DOMAIN results : results[i][1] = r})
                       + Cardinality({answer \in told : answer[1] = r}) <= 1
  BY DEF AnsweredOnce
<1>. DEFINE I == {i \in DOMAIN results : results[i][1] = r}
            A == {answer \in told : answer[1] = r}
<1>1. I = {} \/ \E i : I = {i}
  <2>1. \A i, j \in I : i = j
    BY DEF PlaceInv, Once
  <2>. HIDE DEF I
  <2>. QED BY <2>1
<1>2. A = {} \/ \E a : A = {a}
  <2>1. \A a, b \in A : a = b
    BY DEF PlaceInv, Once
  <2>. HIDE DEF A
  <2>. QED BY <2>1
<1>3. I = {} \/ A = {}
  <2>1. I # {} => r \in Replying
    BY DEF Replying
  <2>2. A # {} => r \in Told
    BY DEF Told
  <2>. QED BY <2>1, <2>2 DEF PlaceInv, Apart
<1>4. (I = {} => Cardinality(I) = 0) /\ (A = {} => Cardinality(A) = 0)
  BY FS_EmptySet
<1>5. (\E i : I = {i}) => Cardinality(I) = 1
  BY FS_Singleton
<1>6. (\E a : A = {a}) => Cardinality(A) = 1
  BY FS_Singleton
<1>. HIDE DEF I, A
<1>7. Cardinality(I) + Cardinality(A) <= 1
  BY <1>1, <1>2, <1>3, <1>4, <1>5, <1>6
<1>. QED BY <1>7 DEF I, A

\* The head of the ingress leaves it.
LEMMA IngressLeft ==
  ASSUME Typed, Once, ingress # <<>>, ingress' = Tail(ingress)
  PROVE  /\ Head(ingress) \in Asked /\ Asked' \subseteq Asked \ {Head(ingress)}
         /\ \A i, j \in DOMAIN ingress' : ingress'[i] = ingress'[j] => i = j
<1>1. /\ ingress \in Seq(Requests)
  BY DEF Typed, TypeOK
<1>2. /\ Head(ingress) = ingress[1] /\ 1 \in DOMAIN ingress
      /\ \A i \in DOMAIN ingress' : i + 1 \in DOMAIN ingress /\ ingress'[i] = ingress[i + 1]
      /\ ingress' \in Seq(Requests)
  BY <1>1, HeadTail
<1>3. \A i \in DOMAIN ingress' : i \in Nat /\ i + 1 # 1
  BY <1>2
<1>. QED BY <1>2, <1>3 DEF Once, Asked

\* The head of the channel leaves it.
LEMMA PreparedLeft ==
  ASSUME Typed, Once, prepared # <<>>, prepared' = Tail(prepared)
  PROVE  /\ Head(prepared).request \in Found
         /\ Found' \subseteq Found \ {Head(prepared).request}
         /\ \A i, j \in DOMAIN prepared' :
              prepared'[i].request = prepared'[j].request => i = j
<1>1. prepared \in Seq(Prepared)
  BY DEF Typed, TypeOK
<1>2. /\ Head(prepared) = prepared[1] /\ 1 \in DOMAIN prepared
      /\ \A i \in DOMAIN prepared' :
           i + 1 \in DOMAIN prepared /\ prepared'[i] = prepared[i + 1]
      /\ prepared' \in Seq(Prepared)
  BY <1>1, HeadTail
<1>3. \A i \in DOMAIN prepared' : i \in Nat /\ i + 1 # 1
  BY <1>2
<1>. QED BY <1>2, <1>3 DEF Once, Found

\* The elements of a sequence that got one more.
LEMMA Appended ==
  ASSUME NEW S, NEW q \in Seq(S), NEW e \in S
  PROVE  /\ Append(q, e) \in Seq(S)
         /\ \A i \in DOMAIN Append(q, e) :
              \/ i \in DOMAIN q /\ Append(q, e)[i] = q[i]
              \/ i = Len(q) + 1 /\ Append(q, e)[i] = e
BY AppendProperties

\* A reply that is published is queued once, unless it is forgotten.
LEMMA RepliedOnce ==
  ASSUME Typed, Once, NEW r \in Requests \ Replying, NEW answer \in {"activated", "failed"},
         results' = Replied(results, r, answer)
  PROVE  /\ Replying' \subseteq Replying \cup {r}
         /\ \A i, j \in DOMAIN results' : results'[i][1] = results'[j][1] => i = j
<1>1. results \in Seq(Answer) /\ <<r, answer>> \in Answer
  BY DEF Typed, TypeOK, Answer
<1>2. CASE results' = results
  BY <1>2 DEF Once, Replying
<1>3. CASE results' = Append(results, <<r, answer>>)
  <2>1. \A i \in DOMAIN results' :
          \/ i \in DOMAIN results /\ results'[i] = results[i]
          \/ i = Len(results) + 1 /\ results'[i][1] = r
    BY <1>1, <1>3, Appended
  <2>2. \A i \in DOMAIN results : results[i][1] # r
    BY DEF Replying
  <2>. QED BY <2>1, <2>2 DEF Once, Replying
<1>. QED BY <1>2, <1>3 DEF Replied

\* The elements of a sequence that lost one.
LEMMA Removed ==
  ASSUME NEW S, NEW q \in Seq(S), NEW i \in DOMAIN q
  PROVE  LET rest == SubSeq(q, 1, i - 1) \o SubSeq(q, i + 1, Len(q)) IN
         \A k \in DOMAIN rest :
           \/ k \in DOMAIN q /\ k < i /\ rest[k] = q[k]
           \/ k + 1 \in DOMAIN q /\ k >= i /\ rest[k] = q[k + 1]
<1>1. /\ i \in 1..Len(q) /\ Len(q) \in Nat /\ DOMAIN q = 1..Len(q)
      /\ i \in Nat /\ i >= 1 /\ i <= Len(q)
  OBVIOUS
<1>. DEFINE before == SubSeq(q, 1, i - 1)
            after == SubSeq(q, i + 1, Len(q))
            rest == before \o after
<1>2. /\ before \in Seq(S) /\ Len(before) = i - 1
      /\ \A k \in 1..(i - 1) : before[k] = q[k]
  BY <1>1
<1>3. /\ after \in Seq(S) /\ Len(after) = Len(q) - i
      /\ \A k \in 1..(Len(q) - i) : after[k] = q[k + i]
  <2>1. \A k \in (i + 1)..Len(q) : q[k] \in S
    BY <1>1
  <2>2. /\ after \in Seq(S)
        /\ Len(after) = IF i + 1 <= Len(q) THEN Len(q) - (i + 1) + 1 ELSE 0
        /\ \A k \in 1..(Len(q) - (i + 1) + 1) : after[k] = q[(i + 1) + k - 1]
    BY <1>1, <2>1, SubSeqProperties
  <2>3. Len(q) - (i + 1) + 1 = Len(q) - i
    BY <1>1
  <2>. HIDE DEF after
  <2>4. ASSUME NEW k \in 1..(Len(q) - i) PROVE after[k] = q[k + i]
    <3>1. (i + 1) + k - 1 = k + i
      BY <1>1
    <3>2. after[k] = q[(i + 1) + k - 1]
      BY <2>2, <2>3
    <3>. QED BY <3>1, <3>2
  <2>5. Len(after) = Len(q) - i
    BY <1>1, <2>2
  <2>. QED BY <2>2, <2>4, <2>5
<1>. HIDE DEF before, after
<1>4. /\ Len(before \o after) = Len(q) - 1 /\ before \o after \in Seq(S)
      /\ \A k \in 1..(Len(q) - 1) :
           (before \o after)[k] = IF k <= i - 1 THEN before[k] ELSE after[k - (i - 1)]
  <2>1. Len(before) + Len(after) = Len(q) - 1
    BY <1>1, <1>2, <1>3
  <2>2. /\ before \o after \in Seq(S)
        /\ Len(before \o after) = Len(before) + Len(after)
        /\ \A k \in 1..Len(before) + Len(after) :
             (before \o after)[k] = IF k <= Len(before) THEN before[k]
                                    ELSE after[k - Len(before)]
    BY <1>2, <1>3, ConcatProperties
  <2>. QED BY <1>2, <2>1, <2>2
<1>5. DOMAIN rest = 1..(Len(q) - 1)
  BY <1>4
<1>. HIDE DEF rest
<1>6. ASSUME NEW k \in 1..(Len(q) - 1)
      PROVE  \/ k \in DOMAIN q /\ k < i /\ rest[k] = q[k]
             \/ k + 1 \in DOMAIN q /\ k >= i /\ rest[k] = q[k + 1]
  <2>a. k \in Nat /\ k \in 1..Len(q) /\ k + 1 \in 1..Len(q)
    BY <1>1
  <2>b. rest[k] = IF k <= i - 1 THEN before[k] ELSE after[k - (i - 1)]
    BY <1>4 DEF rest
  <2>0. /\ k \in Nat /\ k \in 1..Len(q) /\ k + 1 \in 1..Len(q)
        /\ rest[k] = IF k <= i - 1 THEN before[k] ELSE after[k - (i - 1)]
    BY <2>a, <2>b
  <2>1. CASE k < i
    <3>1. k <= i - 1 /\ k \in 1..(i - 1)
      BY <1>1, <2>0, <2>1
    <3>. QED BY <1>1, <1>2, <2>0, <2>1, <3>1
  <2>2. CASE k >= i
    <3>1. ~(k <= i - 1)
      BY <1>1, <2>0, <2>2
    <3>2. k - (i - 1) \in 1..(Len(q) - i)
      BY <1>1, <2>0, <2>2
    <3>3. (k - (i - 1)) + i = k + 1
      BY <1>1, <2>0
    <3>4. after[k - (i - 1)] = q[k + 1]
      BY <1>3, <3>2, <3>3
    <3>. QED BY <1>1, <2>0, <2>2, <3>1, <3>4
  <2>3. k < i \/ k >= i
    BY <1>1, <2>0
  <2>. QED BY <2>1, <2>2, <2>3
<1>. QED BY <1>5, <1>6 DEF before, after, rest

\* What a step leaves alone keeps what it holds.
LEMMA PlacesUnchanged ==
  /\ ingress' = ingress => Asked' = Asked
  /\ slot' = slot => Slotted' = Slotted
  /\ worker'.request = worker.request => Taken' = Taken
  /\ prepared' = prepared => Found' = Found
  /\ pending' = pending => Deferred' = Deferred
  /\ results' = results => Replying' = Replying
  /\ told' = told => Told' = Told
  /\ UNCHANGED <<ingress, prepared, results, told>> /\ Once => Once'
BY DEF Asked, Slotted, Taken, Found, Deferred, Replying, Told, Once

LEMMA SendKeepsPlaces ==
  ASSUME Typed, PlaceInv, NEW r \in Requests, Send(r)
  PROVE  PlaceInv'
<1>1. /\ r \notin sent /\ sent' = sent \cup {r} /\ ingress' = Append(ingress, r)
      /\ UNCHANGED <<slot, worker, prepared, pending, results, told>>
  BY DEF Send, workerVars, screenVars
<1>2. /\ Asked' \subseteq Asked \cup {r}
      /\ \A i, j \in DOMAIN ingress' : ingress'[i] = ingress'[j] => i = j
  <2>1. ingress \in Seq(Requests)
    BY DEF Typed, TypeOK
  <2>2. \A i \in DOMAIN ingress' :
          \/ i \in DOMAIN ingress /\ ingress'[i] = ingress[i]
          \/ i = Len(ingress) + 1 /\ ingress'[i] = r
    BY <1>1, <2>1, Appended
  <2>3. r \notin Asked
    BY <1>1 DEF PlaceInv, OnlySent
  <2>. QED BY <2>2, <2>3 DEF Asked, PlaceInv, Once
<1>3. Once'
  BY <1>1, <1>2 DEF PlaceInv, Once
<1>. QED BY <1>1, <1>2, <1>3, PlacesUnchanged DEF PlaceInv, Apart, OnlySent

LEMMA ReceiveKeepsPlaces ==
  ASSUME Typed, PlaceInv, Receive
  PROVE  PlaceInv'
<1>1. PICK i \in DOMAIN results :
        /\ told' = told \cup {results[i]}
        /\ results' = SubSeq(results, 1, i - 1) \o SubSeq(results, i + 1, Len(results))
        /\ UNCHANGED <<sent, ingress, slot, worker, prepared, pending>>
  BY DEF Receive, requestVars, workerVars, screenVars
<1>. DEFINE r == results[i][1]
<1>2. results \in Seq(Answer)
  BY DEF Typed, TypeOK
<1>3. \A k \in DOMAIN results' :
        \/ k \in DOMAIN results /\ k < i /\ results'[k] = results[k]
        \/ k + 1 \in DOMAIN results /\ k >= i /\ results'[k] = results[k + 1]
  BY <1>1, <1>2, Removed
<1>4. i \in Nat /\ \A k \in DOMAIN results : k \in Nat
  BY <1>2
<1>5. \A k \in DOMAIN results' : k \in Nat
  BY <1>1, <1>2, RemovedTyped
<1>6. r \in Replying /\ r \notin Told
  BY DEF Replying, PlaceInv, Apart
<1>7. Replying' \subseteq Replying \ {r}
  <2>1. ASSUME NEW k \in DOMAIN results'
        PROVE  results'[k][1] \in Replying /\ results'[k][1] # r
    <3>1. CASE k \in DOMAIN results /\ k < i /\ results'[k] = results[k]
      BY <1>4, <3>1 DEF Replying, PlaceInv, Once
    <3>2. CASE k + 1 \in DOMAIN results /\ k >= i /\ results'[k] = results[k + 1]
      <4>1. k + 1 # i
        BY <1>4, <1>5, <3>2
      <4>. QED BY <3>2, <4>1 DEF Replying, PlaceInv, Once
    <3>. QED BY <1>3, <3>1, <3>2
  <2>. QED BY <2>1 DEF Replying
<1>8. \A k, m \in DOMAIN results' : results'[k][1] = results'[m][1] => k = m
  <2>. SUFFICES ASSUME NEW k \in DOMAIN results', NEW m \in DOMAIN results',
                       results'[k][1] = results'[m][1]
                PROVE  k = m
    OBVIOUS
  <2>1. \A a, b \in DOMAIN results : results[a][1] = results[b][1] => a = b
    BY DEF PlaceInv, Once
  <2>2. k \in Nat /\ m \in Nat
    BY <1>5
  <2>. QED BY <1>3, <1>4, <2>1, <2>2
<1>9. Told' \subseteq Told \cup {r} /\ \A a, b \in told' : a[1] = b[1] => a = b
  BY <1>1, <1>6 DEF Told, PlaceInv, Once
<1>10. Once'
  BY <1>1, <1>8, <1>9 DEF PlaceInv, Once
<1>. HIDE DEF r
<1>. QED BY <1>1, <1>6, <1>7, <1>9, <1>10, PlacesUnchanged DEF PlaceInv, Apart, OnlySent

LEMMA WorkerKeepsPlaces ==
  ASSUME Typed, PlaceInv, WorkerStep
  PROVE  PlaceInv'
<1>1. CASE Take
  <2>1. /\ slot # None /\ worker.request = None /\ worker'.request = slot /\ slot' = None
        /\ UNCHANGED <<sent, ingress, prepared, pending, results, told>>
    BY <1>1 DEF Take, requestVars, screenVars
  <2>2. Slotted = {slot} /\ Slotted' = {} /\ Taken = {} /\ Taken' = {slot}
    BY <2>1 DEF Slotted, Taken
  <2>. QED BY <2>1, <2>2, PlacesUnchanged DEF PlaceInv, Apart, OnlySent
<1>2. CASE Prepare
  <2>1. /\ worker'.request = worker.request
        /\ UNCHANGED <<sent, ingress, slot, prepared, pending, results, told>>
    BY <1>2 DEF Prepare, requestVars, screenVars
  <2>. QED BY <2>1, PlacesUnchanged DEF PlaceInv, Apart, OnlySent
<1>3. CASE HandOver
  <2>. DEFINE r == worker.request
  <2>1. /\ prepared' = Append(prepared, worker) /\ worker'.request = None
        /\ UNCHANGED <<sent, ingress, slot, pending, results, told>>
    BY <1>3 DEF HandOver, requestVars, screenVars
  <2>2. worker \in Prepared /\ prepared \in Seq(Prepared) /\ r # None
    BY <1>3, ActivationAssumption DEF HandOver, Typed, TypeOK, Prepared, ActivationAssumption
  <2>3. \A i \in DOMAIN prepared' :
          \/ i \in DOMAIN prepared /\ prepared'[i] = prepared[i]
          \/ i = Len(prepared) + 1 /\ prepared'[i] = worker
    BY <2>1, <2>2, Appended
  <2>4. Taken = {r} /\ Taken' = {} /\ r \notin Found
    BY <2>1, <2>2 DEF Taken, PlaceInv, Apart
  <2>5. Found' \subseteq Found \cup {r}
    BY <2>3 DEF Found
  <2>6. \A i, j \in DOMAIN prepared' : prepared'[i].request = prepared'[j].request => i = j
    BY <2>3, <2>4 DEF Found, PlaceInv, Once
  <2>7. Once'
    BY <2>1, <2>6 DEF PlaceInv, Once
  <2>. HIDE DEF r
  <2>. QED BY <2>1, <2>4, <2>5, <2>7, PlacesUnchanged DEF PlaceInv, Apart, OnlySent
<1>. QED BY <1>1, <1>2, <1>3 DEF WorkerStep

LEMMA AdmissionKeepsPlaces ==
  ASSUME Typed, PlaceInv, AdmitStale \/ Admit
  PROVE  PlaceInv'
<1>. DEFINE r == Head(ingress)
<1>1. /\ ingress # <<>> /\ ingress' = Tail(ingress)
      /\ UNCHANGED <<sent, worker, prepared, told>>
  BY DEF AdmitStale, Admit, workerVars
<1>2. /\ r \in Requests /\ r \in Asked /\ Asked' \subseteq Asked \ {r}
      /\ \A i, j \in DOMAIN ingress' : ingress'[i] = ingress'[j] => i = j
  BY <1>1, IngressHead, IngressLeft DEF PlaceInv
<1>3. r # None /\ Once
  BY <1>2, ActivationAssumption DEF ActivationAssumption, PlaceInv
<1>4. CASE AdmitStale
  <2>1. results' = Replied(results, r, "failed") /\ UNCHANGED <<slot, pending>>
    BY <1>4 DEF AdmitStale, workerVars, screenVars
  <2>2. r \notin Replying
    BY <1>2 DEF PlaceInv, Apart
  <2>3. /\ Replying' \subseteq Replying \cup {r}
        /\ \A i, j \in DOMAIN results' : results'[i][1] = results'[j][1] => i = j
    BY <1>2, <1>3, <2>1, <2>2, RepliedOnce
  <2>4. Once'
    BY <1>1, <1>2, <2>3 DEF PlaceInv, Once
  <2>. HIDE DEF r
  <2>. QED BY <1>1, <1>2, <2>1, <2>3, <2>4, PlacesUnchanged DEF PlaceInv, Apart, OnlySent
<1>5. CASE Admit
  <2>1. /\ slot' = r /\ pending' = None
        /\ results' = IF slot = None THEN results ELSE Replied(results, slot, "failed")
    BY <1>5 DEF Admit
  <2>2. Slotted' = {r} /\ Deferred' = {}
    BY <1>3, <2>1 DEF Slotted, Deferred
  <2>3. /\ Replying' \subseteq Replying \cup Slotted
        /\ \A i, j \in DOMAIN results' : results'[i][1] = results'[j][1] => i = j
    <3>1. CASE slot = None
      BY <1>3, <2>1, <3>1, PlacesUnchanged DEF Once
    <3>2. CASE slot # None
      <4>1. slot \in Requests /\ Slotted = {slot} /\ slot \notin Replying
        BY <3>2 DEF Typed, TypeOK, Slotted, PlaceInv, Apart
      <4>. QED BY <1>3, <2>1, <3>2, <4>1, RepliedOnce
    <3>. QED BY <3>1, <3>2
  <2>4. Once'
    BY <1>1, <1>2, <2>3 DEF PlaceInv, Once
  <2>. HIDE DEF r
  <2>. QED BY <1>1, <1>2, <2>2, <2>3, <2>4, PlacesUnchanged DEF PlaceInv, Apart, OnlySent
<1>. QED BY <1>4, <1>5

LEMMA ApplicationKeepsPlaces ==
  ASSUME Typed, PlaceInv, NEW r \in Requests, Apply(r)
  PROVE  PlaceInv'
<1>1. /\ prepared # <<>> /\ r = Head(prepared).request /\ prepared' = Tail(prepared)
      /\ UNCHANGED <<sent, ingress, slot, worker, told>>
  BY DEF Apply, ApplyFailure, ApplyEmpty, ApplyStage, Bootstrap, Applies, requestVars
<1>2. /\ r \in Found /\ Found' \subseteq Found \ {r}
      /\ \A i, j \in DOMAIN prepared' : prepared'[i].request = prepared'[j].request => i = j
  BY <1>1, PreparedLeft DEF PlaceInv
<1>3. r # None /\ Once
  BY ActivationAssumption DEF ActivationAssumption, PlaceInv
<1>4. CASE Bootstrap(r)
  <2>1. results' = results /\ pending'.request = r
    BY <1>4 DEF Bootstrap, Applies
  <2>2. Deferred' \subseteq {r}
    BY <2>1 DEF Deferred
  <2>3. Once'
    BY <1>1, <1>2, <2>1 DEF PlaceInv, Once
  <2>. QED BY <1>1, <1>2, <2>1, <2>2, <2>3, PlacesUnchanged DEF PlaceInv, Apart, OnlySent
<1>5. CASE ApplyFailure(r) \/ ApplyEmpty(r) \/ ApplyStage(r)
  <2>1. /\ \E answer \in {"activated", "failed"} : results' = Replied(results, r, answer)
        /\ pending' = pending
    BY <1>5 DEF ApplyFailure, ApplyEmpty, ApplyStage, Applies, screenVars
  <2>2. r \notin Replying
    BY <1>2 DEF PlaceInv, Apart
  <2>3. /\ Replying' \subseteq Replying \cup {r}
        /\ \A i, j \in DOMAIN results' : results'[i][1] = results'[j][1] => i = j
    BY <1>3, <2>1, <2>2, RepliedOnce
  <2>4. Once'
    BY <1>1, <1>2, <2>3 DEF PlaceInv, Once
  <2>. QED BY <1>1, <1>2, <2>1, <2>3, <2>4, PlacesUnchanged DEF PlaceInv, Apart, OnlySent
<1>. QED BY <1>4, <1>5 DEF Apply

LEMMA ContinuationKeepsPlaces ==
  ASSUME Typed, PlaceInv, ContinueWaits \/ ContinueFails \/ ContinueInstalls
  PROVE  PlaceInv'
<1>1. UNCHANGED <<sent, ingress, slot, worker, prepared, told>>
  BY DEF ContinueWaits, ContinueFails, ContinueInstalls, Continues, requestVars, workerVars
<1>2. CASE ContinueWaits
  <2>1. results' = results
    BY <1>2 DEF ContinueWaits
  <2>2. Deferred' \subseteq Deferred
    <3>1. CASE pending' = pending
      BY <3>1, PlacesUnchanged
    <3>2. CASE pending # None /\ pending' = [pending EXCEPT !.wait = FALSE]
      BY <3>2 DEF Deferred, Typed, TypeOK, Deferral
    <3>. QED BY <1>2, <3>1, <3>2 DEF ContinueWaits
  <2>. QED BY <1>1, <2>1, <2>2, PlacesUnchanged DEF PlaceInv, Apart, OnlySent
<1>3. CASE ContinueFails \/ ContinueInstalls
  <2>. DEFINE r == pending.request
  <2>1. /\ pending # None /\ pending' = None
        /\ \E answer \in {"activated", "failed"} : results' = Replied(results, r, answer)
    BY <1>3 DEF ContinueFails, ContinueInstalls
  <2>2. r \in Requests /\ Deferred = {r} /\ Deferred' = {} /\ r \notin Replying
    BY <2>1 DEF Typed, TypeOK, Deferral, Deferred, PlaceInv, Apart
  <2>. HIDE DEF r
  <2>3. /\ Replying' \subseteq Replying \cup {r}
        /\ \A i, j \in DOMAIN results' : results'[i][1] = results'[j][1] => i = j
    BY <2>1, <2>2, RepliedOnce DEF PlaceInv
  <2>4. Once'
    BY <1>1, <2>3 DEF PlaceInv, Once
  <2>. QED BY <1>1, <2>2, <2>3, <2>4, PlacesUnchanged DEF PlaceInv, Apart, OnlySent
<1>. QED BY <1>2, <1>3

LEMMA PlacesStep ==
  ASSUME Typed, PlaceInv, [Next]_vars
  PROVE  PlaceInv'
<1>. USE DEF requestVars, workerVars, screenVars
<1>1. ASSUME UNCHANGED <<sent, ingress, slot, worker, prepared, pending, results, told>>
      PROVE  PlaceInv'
  BY <1>1, PlacesUnchanged DEF PlaceInv, Apart, OnlySent
<1>2. CASE Disconnect \/ \E s \in Sessions : Connect(s)
  BY <1>1, <1>2 DEF Disconnect, Connect
<1>3. CASE EndAdmission \/ EndApplication
  BY <1>1, <1>3 DEF EndAdmission, EndApplication
<1>4. CASE BackgroundStep
  BY <1>1, <1>4 DEF BackgroundStep, Warm, FrameRendered, Revalidate
<1>5. CASE UNCHANGED vars
  BY <1>1, <1>5 DEF vars
<1>. QED BY <1>2, <1>3, <1>4, <1>5, SendKeepsPlaces, ReceiveKeepsPlaces, WorkerKeepsPlaces,
     AdmissionKeepsPlaces, ApplicationKeepsPlaces, ContinuationKeepsPlaces
     DEF Next, SessionStep, UpdateStep

\* No request is answered twice, for any number of sessions and requests: not by the
\* slot it lost and the thread that had it, not by its bootstrap and its continuation.
THEOREM NoRequestAnsweredTwice == Safety => []AnsweredOnce
<1>1. Init => PlaceInv
  <2>. SUFFICES ASSUME Init PROVE PlaceInv
    OBVIOUS
  <2>1. /\ ingress = <<>> /\ slot = None /\ worker.request = None /\ prepared = <<>>
        /\ pending = None /\ results = <<>> /\ told = {}
    BY DEF Init
  <2>2. /\ Asked = {} /\ Slotted = {} /\ Taken = {} /\ Found = {}
        /\ Deferred = {} /\ Replying = {} /\ Told = {}
    BY <2>1 DEF Asked, Slotted, Taken, Found, Deferred, Replying, Told
  <2>3. Once
    BY <2>1 DEF Once
  <2>. QED BY <2>2, <2>3 DEF PlaceInv, Apart, OnlySent
<1>2. Typed /\ PlaceInv /\ [Next]_vars => (Typed /\ PlaceInv)'
  BY TypedStep, PlacesStep
<1>. QED BY <1>1, <1>2, TypedInit, PlacesAnswerOnce, PTL DEF Safety
=============================================================================
