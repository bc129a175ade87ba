--------------------------- MODULE ViewportProofs ---------------------------
(***************************************************************************)
(* What a viewer is shown. First the shared video stream, for any number   *)
(* of clients, generations and failures of an encoder: a configuration the *)
(* router gives to a target is always the shared one or its predecessor,   *)
(* each encoder has the caps of the current configuration of its target,   *)
(* and no frame that was sent for a current configuration can be taken for *)
(* one that is still expected. Then the projection of the LiveStage, for   *)
(* any tree of prims: while it shows a generation, whatever an entity gets *)
(* wrong is known to a notice or to the batch of the frame.                *)
(***************************************************************************)
EXTENDS StreamConfiguration, LiveProjection, TLAPS

Applications ==
  [phase : {"New", "Open", "Leaving", "Gone"}, role : {"Controller", "Observer", None},
   slot : Known, latest : Generations, told : BOOLEAN]

Sends == [to : Sessions, frame : Generations, expected : Known]

StreamTyped ==
  /\ interface \in [latest : Generations, slot : Known]
  /\ target \in Generations /\ frames \in Seq(Generations)
  /\ application \in [Sessions -> Applications]
  /\ controller \in Sessions \cup {None}
  /\ manager \in Tasks \cup {None}
  /\ shared \in [expected : Known, current : Known]
  /\ router \in [Sessions -> Configurations \cup {None}]
  /\ sends \subseteq Sends
  /\ encoderQueue \in [Sessions -> Seq(Requests)]
  /\ worker \in [Sessions -> Work \cup {None}]
  /\ caps \in [Sessions -> Generations]

\* The requests on their way to the worker of a session.
OnTheWay(s) ==
  {[frame |-> m.frame, expected |-> m.expected] : m \in {n \in sends : n.to = s}}
    \cup {encoderQueue[s][i] : i \in DOMAIN encoderQueue[s]}

\* A session has a target just while it is open, and nothing before that.
Seated(s) ==
  /\ application[s].phase = "New" =>
       router[s] = None /\ worker[s] = None /\ OnTheWay(s) = {}
  /\ s \in Targets <=> application[s].phase = "Open"
  /\ manager = [does |-> "Connect", for |-> s] => application[s].phase = "New"
  /\ manager = [does |-> "Drop", for |-> s] => application[s].phase = "Leaving"

\* A target that expects a configuration has none.
Undecided == \A s \in Targets : router[s].expected # None => router[s].current = None

\* A frame that belongs to the current configuration is older than what is expected.
Ordered(s) ==
  \A r \in OnTheWay(s) :
    /\ r.expected \in {None, r.frame}
    /\ r.expected = None /\ s \in Targets =>
         /\ r.frame <= Newest
         /\ router[s].expected # None => r.frame < router[s].expected

\* The encoder of a session has the caps of its target's configuration.
Fitted(s) ==
  /\ At(s, "Push") \/ At(s, "Apply") => caps[s] = worker[s].request.frame
  /\ At(s, "Caps") \/ At(s, "Apply") =>
       worker[s].request.expected = worker[s].request.frame
  /\ At(s, "Caps") /\ s \in Targets /\ router[s].current # None =>
       router[s].current = worker[s].request.frame
  /\ worker[s] # None =>
       worker[s].request.expected \in {None, worker[s].request.frame}
  /\ s \in Targets /\ router[s].current # None => caps[s] = router[s].current
  /\ manager = [does |-> "Connect", for |-> s] => caps[s] = Newest

StreamInv ==
  /\ StreamTyped
  /\ TargetsFollowShared /\ Undecided
  /\ \A s \in Sessions : Seated(s) /\ Ordered(s) /\ Fitted(s)

-----------------------------------------------------------------------------
(* Types                                                                   *)

LEMMA StreamInitial == StreamInit => StreamInv
<1> SUFFICES ASSUME StreamInit PROVE StreamInv
  OBVIOUS
<1>1. MaxGeneration \in Nat \ {0} /\ None \notin Nat
  BY StreamAssumption
<1>2. 0 \in Generations /\ None \in Known /\ 0 \in Known
  BY <1>1 DEF Generations, Known
<1>3. NoSession \in Applications
  BY <1>2 DEF NoSession, Applications
<1>4. StreamTyped
  BY <1>2, <1>3 DEF StreamInit, StreamTyped
<1>5. \A s \in Sessions : router[s] = None /\ worker[s] = None /\ OnTheWay(s) = {}
  BY DEF StreamInit, OnTheWay
<1>6. TargetsFollowShared /\ Undecided
  BY <1>5 DEF TargetsFollowShared, Undecided, Targets
<1>7. \A s \in Sessions, does \in {"Connect", "Drop"} : manager # [does |-> does, for |-> s]
  <2>1. \A s \in Sessions, does \in {"Connect", "Drop"} : [does |-> does, for |-> s] \in Tasks
    BY DEF Tasks
  <2> QED BY <2>1, StreamAssumption DEF StreamInit
<1>8. \A s \in Sessions : Seated(s) /\ Ordered(s) /\ Fitted(s)
  <2>1. \A s \in Sessions : application[s].phase = "New"
    BY DEF StreamInit, NoSession
  <2> QED BY <1>5, <1>7, <2>1 DEF Seated, Ordered, Fitted, Targets, At
<1> QED BY <1>4, <1>6, <1>8 DEF StreamInv

\* Numbers that a generation is compared with.
LEMMA GenerationsAreNumbers ==
  /\ Generations \subseteq Nat /\ 0 \in Generations
  /\ None \notin Generations /\ Known = Generations \cup {None}
  /\ \A g \in Nat : g <= MaxGeneration => g \in Generations
BY StreamAssumption DEF Generations, Known

LEMMA NewestTyped == ASSUME StreamTyped PROVE Newest \in Generations
BY GenerationsAreNumbers DEF StreamTyped, Newest, Known

LEMMA TargetTyped ==
  ASSUME StreamTyped, NEW s \in Sessions
  PROVE  (s \in Targets <=> router[s] # None) /\ (s \in Targets => router[s] \in Configurations)
BY DEF StreamTyped, Targets

LEMMA SubmitTyped ==
  ASSUME StreamTyped, NEW s \in Sessions, NEW asked \in 1 .. MaxGeneration,
         Submit(s, asked, "Controller")
  PROVE  /\ interface' \in [latest : Generations, slot : Known]
         /\ application' \in [Sessions -> Applications]
<1> DEFINE given == interface.latest + 1
           number == IF asked > given THEN asked ELSE given
<1>1. number <= MaxGeneration /\ interface' = [latest |-> number, slot |-> number]
      /\ application' = [application EXCEPT ![s].role = "Controller", ![s].slot = number,
                                            ![s].latest = number, ![s].told = FALSE]
  BY DEF Submit
<1>2. interface.latest \in Nat /\ asked \in Nat
  <2>1. interface.latest \in Generations
    BY DEF StreamTyped
  <2>2. asked \in Nat
    OBVIOUS
  <2> QED BY <2>1, <2>2, GenerationsAreNumbers
<1>3. number \in Generations /\ number \in Known
  BY <1>1, <1>2, GenerationsAreNumbers
<1> HIDE DEF number
<1>4. application[s] \in Applications
  BY DEF StreamTyped
<1>5. [application[s] EXCEPT !.role = "Controller", !.slot = number, !.latest = number,
                             !.told = FALSE] \in Applications
  BY <1>3, <1>4 DEF Applications
<1>6. application' \in [Sessions -> Applications]
  BY <1>1, <1>5 DEF StreamTyped
<1> QED BY <1>1, <1>3, <1>6

LEMMA ClientTyped ==
  ASSUME StreamTyped, NEW s \in Sessions, ClientStep(s)
  PROVE  StreamTyped'
<1> PICK asked \in 1 .. MaxGeneration : Handshake(s, asked) \/ ConfigureViewport(s, asked)
  BY DEF ClientStep
<1>1. CASE Submit(s, asked, "Controller") /\ controller' \in Sessions \cup {None}
  <2>1. UNCHANGED <<target, frames, manager, routing, sends, encoding>>
    BY DEF Handshake, ConfigureViewport
  <2> QED BY <1>1, <2>1, SubmitTyped DEF StreamTyped, routing, encoding
<1>2. CASE /\ application' = [application EXCEPT ![s].role = "Observer"]
           /\ UNCHANGED <<interface, controller>>
  <2>1. UNCHANGED <<target, frames, manager, routing, sends, encoding>>
    BY DEF Handshake, ConfigureViewport
  <2>2. [application[s] EXCEPT !.role = "Observer"] \in Applications
    <3>1. application[s] \in Applications
      BY DEF StreamTyped
    <3> QED BY <3>1 DEF Applications
  <2>3. application' \in [Sessions -> Applications]
    BY <1>2, <2>2 DEF StreamTyped
  <2> QED BY <1>2, <2>1, <2>3 DEF StreamTyped, routing, encoding
<1>3. Handshake(s, asked) =>
        \/ Submit(s, asked, "Controller") /\ controller' = s
        \/ /\ application' = [application EXCEPT ![s].role = "Observer"]
           /\ UNCHANGED <<interface, controller>>
  BY DEF Handshake
<1>4. ConfigureViewport(s, asked) =>
        Submit(s, asked, "Controller") /\ controller' \in Sessions \cup {None}
  BY DEF ConfigureViewport, StreamTyped
<1> QED BY <1>1, <1>2, <1>3, <1>4

\* A target that is configured anew.
LEMMA ReconfiguredTyped ==
  ASSUME NEW t, NEW number \in Generations
  PROVE  Reconfigured(t, number) \in Configurations
BY GenerationsAreNumbers DEF Reconfigured, Configurations

LEMMA ManagerTyped ==
  ASSUME StreamTyped, NEW s \in Sessions, Seated(s),
         Connect(s) \/ Flush(s) \/ Drop(s) \/ ManagerEnds(s)
  PROVE  StreamTyped'
<1>a. application[s] \in Applications /\ None \in Known /\ Newest \in Generations
  BY NewestTyped, GenerationsAreNumbers DEF StreamTyped
<1>1. CASE Connect(s)
  <2>1. manager' \in Tasks
    BY <1>1 DEF Connect, Tasks
  <2>2. caps' \in [Sessions -> Generations]
    BY <1>1, <1>a DEF Connect, Joins, StreamTyped
  <2> QED BY <1>1, <2>1, <2>2 DEF Connect, StreamTyped, clients, routing
<1>2. CASE Activate(s)
  <2>1. NewTarget \in Configurations
    BY <1>a DEF NewTarget, Configurations, StreamTyped
  <2>2. router' \in [Sessions -> Configurations \cup {None}]
    BY <1>2, <2>1 DEF Activate, StreamTyped
  <2>3. [application[s] EXCEPT !.phase = "Open"] \in Applications
    BY <1>a DEF Applications
  <2>4. application' \in [Sessions -> Applications]
    BY <1>2, <2>3 DEF Activate, StreamTyped
  <2> QED BY <1>2, <2>2, <2>4 DEF Activate, StreamTyped, encoding
<1>3. CASE Flush(s)
  <2> DEFINE number == application[s].slot
             accepted == number # None /\ number > Newest
             after == [t \in Sessions |->
                         IF accepted /\ t \in Targets
                           THEN Reconfigured(router[t], number) ELSE router[t]]
             done == after[s].applied
  <2>1. accepted => number \in Generations
    BY <1>a, GenerationsAreNumbers DEF Applications
  <2>2. \A t \in Sessions : after[t] \in Configurations \cup {None}
    <3> SUFFICES ASSUME NEW t \in Sessions
                 PROVE  (IF accepted /\ t \in Targets
                           THEN Reconfigured(router[t], number) ELSE router[t])
                          \in Configurations \cup {None}
      OBVIOUS
    <3> HIDE DEF number, accepted
    <3>1. CASE accepted /\ t \in Targets
      BY <2>1, <3>1, ReconfiguredTyped
    <3>2. CASE ~(accepted /\ t \in Targets)
      BY <3>2 DEF StreamTyped
    <3> QED BY <3>1, <3>2
  <2>3. /\ shared' = IF accepted THEN [expected |-> number, current |-> None] ELSE shared
        /\ router' = [after EXCEPT ![s].applied = None]
        /\ application' = [application EXCEPT
              ![s].slot = None,
              ![s].told = \/ @
                          \/ application[s].role = "Controller" /\ done = application[s].latest]
        /\ UNCHANGED <<interface, controller, target, frames, manager, sends, encoding>>
    BY <1>3 DEF Flush
  <2>4. shared' \in [expected : Known, current : Known]
    BY <2>1, <2>3, GenerationsAreNumbers DEF StreamTyped
  <2>5. s \in Targets
    BY <1>3 DEF Flush, Seated
  <2>6. after[s] \in Configurations
    <3>1. router[s] \in Configurations
      BY <2>5, TargetTyped
    <3>2. after[s] = IF accepted THEN Reconfigured(router[s], number) ELSE router[s]
      BY <2>5
    <3> HIDE DEF after, accepted, number
    <3> QED BY <2>1, <3>1, <3>2, ReconfiguredTyped
  <2> HIDE DEF after, accepted, number
  <2>7. router' \in [Sessions -> Configurations \cup {None}]
    <3>1. after \in [Sessions -> Configurations \cup {None}]
      BY <2>2 DEF after
    <3>2. [after[s] EXCEPT !.applied = None] \in Configurations
      BY <2>6, <1>a DEF Configurations
    <3> QED BY <2>3, <3>1, <3>2
  <2> HIDE DEF done
  <2>8. application' \in [Sessions -> Applications]
    <3> DEFINE told == \/ application[s].told
                       \/ application[s].role = "Controller" /\ done = application[s].latest
    <3>1. told \in BOOLEAN
      OBVIOUS
    <3>2. application' = [application EXCEPT ![s].slot = None, ![s].told = told]
      BY <2>3
    <3> HIDE DEF told
    <3>3. [application[s] EXCEPT !.slot = None, !.told = told] \in Applications
      BY <3>1, <1>a DEF Applications
    <3> QED BY <3>2, <3>3 DEF StreamTyped
  <2> QED BY <2>3, <2>4, <2>7, <2>8 DEF StreamTyped, encoding
<1>4. CASE Drop(s)
  <2>1. manager' \in Tasks
    BY <1>4 DEF Drop, Tasks
  <2>2. router' \in [Sessions -> Configurations \cup {None}]
    BY <1>4 DEF Drop, StreamTyped
  <2>3. [application[s] EXCEPT !.phase = "Leaving"] \in Applications
    BY <1>a DEF Applications
  <2>4. application' \in [Sessions -> Applications]
    BY <1>4, <2>3 DEF Drop, StreamTyped
  <2>5. shared' \in [expected : Known, current : Known]
    BY <1>4, <1>a DEF Drop, StreamTyped
  <2> QED BY <1>4, <2>1, <2>2, <2>4, <2>5 DEF Drop, StreamTyped, encoding
<1>5. CASE Shutdown(s)
  <2>1. [NoSession EXCEPT !.phase = "Gone"] \in Applications
    BY <1>a, GenerationsAreNumbers DEF NoSession, Applications
  <2>2. application' \in [Sessions -> Applications]
    BY <1>5, <2>1 DEF Shutdown, StreamTyped
  <2>3. caps' \in [Sessions -> Generations]
    BY <1>5, GenerationsAreNumbers DEF Shutdown, StreamTyped
  <2> QED BY <1>5, <2>2, <2>3 DEF Shutdown, StreamTyped, routing
<1> QED BY <1>1, <1>2, <1>3, <1>4, <1>5 DEF ManagerEnds

LEMMA RequestsTyped ==
  ASSUME StreamTyped, NEW s \in Sessions
  PROVE  OnTheWay(s) \subseteq Requests
<1>1. encoderQueue[s] \in Seq(Requests)
  BY DEF StreamTyped
<1>2. \A i \in DOMAIN encoderQueue[s] : encoderQueue[s][i] \in Requests
  BY <1>1
<1>3. \A m \in sends : [frame |-> m.frame, expected |-> m.expected] \in Requests
  BY DEF StreamTyped, Sends, Requests
<1> QED BY <1>2, <1>3 DEF OnTheWay

LEMMA ResetTyped ==
  ASSUME StreamTyped, NEW s \in Sessions
  PROVE  Reset(s) \in [Sessions -> Configurations \cup {None}]
<1>1. CASE s \in Targets
  <2>1. [router[s] EXCEPT !.inFlight = FALSE] \in Configurations
    BY <1>1, TargetTyped DEF Configurations
  <2> QED BY <1>1, <2>1 DEF Reset, StreamTyped
<1>2. CASE s \notin Targets
  BY <1>2 DEF Reset, StreamTyped
<1> QED BY <1>1, <1>2

LEMMA RenderTyped ==
  ASSUME StreamTyped, Resize \/ Capture \/ Push \/ TrySend
  PROVE  StreamTyped'
<1>1. CASE Resize
  <2>1. interface.slot \in Generations /\ interface.latest \in Generations
    BY <1>1, GenerationsAreNumbers DEF Resize, StreamTyped, Known
  <2>2. interface' \in [latest : Generations, slot : Known] /\ target' \in Generations
    BY <1>1, <2>1, GenerationsAreNumbers DEF Resize, StreamTyped
  <2> QED BY <1>1, <2>2 DEF Resize, StreamTyped, routing, encoding
<1>2. CASE Capture
  <2>1. frames' \in Seq(Generations)
    BY <1>2 DEF Capture, StreamTyped
  <2> QED BY <1>2, <2>1 DEF Capture, StreamTyped, clients, routing, encoding
<1>3. CASE Push
  <2>1. frames # <<>> /\ frames \in Seq(Generations)
    BY <1>3 DEF Push, StreamTyped
  <2>2. Head(frames) \in Generations /\ Tail(frames) \in Seq(Generations)
    BY <2>1
  <2> DEFINE frame == Head(frames)
             first == {s \in Targets : Configures(router[s], frame)}
             next == {s \in Targets : Carries(router[s], frame)}
  <2>3. /\ sends' = {[to |-> s, frame |-> frame, expected |-> frame] : s \in first}
                    \cup {[to |-> s, frame |-> frame, expected |-> None] : s \in next}
        /\ router' = [s \in Sessions |-> IF s \in first
                         THEN [router[s] EXCEPT !.inFlight = TRUE] ELSE router[s]]
    BY <1>3 DEF Push
  <2>4. first \subseteq Targets /\ next \subseteq Sessions /\ Targets \subseteq Sessions
    BY DEF Targets
  <2> HIDE DEF frame, first, next
  <2>5. frame \in Generations
    BY <2>2 DEF frame
  <2>6. sends' \subseteq Sends
    BY <2>3, <2>4, <2>5, GenerationsAreNumbers DEF Sends
  <2>7. router' \in [Sessions -> Configurations \cup {None}]
    <3> SUFFICES ASSUME NEW s \in Sessions
                 PROVE  (IF s \in first THEN [router[s] EXCEPT !.inFlight = TRUE]
                                        ELSE router[s]) \in Configurations \cup {None}
      BY <2>3
    <3>1. CASE s \in first
      <4>1. router[s] \in Configurations
        BY <2>4, <3>1, TargetTyped
      <4> QED BY <3>1, <4>1 DEF Configurations
    <3>2. CASE s \notin first
      BY <3>2 DEF StreamTyped
    <3> QED BY <3>1, <3>2
  <2> QED BY <1>3, <2>2, <2>6, <2>7 DEF Push, StreamTyped, clients, encoding
<1>4. CASE TrySend
  <2> PICK send \in sends :
        /\ sends' = sends \ {send}
        /\ \/ /\ encoderQueue' = [encoderQueue EXCEPT ![send.to] =
                   Append(@, [frame |-> send.frame, expected |-> send.expected])]
              /\ UNCHANGED router
           \/ /\ router' \in {router, Reset(send.to)}
              /\ UNCHANGED encoderQueue
    BY <1>4 DEF TrySend
  <2>1. send.to \in Sessions /\ [frame |-> send.frame, expected |-> send.expected] \in Requests
    BY DEF StreamTyped, Sends, Requests
  <2>2. encoderQueue' \in [Sessions -> Seq(Requests)]
    <3> DEFINE request == [frame |-> send.frame, expected |-> send.expected]
    <3>1. request \in Requests /\ encoderQueue[send.to] \in Seq(Requests)
      BY <2>1 DEF StreamTyped
    <3>2. \/ encoderQueue' = [encoderQueue EXCEPT ![send.to] = Append(@, request)]
          \/ UNCHANGED encoderQueue
      OBVIOUS
    <3> HIDE DEF request
    <3>3. Append(encoderQueue[send.to], request) \in Seq(Requests)
      BY <3>1
    <3> QED BY <3>2, <3>3 DEF StreamTyped
  <2>3. Reset(send.to) \in [Sessions -> Configurations \cup {None}]
    BY <2>1, ResetTyped
  <2>4. router' \in [Sessions -> Configurations \cup {None}]
    BY <2>3 DEF StreamTyped
  <2> QED BY <1>4, <2>2, <2>4 DEF TrySend, StreamTyped, clients
<1> QED BY <1>1, <1>2, <1>3, <1>4

LEMMA WorkerTyped ==
  ASSUME StreamTyped, NEW s \in Sessions, WorkerStep(s), Fitted(s)
  PROVE  StreamTyped'
<1>a. None \in Known /\ Generations \subseteq Known
  BY GenerationsAreNumbers
<1>b. worker[s] # None => worker[s] \in Work /\ worker[s].request \in Requests
  BY DEF StreamTyped, Work
<1>c. ASSUME NEW request \in Requests, Abandons(s, request)
      PROVE  worker' \in [Sessions -> Work \cup {None}]
  <2>1. [stage |-> "Reset", request |-> request] \in Work
    BY DEF Work
  <2> QED BY <1>c, <2>1 DEF Abandons, StreamTyped
<1>d. ASSUME NEW step \in {"Push", "Apply"}, worker[s] # None, Goes(s, step)
      PROVE  worker' \in [Sessions -> Work \cup {None}]
  <2>1. [worker[s] EXCEPT !.stage = step] \in Work
    BY <1>b, <1>d DEF Work
  <2> QED BY <1>d, <2>1 DEF Goes, StreamTyped
<1>e. Waits(s) => worker' \in [Sessions -> Work \cup {None}]
  BY DEF Waits, StreamTyped
<1>1. CASE Receive(s)
  <2>1. encoderQueue[s] \in Seq(Requests) /\ encoderQueue[s] # <<>>
    BY <1>1 DEF Receive, StreamTyped
  <2>2. Head(encoderQueue[s]) \in Requests /\ Tail(encoderQueue[s]) \in Seq(Requests)
    BY <2>1
  <2> DEFINE request == Head(encoderQueue[s])
             step == IF request.expected # None THEN "Caps" ELSE "Push"
  <2>3. Abandons(s, request) \/ worker' = [worker EXCEPT ![s] = [stage |-> step, request |-> request]]
    BY <1>1 DEF Receive
  <2>4. step \in {"Caps", "Push"}
    OBVIOUS
  <2> HIDE DEF step
  <2>5. [stage |-> step, request |-> request] \in Work
    BY <2>2, <2>4 DEF Work
  <2>6. worker' \in [Sessions -> Work \cup {None}]
    BY <1>c, <2>2, <2>3, <2>5 DEF StreamTyped
  <2>7. encoderQueue' \in [Sessions -> Seq(Requests)]
    BY <1>1, <2>2 DEF Receive, StreamTyped
  <2> QED BY <1>1, <2>6, <2>7 DEF Receive, StreamTyped, clients, routing
<1>2. CASE SetCaps(s)
  <2>1. worker[s] # None /\ worker[s].request.frame \in Generations
    BY <1>2, <1>b DEF SetCaps, At, Requests
  <2>2. worker' \in [Sessions -> Work \cup {None}]
    BY <1>2, <2>1, <1>b, <1>c, <1>d DEF SetCaps, Fails, StreamTyped
  <2>3. caps' \in [Sessions -> Generations]
    BY <1>2, <2>1 DEF SetCaps, StreamTyped
  <2> QED BY <1>2, <2>2, <2>3 DEF SetCaps, StreamTyped, clients, routing
<1>3. CASE PushFrame(s)
  <2>1. worker[s] # None
    BY <1>3 DEF PushFrame, At
  <2>2. worker' \in [Sessions -> Work \cup {None}]
    BY <1>3, <2>1, <1>b, <1>c, <1>d, <1>e DEF PushFrame, Fails, StreamTyped
  <2> QED BY <1>3, <2>2 DEF PushFrame, StreamTyped, clients, routing
<1>4. CASE ResetInFlight(s)
  BY <1>4, <1>e, ResetTyped DEF ResetInFlight, StreamTyped, clients
<1>5. CASE ApplyConfiguration(s)
  <2> DEFINE number == worker[s].request.expected
  <2>1. At(s, "Apply")
    BY <1>5 DEF ApplyConfiguration
  <2>2. number \in Generations /\ number \in Known
    BY <2>1, <1>a, <1>b DEF Fitted, At, Requests
  <2> HIDE DEF number
  <2>3. [expected |-> None, current |-> number, applied |-> number, inFlight |-> FALSE]
          \in Configurations
    BY <1>a, <2>2 DEF Configurations
  <2>4. router' \in [Sessions -> Configurations \cup {None}]
        /\ shared' \in [expected : Known, current : Known]
    <3>1. \/ UNCHANGED routing
          \/ /\ router' = [router EXCEPT ![s] = [expected |-> None, current |-> number,
                                         applied |-> number, inFlight |-> FALSE]]
             /\ shared' \in {shared, [expected |-> None, current |-> number]}
      BY <1>5 DEF ApplyConfiguration, number
    <3>2. [expected |-> None, current |-> number] \in [expected : Known, current : Known]
      BY <1>a, <2>2
    <3> QED BY <2>3, <3>1, <3>2 DEF StreamTyped, routing
  <2> QED BY <1>5, <1>e, <2>4 DEF ApplyConfiguration, StreamTyped, clients
<1> QED BY <1>1, <1>2, <1>3, <1>4, <1>5 DEF WorkerStep

LEMMA StreamTypedNext ==
  ASSUME StreamInv, [StreamNext]_streamVars
  PROVE  StreamTyped'
<1>1. StreamTyped /\ \A s \in Sessions : Seated(s) /\ Fitted(s)
  BY DEF StreamInv
<1>2. CASE UNCHANGED streamVars
  BY <1>1, <1>2 DEF streamVars, clients, routing, encoding, StreamTyped
<1> QED BY <1>1, <1>2, ClientTyped, ManagerTyped, RenderTyped, WorkerTyped DEF StreamNext

-----------------------------------------------------------------------------
(* Configurations, frames and caps                                         *)

\* What has to be shown of a step, once the types are.
StreamKept ==
  /\ TargetsFollowShared' /\ Undecided'
  /\ \A s \in Sessions : Seated(s)' /\ Ordered(s)' /\ Fitted(s)'

\* A step that leaves the configurations, and that puts nothing on its way, disturbs no
\* session but the one whose encoder or worker it moves.
LEMMA RoutedKept ==
  ASSUME StreamInv, Targets' = Targets, shared' = shared, manager' = manager,
         \A t \in Sessions :
           /\ t \in Targets => router'[t].expected = router[t].expected
                               /\ router'[t].current = router[t].current
           /\ t \notin Targets => router'[t] = router[t]
           /\ application'[t].phase = application[t].phase
           /\ application[t].phase = "New" => worker'[t] = worker[t]
           /\ OnTheWay(t)' \subseteq OnTheWay(t)
  PROVE  /\ TargetsFollowShared' /\ Undecided'
         /\ \A t \in Sessions : Seated(t)' /\ Ordered(t)'
         /\ \A t \in Sessions : worker'[t] = worker[t] /\ caps'[t] = caps[t] => Fitted(t)'
<1>1. TargetsFollowShared /\ Undecided
      /\ \A t \in Sessions : Seated(t) /\ Ordered(t) /\ Fitted(t)
  BY DEF StreamInv
<1>2. Newest' = Newest
  BY DEF Newest
<1>3. Targets \subseteq Sessions
  BY DEF Targets
<1>4. TargetsFollowShared' /\ Undecided'
  BY <1>1, <1>3 DEF TargetsFollowShared, Undecided
<1>5. ASSUME NEW t \in Sessions PROVE Seated(t)'
  <2>1. /\ application[t].phase = "New" =>
             router[t] = None /\ worker[t] = None /\ OnTheWay(t) = {}
        /\ t \in Targets <=> application[t].phase = "Open"
        /\ manager = [does |-> "Connect", for |-> t] => application[t].phase = "New"
        /\ manager = [does |-> "Drop", for |-> t] => application[t].phase = "Leaving"
    BY <1>1 DEF Seated
  <2> QED BY <2>1 DEF Seated
<1>6. ASSUME NEW t \in Sessions PROVE Ordered(t)'
  BY <1>1, <1>2 DEF Ordered
<1>7. ASSUME NEW t \in Sessions, worker'[t] = worker[t], caps'[t] = caps[t] PROVE Fitted(t)'
  BY <1>1, <1>2, <1>7 DEF Fitted, At
<1> QED BY <1>4, <1>5, <1>6, <1>7

LEMMA SameOnTheWay ==
  ASSUME NEW s, sends' = sends, encoderQueue'[s] = encoderQueue[s]
  PROVE  OnTheWay(s)' = OnTheWay(s)
BY DEF OnTheWay

LEMMA ConnectKept ==
  ASSUME StreamInv, NEW s \in Sessions, Connect(s)
  PROVE  StreamKept
<1>1. /\ manager = None /\ application[s].phase = "New"
      /\ manager' = [does |-> "Connect", for |-> s]
      /\ caps' = [caps EXCEPT ![s] = Newest]
      /\ UNCHANGED <<application, shared, router, sends, encoderQueue, worker>>
  BY DEF Connect, Joins, clients, routing
<1>2. StreamTyped /\ TargetsFollowShared /\ Undecided
      /\ \A t \in Sessions : Seated(t) /\ Ordered(t) /\ Fitted(t)
  BY DEF StreamInv
<1>3. Newest' = Newest /\ Targets' = Targets /\ \A t : OnTheWay(t)' = OnTheWay(t)
  BY <1>1, SameOnTheWay DEF Newest, Targets
<1>4. TargetsFollowShared' /\ Undecided'
  BY <1>1, <1>2, <1>3 DEF TargetsFollowShared, Undecided
<1>5. \A t \in Sessions : /\ manager' = [does |-> "Connect", for |-> t] => t = s
                         /\ manager' # [does |-> "Drop", for |-> t]
  BY <1>1
<1>6. ASSUME NEW t \in Sessions PROVE Seated(t)' /\ Ordered(t)'
  BY <1>1, <1>2, <1>3, <1>5 DEF Seated, Ordered
<1>7. caps'[s] = Newest /\ \A t \in Sessions \ {s} : caps'[t] = caps[t]
  BY <1>1, <1>2 DEF StreamTyped
<1>8. worker[s] = None /\ s \notin Targets
  BY <1>1, <1>2 DEF Seated
<1>9. Fitted(s)'
  BY <1>1, <1>3, <1>7, <1>8 DEF Fitted, At
<1>10. ASSUME NEW t \in Sessions \ {s} PROVE Fitted(t)'
  BY <1>1, <1>2, <1>3, <1>5, <1>7 DEF Fitted, At
<1> QED BY <1>4, <1>6, <1>9, <1>10 DEF StreamKept

LEMMA ActivateKept ==
  ASSUME StreamInv, NEW s \in Sessions, Activate(s)
  PROVE  StreamKept
<1>1. /\ manager = [does |-> "Connect", for |-> s] /\ manager' = None
      /\ router' = [router EXCEPT ![s] = NewTarget]
      /\ application' = [application EXCEPT ![s].phase = "Open"]
      /\ UNCHANGED <<shared, sends, encoderQueue, worker, caps>>
  BY DEF Activate, encoding
<1>2. StreamTyped /\ TargetsFollowShared /\ Undecided
      /\ \A t \in Sessions : Seated(t) /\ Ordered(t) /\ Fitted(t)
  BY DEF StreamInv
<1>3. Newest' = Newest /\ \A t : OnTheWay(t)' = OnTheWay(t)
  BY <1>1, SameOnTheWay DEF Newest
<1>4. application[s].phase = "New" /\ router[s] = None /\ worker[s] = None /\ OnTheWay(s) = {}
      /\ caps[s] = Newest
  BY <1>1, <1>2 DEF Seated, Fitted
<1>5. /\ router'[s] = NewTarget
      /\ \A t \in Sessions \ {s} : router'[t] = router[t]
                                   /\ application'[t].phase = application[t].phase
      /\ application'[s].phase = "Open"
  BY <1>1, <1>2 DEF StreamTyped, Applications
<1>6. /\ NewTarget # None /\ NewTarget.expected = shared.expected
      /\ NewTarget.current = IF shared.expected = None THEN shared.current ELSE None
  <2>1. NewTarget \in Configurations
    BY <1>2, GenerationsAreNumbers DEF StreamTyped, NewTarget, Configurations
  <2>2. NewTarget # None
    BY <2>1, StreamAssumption
  <2>3. NewTarget.expected = shared.expected
        /\ NewTarget.current = IF shared.expected = None THEN shared.current ELSE None
    BY DEF NewTarget
  <2> QED BY <2>2, <2>3
<1>7. /\ s \in Targets' /\ s \notin Targets /\ Targets' \subseteq Sessions
      /\ \A t \in Sessions \ {s} : t \in Targets' <=> t \in Targets
  <2>1. s \in Targets' /\ s \notin Targets /\ Targets' \subseteq Sessions
    BY <1>4, <1>5, <1>6 DEF Targets
  <2>2. \A t \in Sessions \ {s} : t \in Targets' <=> t \in Targets
    BY <1>5 DEF Targets
  <2> QED BY <2>1, <2>2
<1>8. TargetsFollowShared' /\ Undecided'
  <2>1. ASSUME NEW t \in Sessions \ {s}, t \in Targets'
        PROVE  /\ IF shared.expected # None
                    THEN shared.expected \in {router[t].expected, router[t].current}
                    ELSE router[t].expected = None /\ router[t].current = shared.current
               /\ router[t].expected # None => router[t].current = None
    BY <1>2, <1>7, <2>1 DEF TargetsFollowShared, Undecided
  <2>2. TargetsFollowShared'
    BY <1>1, <1>5, <1>6, <1>7, <2>1 DEF TargetsFollowShared
  <2>3. Undecided'
    BY <1>5, <1>6, <1>7, <2>1 DEF Undecided
  <2> QED BY <2>2, <2>3
<1>9. \A t \in Sessions, does \in {"Connect", "Drop"} : manager' # [does |-> does, for |-> t]
  <2>1. \A t \in Sessions, does \in {"Connect", "Drop"} : [does |-> does, for |-> t] \in Tasks
    BY DEF Tasks
  <2> QED BY <1>1, <2>1, StreamAssumption
<1>10. Seated(s)' /\ Ordered(s)'
  BY <1>3, <1>4, <1>5, <1>7, <1>9 DEF Seated, Ordered
<1>11. Fitted(s)'
  <2>1. worker'[s] = None /\ caps'[s] = Newest
    BY <1>1, <1>4
  <2>2. router'[s].current # None => router'[s].current = Newest
    BY <1>5, <1>6 DEF Newest
  <2> QED BY <1>9, <2>1, <2>2 DEF Fitted, At
<1>12. ASSUME NEW t \in Sessions \ {s} PROVE Seated(t)' /\ Ordered(t)' /\ Fitted(t)'
  <2>1. Seated(t)'
    <3>1. /\ application[t].phase = "New" =>
               router[t] = None /\ worker[t] = None /\ OnTheWay(t) = {}
          /\ t \in Targets <=> application[t].phase = "Open"
      BY <1>2 DEF Seated
    <3> QED BY <1>1, <1>3, <1>5, <1>7, <1>9, <3>1 DEF Seated
  <2>2. Ordered(t)'
    BY <1>2, <1>3, <1>5, <1>7 DEF Ordered
  <2>3. Fitted(t)'
    BY <1>1, <1>2, <1>3, <1>5, <1>7, <1>9 DEF Fitted, At
  <2> QED BY <2>1, <2>2, <2>3
<1> QED BY <1>8, <1>10, <1>11, <1>12 DEF StreamKept

\* A step of which the router, the encoders and the session manager see nothing.
LEMMA QuietKept ==
  ASSUME StreamInv, UNCHANGED <<manager, routing, sends, encoding>>,
         \A t \in Sessions : application'[t].phase = application[t].phase
  PROVE  StreamKept
<1>1. UNCHANGED <<manager, shared, router, sends, encoderQueue, worker, caps>>
  BY DEF routing, encoding
<1>2. Targets' = Targets /\ \A t \in Sessions : OnTheWay(t)' = OnTheWay(t)
  BY <1>1, SameOnTheWay DEF Targets
<1> QED BY <1>1, <1>2, RoutedKept DEF StreamKept

LEMMA ClientKept ==
  ASSUME StreamInv, NEW s \in Sessions, ClientStep(s)
  PROVE  StreamKept
<1> PICK asked \in 1 .. MaxGeneration : Handshake(s, asked) \/ ConfigureViewport(s, asked)
  BY DEF ClientStep
<1>1. UNCHANGED <<manager, routing, sends, encoding>>
  BY DEF Handshake, ConfigureViewport
<1>2. StreamTyped
  BY DEF StreamInv
<1>3. ASSUME Submit(s, asked, "Controller")
      PROVE  \A t \in Sessions : application'[t].phase = application[t].phase
  BY <1>2, <1>3 DEF Submit, StreamTyped, Applications
<1>4. ASSUME application' = [application EXCEPT ![s].role = "Observer"]
      PROVE  \A t \in Sessions : application'[t].phase = application[t].phase
  BY <1>2, <1>4 DEF StreamTyped, Applications
<1>5. \A t \in Sessions : application'[t].phase = application[t].phase
  BY <1>3, <1>4 DEF Handshake, ConfigureViewport
<1> QED BY <1>1, <1>5, QuietKept

LEMMA BevyKept ==
  ASSUME StreamInv, Resize \/ Capture \/ UNCHANGED streamVars
  PROVE  StreamKept
<1>1. UNCHANGED <<manager, routing, sends, encoding, application>>
  BY DEF Resize, Capture, streamVars, clients
<1> QED BY <1>1, QuietKept

\* flush_authoritative_events of a request that is not newer takes what was applied.
LEMMA TakeKept ==
  ASSUME StreamInv, NEW s \in Targets, router' = [router EXCEPT ![s].applied = None],
         UNCHANGED <<manager, shared, sends, encoding>>,
         \A t \in Sessions : application'[t].phase = application[t].phase
  PROVE  StreamKept
<1>1. StreamTyped /\ s \in Sessions
  BY DEF StreamInv, Targets
<1>2. router[s] \in Configurations
  BY <1>1, TargetTyped
<1>3. [router[s] EXCEPT !.applied = None] \in Configurations
  BY <1>2, GenerationsAreNumbers DEF Configurations
<1>4. /\ router'[s] \in Configurations
      /\ router'[s].expected = router[s].expected /\ router'[s].current = router[s].current
      /\ \A t \in Sessions \ {s} : router'[t] = router[t]
  BY <1>1, <1>2, <1>3 DEF StreamTyped, Configurations
<1>5. Targets' = Targets
  BY <1>4, StreamAssumption DEF Targets
<1>6. \A t \in Sessions : OnTheWay(t)' = OnTheWay(t)
  BY SameOnTheWay DEF encoding
<1> QED BY <1>4, <1>5, <1>6, RoutedKept DEF StreamKept, encoding

\* A request the router accepts: every target expects it, and every frame on its way is older.
LEMMA AcceptKept ==
  ASSUME StreamInv, NEW s \in Targets, NEW number \in Generations, number > Newest, manager = None,
         shared' = [expected |-> number, current |-> None],
         \A t \in Sessions : IF t \in Targets
                               THEN /\ router'[t] # None
                                    /\ router'[t].expected = number /\ router'[t].current = None
                               ELSE router'[t] = router[t],
         UNCHANGED <<manager, sends, encoding>>,
         \A t \in Sessions : application'[t].phase = application[t].phase
  PROVE  StreamKept
<1>1. StreamTyped /\ \A t \in Sessions : Seated(t) /\ Ordered(t) /\ Fitted(t)
  BY DEF StreamInv
<1>2. number # None /\ number \in Nat /\ Newest \in Nat
  BY <1>1, NewestTyped, GenerationsAreNumbers
<1>3. Newest' = number
  BY <1>2 DEF Newest
<1>4. Targets' = Targets /\ Targets \subseteq Sessions
  BY DEF Targets
<1>5. \A t \in Sessions : OnTheWay(t)' = OnTheWay(t)
  BY SameOnTheWay DEF encoding
<1>6. TargetsFollowShared' /\ Undecided'
  BY <1>2, <1>4 DEF TargetsFollowShared, Undecided
<1>7. \A t \in Sessions, does \in {"Connect", "Drop"} : manager' # [does |-> does, for |-> t]
  <2>1. \A t \in Sessions, does \in {"Connect", "Drop"} : [does |-> does, for |-> t] \in Tasks
    BY DEF Tasks
  <2> QED BY <2>1, StreamAssumption
<1>8. ASSUME NEW t \in Sessions PROVE Seated(t)' /\ Fitted(t)'
  <2>1. Seated(t)'
    BY <1>1, <1>4, <1>5, <1>7 DEF Seated, encoding, Targets
  <2>2. Fitted(t)'
    BY <1>1, <1>4, <1>7 DEF Fitted, encoding, At
  <2> QED BY <2>1, <2>2
<1>9. ASSUME NEW t \in Sessions PROVE Ordered(t)'
  <2> SUFFICES ASSUME NEW r \in OnTheWay(t)
               PROVE  /\ r.expected \in {None, r.frame}
                      /\ r.expected = None /\ t \in Targets => r.frame <= number /\ r.frame < number
    BY <1>3, <1>4, <1>5 DEF Ordered
  <2>1. r.frame \in Nat
    BY <1>1, RequestsTyped, GenerationsAreNumbers DEF Requests
  <2>2. /\ r.expected \in {None, r.frame}
        /\ r.expected = None /\ t \in Targets => r.frame <= Newest
    BY <1>1 DEF Ordered
  <2> QED BY <1>2, <2>1, <2>2
<1> QED BY <1>6, <1>8, <1>9 DEF StreamKept

LEMMA FlushKept ==
  ASSUME StreamInv, NEW s \in Sessions, Flush(s)
  PROVE  StreamKept
<1> DEFINE number == application[s].slot
           accepted == number # None /\ number > Newest
           after == [t \in Sessions |->
                       IF accepted /\ t \in Targets
                         THEN Reconfigured(router[t], number) ELSE router[t]]
           done == after[s].applied
<1>1. StreamTyped /\ s \in Targets /\ Targets \subseteq Sessions
  BY DEF StreamInv, Flush, Seated, Targets
<1>2. /\ shared' = IF accepted THEN [expected |-> number, current |-> None] ELSE shared
      /\ router' = [after EXCEPT ![s].applied = None]
      /\ application' = [application EXCEPT
            ![s].slot = None,
            ![s].told = \/ @
                        \/ application[s].role = "Controller" /\ done = application[s].latest]
      /\ UNCHANGED <<manager, sends, encoding>> /\ manager = None
  BY DEF Flush
<1>3. number \in Known
  BY <1>1 DEF StreamTyped, Applications
<1>4. router \in [Sessions -> Configurations \cup {None}]
  BY <1>1 DEF StreamTyped
<1> HIDE DEF number, done, accepted
<1>5. \A t \in Sessions : application'[t].phase = application[t].phase
  BY <1>1, <1>2 DEF StreamTyped, Applications
<1>6. CASE accepted
  <2>1. number \in Generations /\ number > Newest /\ number # None
    BY <1>3, <1>6, GenerationsAreNumbers DEF accepted
  <2>2. \A t \in Sessions : after[t] = IF t \in Targets THEN Reconfigured(router[t], number)
                                                        ELSE router[t]
    BY <1>6
  <2>3. \A t \in Targets : /\ Reconfigured(router[t], number) \in Configurations
                           /\ Reconfigured(router[t], number).expected = number
                           /\ Reconfigured(router[t], number).current = None
    BY <2>1, ReconfiguredTyped DEF Reconfigured
  <2> HIDE DEF after
  <2>4. after[s] = Reconfigured(router[s], number)
    BY <1>1, <2>2
  <2>5. /\ [after[s] EXCEPT !.applied = None] \in Configurations
        /\ [after[s] EXCEPT !.applied = None].expected = number
        /\ [after[s] EXCEPT !.applied = None].current = None
    BY <1>1, <2>3, <2>4, GenerationsAreNumbers DEF Configurations
  <2>6. after \in [Sessions -> Configurations \cup {None}]
    <3>1. \A t \in Sessions : after[t] \in Configurations \cup {None}
      BY <1>4, <2>2, <2>3
    <3> QED BY <3>1 DEF after
  <2>7. router'[s] = [after[s] EXCEPT !.applied = None]
        /\ \A t \in Sessions \ {s} : router'[t] = after[t]
    BY <1>2, <2>6, <1>1
  <2>8. None \notin Configurations
    BY StreamAssumption
  <2>9. \A t \in Sessions : IF t \in Targets
                              THEN /\ router'[t] # None
                                   /\ router'[t].expected = number /\ router'[t].current = None
                              ELSE router'[t] = router[t]
    <3>1. ASSUME NEW t \in Targets, t # s
          PROVE  /\ router'[t] # None
                 /\ router'[t].expected = number /\ router'[t].current = None
      <4>1. router'[t] = Reconfigured(router[t], number)
        BY <1>1, <2>2, <2>7, <3>1
      <4> QED BY <2>3, <2>8, <4>1
    <3>2. /\ router'[s] # None
          /\ router'[s].expected = number /\ router'[s].current = None
      BY <2>5, <2>7, <2>8
    <3>3. \A t \in Sessions : t \notin Targets => router'[t] = router[t]
      BY <1>1, <2>2, <2>7
    <3> QED BY <3>1, <3>2, <3>3
  <2> QED BY <1>1, <1>2, <1>5, <1>6, <2>1, <2>9, AcceptKept
<1>7. CASE ~accepted
  <2>1. after = [t \in Sessions |-> router[t]]
    BY <1>7
  <2>2. after = router
    BY <1>4, <2>1
  <2> QED BY <1>1, <1>2, <1>5, <1>7, <2>2, TakeKept
<1> QED BY <1>6, <1>7

LEMMA DropKept ==
  ASSUME StreamInv, NEW s \in Sessions, Drop(s)
  PROVE  StreamKept
<1>1. /\ manager = None /\ manager' = [does |-> "Drop", for |-> s]
      /\ application[s].phase = "Open"
      /\ application' = [application EXCEPT ![s].phase = "Leaving"]
      /\ router' = [router EXCEPT ![s] = None]
      /\ shared' = IF Targets = {s} THEN [expected |-> None, current |-> None] ELSE shared
      /\ UNCHANGED <<sends, encoderQueue, worker, caps>>
  BY DEF Drop, encoding
<1>2. StreamTyped /\ TargetsFollowShared /\ Undecided
      /\ \A t \in Sessions : Seated(t) /\ Ordered(t) /\ Fitted(t)
  BY DEF StreamInv
<1>3. \A t : OnTheWay(t)' = OnTheWay(t)
  BY <1>1, SameOnTheWay
<1>4. /\ router'[s] = None /\ application'[s].phase = "Leaving"
      /\ \A t \in Sessions \ {s} : router'[t] = router[t]
                                   /\ application'[t].phase = application[t].phase
  BY <1>1, <1>2 DEF StreamTyped, Applications
<1>5. Targets' = Targets \ {s} /\ Targets \subseteq Sessions
  BY <1>4 DEF Targets
<1>6. Targets' # {} => shared' = shared /\ Newest' = Newest
  <2>1. Targets' # {} => shared' = shared
    BY <1>1, <1>5
  <2> QED BY <2>1 DEF Newest
<1>7. TargetsFollowShared' /\ Undecided'
  <2>1. ASSUME NEW t \in Targets'
        PROVE  t \in Targets /\ router'[t] = router[t] /\ shared' = shared
    BY <1>4, <1>5, <1>6
  <2> QED BY <1>2, <2>1 DEF TargetsFollowShared, Undecided
<1>8. \A t \in Sessions : /\ manager' # [does |-> "Connect", for |-> t]
                          /\ manager' = [does |-> "Drop", for |-> t] => t = s
  BY <1>1
<1>9. ASSUME NEW t \in Sessions PROVE Seated(t)'
  <2>1. /\ application[t].phase = "New" =>
             router[t] = None /\ worker[t] = None /\ OnTheWay(t) = {}
        /\ t \in Targets <=> application[t].phase = "Open"
    BY <1>2 DEF Seated
  <2>2. CASE t = s
    BY <1>4, <1>5, <1>8, <2>2 DEF Seated
  <2>3. CASE t # s
    BY <1>1, <1>3, <1>4, <1>5, <1>8, <2>1, <2>3 DEF Seated
  <2> QED BY <2>2, <2>3
<1>10. ASSUME NEW t \in Sessions PROVE Ordered(t)'
  <2>1. t \in Targets' => t \in Targets /\ router'[t] = router[t] /\ Newest' = Newest
    BY <1>4, <1>5, <1>6
  <2> QED BY <1>2, <1>3, <2>1 DEF Ordered
<1>11. ASSUME NEW t \in Sessions PROVE Fitted(t)'
  <2>1. t \in Targets' => t \in Targets /\ router'[t] = router[t]
    BY <1>4, <1>5
  <2>2. At(t, "Push")' = At(t, "Push") /\ At(t, "Apply")' = At(t, "Apply")
        /\ At(t, "Caps")' = At(t, "Caps")
    BY <1>1 DEF At
  <2> QED BY <1>1, <1>2, <1>8, <2>1, <2>2 DEF Fitted
<1> QED BY <1>7, <1>9, <1>10, <1>11 DEF StreamKept

LEMMA ShutdownKept ==
  ASSUME StreamInv, NEW s \in Sessions, Shutdown(s)
  PROVE  StreamKept
<1>1. /\ manager = [does |-> "Drop", for |-> s] /\ manager' = None /\ worker[s] = None
      /\ application' = [application EXCEPT ![s] = [NoSession EXCEPT !.phase = "Gone"]]
      /\ caps' = [caps EXCEPT ![s] = 0]
      /\ UNCHANGED <<shared, router, sends, encoderQueue, worker>>
  BY DEF Shutdown, routing
<1>2. StreamTyped /\ TargetsFollowShared /\ Undecided
      /\ \A t \in Sessions : Seated(t) /\ Ordered(t) /\ Fitted(t)
  BY DEF StreamInv
<1>3. Newest' = Newest /\ Targets' = Targets /\ \A t : OnTheWay(t)' = OnTheWay(t)
  BY <1>1, SameOnTheWay DEF Newest, Targets
<1>4. /\ application'[s].phase = "Gone"
      /\ \A t \in Sessions \ {s} : application'[t].phase = application[t].phase
                                   /\ caps'[t] = caps[t]
  BY <1>1, <1>2 DEF StreamTyped, NoSession
<1>5. s \notin Targets
  BY <1>1, <1>2 DEF Seated
<1>6. TargetsFollowShared' /\ Undecided'
  BY <1>1, <1>2, <1>3 DEF TargetsFollowShared, Undecided
<1>7. \A t \in Sessions, does \in {"Connect", "Drop"} : manager' # [does |-> does, for |-> t]
  <2>1. \A t \in Sessions, does \in {"Connect", "Drop"} : [does |-> does, for |-> t] \in Tasks
    BY DEF Tasks
  <2> QED BY <1>1, <2>1, StreamAssumption
<1>8. Seated(s)' /\ Fitted(s)'
  BY <1>1, <1>3, <1>4, <1>5, <1>7 DEF Seated, Fitted, At
<1>9. ASSUME NEW t \in Sessions \ {s} PROVE Seated(t)'
  <2>1. /\ application[t].phase = "New" =>
             router[t] = None /\ worker[t] = None /\ OnTheWay(t) = {}
        /\ t \in Targets <=> application[t].phase = "Open"
    BY <1>2 DEF Seated
  <2> QED BY <1>1, <1>3, <1>4, <1>7, <2>1 DEF Seated
<1>10. ASSUME NEW t \in Sessions \ {s} PROVE Fitted(t)'
  BY <1>1, <1>2, <1>3, <1>4, <1>7 DEF Fitted, At
<1>11. ASSUME NEW t \in Sessions PROVE Ordered(t)'
  BY <1>1, <1>2, <1>3 DEF Ordered
<1> QED BY <1>6, <1>8, <1>9, <1>10, <1>11 DEF StreamKept

\* The frames that push sends out are the expected ones, or the current ones of targets
\* that expect nothing.
LEMMA PushKept ==
  ASSUME StreamInv, Push
  PROVE  StreamKept
<1> DEFINE frame == Head(frames)
           first == {s \in Targets : Configures(router[s], frame)}
           next == {s \in Targets : Carries(router[s], frame)}
<1>1. /\ sends = {} /\ frames # <<>>
      /\ sends' = {[to |-> s, frame |-> frame, expected |-> frame] : s \in first}
                    \cup {[to |-> s, frame |-> frame, expected |-> None] : s \in next}
      /\ router' = [s \in Sessions |-> IF s \in first
                      THEN [router[s] EXCEPT !.inFlight = TRUE] ELSE router[s]]
      /\ UNCHANGED <<application, manager, shared, encoderQueue, worker, caps>>
  BY DEF Push, clients, encoding
<1>2. StreamTyped /\ TargetsFollowShared /\ Undecided
      /\ \A t \in Sessions : Seated(t) /\ Ordered(t) /\ Fitted(t)
  BY DEF StreamInv
<1>3. frame \in Generations
  <2>1. frames \in Seq(Generations) /\ frames # <<>>
    BY <1>1, <1>2 DEF StreamTyped
  <2> QED BY <2>1
<1>4. first \subseteq Targets /\ next \subseteq Targets /\ Targets \subseteq Sessions
  BY DEF Targets
<1>5. \A t \in next : router[t].expected = None /\ router[t].current = frame
  BY DEF Carries
<1> HIDE DEF frame, first, next
<1>6. \A t \in Targets : /\ router'[t] \in Configurations
                         /\ router'[t].expected = router[t].expected
                         /\ router'[t].current = router[t].current
  <2> SUFFICES ASSUME NEW t \in Targets
               PROVE  /\ router'[t] \in Configurations
                      /\ router'[t].expected = router[t].expected
                      /\ router'[t].current = router[t].current
    OBVIOUS
  <2>1. router[t] \in Configurations /\ t \in Sessions
    BY <1>2, <1>4, TargetTyped
  <2>2. router'[t] = IF t \in first THEN [router[t] EXCEPT !.inFlight = TRUE] ELSE router[t]
    BY <1>1, <2>1
  <2> QED BY <2>1, <2>2 DEF Configurations
<1>7. \A t \in Sessions : t \notin Targets => router'[t] = router[t]
  BY <1>1, <1>4
<1>8. Targets' = Targets /\ Newest' = Newest
  <2>1. Targets' = Targets
    BY <1>6, <1>7, StreamAssumption DEF Targets
  <2> QED BY <1>1, <2>1 DEF Newest
<1>9. ASSUME NEW t \in Sessions, NEW r \in OnTheWay(t)'
      PROVE  \/ r \in OnTheWay(t)
             \/ t \in first /\ r = [frame |-> frame, expected |-> frame]
             \/ t \in next /\ r = [frame |-> frame, expected |-> None]
  <2>1. CASE r \in {encoderQueue[t][i] : i \in DOMAIN encoderQueue[t]}
    BY <2>1 DEF OnTheWay
  <2>2. CASE r \in {[frame |-> m.frame, expected |-> m.expected]
                      : m \in {n \in sends' : n.to = t}}
    <3> PICK m \in sends' : m.to = t /\ r = [frame |-> m.frame, expected |-> m.expected]
      BY <2>2
    <3>1. \/ \E s \in first : m = [to |-> s, frame |-> frame, expected |-> frame]
          \/ \E s \in next : m = [to |-> s, frame |-> frame, expected |-> None]
      BY <1>1
    <3> QED BY <3>1
  <2> QED BY <1>1, <1>9, <2>1, <2>2 DEF OnTheWay
<1>10. \A t \in next : frame = Newest
  <2> SUFFICES ASSUME NEW t \in next PROVE frame = Newest
    OBVIOUS
  <2>1. /\ router[t].expected = None /\ router[t].current = frame /\ frame # None
        /\ IF shared.expected # None
             THEN shared.expected \in {router[t].expected, router[t].current}
             ELSE router[t].expected = None /\ router[t].current = shared.current
    BY <1>2, <1>3, <1>4, <1>5, GenerationsAreNumbers DEF TargetsFollowShared
  <2> QED BY <2>1 DEF Newest
<1>11. TargetsFollowShared' /\ Undecided'
  BY <1>1, <1>2, <1>6, <1>8 DEF TargetsFollowShared, Undecided
<1>12. ASSUME NEW t \in Sessions PROVE Seated(t)'
  <2>1. /\ application[t].phase = "New" =>
             t \notin Targets /\ router[t] = None /\ worker[t] = None /\ OnTheWay(t) = {}
        /\ t \in Targets <=> application[t].phase = "Open"
        /\ manager = [does |-> "Connect", for |-> t] => application[t].phase = "New"
        /\ manager = [does |-> "Drop", for |-> t] => application[t].phase = "Leaving"
    BY <1>2 DEF Seated
  <2>2. application[t].phase = "New" => OnTheWay(t)' = {}
    BY <1>4, <1>9, <2>1
  <2> QED BY <1>1, <1>7, <1>8, <2>1, <2>2 DEF Seated
<1>13. ASSUME NEW t \in Sessions PROVE Ordered(t)'
  <2> SUFFICES ASSUME NEW r \in OnTheWay(t)'
               PROVE  /\ r.expected \in {None, r.frame}
                      /\ r.expected = None /\ t \in Targets =>
                           /\ r.frame <= Newest
                           /\ router[t].expected # None => r.frame < router[t].expected
    BY <1>6, <1>8 DEF Ordered
  <2>1. CASE r \in OnTheWay(t)
    BY <1>2, <2>1 DEF Ordered
  <2>2. CASE t \in first /\ r = [frame |-> frame, expected |-> frame]
    BY <1>3, <2>2, GenerationsAreNumbers
  <2>3. CASE t \in next /\ r = [frame |-> frame, expected |-> None]
    BY <1>3, <1>5, <1>10, <2>3, GenerationsAreNumbers
  <2> QED BY <1>9, <2>1, <2>2, <2>3
<1>14. ASSUME NEW t \in Sessions PROVE Fitted(t)'
  BY <1>1, <1>2, <1>6, <1>8 DEF Fitted, At
<1> QED BY <1>11, <1>12, <1>13, <1>14 DEF StreamKept

LEMMA ResetKeepsConfigurations ==
  ASSUME StreamTyped, NEW s \in Sessions, router' \in {router, Reset(s)}
  PROVE  /\ Targets' = Targets
         /\ \A t \in Sessions : IF t \in Targets
                                  THEN /\ router'[t].expected = router[t].expected
                                       /\ router'[t].current = router[t].current
                                  ELSE router'[t] = router[t]
<1>1. CASE router' = router
  BY <1>1 DEF Targets
<1>2. CASE s \notin Targets /\ router' = Reset(s)
  BY <1>2 DEF Targets, Reset
<1>3. CASE s \in Targets /\ router' = Reset(s)
  <2>1. router[s] \in Configurations /\ [router[s] EXCEPT !.inFlight = FALSE] \in Configurations
    BY <1>3, TargetTyped DEF Configurations
  <2>2. router'[s] = [router[s] EXCEPT !.inFlight = FALSE]
        /\ \A t \in Sessions \ {s} : router'[t] = router[t]
    BY <1>3 DEF Reset, StreamTyped
  <2>3. router'[s].expected = router[s].expected /\ router'[s].current = router[s].current
        /\ router'[s] # None
    BY <2>1, <2>2, StreamAssumption DEF Configurations
  <2>4. Targets' = Targets
    BY <1>3, <2>2, <2>3 DEF Targets
  <2>5. ASSUME NEW t \in Sessions
        PROVE  IF t \in Targets THEN /\ router'[t].expected = router[t].expected
                                     /\ router'[t].current = router[t].current
                                ELSE router'[t] = router[t]
    <3>1. CASE t = s
      BY <1>3, <2>3, <3>1
    <3>2. CASE t # s
      BY <2>2, <3>2
    <3> QED BY <3>1, <3>2
  <2> QED BY <2>4, <2>5
<1> QED BY <1>1, <1>2, <1>3

LEMMA TrySendKept ==
  ASSUME StreamInv, TrySend
  PROVE  StreamKept
<1> PICK send \in sends :
      /\ sends' = sends \ {send}
      /\ \/ /\ encoderQueue' = [encoderQueue EXCEPT ![send.to] =
                 Append(@, [frame |-> send.frame, expected |-> send.expected])]
            /\ UNCHANGED router
         \/ /\ router' \in {router, Reset(send.to)}
            /\ UNCHANGED encoderQueue
  BY DEF TrySend
<1>1. UNCHANGED <<application, manager, shared, worker, caps>>
  BY DEF TrySend, clients
<1>2. StreamTyped
  BY DEF StreamInv
<1>3. send.to \in Sessions /\ [frame |-> send.frame, expected |-> send.expected] \in Requests
  BY <1>2 DEF StreamTyped, Sends, Requests
<1>4. ASSUME NEW t \in Sessions PROVE OnTheWay(t)' \subseteq OnTheWay(t)
  <2>1. CASE UNCHANGED encoderQueue
    BY <2>1 DEF OnTheWay
  <2>2. CASE encoderQueue' = [encoderQueue EXCEPT ![send.to] =
               Append(@, [frame |-> send.frame, expected |-> send.expected])]
    <3> DEFINE request == [frame |-> send.frame, expected |-> send.expected]
    <3>1. encoderQueue[send.to] \in Seq(Requests) /\ request \in Requests
      BY <1>2, <1>3 DEF StreamTyped
    <3>2. request \in OnTheWay(send.to)
      BY DEF OnTheWay
    <3>3. encoderQueue'[send.to] = Append(encoderQueue[send.to], request)
          /\ (t # send.to => encoderQueue'[t] = encoderQueue[t])
      BY <1>2, <1>3, <2>2 DEF StreamTyped
    <3> HIDE DEF request
    <3>4. \A i \in DOMAIN Append(encoderQueue[send.to], request) :
            \/ Append(encoderQueue[send.to], request)[i] = request
            \/ /\ i \in DOMAIN encoderQueue[send.to]
               /\ Append(encoderQueue[send.to], request)[i] = encoderQueue[send.to][i]
      BY <3>1
    <3>5. \A i \in DOMAIN encoderQueue'[t] : encoderQueue'[t][i] \in OnTheWay(t)
      <4>1. CASE t = send.to
        <5> SUFFICES ASSUME NEW i \in DOMAIN encoderQueue'[t]
                     PROVE  encoderQueue'[t][i] \in OnTheWay(t)
          OBVIOUS
        <5>1. \/ encoderQueue'[t][i] = request
              \/ /\ i \in DOMAIN encoderQueue[t]
                 /\ encoderQueue'[t][i] = encoderQueue[t][i]
          BY <3>3, <3>4, <4>1
        <5> QED BY <3>2, <4>1, <5>1 DEF OnTheWay
      <4>2. CASE t # send.to
        BY <3>3, <4>2 DEF OnTheWay
      <4> QED BY <4>1, <4>2
    <3> QED BY <3>5 DEF OnTheWay
  <2> QED BY <2>1, <2>2
<1>5. router' \in {router, Reset(send.to)}
  OBVIOUS
<1> QED BY <1>1, <1>2, <1>3, <1>4, <1>5, ResetKeepsConfigurations, RoutedKept DEF StreamKept

\* A step of one worker.
LEMMA WorkerKept ==
  ASSUME StreamInv, NEW s \in Sessions, application[s].phase # "New",
         UNCHANGED <<application, manager, shared, sends>>, Targets' = Targets,
         \A t \in Sessions : IF t \in Targets
                               THEN /\ router'[t].expected = router[t].expected
                                    /\ router'[t].current = router[t].current
                               ELSE router'[t] = router[t],
         \A t \in Sessions \ {s} : /\ worker'[t] = worker[t] /\ caps'[t] = caps[t]
                                   /\ encoderQueue'[t] = encoderQueue[t],
         OnTheWay(s)' \subseteq OnTheWay(s), Fitted(s)'
  PROVE  StreamKept
<1>1. \A t \in Sessions : OnTheWay(t)' \subseteq OnTheWay(t)
  BY SameOnTheWay
<1>2. \A t \in Sessions : application[t].phase = "New" => worker'[t] = worker[t]
  OBVIOUS
<1>3. /\ TargetsFollowShared' /\ Undecided'
      /\ \A t \in Sessions : Seated(t)' /\ Ordered(t)'
      /\ \A t \in Sessions : worker'[t] = worker[t] /\ caps'[t] = caps[t] => Fitted(t)'
  BY <1>1, <1>2, RoutedKept
<1> QED BY <1>3 DEF StreamKept

\* The configuration an idle or abandoned worker leaves its encoder with.
LEMMA ReceiveKept ==
  ASSUME StreamInv, NEW s \in Sessions, Receive(s)
  PROVE  StreamKept
<1> DEFINE request == Head(encoderQueue[s])
<1>1. /\ worker[s] = None /\ encoderQueue[s] # <<>>
      /\ encoderQueue' = [encoderQueue EXCEPT ![s] = Tail(@)]
      /\ IF Active(s) = request.frame
           THEN worker' = [worker EXCEPT ![s] =
                  [stage |-> IF request.expected # None THEN "Caps" ELSE "Push",
                   request |-> request]]
           ELSE Abandons(s, request)
      /\ UNCHANGED <<application, manager, shared, router, sends, caps>>
  BY DEF Receive, clients, routing
<1>2. StreamTyped /\ Undecided /\ Seated(s) /\ Ordered(s) /\ Fitted(s)
  BY DEF StreamInv
<1>3. encoderQueue[s] \in Seq(Requests) /\ encoderQueue[s] # <<>>
  BY <1>1, <1>2 DEF StreamTyped
<1>4. request \in Requests /\ request \in OnTheWay(s)
  <2>1. 1 \in DOMAIN encoderQueue[s] /\ request = encoderQueue[s][1] /\ request \in Requests
    BY <1>3
  <2> HIDE DEF request
  <2> QED BY <2>1 DEF OnTheWay
<1>5. OnTheWay(s)' \subseteq OnTheWay(s)
  <2>1. encoderQueue'[s] = Tail(encoderQueue[s])
    BY <1>1, <1>2 DEF StreamTyped
  <2>2. \A i \in DOMAIN Tail(encoderQueue[s]) : \E j \in DOMAIN encoderQueue[s] :
          Tail(encoderQueue[s])[i] = encoderQueue[s][j]
    <3> SUFFICES ASSUME NEW i \in DOMAIN Tail(encoderQueue[s])
                 PROVE  /\ i + 1 \in DOMAIN encoderQueue[s]
                        /\ Tail(encoderQueue[s])[i] = encoderQueue[s][i + 1]
      OBVIOUS
    <3> QED BY <1>3
  <2> QED BY <1>1, <2>1, <2>2 DEF OnTheWay
<1> HIDE DEF request
<1>6. /\ request.expected \in {None, request.frame}
      /\ request.expected = None /\ s \in Targets =>
           (router[s].expected # None => request.frame < router[s].expected)
  BY <1>2, <1>4 DEF Ordered
<1>7. request.frame \in Nat /\ request.frame # None
  BY <1>4, GenerationsAreNumbers DEF Requests
<1>8. Targets' = Targets /\ application[s].phase # "New"
  BY <1>1, <1>2, <1>4 DEF Targets, Seated
<1>9. \A t \in Sessions \ {s} : /\ worker'[t] = worker[t]
                                /\ encoderQueue'[t] = encoderQueue[t]
  BY <1>1, <1>2 DEF StreamTyped, Abandons
<1>10. manager # [does |-> "Connect", for |-> s]
  BY <1>2, <1>8 DEF Seated
<1>11. s \in Targets /\ router[s].current # None => caps[s] = router[s].current
  BY <1>2 DEF Fitted
<1>12. Fitted(s)'
  <2>1. CASE Active(s) = request.frame /\ request.expected # None
    <3>1. worker'[s] = [stage |-> "Caps", request |-> request]
      BY <1>1, <1>2, <2>1 DEF StreamTyped
    <3>2. request.expected = request.frame
      BY <1>6, <2>1
    <3>3. s \in Targets /\ router[s].current # None => router[s].current = request.frame
      BY <1>2, <2>1 DEF Active, Undecided
    <3> QED BY <1>1, <1>8, <1>10, <1>11, <3>1, <3>2, <3>3 DEF Fitted, At
  <2>2. CASE Active(s) = request.frame /\ request.expected = None
    <3>1. worker'[s] = [stage |-> "Push", request |-> request]
      BY <1>1, <1>2, <2>2 DEF StreamTyped
    <3>2. s \in Targets
      BY <1>7, <2>2 DEF Active
    <3>3. router[s].expected = None
      <4>1. SUFFICES ASSUME router[s].expected # None PROVE FALSE
        OBVIOUS
      <4>2. request.frame = router[s].expected
        BY <2>2, <3>2, <4>1 DEF Active
      <4>3. request.frame < router[s].expected
        BY <1>6, <2>2, <3>2, <4>1
      <4> QED BY <1>7, <4>2, <4>3
    <3>4. router[s].current = request.frame
      BY <2>2, <3>2, <3>3 DEF Active
    <3>5. caps[s] = request.frame
      BY <1>7, <1>11, <3>2, <3>4
    <3> QED BY <1>1, <1>8, <1>10, <1>11, <2>2, <3>1, <3>5 DEF Fitted, At
  <2>3. CASE Active(s) # request.frame
    <3>1. worker'[s] = None
          \/ worker'[s] = [stage |-> "Reset", request |-> request]
      BY <1>1, <1>2, <2>3 DEF StreamTyped, Abandons
    <3> QED BY <1>1, <1>6, <1>8, <1>10, <1>11, <3>1 DEF Fitted, At
  <2> QED BY <2>1, <2>2, <2>3
<1> QED BY <1>1, <1>5, <1>8, <1>9, <1>12, WorkerKept

LEMMA EncoderKept ==
  ASSUME StreamInv, NEW s \in Sessions, SetCaps(s) \/ PushFrame(s)
  PROVE  StreamKept
<1>1. UNCHANGED <<application, manager, shared, router, sends, encoderQueue>>
  BY DEF SetCaps, PushFrame, clients, routing
<1>2. StreamTyped /\ Seated(s) /\ Fitted(s)
  BY DEF StreamInv
<1>3. worker[s] # None /\ worker[s] \in Work
  BY <1>2 DEF SetCaps, PushFrame, At, StreamTyped
<1>4. application[s].phase # "New" /\ Targets' = Targets /\ OnTheWay(s)' = OnTheWay(s)
  BY <1>1, <1>2, <1>3, SameOnTheWay DEF Targets, Seated
<1>5. manager # [does |-> "Connect", for |-> s]
  BY <1>2, <1>4 DEF Seated
<1>6. \/ worker' = [worker EXCEPT ![s] = [@ EXCEPT !.stage = "Push"]]
      \/ worker' = [worker EXCEPT ![s] = [@ EXCEPT !.stage = "Apply"]]
      \/ worker' = [worker EXCEPT ![s] = None]
      \/ worker' = [worker EXCEPT ![s] = [stage |-> "Reset", request |-> worker[s].request]]
  BY DEF SetCaps, PushFrame, Goes, Waits, Fails, Abandons
<1>7. caps' = caps \/ caps' = [caps EXCEPT ![s] = worker[s].request.frame]
  BY DEF SetCaps, PushFrame
<1>8. \A t \in Sessions \ {s} : worker'[t] = worker[t] /\ caps'[t] = caps[t]
  BY <1>2, <1>6, <1>7 DEF StreamTyped
<1>9. Fitted(s)'
  <2> DEFINE request == worker[s].request
  <2>1. \A step : [worker[s] EXCEPT !.stage = step].stage = step
                   /\ [worker[s] EXCEPT !.stage = step].request = request
                   /\ [worker[s] EXCEPT !.stage = step] = [stage |-> step, request |-> request]
    BY <1>3 DEF Work
  <2>2. \A step \in {"Push", "Apply", "Reset"} : None # [stage |-> step, request |-> request]
    <3>1. \A step \in {"Push", "Apply", "Reset"} : [stage |-> step, request |-> request] \in Work
      BY <1>3 DEF Work
    <3> QED BY <3>1, StreamAssumption
  <2>3. request.expected \in {None, request.frame}
        /\ (s \in Targets /\ router[s].current # None => caps[s] = router[s].current)
    BY <1>2, <1>3 DEF Fitted
  <2> HIDE DEF request
  <2>4. CASE SetCaps(s)
    <3>1. /\ request.expected = request.frame
          /\ s \in Targets /\ router[s].current # None => router[s].current = request.frame
      BY <1>2, <2>4 DEF SetCaps, Fitted, request
    <3>2. CASE caps' = [caps EXCEPT ![s] = request.frame]
      <4>1. caps'[s] = request.frame
        BY <1>2, <3>2 DEF StreamTyped
      <4>2. worker'[s] \in {None, [stage |-> "Push", request |-> request],
                            [stage |-> "Reset", request |-> request]}
        BY <1>2, <2>1, <2>4 DEF SetCaps, Goes, Fails, Abandons, StreamTyped, request
      <4> QED BY <1>1, <1>4, <1>5, <2>3, <3>1, <4>1, <4>2 DEF Fitted, At
    <3>3. CASE caps' = caps
      <4>1. caps'[s] = caps[s]
        BY <3>3
      <4>2. \/ worker'[s] \in {None, [stage |-> "Reset", request |-> request]}
            \/ caps' = [caps EXCEPT ![s] = request.frame]
        BY <1>2, <2>1, <2>4 DEF SetCaps, Goes, Fails, Abandons, StreamTyped, request
      <4> QED BY <1>1, <1>4, <1>5, <2>3, <3>2, <4>1, <4>2 DEF Fitted, At
    <3> QED BY <1>7, <3>2, <3>3 DEF request
  <2>5. CASE PushFrame(s)
    <3>1. caps[s] = request.frame /\ caps' = caps
      BY <1>2, <2>5 DEF PushFrame, Fitted, request
    <3>2. \/ worker'[s] \in {None, [stage |-> "Reset", request |-> request]}
          \/ /\ worker'[s] = [stage |-> "Apply", request |-> request]
             /\ request.expected # None
      BY <1>2, <2>1, <2>5 DEF PushFrame, Goes, Waits, Fails, Abandons, StreamTyped, request
    <3> QED BY <1>1, <1>4, <1>5, <2>3, <3>1, <3>2 DEF Fitted, At
  <2> QED BY <2>4, <2>5
<1> QED BY <1>1, <1>4, <1>8, <1>9, WorkerKept

LEMMA ResetKept ==
  ASSUME StreamInv, NEW s \in Sessions, ResetInFlight(s)
  PROVE  StreamKept
<1>1. /\ router' = Reset(s) /\ worker' = [worker EXCEPT ![s] = None]
      /\ UNCHANGED <<application, manager, shared, sends, encoderQueue, caps>>
  BY DEF ResetInFlight, Waits, clients
<1>2. StreamTyped /\ Seated(s) /\ Fitted(s)
  BY DEF StreamInv
<1>3. worker'[s] = None /\ \A t \in Sessions \ {s} : worker'[t] = worker[t]
  BY <1>1, <1>2 DEF StreamTyped
<1>4. /\ Targets' = Targets
      /\ \A t \in Sessions : IF t \in Targets
                               THEN /\ router'[t].expected = router[t].expected
                                    /\ router'[t].current = router[t].current
                               ELSE router'[t] = router[t]
  BY <1>1, <1>2, ResetKeepsConfigurations
<1>5. application[s].phase # "New" /\ manager # [does |-> "Connect", for |-> s]
  BY <1>2 DEF ResetInFlight, At, Seated
<1>6. Fitted(s)'
  BY <1>1, <1>2, <1>3, <1>4, <1>5 DEF Fitted, At
<1>7. OnTheWay(s)' = OnTheWay(s)
  BY <1>1, SameOnTheWay
<1> QED BY <1>1, <1>3, <1>4, <1>5, <1>6, <1>7, WorkerKept

\* A target that takes over what it expects; the router follows when all of them have it.
LEMMA TakeOverKept ==
  ASSUME StreamInv, NEW s \in Targets, NEW number \in Generations,
         At(s, "Apply"), number = worker[s].request.expected, router[s].expected = number,
         router' = [router EXCEPT ![s] = [expected |-> None, current |-> number,
                                          applied |-> number, inFlight |-> FALSE]],
         worker' = [worker EXCEPT ![s] = None],
         shared' = IF \A t \in Targets : router'[t].current = number
                     THEN [expected |-> None, current |-> number] ELSE shared,
         UNCHANGED <<application, manager, sends, encoderQueue, caps>>
  PROVE  StreamKept
<1>1. StreamTyped /\ TargetsFollowShared /\ Undecided
      /\ \A t \in Sessions : Seated(t) /\ Ordered(t) /\ Fitted(t)
  BY DEF StreamInv
<1>2. s \in Sessions /\ Targets \subseteq Sessions /\ number # None /\ None \in Known
  BY GenerationsAreNumbers DEF Targets
<1>3. \A t : OnTheWay(t)' = OnTheWay(t)
  BY SameOnTheWay
<1>4. /\ router'[s] = [expected |-> None, current |-> number, applied |-> number, inFlight |-> FALSE]
      /\ worker'[s] = None
      /\ \A t \in Sessions \ {s} : router'[t] = router[t] /\ worker'[t] = worker[t]
  BY <1>1, <1>2 DEF StreamTyped
<1>5. router'[s] # None
  <2>1. router'[s] \in Configurations
    BY <1>2, <1>4, GenerationsAreNumbers DEF Configurations
  <2> QED BY <2>1, StreamAssumption
<1>6. Targets' = Targets
  BY <1>2, <1>4, <1>5 DEF Targets
<1>7. shared.expected = number
  BY <1>1, <1>2 DEF TargetsFollowShared, Undecided
<1>8. Newest' = Newest /\ Newest = number
  <2>1. CASE shared' = shared
    BY <1>2, <1>7, <2>1 DEF Newest
  <2>2. CASE shared' = [expected |-> None, current |-> number]
    BY <1>2, <1>7, <2>2 DEF Newest
  <2> QED BY <2>1, <2>2
<1>9. Undecided'
  <2>1. \A t \in Targets \ {s} : router'[t].expected # None => router'[t].current = None
    BY <1>1, <1>2, <1>4 DEF Undecided
  <2> QED BY <1>4, <1>6, <2>1 DEF Undecided
<1>10. TargetsFollowShared'
  <2>1. \A t \in Targets \ {s} : number \in {router'[t].expected, router'[t].current}
    BY <1>1, <1>2, <1>4, <1>7 DEF TargetsFollowShared
  <2>2. \A t \in Targets : number \in {router'[t].expected, router'[t].current}
    BY <1>4, <2>1
  <2>3. CASE \A t \in Targets : router'[t].current = number
    <3>1. \A t \in Targets : router'[t].expected = None
      BY <1>2, <1>6, <1>9, <2>3 DEF Undecided
    <3> QED BY <1>6, <2>3, <3>1 DEF TargetsFollowShared
  <2>4. CASE ~ \A t \in Targets : router'[t].current = number
    BY <1>2, <1>6, <1>7, <2>2, <2>4 DEF TargetsFollowShared
  <2> QED BY <2>3, <2>4
<1>11. application[s].phase = "Open" /\ manager # [does |-> "Connect", for |-> s]
  BY <1>1, <1>2 DEF Seated
<1>12. caps[s] = number
  BY <1>1, <1>2 DEF Fitted
<1>13. Seated(s)' /\ Ordered(s)' /\ Fitted(s)'
  <2>1. Seated(s)'
    BY <1>1, <1>2, <1>6, <1>11 DEF Seated
  <2>2. Ordered(s)'
    BY <1>1, <1>2, <1>3, <1>4, <1>6, <1>8 DEF Ordered
  <2>3. Fitted(s)'
    BY <1>4, <1>11, <1>12 DEF Fitted, At
  <2> QED BY <2>1, <2>2, <2>3
<1>14. ASSUME NEW t \in Sessions \ {s} PROVE Seated(t)' /\ Ordered(t)' /\ Fitted(t)'
  <2>1. Seated(t)'
    BY <1>1, <1>3, <1>4, <1>6 DEF Seated
  <2>2. Ordered(t)'
    BY <1>1, <1>3, <1>4, <1>6, <1>8 DEF Ordered
  <2>3. Fitted(t)'
    BY <1>1, <1>4, <1>6, <1>8 DEF Fitted, At
  <2> QED BY <2>1, <2>2, <2>3
<1> QED BY <1>9, <1>10, <1>13, <1>14 DEF StreamKept

LEMMA ApplyKept ==
  ASSUME StreamInv, NEW s \in Sessions, ApplyConfiguration(s)
  PROVE  StreamKept
<1> DEFINE number == worker[s].request.expected
           after == [router EXCEPT ![s] = [expected |-> None, current |-> number,
                                           applied |-> number, inFlight |-> FALSE]]
<1>1. /\ At(s, "Apply") /\ worker' = [worker EXCEPT ![s] = None]
      /\ UNCHANGED <<application, manager, sends, encoderQueue, caps>>
      /\ IF s \in Targets /\ router[s].expected = number
           THEN /\ router' = after
                /\ shared' = IF AllConfigured(after, number)
                               THEN [expected |-> None, current |-> number] ELSE shared
           ELSE UNCHANGED routing
  BY DEF ApplyConfiguration, Waits, clients
<1>2. StreamTyped /\ Seated(s) /\ Fitted(s)
  BY DEF StreamInv
<1>3. number \in Generations
  BY <1>1, <1>2 DEF At, Fitted, StreamTyped, Work, Requests
<1>4. CASE s \in Targets /\ router[s].expected = number
  <2>1. shared' = IF \A t \in Targets : router'[t].current = number
                    THEN [expected |-> None, current |-> number] ELSE shared
    BY <1>1, <1>4 DEF AllConfigured
  <2> QED BY <1>1, <1>3, <1>4, <2>1, TakeOverKept
<1>5. CASE ~(s \in Targets /\ router[s].expected = number)
  <2>1. UNCHANGED <<shared, router>>
    BY <1>1, <1>5 DEF routing
  <2>2. worker'[s] = None /\ \A t \in Sessions \ {s} : worker'[t] = worker[t]
    BY <1>1, <1>2 DEF StreamTyped
  <2>3. application[s].phase # "New" /\ manager # [does |-> "Connect", for |-> s]
    BY <1>1, <1>2 DEF At, Seated
  <2>4. Targets' = Targets /\ OnTheWay(s)' = OnTheWay(s)
    BY <1>1, <2>1, SameOnTheWay DEF Targets
  <2>5. Fitted(s)'
    BY <1>1, <1>2, <2>1, <2>2, <2>3, <2>4 DEF Fitted, At
  <2> QED BY <1>1, <2>1, <2>2, <2>3, <2>4, <2>5, WorkerKept
<1> QED BY <1>4, <1>5

LEMMA StreamKeptNext ==
  ASSUME StreamInv, [StreamNext]_streamVars
  PROVE  StreamKept
<1>1. CASE \E s \in Sessions : ClientStep(s) \/ Connect(s) \/ Flush(s) \/ Drop(s)
                               \/ ManagerEnds(s)
  BY <1>1, ClientKept, ConnectKept, FlushKept, DropKept, ActivateKept, ShutdownKept
     DEF ManagerEnds
<1>2. CASE \E s \in Sessions : WorkerStep(s)
  BY <1>2, ReceiveKept, EncoderKept, ResetKept, ApplyKept DEF WorkerStep
<1>3. CASE Resize \/ Capture \/ UNCHANGED streamVars
  BY <1>3, BevyKept
<1>4. CASE Push \/ TrySend
  BY <1>4, PushKept, TrySendKept
<1> QED BY <1>1, <1>2, <1>3, <1>4 DEF StreamNext

LEMMA StreamInvariant == StreamSpec => []StreamInv
<1>1. ASSUME StreamInv, [StreamNext]_streamVars PROVE StreamInv'
  BY <1>1, StreamTypedNext, StreamKeptNext DEF StreamInv, StreamKept
<1> QED BY <1>1, StreamInitial, PTL DEF StreamSpec

\* What the interface, the router, the queues and the workers hold keeps its shape: no frame
\* and no request ever names a generation that nobody handed out.
THEOREM StreamTypeCorrect == StreamSpec => []StreamTyped
BY StreamInvariant, PTL DEF StreamInv

\* A worker pushes a frame, or reports a configuration, only under the caps of that generation
\* (spawn_encoder_worker): for any number of viewers and requests, whatever of them is
\* lost, fails in the encoder, or is overtaken by the next one.
THEOREM StreamCapsFitFrame == StreamSpec => []CapsFitFrame
<1>1. StreamInv => CapsFitFrame
  BY DEF StreamInv, Fitted, CapsFitFrame
<1> QED BY <1>1, StreamInvariant, PTL

\* What sessions that join take over from the router is what its targets have or expect
\* (configure, apply_configuration, activate and deactivate of the frame router).
THEOREM StreamTargetsFollowShared == StreamSpec => []TargetsFollowShared
BY StreamInvariant, PTL DEF StreamInv

-----------------------------------------------------------------------------
(***************************************************************************)
(* LiveProjection. A generation that is under way either shows the stage   *)
(* as far as it got, or a notice that waits will restart it; once it is    *)
(* ready, what the entities do not show is below a notice that waits.      *)
(***************************************************************************)

Notices == [kind : {"resync", "info"}, prim : Tree]

Plans ==
  [session : Nat, restart : BOOLEAN,
   readiness : {"Idle", "Planning", "Projecting", "Ready", "Failed", "Cancelled"},
   view : SUBSET Prims, found : SUBSET Tree, expanded : SUBSET Tree, done : SUBSET Tree]

\* A stage holds the ancestors of its prims.
Complete(s) == s \subseteq Prims /\ \A p \in s : Parent[p] \in Present(s)

ProjectionTyped ==
  /\ Complete(stage) /\ session \in Nat /\ queue \subseteq Notices /\ batch \subseteq Notices
  /\ suppressed \subseteq Prims
  /\ gen \in Plans /\ gen.session <= session
  /\ mapped \subseteq Tree /\ stale \subseteq mapped /\ ghosts \subseteq Tree
  /\ phase \in {"Between", "Project", "Reconcile"}
  /\ system \in {"waiting", "draining", "worked", "ran"}
  /\ missed \in BOOLEAN /\ swallowed \subseteq Tree
  /\ edits \in Nat /\ faults \in Nat

\* Where the notices are in a frame; a plan is drained only while none waits.
InFrame ==
  /\ phase # "Reconcile" => batch = {}
  /\ phase = "Reconcile" => queue = {}
  /\ system \in {"draining", "worked"} =>
       /\ phase = "Project" /\ queue = {} /\ InProgress
       /\ gen.session = session /\ ~gen.restart

\* The notices that nothing was made of yet, and the prims that they reach.
Pending == queue \cup batch
NamedIn(notices, kind) == {n.prim : n \in {m \in notices : m.kind = kind}}
Reached(notices) == UNION {Under[p] : p \in NamedIn(notices, "resync")}

\* The projection system will see a change of the stage before it goes on.
Doomed ==
  /\ NamedIn(Pending, "resync") # {}
  /\ phase = "Between" \/ (phase = "Project" /\ system = "waiting")

\* What an entity does not show is on its way to it, or was swallowed.
StaleIsKnown ==
  stale \subseteq swallowed \cup NamedIn(Pending, "info") \cup Reached(Pending)

\* The plan and the entities are those of the stage, as far as they go.
Built ==
  /\ NamedIn(Pending, "resync") = {}
  /\ gen.view = stage
  /\ gen.found = {Root} \cup {q \in stage : Parent[q] \in gen.expanded}
  /\ gen.expanded \subseteq gen.found /\ gen.done \subseteq gen.found
  /\ gen.readiness = "Projecting" => gen.expanded = gen.found
  /\ mapped = gen.done /\ ghosts = {} /\ StaleIsKnown

Building == gen.session = session /\ InProgress /\ ~gen.restart /\ ~missed => Doomed \/ Built

\* An entity too many or too few is below a notice.
DifferencesKnown ==
  /\ Root \in mapped /\ ghosts = {} /\ StaleIsKnown
  /\ \A p \in Prims : (p \in mapped <=> p \in stage) \/ p \in Reached(Pending)

Showing == gen.session = session /\ gen.readiness = "Ready" /\ ~missed => DifferencesKnown

ProjectionInv == ProjectionTyped /\ InFrame /\ Building /\ Showing

(* The namespace.                                                          *)

LEMMA UnderSelf == ASSUME NEW p \in Tree PROVE p \in Under[p] /\ Under[p] \subseteq Tree
BY DEF Under

LEMMA UnderParent ==
  ASSUME NEW p \in Prims
  PROVE  Parent[p] \in Tree /\ p \in Under[Parent[p]] /\ Under[p] \subseteq Under[Parent[p]]
<1>1. p \in Tree /\ p # Root /\ Parent[p] \in Tree
  BY ProjectionAssumption DEF Tree
<1>2. ASSUME NEW q \in Under[p] PROVE q \in Under[Parent[p]]
  <2>1. q \in Tree
    BY <1>1, <1>2 DEF Under
  <2>2. ASSUME NEW S \in SUBSET Tree, q \in S, \A r \in S \ {Root} : Parent[r] \in S
        PROVE  Parent[p] \in S
    <3>1. p \in S
      BY <1>1, <1>2, <2>2 DEF Under
    <3> QED BY <1>1, <2>2, <3>1
  <2> QED BY <1>1, <2>1, <2>2 DEF Under
<1> QED BY <1>1, <1>2, UnderSelf

LEMMA UnderChild ==
  ASSUME NEW p \in Tree, NEW q \in Prims, Parent[q] \in Under[p]
  PROVE  q \in Under[p]
<1>1. q \in Tree /\ q # Root
  BY ProjectionAssumption DEF Tree
<1>2. ASSUME NEW S \in SUBSET Tree, q \in S, \A r \in S \ {Root} : Parent[r] \in S
      PROVE  p \in S
  <2>1. Parent[q] \in S
    BY <1>1, <1>2
  <2> QED BY <1>2, <2>1 DEF Under
<1> QED BY <1>1, <1>2 DEF Under

\* Whatever holds the root and the children of what it holds has every prim of a stage.
LEMMA WholeStage ==
  ASSUME NEW s, Complete(s), NEW found, Root \in found,
         \A q \in s : Parent[q] \in found => q \in found
  PROVE  s \subseteq found
<1> SUFFICES ASSUME NEW p \in s, p \notin found PROVE FALSE
  OBVIOUS
<1> DEFINE S == s \ found
<1>1. S \in SUBSET Tree /\ p \in S /\ Root \notin s
  BY ProjectionAssumption DEF Complete, Tree
<1>2. \A r \in S \ {Root} : Parent[r] \in S
  BY DEF Complete, Present
<1>3. p \in Under[Root]
  BY ProjectionAssumption DEF Complete
<1>4. Root \in Tree
  BY DEF Tree
<1> HIDE DEF S
<1>5. Root \in S
  BY <1>1, <1>2, <1>3, <1>4 DEF Under
<1> QED BY <1>1, <1>5 DEF S

LEMMA CompleteKept ==
  ASSUME NEW s, Complete(s), NEW p \in Prims
  PROVE  /\ Parent[p] \in Present(s) => Complete(s \cup {p})
         /\ Complete(s \ Under[p])
<1>1. Parent[p] \in Present(s) => Complete(s \cup {p})
  BY DEF Complete, Present
<1>2. ASSUME NEW q \in s \ Under[p] PROVE Parent[q] \in Present(s \ Under[p])
  <2>1. p \in Tree /\ q \in Prims
    BY DEF Complete, Tree
  <2>2. Parent[q] \notin Under[p]
    BY <1>2, <2>1, UnderChild
  <2> QED BY <2>2 DEF Complete, Present
<1>3. Complete(s \ Under[p])
  BY <1>2 DEF Complete
<1> QED BY <1>1, <1>3

LEMMA InNamed ==
  ASSUME NEW notices, NEW kind, NEW p
  PROVE  p \in NamedIn(notices, kind) <=> \E n \in notices : n.kind = kind /\ n.prim = p
BY DEF NamedIn

LEMMA InReached ==
  ASSUME NEW notices, NEW q
  PROVE  q \in Reached(notices) <=> \E n \in notices : n.kind = "resync" /\ q \in Under[n.prim]
<1>1. q \in Reached(notices) <=> \E p \in NamedIn(notices, "resync") : q \in Under[p]
  BY DEF Reached
<1> QED BY <1>1, InNamed

(* Edits.                                                                  *)

LEMMA ProjectionInitial == Init => ProjectionInv
<1> SUFFICES ASSUME Init PROVE ProjectionInv
  OBVIOUS
<1>1. Complete(stage)
  BY ProjectionAssumption DEF Init, Complete, Present
<1>2. gen \in Plans
  BY DEF Init, NoGeneration, Plans
<1>3. gen.session = 0 /\ gen.readiness = "Idle"
  BY DEF Init, NoGeneration
<1>4. ProjectionTyped
  <2>1. session \in Nat /\ gen.session <= session /\ edits \in Nat /\ faults \in Nat
    BY <1>3 DEF Init
  <2>2. /\ queue = {} /\ batch = {} /\ suppressed = {} /\ mapped = {} /\ stale = {}
        /\ ghosts = {} /\ swallowed = {} /\ missed = FALSE
        /\ phase = "Between" /\ system = "waiting"
    BY DEF Init
  <2> QED BY <1>1, <1>2, <2>1, <2>2 DEF ProjectionTyped
<1>5. InFrame
  BY DEF Init, InFrame
<1>6. Building /\ Showing
  BY <1>3 DEF Building, Showing, InProgress
<1> QED BY <1>4, <1>5, <1>6 DEF ProjectionInv

\* An edit whose notice names what it changes.
LEMMA CommitKept ==
  ASSUME ProjectionInv, NEW notice \in Notices, NEW show \in SUBSET Prims,
         Commit({notice}, show), HostRuns \/ EditorRuns,
         suppressed' \subseteq Prims, Complete(stage'),
         missed' = (missed \/ (Slips /\ notice.kind = "resync")),
         notice.kind = "info" => stage' = stage /\ show \subseteq {notice.prim},
         notice.kind = "resync" => show \subseteq Under[notice.prim],
         notice.kind = "resync" =>
           \A p \in Prims : (p \in stage' <=> p \in stage) \/ p \in Under[notice.prim]
  PROVE  ProjectionInv'
<1>1. /\ queue' = queue \cup {notice} /\ edits' = edits + 1 /\ edits \in Nat
      /\ stale' = (stale \cup show) \cap mapped
      /\ UNCHANGED <<session, batch, gen, mapped, ghosts, phase, system, swallowed, faults>>
  BY DEF Commit, ProjectionInv, ProjectionTyped
<1>2. ProjectionTyped /\ InFrame /\ Building /\ Showing
  BY DEF ProjectionInv
<1>3. Pending' = Pending \cup {notice}
  BY <1>1 DEF Pending
<1>4. ProjectionTyped'
  BY <1>1, <1>2 DEF ProjectionTyped, Complete, Present
<1>5. InFrame'
  BY <1>1, <1>2 DEF InFrame, HostRuns, EditorRuns, InProgress
<1>6. /\ \A p : p \in NamedIn(Pending, "info") => p \in NamedIn(Pending', "info")
      /\ \A p : p \in NamedIn(Pending, "resync") => p \in NamedIn(Pending', "resync")
      /\ \A p : p \in Reached(Pending) => p \in Reached(Pending')
      /\ notice.prim \in NamedIn(Pending', notice.kind)
      /\ notice.kind = "resync" => \A p \in Under[notice.prim] : p \in Reached(Pending')
      /\ notice.kind = "info" => NamedIn(Pending', "resync") = NamedIn(Pending, "resync")
  <2>1. \A n \in Pending : n \in Pending'
    BY <1>3
  <2>2. /\ \A p : p \in NamedIn(Pending, "info") => p \in NamedIn(Pending', "info")
        /\ \A p : p \in NamedIn(Pending, "resync") => p \in NamedIn(Pending', "resync")
    BY <2>1, InNamed
  <2>3. \A p : p \in Reached(Pending) => p \in Reached(Pending')
    BY <2>1, InReached
  <2>4. notice \in Pending'
    BY <1>3
  <2>5. notice.prim \in NamedIn(Pending', notice.kind)
    BY <2>4, InNamed
  <2>6. notice.kind = "resync" => \A p \in Under[notice.prim] : p \in Reached(Pending')
    BY <2>4, InReached
  <2>7. ASSUME notice.kind = "info"
        PROVE  NamedIn(Pending', "resync") = NamedIn(Pending, "resync")
    BY <1>3, <2>2, <2>7 DEF NamedIn
  <2> QED BY <2>2, <2>3, <2>5, <2>6, <2>7
<1>7. notice.kind \in {"info", "resync"}
  BY DEF Notices
<1>8. StaleIsKnown => StaleIsKnown'
  BY <1>1, <1>6, <1>7 DEF StaleIsKnown
<1>9. Building'
  <2> SUFFICES ASSUME gen.session = session, InProgress, ~gen.restart, ~missed'
               PROVE  Doomed' \/ Built'
    BY <1>1 DEF Building, InProgress
  <2>1. Doomed \/ Built
    BY <1>2 DEF Building
  <2>2. CASE notice.kind = "resync"
    BY <1>1, <1>6, <2>2 DEF Slips, HostRuns, EditorRuns, Doomed
  <2>3. CASE notice.kind = "info"
    <3>1. Doomed => Doomed'
      BY <1>1, <1>6, <2>3 DEF Doomed
    <3>2. Built => Built'
      BY <1>1, <1>6, <1>8, <2>3 DEF Built
    <3> QED BY <2>1, <3>1, <3>2
  <2> QED BY <1>7, <2>2, <2>3
<1>10. Showing'
  <2> SUFFICES ASSUME gen.session = session, gen.readiness = "Ready", ~missed'
               PROVE  DifferencesKnown'
    BY <1>1 DEF Showing
  <2>1. DifferencesKnown
    BY <1>2 DEF Showing
  <2>2. ASSUME NEW p \in Prims PROVE (p \in mapped' <=> p \in stage') \/ p \in Reached(Pending')
    BY <1>1, <1>6, <1>7, <2>1 DEF DifferencesKnown
  <2> QED BY <1>1, <1>8, <2>1, <2>2 DEF DifferencesKnown
<1> QED BY <1>4, <1>5, <1>9, <1>10 DEF ProjectionInv

LEMMA SetValueKept ==
  ASSUME ProjectionInv, NEW p \in Prims, SetValue(p)
  PROVE  ProjectionInv'
<1> PICK show \in SUBSET {p} : Commit({Info(p)}, show)
  BY DEF SetValue
<1>1. Info(p) \in Notices /\ Info(p).kind = "info" /\ Info(p).prim = p
  BY DEF Info, Notices, Tree
<1>2. /\ HostRuns \/ EditorRuns
      /\ suppressed' \subseteq Prims /\ stage' = stage /\ missed' = missed /\ Complete(stage)
      /\ missed \in BOOLEAN
  BY DEF SetValue, Mark, ProjectionInv, ProjectionTyped
<1>3. missed' = (missed \/ (Slips /\ Info(p).kind = "resync"))
  BY <1>1, <1>2
<1> HIDE DEF Info
<1> QED BY <1>1, <1>2, <1>3, CommitKept

LEMMA PopulateKept ==
  ASSUME ProjectionInv, NEW p \in Prims, AddPrim(p) \/ RemovePrim(p)
  PROVE  ProjectionInv'
<1>1. Complete(stage) /\ suppressed \subseteq Prims
  BY DEF ProjectionInv, ProjectionTyped
<1>2. \/ stage' = stage \cup {p} /\ Parent[p] \in Present(stage)
      \/ stage' = stage \ Under[p]
  BY DEF AddPrim, RemovePrim
<1>3. Complete(stage')
  BY <1>1, <1>2, CompleteKept
<1>4. \A q \in Prims : (q \in stage' <=> q \in stage) \/ q \in Under[p]
  BY <1>2, UnderSelf DEF Tree
<1>5. PICK notice \in {Resync(p), Resync(Parent[p])} :
        Commit({notice}, {p}) /\ suppressed' \subseteq Prims
  BY <1>1 DEF AddPrim, RemovePrim, Mark
<1>6. notice \in Notices /\ notice.kind = "resync"
      /\ Under[p] \subseteq Under[notice.prim] /\ p \in Under[notice.prim]
  BY <1>5, UnderParent, UnderSelf DEF Resync, Notices, Tree
<1>7. HostRuns \/ EditorRuns
  BY DEF AddPrim, RemovePrim
<1>8. missed' = (missed \/ (Slips /\ notice.kind = "resync"))
  BY <1>6 DEF AddPrim, RemovePrim
<1>9. \A q \in Prims : (q \in stage' <=> q \in stage) \/ q \in Under[notice.prim]
  BY <1>4, <1>6
<1> QED BY <1>3, <1>5, <1>6, <1>7, <1>8, <1>9, CommitKept

LEMMA ReplaceStageKept ==
  ASSUME ProjectionInv, NEW s \in Opened, ReplaceStage(s)
  PROVE  ProjectionInv'
<1>1. /\ HostRuns /\ stage' = s /\ queue' = {Resync(Root)} /\ suppressed' = {}
      /\ stale' = mapped \ {Root} /\ missed' = (missed \/ Slips) /\ edits' = edits + 1
      /\ UNCHANGED <<session, batch, gen, mapped, ghosts, phase, system, swallowed, faults>>
  BY DEF ReplaceStage
<1>2. ProjectionTyped /\ InFrame /\ Building /\ Showing
  BY DEF ProjectionInv
<1>3. Resync(Root) \in Notices /\ Resync(Root).kind = "resync" /\ Resync(Root).prim = Root
  BY DEF Resync, Notices, Tree
<1>4. Resync(Root) \in Pending'
  BY <1>1 DEF Pending
<1> HIDE DEF Resync
<1>5. Root \in NamedIn(Pending', "resync") /\ \A p \in Prims : p \in Reached(Pending')
  BY <1>3, <1>4, InNamed, InReached, ProjectionAssumption
<1>6. Complete(s)
  BY ProjectionAssumption DEF Complete, Present
<1>7. ProjectionTyped'
  <2>1. edits' \in Nat /\ missed' \in BOOLEAN /\ queue' \subseteq Notices
    BY <1>1, <1>2, <1>3 DEF ProjectionTyped
  <2>2. Complete(stage')
    BY <1>1, <1>6
  <2> QED BY <1>1, <1>2, <2>1, <2>2 DEF ProjectionTyped
<1>8. InFrame'
  BY <1>1, <1>2 DEF InFrame, HostRuns, InProgress
<1>9. StaleIsKnown'
  BY <1>1, <1>2, <1>5 DEF StaleIsKnown, ProjectionTyped, Tree
<1>10. Building'
  <2> SUFFICES ASSUME gen.session = session, InProgress, ~gen.restart, ~missed' PROVE Doomed'
    BY <1>1 DEF Building, InProgress
  <2> QED BY <1>1, <1>5 DEF Slips, HostRuns, Doomed
<1>11. Showing'
  <2> SUFFICES ASSUME gen.session = session, gen.readiness = "Ready", ~missed'
               PROVE  DifferencesKnown'
    BY <1>1 DEF Showing
  <2>1. Root \in mapped /\ ghosts = {}
    BY <1>1, <1>2 DEF Showing, DifferencesKnown
  <2> QED BY <1>1, <1>5, <1>9, <2>1 DEF DifferencesKnown
<1> QED BY <1>7, <1>8, <1>10, <1>11 DEF ProjectionInv

LEMMA OpenStageKept ==
  ASSUME ProjectionInv, NEW s \in Opened, HotReload(s)
  PROVE  ProjectionInv'
<1>1. /\ system \in {"waiting", "ran"} /\ session' = session + 1 /\ stage' = s /\ queue' = {}
      /\ suppressed' = {} /\ mapped' = {} /\ stale' = {} /\ ghosts' = {} /\ swallowed' = {}
      /\ UNCHANGED <<batch, gen, phase, system, missed, edits, faults>>
  BY DEF HotReload, OpenStage, bounds
<1>2. ProjectionTyped /\ InFrame
  BY DEF ProjectionInv
<1>3. Complete(s)
  BY ProjectionAssumption DEF Complete, Present
<1>4. gen \in Plans /\ gen.session \in Nat /\ gen.session < session' /\ session' \in Nat
  BY <1>1, <1>2 DEF ProjectionTyped, Plans
<1>5. ProjectionTyped'
  <2>1. Complete(stage')
    BY <1>1, <1>3
  <2> QED BY <1>1, <1>2, <1>4, <2>1 DEF ProjectionTyped
<1>6. InFrame'
  BY <1>1, <1>2 DEF InFrame
<1>7. Building' /\ Showing'
  BY <1>1, <1>4 DEF Building, Showing
<1> QED BY <1>5, <1>6, <1>7 DEF ProjectionInv

LEMMA CancelKept ==
  ASSUME ProjectionInv, CancelProjection
  PROVE  ProjectionInv'
<1>1. /\ phase = "Between" /\ gen' = [gen EXCEPT !.readiness = "Cancelled", !.restart = TRUE]
      /\ faults' = faults + 1
      /\ UNCHANGED <<stage, session, queue, suppressed, batch, mapped, stale, ghosts, phase,
                     system, missed, swallowed, edits>>
  BY DEF CancelProjection, live, entities, history
<1>2. ProjectionTyped /\ InFrame
  BY DEF ProjectionInv
<1>3. gen' \in Plans /\ gen'.readiness = "Cancelled" /\ gen'.session = gen.session
  BY <1>1, <1>2 DEF ProjectionTyped, Plans
<1>4. ProjectionTyped'
  <2>1. faults' \in Nat /\ Complete(stage)
    BY <1>1, <1>2 DEF ProjectionTyped
  <2> QED BY <1>1, <1>2, <1>3, <2>1 DEF ProjectionTyped
<1>5. InFrame'
  BY <1>1, <1>2 DEF InFrame
<1>6. Building' /\ Showing'
  BY <1>3 DEF Building, Showing, InProgress
<1> QED BY <1>4, <1>5, <1>6 DEF ProjectionInv

LEMMA EditKept ==
  ASSUME ProjectionInv, Edit
  PROVE  ProjectionInv'
BY SetValueKept, PopulateKept, ReplaceStageKept, OpenStageKept, CancelKept DEF Edit

(* The projection system.                                                  *)

LEMMA StartFrameKept ==
  ASSUME ProjectionInv, StartFrame
  PROVE  ProjectionInv'
<1>1. /\ phase = "Between" /\ phase' = "Project" /\ system' = "waiting"
      /\ UNCHANGED <<stage, session, queue, suppressed, batch, gen, mapped, stale, ghosts,
                     missed, swallowed, edits, faults>>
  BY DEF StartFrame, live, entities, history, bounds
<1>2. ProjectionTyped /\ InFrame /\ Building /\ Showing
  BY DEF ProjectionInv
<1>3. ProjectionTyped' /\ InFrame'
  BY <1>1, <1>2 DEF ProjectionTyped, InFrame, Complete, Present
<1>4. Pending' = Pending
  BY <1>1 DEF Pending
<1>5. Building'
  <2>1. Doomed => Doomed'
    BY <1>1, <1>4 DEF Doomed
  <2>2. Built => Built'
    BY <1>1, <1>4 DEF Built, StaleIsKnown
  <2> QED BY <1>1, <1>2, <2>1, <2>2 DEF Building, InProgress
<1>6. Showing'
  BY <1>1, <1>2, <1>4 DEF Showing, DifferencesKnown, StaleIsKnown
<1> QED BY <1>3, <1>5, <1>6 DEF ProjectionInv

LEMMA ProjectOnLoadKept ==
  ASSUME ProjectionInv, ProjectOnLoad
  PROVE  ProjectionInv'
<1>1. /\ phase = "Project" /\ system = "waiting"
      /\ UNCHANGED <<stage, session, queue, suppressed, batch, phase, edits, faults>>
  BY DEF ProjectOnLoad, live, bounds
<1>2. ProjectionTyped /\ InFrame /\ Building /\ Showing
  BY DEF ProjectionInv
<1>3. gen \in Plans /\ batch = {} /\ Pending' = Pending
  BY <1>1, <1>2 DEF ProjectionTyped, InFrame, Pending
<1>4. CASE DeferToChanges
  <2>1. /\ gen' = [gen EXCEPT !.restart = TRUE] /\ system' = "ran"
        /\ UNCHANGED <<mapped, stale, ghosts, missed, swallowed>>
    BY <1>4 DEF DeferToChanges, entities
  <2>2. /\ gen' \in Plans /\ gen'.restart /\ gen'.session = gen.session
        /\ gen'.readiness = gen.readiness
    BY <1>3, <2>1 DEF Plans
  <2>3. gen.readiness \in {"Planning", "Projecting"}
    BY <1>4 DEF DeferToChanges, Defers, InProgress
  <2>4. ProjectionTyped'
    BY <1>1, <1>2, <2>1, <2>2 DEF ProjectionTyped, Complete, Present
  <2>5. InFrame' /\ Building' /\ Showing'
    BY <1>1, <1>2, <2>1, <2>2, <2>3 DEF InFrame, Building, Showing
  <2> QED BY <2>4, <2>5 DEF ProjectionInv
<1>5. CASE LeaveAsIs \/ ContinueGeneration
  <2>1. UNCHANGED <<gen, mapped, stale, ghosts, missed, swallowed>>
    BY <1>5 DEF LeaveAsIs, ContinueGeneration, entities
  <2>2. \/ system' = "ran" /\ ~Defers /\ ~Continues
        \/ system' = "draining" /\ Continues
    BY <1>5 DEF LeaveAsIs, ContinueGeneration
  <2>3. ProjectionTyped'
    BY <1>1, <1>2, <2>1, <2>2 DEF ProjectionTyped, Complete, Present
  <2>4. InFrame'
    BY <1>1, <1>2, <2>1, <2>2 DEF InFrame, Continues, InProgress
  <2>5. Building'
    <3> SUFFICES ASSUME gen.session = session, InProgress, ~gen.restart, ~missed PROVE Built'
      BY <1>1, <2>1 DEF Building, InProgress
    <3>1. queue = {}
      BY <2>2 DEF Defers, Continues
    <3>2. NamedIn(Pending, "resync") = {}
      BY <1>3, <3>1, InNamed DEF Pending
    <3>3. Built
      BY <1>2, <3>2 DEF Building, Doomed
    <3> QED BY <1>1, <1>3, <2>1, <3>3 DEF Built, StaleIsKnown
  <2>6. Showing'
    BY <1>1, <1>2, <1>3, <2>1 DEF Showing, DifferencesKnown, StaleIsKnown
  <2> QED BY <2>3, <2>4, <2>5, <2>6 DEF ProjectionInv
<1>6. CASE StartGeneration
  <2>1. /\ Starts
        /\ gen' = [session |-> session, readiness |-> "Planning", restart |-> FALSE,
                   view |-> stage, found |-> {Root}, expanded |-> {}, done |-> {}]
        /\ mapped' = {} /\ stale' = {} /\ ghosts' = {}
        /\ missed' = FALSE /\ swallowed' = {} /\ system' = "draining"
    BY <1>6 DEF StartGeneration
  <2>2. queue = {}
    BY <2>1 DEF Starts
  <2>3. gen' \in Plans
    BY <1>2, <2>1 DEF Plans, ProjectionTyped, Complete, Tree
  <2>4. ProjectionTyped'
    <3>1. gen'.session <= session'
      BY <1>1, <1>2, <2>1 DEF ProjectionTyped
    <3> QED BY <1>1, <1>2, <2>1, <2>3, <3>1 DEF ProjectionTyped, Complete, Present
  <2>5. InFrame'
    BY <1>1, <1>2, <2>1, <2>2 DEF InFrame, InProgress
  <2>6. NamedIn(Pending', "resync") = {}
    BY <1>3, <2>2, InNamed DEF Pending
  <2>7. Built'
    BY <1>1, <2>1, <2>6 DEF Built, StaleIsKnown
  <2>8. Building' /\ Showing'
    BY <2>1, <2>7 DEF Building, Showing
  <2> QED BY <2>4, <2>5, <2>8 DEF ProjectionInv
<1> QED BY <1>4, <1>5, <1>6 DEF ProjectOnLoad

\* While a plan is drained no notice waits.
LEMMA WhileDraining ==
  ASSUME ProjectionInv, Draining
  PROVE  /\ ProjectionTyped /\ InFrame /\ gen \in Plans /\ phase = "Project"
         /\ queue = {} /\ batch = {} /\ Pending = {} /\ InProgress
         /\ gen.session = session /\ ~gen.restart
         /\ NamedIn({}, "resync") = {} /\ NamedIn({}, "info") = {} /\ Reached({}) = {}
         /\ ~missed => Built
<1>1. /\ ProjectionTyped /\ InFrame /\ phase = "Project" /\ queue = {} /\ batch = {}
      /\ InProgress /\ gen.session = session /\ ~gen.restart
  BY DEF ProjectionInv, Draining, InFrame
<1>2. gen \in Plans /\ Pending = {}
  BY <1>1 DEF ProjectionTyped, Pending
<1>3. NamedIn({}, "resync") = {} /\ NamedIn({}, "info") = {} /\ Reached({}) = {}
  BY InNamed, InReached
<1>4. ~missed => Built
  BY <1>1, <1>2, <1>3 DEF ProjectionInv, Building, Doomed
<1> QED BY <1>1, <1>2, <1>3, <1>4

LEMMA ExpandKept ==
  ASSUME ProjectionInv, NEW p \in Tree, ExpandParent(p)
  PROVE  ProjectionInv'
<1>1. PICK view \in {gen.view, stage} :
        gen' = [gen EXCEPT !.expanded = @ \cup {p},
                           !.found = @ \cup {q \in view : Parent[q] = p}]
  BY DEF ExpandParent
<1>2. /\ Draining /\ gen.readiness = "Planning" /\ p \in gen.found /\ system' = "worked"
      /\ UNCHANGED <<stage, session, queue, suppressed, batch, mapped, stale, ghosts, phase,
                     missed, swallowed, edits, faults>>
  BY DEF ExpandParent, live, entities, history, bounds
<1>3. /\ ProjectionTyped /\ InFrame /\ gen \in Plans /\ phase = "Project"
      /\ queue = {} /\ batch = {} /\ gen.session = session /\ ~gen.restart
      /\ ~missed => Built
  BY <1>2, WhileDraining
<1>4. view \subseteq Prims /\ Prims \subseteq Tree
  BY <1>3 DEF ProjectionTyped, Complete, Plans, Tree
<1>5. /\ gen' \in Plans /\ gen'.session = gen.session /\ gen'.readiness = "Planning"
      /\ gen'.restart = gen.restart /\ gen'.view = gen.view /\ gen'.done = gen.done
      /\ gen'.expanded = gen.expanded \cup {p}
      /\ gen'.found = gen.found \cup {q \in view : Parent[q] = p}
  BY <1>1, <1>2, <1>3, <1>4 DEF Plans
<1>6. ProjectionTyped'
  BY <1>2, <1>3, <1>5 DEF ProjectionTyped, Complete, Present
<1>7. InFrame'
  BY <1>2, <1>3, <1>5 DEF InFrame, InProgress
<1>8. ASSUME ~missed PROVE Built'
  <2>1. Built /\ view = stage
    BY <1>1, <1>3, <1>8 DEF Built
  <2>2. gen'.found = {Root} \cup {q \in stage : Parent[q] \in gen'.expanded}
    BY <1>5, <2>1 DEF Built
  <2>3. gen'.expanded \subseteq gen'.found /\ gen'.done \subseteq gen'.found
    BY <1>2, <1>5, <2>1 DEF Built
  <2>4. Pending' = Pending
    BY <1>2 DEF Pending
  <2> QED BY <1>2, <1>5, <2>1, <2>2, <2>3, <2>4 DEF Built, StaleIsKnown
<1>9. Building' /\ Showing'
  BY <1>2, <1>5, <1>8 DEF Building, Showing
<1> QED BY <1>6, <1>7, <1>9 DEF ProjectionInv

LEMMA PlanEndsKept ==
  ASSUME ProjectionInv, PlanFails \/ FinalizePlan
  PROVE  ProjectionInv'
<1>1. /\ Draining /\ faults' \in {faults, faults + 1}
      /\ UNCHANGED <<stage, session, queue, suppressed, batch, mapped, stale, ghosts, phase,
                     missed, swallowed, edits>>
      /\ \/ gen' = [gen EXCEPT !.readiness = "Failed"] /\ system' = "ran"
         \/ /\ gen' = [gen EXCEPT !.readiness = "Projecting"] /\ gen.expanded = gen.found
            /\ system' = system
  BY DEF PlanFails, FinalizePlan, live, entities, history, bounds
<1>2. /\ ProjectionTyped /\ InFrame /\ gen \in Plans /\ phase = "Project"
      /\ queue = {} /\ batch = {} /\ gen.session = session /\ ~gen.restart
      /\ ~missed => Built
  BY <1>1, WhileDraining
<1>3. /\ gen' \in Plans /\ gen'.readiness \in {"Failed", "Projecting"}
      /\ gen'.session = gen.session /\ gen'.restart = gen.restart /\ gen'.view = gen.view
      /\ gen'.found = gen.found /\ gen'.expanded = gen.expanded /\ gen'.done = gen.done
      /\ gen'.readiness = "Projecting" => gen.expanded = gen.found
      /\ system' # "ran" => gen'.readiness = "Projecting"
  BY <1>1, <1>2 DEF Plans, Draining
<1>4. ProjectionTyped'
  BY <1>1, <1>2, <1>3 DEF ProjectionTyped, Complete, Present
<1>5. InFrame'
  BY <1>1, <1>2, <1>3 DEF InFrame, InProgress
<1>6. Pending' = Pending
  BY <1>1 DEF Pending
<1>7. Building' /\ Showing'
  BY <1>1, <1>2, <1>3, <1>6 DEF Building, Showing, Built, StaleIsKnown
<1> QED BY <1>4, <1>5, <1>7 DEF ProjectionInv

LEMMA ProjectEntryKept ==
  ASSUME ProjectionInv, NEW p \in Tree, ProjectEntry(p)
  PROVE  ProjectionInv'
<1>1. /\ Draining /\ p \in gen.found \ gen.done /\ gen' = [gen EXCEPT !.done = @ \cup {p}]
      /\ ghosts' = (IF p \in mapped THEN ghosts \cup {p} ELSE ghosts)
      /\ mapped' = mapped \cup {p} /\ stale' = stale \ {p} /\ swallowed' = swallowed \ {p}
      /\ system' = "worked"
      /\ UNCHANGED <<stage, session, queue, suppressed, batch, phase, missed, edits, faults>>
  BY DEF ProjectEntry, live, bounds
<1>2. /\ ProjectionTyped /\ InFrame /\ gen \in Plans /\ phase = "Project"
      /\ queue = {} /\ batch = {} /\ gen.session = session /\ ~gen.restart /\ InProgress
      /\ ~missed => Built
  BY <1>1, WhileDraining
<1>3. /\ gen' \in Plans /\ gen'.session = gen.session /\ gen'.readiness = gen.readiness
      /\ gen'.restart = gen.restart /\ gen'.view = gen.view /\ gen'.done = gen.done \cup {p}
      /\ gen'.expanded = gen.expanded /\ gen'.found = gen.found
  BY <1>1, <1>2 DEF Plans
<1>4. ProjectionTyped'
  <2>1. mapped' \subseteq Tree /\ stale' \subseteq mapped' /\ ghosts' \subseteq Tree
        /\ swallowed' \subseteq Tree
    BY <1>1, <1>2 DEF ProjectionTyped
  <2> QED BY <1>1, <1>2, <1>3, <2>1 DEF ProjectionTyped, Complete, Present
<1>5. InFrame'
  BY <1>1, <1>2, <1>3 DEF InFrame, InProgress
<1>6. Pending' = Pending
  BY <1>1 DEF Pending
<1>7. ASSUME ~missed PROVE Built'
  <2>1. Built
    BY <1>2, <1>7
  <2>2. mapped' = gen'.done /\ ghosts' = {}
    BY <1>1, <1>3, <2>1 DEF Built
  <2>3. StaleIsKnown'
    BY <1>1, <1>6, <2>1 DEF Built, StaleIsKnown
  <2>4. gen'.expanded \subseteq gen'.found /\ gen'.done \subseteq gen'.found
    BY <1>1, <1>3, <2>1 DEF Built
  <2> QED BY <1>1, <1>3, <1>6, <2>1, <2>2, <2>3, <2>4 DEF Built
<1>8. Building' /\ Showing'
  BY <1>1, <1>2, <1>3, <1>7 DEF Building, Showing, InProgress
<1> QED BY <1>4, <1>5, <1>8 DEF ProjectionInv

LEMMA EndDrainKept ==
  ASSUME ProjectionInv, EndDrain
  PROVE  ProjectionInv'
<1>1. /\ Draining /\ system' = "ran"
      /\ gen' = (IF Drained THEN [gen EXCEPT !.readiness = "Ready"] ELSE gen)
      /\ UNCHANGED <<stage, session, queue, suppressed, batch, mapped, stale, ghosts, phase,
                     missed, swallowed, edits, faults>>
  BY DEF EndDrain, live, entities, bounds
<1>2. /\ ProjectionTyped /\ InFrame /\ gen \in Plans /\ phase = "Project"
      /\ queue = {} /\ batch = {} /\ gen.session = session /\ ~gen.restart /\ InProgress
      /\ ~missed => Built
  BY <1>1, WhileDraining
<1>3. gen' \in Plans /\ gen'.session = gen.session
  BY <1>1, <1>2 DEF Plans
<1>4. ProjectionTyped'
  BY <1>1, <1>2, <1>3 DEF ProjectionTyped, Complete, Present
<1>5. InFrame'
  BY <1>1, <1>2 DEF InFrame
<1>6. Pending' = Pending
  BY <1>1 DEF Pending
<1>7. CASE Drained
  <2>1. gen'.readiness = "Ready"
    BY <1>1, <1>2, <1>7 DEF Plans
  <2>2. ASSUME ~missed PROVE DifferencesKnown'
    <3>1. Built /\ mapped = gen.found
      BY <1>2, <1>7, <2>2 DEF Built, Drained
    <3>2. gen.found = {Root} \cup {q \in stage : Parent[q] \in gen.found}
      BY <1>7, <3>1 DEF Built, Drained
    <3>3. stage \subseteq gen.found
      BY <1>2, <3>2, WholeStage DEF ProjectionTyped
    <3>4. mapped = Present(stage)
      BY <3>1, <3>2, <3>3 DEF Present
    <3>5. StaleIsKnown'
      BY <1>1, <1>6, <3>1 DEF Built, StaleIsKnown
    <3>6. Root \in mapped /\ \A p \in Prims : p \in mapped <=> p \in stage
      BY <3>4, ProjectionAssumption DEF Present
    <3> QED BY <1>1, <3>1, <3>5, <3>6 DEF DifferencesKnown, Built
  <2> QED BY <1>1, <1>4, <1>5, <2>1, <2>2 DEF Building, Showing, InProgress, ProjectionInv
<1>8. CASE ~Drained
  <2>1. gen' = gen
    BY <1>1, <1>8
  <2> QED BY <1>1, <1>2, <1>4, <1>5, <1>6, <2>1
       DEF Building, Showing, InProgress, ProjectionInv, Built, StaleIsKnown
<1> QED BY <1>7, <1>8

(* Drain and reconciliation.                                               *)

LEMMA DrainChangesKept ==
  ASSUME ProjectionInv, DrainChanges
  PROVE  ProjectionInv'
<1>1. /\ phase = "Project" /\ system = "ran" /\ phase' = "Reconcile"
      /\ batch' = queue /\ queue' = {}
      /\ UNCHANGED <<stage, session, suppressed, gen, mapped, stale, ghosts, system,
                     missed, swallowed, edits, faults>>
  BY DEF DrainChanges, entities, history, bounds
<1>2. ProjectionTyped /\ InFrame /\ Building /\ Showing
  BY DEF ProjectionInv
<1>3. Pending' = Pending
  BY <1>1, <1>2 DEF Pending, InFrame
<1>4. ProjectionTyped' /\ InFrame'
  BY <1>1, <1>2 DEF ProjectionTyped, InFrame, Complete, Present
<1>5. Building'
  BY <1>1, <1>2, <1>3 DEF Building, Doomed, Built, StaleIsKnown, InProgress
<1>6. Showing'
  BY <1>1, <1>2, <1>3 DEF Showing, DifferencesKnown, StaleIsKnown
<1> QED BY <1>4, <1>5, <1>6 DEF ProjectionInv

\* The entities after a batch with resyncs are those of the stage, where the batch reaches
\* every difference.
LEMMA ReconcileShows ==
  ASSUME ReconcileResyncs, mapped \subseteq Tree, Complete(stage), Root \in mapped, ghosts = {},
         batch \subseteq Notices,
         \A p \in Prims : (p \in mapped <=> p \in stage) \/ p \in Covered
  PROVE  mapped' = Present(stage) /\ ghosts' = {}
<1> DEFINE removed == (mapped \cap Reach) \ Present(stage)
<1>1. /\ mapped' = (mapped \ removed) \cup (stage \cap Reach)
                     \cup (IF Full THEN {Root} ELSE {})
      /\ ghosts' = {}
  BY DEF ReconcileResyncs
<1>2. stage \subseteq Prims /\ Root \notin Prims
  BY ProjectionAssumption DEF Complete
<1>3. CASE Full
  BY <1>1, <1>2, <1>3 DEF Reach, Present, Tree
<1>4. CASE ~Full
  <2>1. Reach = Covered
    BY <1>4 DEF Reach
  <2>2. ASSUME NEW p \in Prims PROVE p \in mapped' <=> p \in stage
    BY <1>1, <1>2, <1>4, <2>1 DEF Present
  <2>3. mapped' \subseteq Tree /\ Root \in mapped'
    BY <1>1, <1>2 DEF Present, Tree
  <2> QED BY <1>1, <1>2, <2>2, <2>3 DEF Present, Tree
<1> QED BY <1>3, <1>4

LEMMA ReconcileKept ==
  ASSUME ProjectionInv, Reconcile
  PROVE  ProjectionInv'
<1>1. /\ phase = "Reconcile" /\ phase' = "Between" /\ batch' = {}
      /\ UNCHANGED <<stage, session, queue, gen, system, missed, edits, faults>>
      /\ IF batch = {} THEN UNCHANGED <<suppressed, mapped, stale, ghosts, swallowed>>
                       ELSE ReconcileBatch
  BY DEF Reconcile, bounds, entities
<1>2. ProjectionTyped /\ InFrame /\ Building /\ Showing
  BY DEF ProjectionInv
<1>3. queue = {} /\ Pending = batch /\ Pending' = {}
  BY <1>1, <1>2 DEF InFrame, Pending
<1>4. /\ Named("resync") = NamedIn(batch, "resync") /\ Named("info") = NamedIn(batch, "info")
      /\ Covered = Reached(batch)
  BY DEF Named, NamedIn, Covered, Reached
<1>5. NamedIn({}, "resync") = {} /\ NamedIn({}, "info") = {} /\ Reached({}) = {}
  BY InNamed, InReached
<1> DEFINE resynced == IF Named("resync") = {} THEN {} ELSE Reach
           ignored == (Named("info") \ Covered) \cap suppressed
<1>6. ASSUME batch # {}
      PROVE  /\ IF Named("resync") = {} THEN UNCHANGED <<mapped, ghosts>>
                                        ELSE ReconcileResyncs
             /\ stale' = (stale \ (resynced \cup Patched)) \cap mapped'
             /\ swallowed' = (swallowed \cup (stale \cap ignored)) \cap stale'
             /\ suppressed' = {}
  BY <1>1, <1>6 DEF ReconcileBatch
<1>7. mapped' \subseteq Tree /\ stale' \subseteq mapped' /\ ghosts' \subseteq Tree
      /\ swallowed' \subseteq Tree /\ suppressed' \subseteq Prims
  <2>1. CASE batch = {}
    BY <1>1, <1>2, <2>1 DEF ProjectionTyped
  <2>2. CASE batch # {}
    <3>1. mapped' \subseteq Tree /\ ghosts' \subseteq Tree
      <4>1. stage \subseteq Tree /\ Root \in Tree
        BY <1>2 DEF ProjectionTyped, Complete, Tree
      <4>2. CASE Named("resync") = {}
        BY <1>2, <1>6, <2>2, <4>2 DEF ProjectionTyped
      <4>3. CASE Named("resync") # {}
        BY <1>2, <1>6, <2>2, <4>1, <4>3 DEF ProjectionTyped, ReconcileResyncs
      <4> QED BY <4>2, <4>3
    <3> HIDE DEF resynced, ignored
    <3> QED BY <1>2, <1>6, <2>2, <3>1 DEF ProjectionTyped
  <2> QED BY <2>1, <2>2
<1>8. ProjectionTyped'
  BY <1>1, <1>2, <1>7 DEF ProjectionTyped, Complete, Present
<1>9. InFrame'
  BY <1>1, <1>2 DEF InFrame
<1>10. ASSUME StaleIsKnown PROVE StaleIsKnown'
  <2>1. CASE batch = {}
    BY <1>1, <1>3, <1>10, <2>1 DEF StaleIsKnown
  <2>2. CASE batch # {}
    <3>1. Named("resync") = {} => Covered = {}
      BY <1>4 DEF Reached
    <3>2. Covered \subseteq Reach
      <4>1. Covered \subseteq Tree
        <5>1. \A n \in batch : n.prim \in Tree /\ Under[n.prim] \subseteq Tree
          BY <1>2, UnderSelf DEF ProjectionTyped, Notices
        <5> QED BY <1>4, <5>1, InReached
      <4> QED BY <4>1 DEF Reach
    <3>3. ASSUME NEW p \in stale' PROVE p \in swallowed'
      <4>1. p \in stale /\ p \notin resynced /\ p \notin Patched
        BY <1>6, <2>2, <3>3
      <4>2. p \notin Covered
        BY <3>1, <3>2, <4>1
      <4>3. p \in swallowed \/ p \in Named("info")
        BY <1>3, <1>4, <1>10, <4>1, <4>2 DEF StaleIsKnown
      <4>4. p \in swallowed \/ p \in stale \cap ignored
        BY <4>1, <4>2, <4>3 DEF Patched
      <4> HIDE DEF ignored, resynced
      <4> QED BY <1>6, <2>2, <3>3, <4>4
    <3> QED BY <3>3 DEF StaleIsKnown
  <2> QED BY <2>1, <2>2
<1>11. Building'
  <2> SUFFICES ASSUME gen.session = session, InProgress, ~gen.restart, ~missed PROVE Built'
    BY <1>1 DEF Building, InProgress
  <2>1. Built
    BY <1>1, <1>2 DEF Building, Doomed
  <2>2. UNCHANGED <<mapped, ghosts>>
    BY <1>1, <1>3, <1>4, <1>6, <2>1 DEF Built
  <2>3. StaleIsKnown'
    BY <1>10, <2>1 DEF Built
  <2> QED BY <1>1, <1>3, <1>5, <2>1, <2>2, <2>3 DEF Built
<1>12. Showing'
  <2> SUFFICES ASSUME gen.session = session, gen.readiness = "Ready", ~missed
               PROVE  DifferencesKnown'
    BY <1>1 DEF Showing
  <2>1. DifferencesKnown
    BY <1>2 DEF Showing
  <2>2. Root \notin Prims
    BY ProjectionAssumption
  <2>3. Root \in mapped' /\ ghosts' = {} /\ \A p \in Prims : p \in mapped' <=> p \in stage
    <3>1. CASE Named("resync") = {}
      <4>1. Reached(batch) = {}
        BY <1>4, <3>1 DEF Reached
      <4>2. UNCHANGED <<mapped, ghosts>>
        <5>1. CASE batch = {}
          BY <1>1, <5>1
        <5>2. CASE batch # {}
          <6> HIDE DEF ignored, resynced
          <6> QED BY <1>6, <3>1, <5>2
        <5> QED BY <5>1, <5>2
      <4> QED BY <1>3, <2>1, <4>1, <4>2 DEF DifferencesKnown
    <3>2. CASE Named("resync") # {}
      <4>1. batch # {} /\ ReconcileResyncs
        BY <1>4, <1>5, <1>6, <3>2
      <4>2. mapped' = Present(stage) /\ ghosts' = {}
        BY <1>2, <1>3, <1>4, <2>1, <4>1, ReconcileShows DEF ProjectionTyped, DifferencesKnown
      <4> QED BY <2>2, <4>2 DEF Present
    <3> QED BY <3>1, <3>2
  <2>4. StaleIsKnown'
    BY <1>10, <2>1 DEF DifferencesKnown
  <2> QED BY <1>1, <2>3, <2>4 DEF DifferencesKnown
<1> QED BY <1>8, <1>9, <1>11, <1>12 DEF ProjectionInv

LEMMA ReconcileFailsKept ==
  ASSUME ProjectionInv, ReconcileFails
  PROVE  ProjectionInv'
<1>1. /\ phase = "Reconcile" /\ phase' = "Between" /\ batch' = {}
      /\ stale' = stale \ Patched /\ suppressed' = {} /\ missed' = TRUE
      /\ swallowed' = swallowed \cap stale' /\ faults' = faults + 1
      /\ UNCHANGED <<stage, session, queue, gen, mapped, ghosts, system, edits>>
  BY DEF ReconcileFails
<1>2. ProjectionTyped /\ InFrame
  BY DEF ProjectionInv
<1>3. ProjectionTyped'
  <2>1. faults' \in Nat /\ stale' \subseteq mapped' /\ swallowed' \subseteq Tree
    BY <1>1, <1>2 DEF ProjectionTyped
  <2> QED BY <1>1, <1>2, <2>1 DEF ProjectionTyped, Complete, Present
<1>4. InFrame' /\ Building' /\ Showing'
  BY <1>1, <1>2 DEF InFrame, Building, Showing
<1> QED BY <1>3, <1>4 DEF ProjectionInv

LEMMA ProjectionKept ==
  ASSUME ProjectionInv, [Next]_vars
  PROVE  ProjectionInv'
<1>1. CASE Next
  BY <1>1, EditKept, StartFrameKept, ProjectOnLoadKept, ExpandKept, ProjectEntryKept,
     PlanEndsKept, EndDrainKept, DrainChangesKept, ReconcileKept, ReconcileFailsKept
     DEF Next, Frame, Drain
<1>2. CASE UNCHANGED vars
  <2>1. UNCHANGED <<stage, session, queue, suppressed, batch, gen, mapped, stale, ghosts, phase,
                    system, missed, swallowed, edits, faults>>
    BY <1>2 DEF vars, live, entities, history, bounds
  <2>2. ProjectionTyped' /\ InFrame'
    BY <2>1 DEF ProjectionInv, ProjectionTyped, InFrame, Complete, Present, InProgress
  <2>3. Pending' = Pending
    BY <2>1 DEF Pending
  <2>4. Building'
    BY <2>1, <2>3 DEF ProjectionInv, Building, InProgress, Doomed, Built, StaleIsKnown
  <2>5. Showing'
    BY <2>1, <2>3 DEF ProjectionInv, Showing, DifferencesKnown, StaleIsKnown
  <2> QED BY <2>2, <2>4, <2>5 DEF ProjectionInv
<1> QED BY <1>1, <1>2

\* When the projection is ready and quiet it shows the stage (Faithful: project_on_load_system
\* and apply_change_batch), for any namespace, any stages that a file may compose, and any
\* number of edits, cancellations, reloads and failed traversals.
THEOREM ProjectionFaithful == Spec => []Faithful
<1>1. ProjectionInv => Faithful
  <2> SUFFICES ASSUME ProjectionInv, Settled, ~missed
               PROVE  OneEntityEach /\ stale \subseteq swallowed
    BY DEF Faithful
  <2>1. DifferencesKnown /\ mapped \subseteq Tree /\ stage \subseteq Prims /\ Root \notin Prims
    BY ProjectionAssumption DEF ProjectionInv, Showing, Settled, ProjectionTyped, Complete
  <2>2. Pending = {}
    BY DEF Settled, Pending
  <2>3. NamedIn(Pending, "info") = {} /\ Reached(Pending) = {}
    BY <2>2, InNamed, InReached
  <2> QED BY <2>1, <2>3 DEF DifferencesKnown, StaleIsKnown, OneEntityEach, Present, Tree
<1>2. ProjectionInv /\ [Next]_vars => ProjectionInv'
  BY ProjectionKept
<1> QED BY <1>1, <1>2, ProjectionInitial, PTL DEF Spec
=============================================================================
