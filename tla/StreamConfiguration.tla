------------------------ MODULE StreamConfiguration -------------------------
(***************************************************************************)
(* How the size of the shared video stream changes. The controller asks    *)
(* for it on its control channel; the interface numbers the request and    *)
(* keeps it for Bevy, the session keeps it for the frame router. Bevy      *)
(* resizes its target, and the frames it then captures carry the request   *)
(* through the pump to one encoder worker per session, which sets the caps *)
(* of its encoder with the first of them.                                  *)
(*                                                                         *)
(* Five kinds of thread take part: the callbacks of a session's channels,  *)
(* the session manager, Bevy, the pump and the workers. The identifier of  *)
(* a connection is never used again: a client that reconnects is another   *)
(* session, and sessions are numbered in the order in which they join. A   *)
(* generation is given to one request only, so the size and frame rate it  *)
(* asked for are known by it; 0 is what nobody asked for: the first target *)
(* of Bevy, and the caps of an encoder built for the client's own window.  *)
(***************************************************************************)
EXTENDS Naturals, Sequences

CONSTANTS
  None,
  FrameCapacity,     \* of the channel between Bevy and the pump
  QueueCapacity,     \* ENCODER_QUEUE_CAPACITY
  MaxClients,        \* bound: clients that join
  MaxGeneration,     \* bound: generations handed out
  Resizers,          \* bound: sessions whose client asks again after its hello
  Watchers           \* bound: sessions whose client may say hello as an observer

Sessions == 1 .. MaxClients

Generations == 0 .. MaxGeneration
Known == Generations \cup {None}

Requests == [frame : Generations, expected : Known]

Configurations == [expected : Known, current : Known, applied : Known, inFlight : BOOLEAN]

\* What a session manager, and a worker, is in the middle of.
Tasks == [does : {"Connect", "Drop"}, for : Sessions]

Work == [stage : {"Caps", "Push", "Apply", "Reset"}, request : Requests]

ASSUME StreamAssumption ==
  /\ {FrameCapacity, QueueCapacity, MaxClients, MaxGeneration} \subseteq Nat \ {0}
  /\ None \notin Nat
  /\ None \notin Configurations /\ None \notin Tasks /\ None \notin Work

VARIABLES
  interface,   \* RenderServerInterface: the last generation and the request for Bevy
  target,      \* OffscreenTarget
  frames,      \* the channel to the pump
  application,     \* ApplicationSessionState
  controller,  \* SessionAdmissionState
  manager,     \* what the session manager is in the middle of
  shared,      \* FrameRouterState without its targets
  router,      \* its targets
  sends,       \* what the pump has left to send of one frame
  encoderQueue, worker, caps  \* per session: encoder queue, worker thread, encoder

clients == <<interface, application, controller>>
routing == <<shared, router>>
encoding == <<encoderQueue, worker, caps>>
streamVars == <<clients, target, frames, manager, routing, sends, encoding>>

NoSession == [phase |-> "New", role |-> None, slot |-> None, latest |-> 0, told |-> FALSE]

StreamInit ==
  /\ interface = [latest |-> 0, slot |-> None]
  /\ target = 0
  /\ frames = <<>>
  /\ application = [s \in Sessions |-> NoSession]
  /\ controller = None /\ manager = None
  /\ shared = [expected |-> None, current |-> None]
  /\ router = [s \in Sessions |-> None]
  /\ sends = {}
  /\ encoderQueue = [s \in Sessions |-> <<>>]
  /\ worker = [s \in Sessions |-> None]
  /\ caps = [s \in Sessions |-> 0]

Targets == {s \in Sessions : router[s] # None}

(***************************************************************************)
(* The callbacks of a control channel. They run until the peer connection  *)
(* is shut down, the last thing a session does when it is dropped.         *)
(***************************************************************************)

Talks(s) == application[s].phase \in {"Open", "Leaving"}

\* submit_stream_configuration of a request the client numbered itself.
Submit(s, asked, role) ==
  LET given == interface.latest + 1
      gen == IF asked > given THEN asked ELSE given
  IN  /\ gen <= MaxGeneration
      /\ interface' = [latest |-> gen, slot |-> gen]
      /\ application' = [application EXCEPT
           ![s].role = role, ![s].slot = gen, ![s].latest = gen, ![s].told = FALSE]

\* handle_handshake: only a controller brings a size.
Handshake(s, asked) ==
  /\ Talks(s) /\ application[s].role = None
  /\ \/ /\ controller = None
        /\ controller' = s
        /\ Submit(s, asked, "Controller")
     \/ /\ s \in Watchers
        /\ application' = [application EXCEPT ![s].role = "Observer"]
        /\ UNCHANGED <<interface, controller>>
  /\ UNCHANGED <<target, frames, manager, routing, sends, encoding>>

ConfigureViewport(s, asked) ==
  /\ s \in Resizers
  /\ Talks(s) /\ application[s].role = "Controller"
  /\ asked > application[s].latest
  /\ Submit(s, asked, "Controller")
  /\ UNCHANGED <<controller, target, frames, manager, routing, sends, encoding>>

(***************************************************************************)
(* The session manager, one task: it connects and drops sessions, and its  *)
(* tick flushes each of them.                                              *)
(***************************************************************************)

JoinWithOwn == 0                 \* mutant: the viewport the client joined with

\* current_metrics, or else the viewport the client joined with.
Newest == IF shared.expected # None THEN shared.expected
          ELSE IF shared.current # None THEN shared.current ELSE 0

\* The metrics the encoder of a session that joins is built for.
Joins == Newest

\* StreamingSession::new builds the encoder, which takes seconds, and then
\* activates the target.
Connect(s) ==
  /\ manager = None /\ application[s].phase = "New"
  /\ \A earlier \in 1 .. s - 1 : application[earlier].phase # "New"
  /\ manager' = [does |-> "Connect", for |-> s]
  /\ caps' = [caps EXCEPT ![s] = Joins]
  /\ UNCHANGED <<clients, target, frames, routing, sends, encoderQueue, worker>>

NewTarget ==
  [expected |-> shared.expected,
   current |-> IF shared.expected = None THEN shared.current ELSE None,
   applied |-> None, inFlight |-> FALSE]

Activate(s) ==
  /\ manager = [does |-> "Connect", for |-> s]
  /\ manager' = None
  /\ router' = [router EXCEPT ![s] = NewTarget]
  /\ application' = [application EXCEPT ![s].phase = "Open"]
  /\ UNCHANGED <<interface, controller, target, frames, shared, sends, encoding>>

\* configure: the shared request and that of every target are replaced.
Reconfigured(t, gen) ==
  [expected |-> gen, current |-> None, applied |-> None, inFlight |-> FALSE]

\* flush_authoritative_events: the request the session holds goes to the
\* router, and what its target has applied goes to the client.
Flush(s) ==
  /\ manager = None /\ application[s].phase = "Open"
  /\ application[s].slot # None \/ router[s].applied # None
  /\ LET gen == application[s].slot
         accepted == gen # None /\ gen > Newest
         after == [t \in Sessions |->
                     IF accepted /\ t \in Targets
                       THEN Reconfigured(router[t], gen) ELSE router[t]]
         done == after[s].applied
     IN  /\ shared' = IF accepted THEN [expected |-> gen, current |-> None]
                                  ELSE shared
         /\ router' = [after EXCEPT ![s].applied = None]
         /\ application' = [application EXCEPT
              ![s].slot = None,
              ![s].told = \/ @
                          \/ /\ application[s].role = "Controller"
                             /\ done = application[s].latest]
  /\ UNCHANGED <<interface, controller, target, frames, manager, sends, encoding>>

\* Dropping a session: release_admission, then deactivate, which joins the
\* worker once the pump holds no sender of it either, then the shutdown.
Drop(s) ==
  /\ manager = None /\ application[s].phase = "Open"
  /\ manager' = [does |-> "Drop", for |-> s]
  /\ application' = [application EXCEPT ![s].phase = "Leaving"]
  /\ controller' = IF controller = s THEN None ELSE controller
  /\ router' = [router EXCEPT ![s] = None]
  /\ shared' = IF Targets = {s} THEN [expected |-> None, current |-> None] ELSE shared
  /\ UNCHANGED <<interface, target, frames, sends, encoding>>

Shutdown(s) ==
  /\ manager = [does |-> "Drop", for |-> s]
  /\ worker[s] = None /\ encoderQueue[s] = <<>>
  /\ \A send \in sends : send.to # s
  /\ manager' = None
  /\ application' = [application EXCEPT ![s] = [NoSession EXCEPT !.phase = "Gone"]]
  /\ caps' = [caps EXCEPT ![s] = 0]
  /\ UNCHANGED <<interface, controller, target, frames, routing, sends, encoderQueue, worker>>

(***************************************************************************)
(* Bevy: apply_stream_configuration and the readback that captures a       *)
(* frame. A frame is labelled with the target of the moment; what finds    *)
(* the channel full is dropped.                                            *)
(***************************************************************************)

Resize ==
  /\ interface.slot # None
  /\ interface' = [interface EXCEPT !.slot = None]
  /\ target' = IF interface.slot > target THEN interface.slot ELSE target
  /\ UNCHANGED <<application, controller, frames, manager, routing, sends, encoding>>

Capture ==
  /\ Len(frames) < FrameCapacity
  /\ frames' = Append(frames, target)
  /\ UNCHANGED <<clients, target, manager, routing, sends, encoding>>

(***************************************************************************)
(* The pump: push chooses under the lock which targets take the frame,     *)
(* then sends to each without it.                                          *)
(***************************************************************************)

Configures(t, frame) == t.expected # None /\ frame = t.expected /\ ~t.inFlight
Carries(t, frame) == t.expected = None /\ t.current # None /\ frame = t.current

Push ==
  /\ sends = {} /\ frames # <<>>
  /\ frames' = Tail(frames)
  /\ LET frame == Head(frames)
         first == {s \in Targets : Configures(router[s], frame)}
         next == {s \in Targets : Carries(router[s], frame)}
     IN  /\ sends' = {[to |-> s, frame |-> frame, expected |-> frame] : s \in first}
                    \cup {[to |-> s, frame |-> frame, expected |-> None] : s \in next}
         /\ router' = [s \in Sessions |-> IF s \in first
                         THEN [router[s] EXCEPT !.inFlight = TRUE] ELSE router[s]]
  /\ UNCHANGED <<clients, target, manager, shared, encoding>>

\* reset_configuration_in_flight
NeverReset(s) == router          \* mutant: a request that is lost stays in flight

Reset(s) ==
  IF s \in Targets THEN [router EXCEPT ![s].inFlight = FALSE] ELSE router

\* The targets are those of a hash map, in any order.
TrySend == \E send \in sends :
  /\ sends' = sends \ {send}
  /\ LET s == send.to
         request == [frame |-> send.frame, expected |-> send.expected]
     IN  \/ /\ Len(encoderQueue[s]) < QueueCapacity
            /\ encoderQueue' = [encoderQueue EXCEPT ![s] = Append(@, request)]
            /\ UNCHANGED router
         \/ /\ Len(encoderQueue[s]) = QueueCapacity
            /\ router' = IF request.expected # None THEN Reset(s) ELSE router
            /\ UNCHANGED encoderQueue
  /\ UNCHANGED <<clients, target, frames, manager, shared, worker, caps>>

(***************************************************************************)
(* The encoder workers.                                                    *)
(***************************************************************************)

At(s, stage) == worker[s] # None /\ worker[s].stage = stage
Goes(s, stage) == worker' = [worker EXCEPT ![s] = [@ EXCEPT !.stage = stage]]
Waits(s) == worker' = [worker EXCEPT ![s] = None]

\* The worker is done with a request that came to nothing.
Abandons(s, request) ==
  worker' = [worker EXCEPT ![s] =
               IF request.expected # None THEN [stage |-> "Reset", request |-> request]
                                          ELSE None]

Active(s) ==
  IF s \notin Targets THEN None
  ELSE IF router[s].expected # None THEN router[s].expected ELSE router[s].current

\* The generation is checked once more before the encoder is touched.
Receive(s) ==
  /\ worker[s] = None /\ encoderQueue[s] # <<>>
  /\ encoderQueue' = [encoderQueue EXCEPT ![s] = Tail(@)]
  /\ LET request == Head(encoderQueue[s])
     IN  IF Active(s) = request.frame
           THEN worker' = [worker EXCEPT ![s] =
                  [stage |-> IF request.expected # None THEN "Caps" ELSE "Push",
                   request |-> request]]
           ELSE Abandons(s, request)
  /\ UNCHANGED <<clients, target, frames, manager, routing, sends, caps>>

\* An encoder call may fail at any time, and any number of times.
Fails(s) == Abandons(s, worker[s].request)

\* set_video_caps and request_sync_frame_after_caps_change, either may fail.
SetCaps(s) ==
  /\ At(s, "Caps")
  /\ \/ /\ caps' = [caps EXCEPT ![s] = worker[s].request.frame]
        /\ Goes(s, "Push") \/ Fails(s)
     \/ Fails(s) /\ UNCHANGED caps
  /\ UNCHANGED <<clients, target, frames, manager, routing, sends, encoderQueue>>

\* push_frame
PushFrame(s) ==
  /\ At(s, "Push")
  /\ \/ IF worker[s].request.expected # None THEN Goes(s, "Apply") ELSE Waits(s)
     \/ Fails(s)
  /\ UNCHANGED <<clients, target, frames, manager, routing, sends, encoderQueue, caps>>

ResetInFlight(s) ==
  /\ At(s, "Reset")
  /\ router' = Reset(s)
  /\ Waits(s)
  /\ UNCHANGED <<clients, target, frames, manager, shared, sends, encoderQueue, caps>>

\* apply_configuration: the shared configuration follows once every target
\* has it.
ApplyAlone(after, gen) == TRUE  \* mutant: the first target decides for all

AllConfigured(after, gen) ==
  \A t \in Targets : after[t].current = gen

ApplyConfiguration(s) ==
  /\ At(s, "Apply")
  /\ Waits(s)
  /\ LET gen == worker[s].request.expected
         after == [router EXCEPT ![s] = [expected |-> None, current |-> gen,
                                         applied |-> gen, inFlight |-> FALSE]]
     IN  IF s \in Targets /\ router[s].expected = gen
           THEN /\ router' = after
                /\ shared' = IF AllConfigured(after, gen)
                               THEN [expected |-> None, current |-> gen] ELSE shared
           ELSE UNCHANGED routing
  /\ UNCHANGED <<clients, target, frames, manager, sends, encoderQueue, caps>>

ClientStep(s) ==
  \E asked \in 1 .. MaxGeneration : Handshake(s, asked) \/ ConfigureViewport(s, asked)

ManagerEnds(s) == Activate(s) \/ Shutdown(s)

WorkerStep(s) ==
  Receive(s) \/ SetCaps(s) \/ PushFrame(s) \/ ResetInFlight(s) \/ ApplyConfiguration(s)

StreamNext ==
  \/ \E s \in Sessions :
       ClientStep(s) \/ Connect(s) \/ Flush(s) \/ Drop(s) \/ ManagerEnds(s) \/ WorkerStep(s)
  \/ Resize \/ Capture \/ Push \/ TrySend

\* Each thread keeps running, the tick of the manager reaches every session,
\* and Bevy renders continuously; no client is obliged to anything.
StreamFairness ==
  /\ WF_streamVars(Resize) /\ WF_streamVars(Capture) /\ WF_streamVars(Push \/ TrySend)
  /\ WF_streamVars(\E s \in Sessions : ManagerEnds(s) \/ Flush(s))
  /\ \A s \in Sessions : WF_streamVars(WorkerStep(s))

StreamSpec == StreamInit /\ [][StreamNext]_streamVars /\ StreamFairness

-----------------------------------------------------------------------------
(***************************************************************************)
(* Properties.                                                             *)
(***************************************************************************)

\* A worker pushes a frame, and reports a configuration as applied, only
\* while its encoder has the caps of that generation, also when the session
\* joined a stream it never configured (pixels under other caps are refused,
\* or shown with the wrong stride).
CapsFitFrame ==
  \A s \in Sessions :
    At(s, "Push") \/ At(s, "Apply") => caps[s] = worker[s].request.frame

\* The router's own configuration, which sessions that join take over, is
\* that of its targets: while one is expected each target expects it or has
\* it, and when none is expected each target has the current one.
TargetsFollowShared ==
  \A s \in Targets :
    IF shared.expected # None
      THEN shared.expected \in {router[s].expected, router[s].current}
      ELSE router[s].expected = None /\ router[s].current = shared.current

\* What the controller was promised (ConfigurationAccepted) is applied: no
\* controller waits for ever until it is told of its last request and the
\* encoder of every viewer has it, unless a worker finds its encoder failing
\* again and again, or its request was overtaken: a controller that is being
\* dropped may still ask once its successor has said hello, and what it asks
\* for is then the newest for Bevy but never reaches the router, so that the
\* two differ until the successor asks again.
Waiting ==
  /\ controller # None /\ application[controller].phase = "Open"
  /\ LET gen == application[controller].latest
     IN  \/ ~application[controller].told
         \/ \E t \in Targets : router[t].current # gen
Overtaken == controller # None /\ interface.latest # application[controller].latest
Failing == \E s \in Sessions : At(s, "Reset")
AcceptedIsApplied == []<>(~Waiting \/ Overtaken \/ Failing)
=============================================================================
