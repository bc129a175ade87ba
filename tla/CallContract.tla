---------------------------- MODULE CallContract ----------------------------
(***************************************************************************)
(* What the file queue between the Project host and the render owner       *)
(* promises to the two ends of one call, without any file:                 *)
(*                                                                         *)
(*   - a call takes effect at the owner at most once;                      *)
(*   - the caller is told "granted" only of an effect that has happened    *)
(*     and that the owner does not withdraw afterwards, and "refused" only *)
(*     when there is and will be none;                                     *)
(*   - a caller that gave up on a call for a snapshot never has a lease    *)
(*     granted in its name later;                                          *)
(*   - every call that was opened is closed.                               *)
(***************************************************************************)
CONSTANTS Calls,       \* the requests ever made
          Snapshots    \* those that ask for a lease on the live stage

VARIABLES outcome,     \* what the caller knows of its call
          verdict,     \* the answer it was given
          effect       \* what the owner did for the call

vars == <<outcome, verdict, effect>>

Init == /\ outcome = [c \in Calls |-> "idle"]
        /\ verdict = [c \in Calls |-> "none"]
        /\ effect  = [c \in Calls |-> "none"]

Open(c) == /\ outcome[c] = "idle"
           /\ outcome' = [outcome EXCEPT ![c] = "open"]
           /\ UNCHANGED <<verdict, effect>>

\* A lease may still be granted to a caller that died, never to one that gave up.
Apply(c) == /\ effect[c] = "none"
            /\ outcome[c] \in {"open", "detached"} \cup
                 (IF c \in Snapshots THEN {} ELSE {"gaveUp"})
            /\ effect' = [effect EXCEPT ![c] = "applied"]
            /\ UNCHANGED <<outcome, verdict>>

\* The owner takes back a lease whose grant it could not deliver.
Undo(c) == /\ c \in Snapshots
           /\ effect[c] = "applied"
           /\ outcome[c] # "answered"
           /\ effect' = [effect EXCEPT ![c] = "undone"]
           /\ UNCHANGED <<outcome, verdict>>

Answer(c, r) == /\ outcome[c] = "open"
                /\ effect[c] = (IF r = "granted" THEN "applied" ELSE "none")
                /\ outcome' = [outcome EXCEPT ![c] = "answered"]
                /\ verdict' = [verdict EXCEPT ![c] = r]
                /\ UNCHANGED effect

\* The caller stops waiting: on its own decision, or because it died.
Abandon(c, how) == /\ outcome[c] = "open"
                   /\ outcome' = [outcome EXCEPT ![c] = how]
                   /\ UNCHANGED <<verdict, effect>>

Next == \E c \in Calls :
          \/ Open(c) \/ Apply(c) \/ Undo(c)
          \/ \E r \in {"granted", "refused"} : Answer(c, r)
          \/ \E how \in {"gaveUp", "detached"} : Abandon(c, how)

Safety == Init /\ [][Next]_vars

\* Every opened call is closed, whatever the owner does.
Closed == \A c \in Calls : (outcome[c] = "open") ~> (outcome[c] # "open")

Spec == Safety /\ Closed
=============================================================================
