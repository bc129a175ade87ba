------------------------ MODULE MCProjectPublication ------------------------
(* Two transactions of one host process, which differ in their kind only,   *)
(* on a Project that has one of the two Scenes.                             *)
EXTENDS ProjectPublication, TLC

CONSTANTS t1, t2, h1, p1, p2, s1, s2

OneProcess    == (t1 :> h1) @@ (t2 :> h1)
SceneProjects == (s1 :> p1) @@ (s2 :> p2)
SameTarget    == (t1 :> p1) @@ (t2 :> p1)
BothScope     == (t1 :> {s1}) @@ (t2 :> {s1})

\* Init takes every combination of kinds, so it makes no difference which begins first.
InOrder == pc[t2] # "idle" => pc[t1] # "idle"

\* A second stage is opened in the behaviours of one transaction only.
SecondStage == opened > 1 => pc[t2] = "idle"

BoundedSpec == Init /\ [][Next /\ (InOrder /\ SecondStage)']_vars /\ Fairness
=============================================================================
