------------------------- MODULE MCStageActivation -------------------------
(* Two sessions, one after the other: the first asks for two Scenes, the   *)
(* second, after a reconnect, for a Scene or for the empty root.           *)
EXTENDS StageActivation

CONSTANTS first, second, a1, a2, b1, b2, X, Y

MCSessionOf ==
  [r \in Requests |-> IF r \in {a1, a2} THEN first ELSE second]

MCGenerationOf == [r \in Requests |-> IF r \in {a1, b1} THEN 1 ELSE 2]

MCTargetOf ==
  [r \in Requests |-> CASE r = a1 -> X [] r = a2 -> Y
                        [] r = b1 -> X [] r = b2 -> EmptyRoot]
=============================================================================
