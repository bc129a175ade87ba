-------------------------- MODULE MCLiveProjection --------------------------
(* Two prims at the top of the stage, one of them with a child.            *)
EXTENDS LiveProjection

CONSTANTS a, b, child

MCPrims == {a, b, child}

MCParent == [p \in MCPrims |-> IF p = child THEN a ELSE Root]

MCOpened == {{a, child}, {b}}
=============================================================================
