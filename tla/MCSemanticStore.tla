-------------------------- MODULE MCSemanticStore --------------------------
(* Two prims and two keys: the prims can change, lose and exchange keys.   *)
EXTENDS SemanticStore

CONSTANTS k1, k2

MCKeys == {k1, k2}

MCOpened == {<<k1, k2>>}
=============================================================================
