------------------------- MODULE MCRuntimeDelivery --------------------------
(* Two prims and one key: prims appear, disappear and take each other's    *)
(* key.                                                                    *)
EXTENDS RuntimeDelivery

CONSTANTS k1

MCKeys == {k1}

MCOpened == {<<k1, None>>}
=============================================================================
