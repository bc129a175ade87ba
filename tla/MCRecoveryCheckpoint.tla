------------------------ MODULE MCRecoveryCheckpoint ------------------------
(* One prim and two keys: a checkpoint tells three stages apart, and an    *)
(* edit can bring an earlier stage back.                                   *)
EXTENDS RecoveryCheckpoint

CONSTANTS k1, k2

MCKeys == {k1, k2}

MCOpened == {<<k1>>}
=============================================================================
