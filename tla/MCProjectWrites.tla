-------------------------- MODULE MCProjectWrites --------------------------
(* Writes on a Project that has one definition and gets another one.       *)
EXTENDS ProjectWrites, TLC

CONSTANTS w1, w2, i1, i2, i3
=============================================================================
