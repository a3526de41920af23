----------------------------- MODULE MCProcess -----------------------------
(* Process on small instances.                                             *)
EXTENDS Process, TLC

CONSTANTS p1, p2, p3

MCStatus == {-1, 0, 1}
Symmetry == Permutations(Proc)
=============================================================================
