----------------------------- MODULE MCThreads -----------------------------
(* Small instances of Threads for TLC.                                     *)
EXTENDS Threads, TLC

CONSTANTS w1, w2, w3, tid_lock, l1, s1, c1

MCCondLock == (c1 :> l1)
MCNoCondLock == [c \in {} |-> l1]
Symmetry == Permutations(Worker)
=============================================================================
