----------------------------- MODULE MCIndexSync -----------------------------
(***************************************************************************)
(* A small instance of IndexSync: two processes and two branches, which    *)
(* only have to differ.                                                    *)
(***************************************************************************)
EXTENDS IndexSync, TLC

CONSTANTS p1, p2, a, b

Symmetric == Permutations({p1, p2}) \cup Permutations({a, b})
=============================================================================
