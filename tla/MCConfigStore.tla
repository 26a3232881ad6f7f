---------------------------- MODULE MCConfigStore ----------------------------
(***************************************************************************)
(* A small instance of ConfigStore.  Processes and values only have to     *)
(* differ.                                                                 *)
(***************************************************************************)
EXTENDS ConfigStore, TLC

CONSTANTS p1, p2, v, w

Symmetric == Permutations({p1, p2}) \cup Permutations({v, w})
=============================================================================
