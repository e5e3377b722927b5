---------------------------- MODULE MCHeapTracking ----------------------------
(***************************************************************************)
(* Two plugins, one of which asks for tracking itself.                     *)
(***************************************************************************)
EXTENDS HeapTracking, TLC

Symmetry == Permutations(Ids) \cup Permutations(Threads) \cup Permutations(Ptrs)
=============================================================================
