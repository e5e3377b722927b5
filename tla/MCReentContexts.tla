--------------------------- MODULE MCReentContexts ----------------------------
(***************************************************************************)
(* The thread that starts applications and others, a few plugins.          *)
(***************************************************************************)
EXTENDS ReentContexts, TLC

Symmetry == Permutations(Plugins) \cup Permutations(Nodes)
=============================================================================
