--------------------------- MODULE MCPluginStorage ----------------------------
(***************************************************************************)
(* Trees with a key at the top and one that can lie below it.              *)
(***************************************************************************)
EXTENDS PluginStorage, TLC

CONSTANTS top, nested

DeepPaths == {top, nested}
DeepAbove == (top :> {}) @@ (nested :> {top})

FlatPaths == {top}
FlatAbove == top :> {}

Symmetry == Permutations(Handles)
=============================================================================
