--------------------------- MODULE MCPluginLifecycle ---------------------------
(***************************************************************************)
(* Small plugin systems: f1 and f2 are files of the plugin directory, b1 a *)
(* wiiloaded image with the name and author of f1.                         *)
(***************************************************************************)
EXTENDS PluginLifecycle, TLC

CONSTANTS f1, f2, b1

MCName == (f1 :> "a") @@ (f2 :> "b") @@ (b1 :> "a")

Symmetry == Permutations(Slots) \cup Permutations(Handles)
=============================================================================
