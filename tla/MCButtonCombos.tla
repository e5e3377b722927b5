---------------------------- MODULE MCButtonCombos ----------------------------
(***************************************************************************)
(* Masks with a bit the conversions know and one they do not know.         *)
(***************************************************************************)
EXTENDS ButtonCombos, TLC

SmallMasks == {{"STICK_L", "VPAD_0"}, {"A", "SYNC"}}

Symmetry == Permutations(Managers) \cup Permutations(Combos)
=============================================================================
