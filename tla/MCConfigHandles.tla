---------------------------- MODULE MCConfigHandles ----------------------------
EXTENDS ConfigHandles, TLC

\* Threads other than that of the menu are alike, and so are addresses of a kind.
Symmetry ==
    Permutations(Configs) \cup Permutations(Categories) \cup Permutations(Items)
        \cup Permutations(Threads \ {Menu})
=============================================================================
