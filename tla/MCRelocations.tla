----------------------------- MODULE MCRelocations -----------------------------
EXTENDS Relocations

Reloc(type, sym) == [type |-> type, sym |-> sym]

\* p1 calls an undefined weak function, two RPLs, and keeps a pointer to one; p2
\* allocates, and has a short branch out of its code.
MCFixed ==
    [p \in {"p1", "p2"} |->
        IF p = "p1" THEN <<Reloc("branch", "own"), Reloc("branch", "zero")>>
                    ELSE <<Reloc("word", "own")>>]
MCImports ==
    [p \in {"p1", "p2"} |->
        IF p = "p1" THEN <<Reloc("branch", "r1"), Reloc("word", "r1"), Reloc("branch", "r2")>>
                    ELSE <<Reloc("branch", "malloc"), Reloc("short", "r2")>>]
=============================================================================
