------------------------------ MODULE Relocations ------------------------------
(***************************************************************************)
(* How the branches of plugins reach what they call, over application      *)
(* cycles: linkSection of source/plugin/PluginLinkInformationFactory.cpp,    *)
(* elfLinkOne of source/utils/ElfUtils.cpp, doRelocations of                 *)
(* source/PluginManagement.cpp and the handles of gUsedRPLs in main.cpp.     *)
(*                                                                         *)
(* References inside of a plugin are linked once, when it is loaded; those  *)
(* to RPLs in every application, because RPLs come to lie elsewhere.  A     *)
(* branch that cannot reach its symbol goes through a trampoline of a pool  *)
(* behind the code, which both kinds share.                                 *)
(***************************************************************************)
EXTENDS Integers, Sequences, FiniteSets

CONSTANTS
    Plugins,
    Rpls,
    Thunks,     \* imports that are replaced by functions of the loader
    ThunkAt,    \* where those are
    Fixed,      \* per plugin: the relocations of linkSection, in order
    Imports,    \* per plugin: those of its RelocationData, in order
    Slots,      \* the size of the trampoline list
    Heap,       \* where the code of a plugin may lie
    Places,     \* where an RPL may lie
    Reach,      \* how far a branch goes
    ShortReach  \* how far one of 14 bits goes

Types == {"branch", "short", "word"}

NoAddress == 0

ASSUME RelocationAssumption ==
    /\ Rpls \cap Thunks = {}
    /\ "own" \notin Rpls \cup Thunks
    /\ "zero" \notin Rpls \cup Thunks
    /\ Fixed \in [Plugins -> Seq([type: Types, sym: {"own", "zero"}])]
    /\ Imports \in [Plugins -> Seq([type: Types, sym: Rpls \cup Thunks])]
    /\ Slots \in Nat /\ Reach \in Nat /\ ShortReach \in Nat
    /\ Heap \subseteq Nat \ {0} /\ Places \subseteq Nat \ {0} /\ ThunkAt \in Nat \ {0}
    /\ "none" \notin Plugins

VARIABLES
    phase,      \* of the application cycle; "missing" and "unreachable" are the
                \* two ways into OSFatal
    linked,     \* the plugins that are linked and loaded
    base,       \* per plugin: where its code is
    code,       \* per plugin, kind and relocation: where it leads
    tramp,      \* per plugin: mTrampData
    at,         \* per RPL: where it is in this application
    used,       \* the RPLs of gUsedRPLs
    current,    \* the relocation that is done next
    done        \* plugins relocated in this application

vars == <<phase, linked, base, code, tramp, at, used, current, done>>

\* A value in the code, or a branch to a trampoline.
Direct(a) == [via |-> 0, to |-> a]
Through(s, a) == [via |-> s, to |-> a]

Relocs(p, kind) == IF kind = "fixed" THEN Fixed[p] ELSE Imports[p]

Unlinked(p) ==
    [kind \in {"fixed", "imports"} |->
        [k \in DOMAIN Relocs(p, kind) |-> Direct(NoAddress)]]

NoTramps == [s \in 1..Slots |-> [status |-> "free", to |-> NoAddress]]

Nothing == [plugin |-> "none", k |-> 1]

Init ==
    /\ phase = "ended"
    /\ linked = {}
    /\ base = [p \in Plugins |-> NoAddress]
    /\ code = [p \in Plugins |-> Unlinked(p)]
    /\ tramp = [p \in Plugins |-> NoTramps]
    /\ at = [r \in Rpls |-> NoAddress]
    /\ used = {}
    /\ current = Nothing
    /\ done = {}

-----------------------------------------------------------------------------
(* elfLinkOne                                                              *)

Far(a, b, reach) == a - b > reach \/ b - a > reach

NeedsTramp(p, type, value) == type = "branch" /\ Far(value, base[p], Reach)

FreeSlots(p) == {s \in 1..Slots : tramp[p][s].status = "free"}
FreeSlot(p) == CHOOSE s \in FreeSlots(p) : \A u \in FreeSlots(p) : s <= u

\* RELOC_TRAMP_FIXED or RELOC_TRAMP_IMPORT_DONE
Link(p, kind, k, type, value) ==
    IF NeedsTramp(p, type, value)
    THEN /\ tramp' = [tramp EXCEPT ![p][FreeSlot(p)] = [status |-> kind, to |-> value]]
         /\ code' = [code EXCEPT ![p][kind][k] = Through(FreeSlot(p), NoAddress)]
    ELSE /\ code' = [code EXCEPT ![p][kind][k] = Direct(value)]
         /\ UNCHANGED tramp

Linkable(p, type, value) ==
    /\ type = "short" => ~Far(value, base[p], ShortReach)
    /\ NeedsTramp(p, type, value) => FreeSlots(p) # {}

-----------------------------------------------------------------------------
(* Loading and unloading                                                   *)

\* Mutant: gUsedRPLs keeps what an application that was stopped left in it.
StartWithOldHandles ==
    /\ phase = "ended"
    /\ phase' = "started"
    /\ done' = {}
    /\ UNCHANGED <<linked, base, code, tramp, at, used, current>>

StartApplication ==
    /\ phase = "ended"
    /\ phase' = "started"
    /\ used' = {}
    /\ done' = {}
    /\ UNCHANGED <<linked, base, code, tramp, at, current>>

Unload(p) ==
    /\ phase = "started"
    /\ p \in linked
    /\ linked' = linked \ {p}
    /\ UNCHANGED <<phase, base, code, tramp, at, used, current, done>>

\* PluginLinkInformationFactory::load, up to the relocations.
Load(p) ==
    /\ phase = "started"
    /\ p \notin linked
    /\ phase' = "linking"
    /\ \E a \in Heap : base' = [base EXCEPT ![p] = a]
    /\ code' = [code EXCEPT ![p] = Unlinked(p)]
    /\ tramp' = [tramp EXCEPT ![p] = NoTramps]
    /\ current' = [plugin |-> p, k |-> 1]
    /\ UNCHANGED <<linked, at, used, done>>

Own(p, sym) == IF sym = "own" THEN base[p] ELSE 0

\* linkSection
LinkFixed(p) ==
    /\ phase = "linking" /\ current.plugin = p
    /\ current.k \in DOMAIN Fixed[p]
    /\ LET r == Fixed[p][current.k]
       IN  IF Linkable(p, r.type, Own(p, r.sym))
           THEN /\ Link(p, "fixed", current.k, r.type, Own(p, r.sym))
                /\ current' = [current EXCEPT !.k = @ + 1]
                /\ UNCHANGED phase
           ELSE /\ phase' = "started"
                /\ current' = Nothing
                /\ UNCHANGED <<code, tramp>>
    /\ UNCHANGED <<linked, base, at, used, done>>

Loaded(p) ==
    /\ phase = "linking" /\ current.plugin = p
    /\ current.k > Len(Fixed[p])
    /\ phase' = "started"
    /\ linked' = linked \cup {p}
    /\ current' = Nothing
    /\ UNCHANGED <<base, code, tramp, at, used, done>>

-----------------------------------------------------------------------------
(* doRelocations                                                           *)

\* Mutant: all trampolines are free for the imports.
FreedAll(p) == NoTramps

\* Mutant: the trampolines of the application before stay occupied.
FreedNone(p) == tramp[p]

Freed(p) ==
    [s \in 1..Slots |-> IF tramp[p][s].status = "imports"
                        THEN [tramp[p][s] EXCEPT !.status = "free"] ELSE tramp[p][s]]

BeginRelocation(p) ==
    /\ \/ phase = "started"
       \/ phase = "relocating" /\ current = Nothing
    /\ p \in linked \ done
    /\ phase' = "relocating"
    /\ tramp' = [tramp EXCEPT ![p] = Freed(p)]
    /\ current' = [plugin |-> p, k |-> 1]
    /\ UNCHANGED <<linked, base, code, at, used, done>>

Finds(a) == a # NoAddress

\* The symbol at a is looked up in an RPL that is acquired, or is a thunk.
LinkImport(p, r, a) ==
    IF Finds(a) /\ Linkable(p, r.type, a)
    THEN /\ Link(p, "imports", current.k, r.type, a)
         /\ current' = [current EXCEPT !.k = @ + 1]
         /\ UNCHANGED phase
    ELSE /\ phase' = IF Finds(a) THEN "unreachable" ELSE "missing"
         /\ UNCHANGED <<code, tramp, current>>

Relocating(p) ==
    /\ phase = "relocating" /\ current.plugin = p
    /\ current.k \in DOMAIN Imports[p]

LinkThunk(p) ==
    /\ Relocating(p)
    /\ LET r == Imports[p][current.k]
       IN  r.sym \in Thunks /\ LinkImport(p, r, ThunkAt)
    /\ UNCHANGED <<linked, base, at, used, done>>

LinkUsed(p) ==
    /\ Relocating(p)
    /\ LET r == Imports[p][current.k]
       IN  /\ r.sym \in used
           /\ \E a \in {at[r.sym], NoAddress} : LinkImport(p, r, a)
    /\ UNCHANGED <<linked, base, at, used, done>>

\* The RPL is loaded by the application already, or now, or cannot be.
AcquireAndLink(p) ==
    /\ Relocating(p)
    /\ LET r == Imports[p][current.k]
       IN  /\ r.sym \in Rpls \ used
           /\ \/ /\ \E a \in IF at[r.sym] = NoAddress THEN Places ELSE {at[r.sym]} :
                       /\ at' = [at EXCEPT ![r.sym] = a]
                       /\ \E found \in {a, NoAddress} : LinkImport(p, r, found)
                 /\ used' = used \cup {r.sym}
              \/ /\ phase' = "missing"
                 /\ UNCHANGED <<code, tramp, at, used, current>>
    /\ UNCHANGED <<linked, base, done>>

Relocated(p) ==
    /\ phase = "relocating" /\ current.plugin = p
    /\ current.k > Len(Imports[p])
    /\ done' = done \cup {p}
    /\ current' = Nothing
    /\ UNCHANGED <<phase, linked, base, code, tramp, at, used>>

\* Mutant: "Unloading RPLs which you want to use is stupid."
RunAndRelease ==
    /\ phase \in {"started", "relocating"} /\ current = Nothing
    /\ linked \subseteq done
    /\ phase' = "runs"
    /\ used' = {}
    /\ UNCHANGED <<linked, base, code, tramp, at, current, done>>

Run ==
    /\ phase \in {"started", "relocating"} /\ current = Nothing
    /\ linked \subseteq done
    /\ phase' = "runs"
    /\ UNCHANGED <<linked, base, code, tramp, at, used, current, done>>

-----------------------------------------------------------------------------
(* The application                                                         *)

\* It loads RPLs of its own, and releases them: they stay while others use them.
LoadRpl(r) ==
    /\ phase \in {"started", "runs"} /\ at[r] = NoAddress
    /\ \E a \in Places : at' = [at EXCEPT ![r] = a]
    /\ UNCHANGED <<phase, linked, base, code, tramp, used, current, done>>

ReleaseRpl(r) ==
    /\ phase = "runs" /\ r \notin used
    /\ at' = [at EXCEPT ![r] = NoAddress]
    /\ UNCHANGED <<phase, linked, base, code, tramp, used, current, done>>

\* WUMS_APPLICATION_ENDS releases the handles, unless it does not come to that.
\* Nothing of the application is left in memory.
ApplicationEnds ==
    /\ phase = "runs"
    /\ phase' = "ended"
    /\ used' \in {used, {}}
    /\ at' = [r \in Rpls |-> NoAddress]
    /\ UNCHANGED <<linked, base, code, tramp, current, done>>

-----------------------------------------------------------------------------
Next ==
    \/ StartApplication \/ Run \/ ApplicationEnds
    \/ \E p \in Plugins :
          \/ Unload(p) \/ Load(p) \/ LinkFixed(p) \/ Loaded(p)
          \/ BeginRelocation(p) \/ LinkThunk(p) \/ LinkUsed(p) \/ AcquireAndLink(p)
          \/ Relocated(p)
    \/ \E r \in Rpls : LoadRpl(r) \/ ReleaseRpl(r)

Spec == Init /\ [][Next]_vars

-----------------------------------------------------------------------------
(* Properties                                                              *)

TypeOK ==
    /\ phase \in {"ended", "started", "linking", "relocating", "runs", "missing", "unreachable"}
    /\ linked \subseteq Plugins /\ done \subseteq Plugins
    /\ base \in [Plugins -> Heap \cup {NoAddress}]
    /\ \A p \in linked : base[p] # NoAddress
    /\ DOMAIN code = Plugins
    /\ \A p \in Plugins : \A kind \in {"fixed", "imports"} :
          /\ DOMAIN code[p] = {"fixed", "imports"}
          /\ code[p][kind] \in [DOMAIN Relocs(p, kind) -> [via: 0..Slots, to: Nat]]
    /\ tramp \in [Plugins -> [1..Slots -> [status: {"free", "fixed", "imports"}, to: Nat]]]
    /\ at \in [Rpls -> Places \cup {NoAddress}]
    /\ used \subseteq Rpls
    /\ current \in [plugin: Plugins \cup {"none"}, k: Nat]

\* Where the branch, or the value, of a relocation ends up.
Ends(p, kind, k) ==
    LET c == code[p][kind][k] IN IF c.via = 0 THEN c.to ELSE tramp[p][c.via].to

\* While an application runs every import of every plugin leads to where its RPL
\* is in this application, or to the loader's function in its place, although the
\* trampolines are used again and other users of an RPL let go of it.
ImportsReached ==
    phase = "runs" =>
        \A p \in linked : \A k \in DOMAIN Imports[p] :
            LET sym == Imports[p][k].sym
            IN  /\ Ends(p, "imports", k) = IF sym \in Thunks THEN ThunkAt ELSE at[sym]
                /\ Ends(p, "imports", k) # NoAddress

\* What was linked inside of a plugin when it was loaded stays linked, whatever
\* the imports of later applications do to the trampolines.
FixedStay ==
    \A p \in linked : \A k \in DOMAIN Fixed[p] : Ends(p, "fixed", k) = Own(p, Fixed[p][k].sym)

\* The handles with which imports are looked up are of this application, also when
\* the one before stopped without WUMS_APPLICATION_ENDS.
HandlesFresh == phase \in {"relocating", "runs"} => \A r \in used : at[r] # NoAddress

FarFixed(p) == {k \in DOMAIN Fixed[p] : NeedsTramp(p, Fixed[p][k].type, Own(p, Fixed[p][k].sym))}

FarImports(p) ==
    {k \in 1..current.k :
        LET r == Imports[p][k]
        IN  NeedsTramp(p, r.type, IF r.sym \in Thunks THEN ThunkAt ELSE at[r.sym])}

\* The pool is not used up by earlier applications: relocation fails only if a
\* short branch does not reach, or if this application needs more trampolines
\* than there are.
PoolSuffices ==
    phase = "unreachable" =>
        LET p == current.plugin
        IN  \/ Imports[p][current.k].type = "short"
            \/ Cardinality(FarFixed(p)) + Cardinality(FarImports(p)) > Slots
=============================================================================
