-------------------------- MODULE Relocations_proofs --------------------------
(***************************************************************************)
(* For all plugins, relocations, pool sizes and places of code and RPLs:   *)
(* what was linked leads where it should, and stays so.  The invariant     *)
(* behind it is that a trampoline somebody's branch goes through is not    *)
(* free: those of the inside of a plugin never are, those of its imports   *)
(* become free only when all its imports are done again.                   *)
(***************************************************************************)
EXTENDS Relocations, FiniteSetTheorems, WellFoundedInduction, TLAPS

Kinds == {"fixed", "imports"}

\* The relocations of p that are done.
FixedDone(p) ==
    IF p \in linked THEN DOMAIN Fixed[p]
    ELSE IF phase = "linking" /\ current.plugin = p
         THEN {k \in DOMAIN Fixed[p] : k < current.k} ELSE {}

ImportsDone(p) ==
    IF phase \in {"relocating", "runs"} /\ p \in done THEN DOMAIN Imports[p]
    ELSE IF phase = "relocating" /\ current.plugin = p
         THEN {k \in DOMAIN Imports[p] : k < current.k} ELSE {}

Target(sym) == IF sym \in Thunks THEN ThunkAt ELSE at[sym]

\* A relocation leads to a: directly, or through a trampoline that is not free.
Leads(p, kind, k, a) ==
    \/ code[p][kind][k] = Direct(a)
    \/ /\ code[p][kind][k].via \in 1..Slots
       /\ tramp[p][code[p][kind][k].via] = [status |-> kind, to |-> a]

FixedLead ==
    \A p \in Plugins : \A k \in FixedDone(p) : Leads(p, "fixed", k, Own(p, Fixed[p][k].sym))

ImportsLead ==
    \A p \in Plugins : \A k \in ImportsDone(p) :
        /\ Imports[p][k].sym \in Thunks \cup used
        /\ Leads(p, "imports", k, Target(Imports[p][k].sym))

\* Where the loader is.
Working ==
    /\ phase = "linking" => current.plugin \in Plugins \ linked
                            /\ base[current.plugin] # NoAddress
    /\ phase = "relocating" /\ current # Nothing => current.plugin \in linked \ done
    /\ phase \in {"ended", "started", "runs"} => current = Nothing
    /\ phase = "runs" => linked \subseteq done
    /\ phase \in {"started", "linking"} => used = {} /\ done = {}
    /\ phase \in {"started", "linking", "relocating", "runs"} => done \subseteq linked
    /\ current = Nothing \/ current.plugin \in Plugins

IInv == TypeOK /\ Working /\ HandlesFresh /\ FixedLead /\ ImportsLead

-----------------------------------------------------------------------------
(* elfLinkOne                                                              *)

\* Every set of numbers that is not empty has a least one.
LEMMA Least ==
    ASSUME NEW S, S \subseteq Nat, S # {}
    PROVE  \E x \in S : \A y \in S : x <= y
<1> DEFINE Below == {ss \in Nat \X Nat : ss[1] < ss[2]}
<1>1. IsWellFoundedOn(Below, Nat)
  BY NatLessThanWellFounded DEF OpToRel
<1>2. \A x, y \in S : y < x => <<y, x>> \in Below
  OBVIOUS
<1> HIDE DEF Below
<1>3. PICK x \in S : \A y \in S : <<y, x>> \notin Below
  BY <1>1, WFMin, Zenon
<1>4. \A y \in S : ~(y < x)
  BY <1>2, <1>3
<1>5. QED
  BY <1>4

\* The slot elfLinkOne takes is one of the list, and it was free.
LEMMA FreeSlotIsFree ==
    ASSUME NEW p, FreeSlots(p) # {}
    PROVE  FreeSlot(p) \in 1..Slots /\ tramp[p][FreeSlot(p)].status = "free"
<1>1. FreeSlots(p) \subseteq Nat
  BY RelocationAssumption DEF FreeSlots
<1> DEFINE S == FreeSlots(p)
<1>2. \E x \in S : \A y \in S : x <= y
  BY <1>1, Least
<1>3. FreeSlot(p) \in FreeSlots(p)
  BY <1>2 DEF FreeSlot
<1>4. QED
  BY <1>3 DEF FreeSlots

\* The types of what a link writes, apart from TypeOK.
CodeOK ==
    /\ DOMAIN code = Plugins
    /\ \A p \in Plugins : \A kind \in {"fixed", "imports"} :
          /\ DOMAIN code[p] = {"fixed", "imports"}
          /\ code[p][kind] \in [DOMAIN Relocs(p, kind) -> [via: 0..Slots, to: Nat]]

TrampOK == tramp \in [Plugins -> [1..Slots -> [status: {"free", "fixed", "imports"}, to: Nat]]]

\* A link leads where it should, and changes neither what other relocations are
\* nor a trampoline that is not free.
LEMMA LinkLeads ==
    ASSUME CodeOK, TrampOK, NEW p \in Plugins, NEW kind \in Kinds,
           NEW k \in DOMAIN Relocs(p, kind), NEW type, NEW value \in Nat,
           Linkable(p, type, value), Link(p, kind, k, type, value)
    PROVE  /\ CodeOK' /\ TrampOK'
           /\ Leads(p, kind, k, value)'
           /\ \A q \in Plugins, kd \in Kinds : \A j \in DOMAIN Relocs(q, kd) :
                 <<q, kd, j>> # <<p, kind, k>> => code'[q][kd][j] = code[q][kd][j]
           /\ \A q \in Plugins, s \in 1..Slots :
                 tramp[q][s].status # "free" => tramp'[q][s] = tramp[q][s]
<1> USE DEF Kinds
<1>1. CASE NeedsTramp(p, type, value)
  <2> DEFINE s == FreeSlot(p)
  <2>1. s \in 1..Slots /\ tramp[p][s].status = "free"
    BY <1>1, FreeSlotIsFree DEF Linkable
  <2>2. /\ tramp' = [tramp EXCEPT ![p][s] = [status |-> kind, to |-> value]]
        /\ code' = [code EXCEPT ![p][kind][k] = Through(s, NoAddress)]
    BY <1>1 DEF Link
  <2> HIDE DEF s
  <2>3. Through(s, NoAddress) \in [via: 0..Slots, to: Nat]
    BY <2>1, RelocationAssumption DEF Through, NoAddress
  <2>4. CodeOK'
    BY <2>2, <2>3 DEF CodeOK, Relocs
  <2>5. TrampOK'
    BY <2>1, <2>2 DEF TrampOK
  <2>6. code'[p][kind][k] = Through(s, NoAddress)
    BY <2>2 DEF CodeOK, Relocs
  <2>7. tramp'[p][s] = [status |-> kind, to |-> value]
    BY <2>1, <2>2 DEF TrampOK
  <2>8. Leads(p, kind, k, value)'
    BY <2>1, <2>6, <2>7 DEF Leads, Through
  <2>9. \A q \in Plugins, kd \in Kinds : \A j \in DOMAIN Relocs(q, kd) :
           <<q, kd, j>> # <<p, kind, k>> => code'[q][kd][j] = code[q][kd][j]
    BY <2>2 DEF CodeOK, Relocs
  <2>10. \A q \in Plugins, u \in 1..Slots :
            tramp[q][u].status # "free" => tramp'[q][u] = tramp[q][u]
    BY <2>1, <2>2 DEF TrampOK
  <2>11. QED
    BY <2>4, <2>5, <2>8, <2>9, <2>10
<1>2. CASE ~NeedsTramp(p, type, value)
  <2>1. /\ tramp' = tramp
        /\ code' = [code EXCEPT ![p][kind][k] = Direct(value)]
    BY <1>2 DEF Link
  <2>2. Direct(value) \in [via: 0..Slots, to: Nat]
    BY RelocationAssumption DEF Direct
  <2>3. CodeOK' /\ TrampOK'
    BY <2>1, <2>2 DEF CodeOK, TrampOK, Relocs
  <2>4. code'[p][kind][k] = Direct(value)
    BY <2>1 DEF CodeOK, Relocs
  <2>5. \A q \in Plugins, kd \in Kinds : \A j \in DOMAIN Relocs(q, kd) :
           <<q, kd, j>> # <<p, kind, k>> => code'[q][kd][j] = code[q][kd][j]
    BY <2>1 DEF CodeOK, Relocs
  <2>6. QED
    BY <2>1, <2>3, <2>4, <2>5 DEF Leads
<1>3. QED
  BY <1>1, <1>2

\* What leads somewhere goes on leading there if its code and its trampoline stay.
LEMMA LeadsStays ==
    ASSUME NEW p \in Plugins, NEW kind \in Kinds, NEW k, NEW a,
           Leads(p, kind, k, a), code'[p][kind][k] = code[p][kind][k],
           \A s \in 1..Slots : tramp[p][s].status = kind => tramp'[p][s] = tramp[p][s]
    PROVE  Leads(p, kind, k, a)'
BY DEF Leads

-----------------------------------------------------------------------------
(* The invariant                                                           *)

LEMMA TypeParts == TypeOK => CodeOK /\ TrampOK
BY DEF TypeOK, CodeOK, TrampOK

LEMMA InitInvariant == Init => IInv
<1> SUFFICES ASSUME Init PROVE IInv
  OBVIOUS
<1> USE DEF Init, Nothing
<1>1. TypeOK
  <2>1. \A p \in Plugins : \A kind \in {"fixed", "imports"} :
           code[p][kind] \in [DOMAIN Relocs(p, kind) -> [via: 0..Slots, to: Nat]]
    BY RelocationAssumption DEF Unlinked, Direct, NoAddress, Relocs
  <2>2. DOMAIN code = Plugins /\ \A p \in Plugins : DOMAIN code[p] = {"fixed", "imports"}
    BY DEF Unlinked
  <2>3. QED
    BY <2>1, <2>2 DEF TypeOK, NoTramps, NoAddress
<1>2. Working /\ HandlesFresh
  BY DEF Working, HandlesFresh
<1>3. FixedLead /\ ImportsLead
  BY DEF FixedLead, FixedDone, ImportsLead, ImportsDone
<1>4. QED
  BY <1>1, <1>2, <1>3 DEF IInv

\* What is done of a plugin stays done or is begun anew, and leads where it did.
LEMMA StartKeeps == IInv /\ StartApplication => IInv'
<1> SUFFICES ASSUME IInv, StartApplication PROVE IInv'
  OBVIOUS
<1> USE DEF IInv, StartApplication
<1>1. TypeOK'
  BY DEF TypeOK, Relocs
<1>2. Working' /\ HandlesFresh'
  BY DEF Working, HandlesFresh
<1>3. FixedLead'
  BY DEF FixedLead, FixedDone, Leads, Own
<1>4. ImportsLead'
  BY DEF ImportsLead, ImportsDone
<1>5. QED
  BY <1>1, <1>2, <1>3, <1>4

LEMMA UnloadKeeps == ASSUME NEW p \in Plugins PROVE IInv /\ Unload(p) => IInv'
<1> SUFFICES ASSUME IInv, Unload(p) PROVE IInv'
  OBVIOUS
<1> USE DEF IInv, Unload
<1>1. TypeOK'
  BY DEF TypeOK, Relocs
<1>2. Working' /\ HandlesFresh'
  BY DEF Working, HandlesFresh, Nothing
<1>3. FixedLead'
  BY DEF FixedLead, FixedDone, Leads, Own
<1>4. ImportsLead'
  BY DEF ImportsLead, ImportsDone
<1>5. QED
  BY <1>1, <1>2, <1>3, <1>4

LEMMA LoadKeeps == ASSUME NEW p \in Plugins PROVE IInv /\ Load(p) => IInv'
<1> SUFFICES ASSUME IInv, Load(p) PROVE IInv'
  OBVIOUS
<1> USE DEF IInv, Load
<1>1. TypeOK'
  <2>1. \A q \in Plugins : \A kind \in {"fixed", "imports"} :
           /\ DOMAIN code'[q] = {"fixed", "imports"}
           /\ code'[q][kind] \in [DOMAIN Relocs(q, kind) -> [via: 0..Slots, to: Nat]]
    BY RelocationAssumption DEF TypeOK, Unlinked, Direct, NoAddress, Relocs
  <2>2. tramp' \in [Plugins -> [1..Slots -> [status: {"free", "fixed", "imports"}, to: Nat]]]
    BY DEF TypeOK, NoTramps, NoAddress
  <2>3. base' \in [Plugins -> Heap \cup {NoAddress}]
    BY DEF TypeOK
  <2>4. \A q \in linked : base'[q] # NoAddress
    BY DEF TypeOK
  <2>5. QED
    BY <2>1, <2>2, <2>3, <2>4 DEF TypeOK, Relocs
<1>2. Working' /\ HandlesFresh'
  <2>1. base'[p] # NoAddress
    BY RelocationAssumption DEF TypeOK, NoAddress
  <2>2. QED
    BY <2>1 DEF Working, HandlesFresh, Nothing
<1>3. FixedLead'
  <2> SUFFICES ASSUME NEW q \in Plugins, NEW k \in FixedDone(q)'
               PROVE  Leads(q, "fixed", k, Own(q, Fixed[q][k].sym))'
    BY DEF FixedLead
  <2>1. q \in linked /\ q # p
    BY RelocationAssumption DEF FixedDone
  <2>2. k \in FixedDone(q) /\ base'[q] = base[q] /\ code'[q] = code[q] /\ tramp'[q] = tramp[q]
    BY <2>1 DEF FixedDone, TypeOK
  <2>3. QED
    BY <2>2 DEF FixedLead, Leads, Own
<1>4. ImportsLead'
  BY DEF ImportsLead, ImportsDone
<1>5. QED
  BY <1>1, <1>2, <1>3, <1>4

LEMMA LoadedKeeps == ASSUME NEW p \in Plugins PROVE IInv /\ Loaded(p) => IInv'
<1> SUFFICES ASSUME IInv, Loaded(p) PROVE IInv'
  OBVIOUS
<1> USE DEF IInv, Loaded
<1>1. base[p] # NoAddress
  BY DEF TypeOK, Working
<1>2. TypeOK'
  BY <1>1 DEF TypeOK, Relocs, Nothing
<1>3. Working' /\ HandlesFresh'
  BY DEF Working, HandlesFresh, Nothing
<1>4. FixedLead'
  BY RelocationAssumption DEF FixedLead, FixedDone, Leads, Own, TypeOK
<1>5. ImportsLead'
  BY DEF ImportsLead, ImportsDone
<1>6. QED
  BY <1>2, <1>3, <1>4, <1>5

LEMMA LinkFixedKeeps == ASSUME NEW p \in Plugins PROVE IInv /\ LinkFixed(p) => IInv'
<1> SUFFICES ASSUME IInv, LinkFixed(p) PROVE IInv'
  OBVIOUS
<1> USE DEF IInv
<1>0. PICK k, type, value : k = current.k /\ type = Fixed[p][k].type
                            /\ value = Own(p, Fixed[p][k].sym)
  OBVIOUS
<1>1. /\ phase = "linking" /\ current.plugin = p /\ k \in DOMAIN Fixed[p] /\ k \in Nat
      /\ UNCHANGED <<linked, base, at, used, done>>
      /\ p \notin linked /\ base[p] \in Heap
  BY <1>0 DEF LinkFixed, TypeOK, Working
<1>2. CASE Linkable(p, type, value)
  <2>1. /\ Link(p, "fixed", k, type, value)
        /\ current' = [current EXCEPT !.k = @ + 1]
        /\ phase' = phase
    BY <1>0, <1>2 DEF LinkFixed
  <2>2. value \in Nat
    BY <1>0, <1>1, RelocationAssumption DEF Own
  <2>3. CodeOK /\ TrampOK
    BY TypeParts
  <2>4. /\ CodeOK' /\ TrampOK'
        /\ Leads(p, "fixed", k, value)'
        /\ \A q \in Plugins, kd \in Kinds : \A j \in DOMAIN Relocs(q, kd) :
              <<q, kd, j>> # <<p, "fixed", k>> => code'[q][kd][j] = code[q][kd][j]
        /\ \A q \in Plugins, s \in 1..Slots :
              tramp[q][s].status # "free" => tramp'[q][s] = tramp[q][s]
    <3>1. k \in DOMAIN Relocs(p, "fixed") /\ "fixed" \in Kinds
      BY <1>1 DEF Relocs, Kinds
    <3>2. QED
      BY <1>2, <2>1, <2>2, <2>3, <3>1, LinkLeads, Zenon
  <2>5. TypeOK'
    BY <1>1, <2>1, <2>4 DEF TypeOK, CodeOK, TrampOK
  <2>6. Working' /\ HandlesFresh'
    BY <1>0, <1>1, <2>1, RelocationAssumption DEF Working, HandlesFresh, Nothing, TypeOK
  <2>7. FixedLead'
    <3> SUFFICES ASSUME NEW q \in Plugins, NEW j \in FixedDone(q)'
                 PROVE  Leads(q, "fixed", j, Own(q, Fixed[q][j].sym))'
      BY DEF FixedLead
    <3>1. CASE q = p /\ j = k
      BY <1>0, <1>1, <2>4, <3>1 DEF Own
    <3>2. CASE ~(q = p /\ j = k)
      <4>1. j \in FixedDone(q) /\ j \in DOMAIN Relocs(q, "fixed")
        BY <1>0, <1>1, <2>1, <3>2, RelocationAssumption DEF FixedDone, Relocs, TypeOK
      <4>2. Leads(q, "fixed", j, Own(q, Fixed[q][j].sym))
        BY <4>1 DEF FixedLead
      <4>3. code'[q]["fixed"][j] = code[q]["fixed"][j]
        BY <2>4, <3>2, <4>1 DEF Kinds
      <4>4. QED
        BY <1>1, <2>4, <4>2, <4>3 DEF Leads, Own
    <3>3. QED
      BY <3>1, <3>2
  <2>8. ImportsLead'
    BY <1>1, <2>1 DEF ImportsLead, ImportsDone
  <2>9. QED
    BY <2>5, <2>6, <2>7, <2>8
<1>3. CASE ~Linkable(p, type, value)
  <2>1. phase' = "started" /\ current' = Nothing /\ UNCHANGED <<code, tramp>>
    BY <1>0, <1>3 DEF LinkFixed
  <2>2. TypeOK'
    BY <1>1, <2>1 DEF TypeOK, Relocs, Nothing
  <2>3. Working' /\ HandlesFresh'
    BY <1>1, <2>1 DEF Working, HandlesFresh, Nothing
  <2>4. FixedLead'
    BY <1>1, <2>1 DEF FixedLead, FixedDone, Leads, Own
  <2>5. ImportsLead'
    BY <1>1, <2>1 DEF ImportsLead, ImportsDone
  <2>6. QED
    BY <2>2, <2>3, <2>4, <2>5
<1>4. QED
  BY <1>2, <1>3

LEMMA BeginKeeps == ASSUME NEW p \in Plugins PROVE IInv /\ BeginRelocation(p) => IInv'
<1> SUFFICES ASSUME IInv, BeginRelocation(p) PROVE IInv'
  OBVIOUS
<1> USE DEF IInv, BeginRelocation
<1>1. TypeOK'
  <2>1. Freed(p) \in [1..Slots -> [status: {"free", "fixed", "imports"}, to: Nat]]
    <3>1. tramp[p] \in [1..Slots -> [status: {"free", "fixed", "imports"}, to: Nat]]
      BY DEF TypeOK
    <3>2. \A s \in 1..Slots : Freed(p)[s] \in [status: {"free", "fixed", "imports"}, to: Nat]
      BY <3>1 DEF Freed
    <3>3. QED
      BY <3>2 DEF Freed
  <2>2. QED
    BY <2>1 DEF TypeOK, Relocs
<1>2. Working' /\ HandlesFresh'
  BY RelocationAssumption DEF Working, HandlesFresh, Nothing
<1>3. \A q \in Plugins, s \in 1..Slots :
         q # p \/ tramp[q][s].status # "imports" => tramp'[q][s] = tramp[q][s]
  <2>1. /\ tramp \in [Plugins -> [1..Slots -> [status: {"free", "fixed", "imports"}, to: Nat]]]
        /\ tramp' = [tramp EXCEPT ![p] = Freed(p)]
    BY DEF TypeOK
  <2>2. \A s \in 1..Slots : tramp[p][s].status # "imports" => Freed(p)[s] = tramp[p][s]
    BY DEF Freed
  <2>3. QED
    BY <2>1, <2>2
<1>4. FixedLead'
  <2> SUFFICES ASSUME NEW q \in Plugins, NEW k \in FixedDone(q)'
               PROVE  Leads(q, "fixed", k, Own(q, Fixed[q][k].sym))'
    BY DEF FixedLead
  <2>1. k \in FixedDone(q)
    BY DEF FixedDone
  <2>2. QED
    BY <1>3, <2>1 DEF FixedLead, Leads, Own
<1>5. ImportsLead'
  <2> SUFFICES ASSUME NEW q \in Plugins, NEW k \in ImportsDone(q)'
               PROVE  /\ Imports[q][k].sym \in Thunks \cup used'
                      /\ Leads(q, "imports", k, Target(Imports[q][k].sym))'
    BY DEF ImportsLead
  <2>1. q # p /\ k \in ImportsDone(q)
    BY RelocationAssumption DEF ImportsDone, Working, Nothing
  <2>2. QED
    BY <1>3, <2>1 DEF ImportsLead, Leads, Target
<1>6. QED
  BY <1>1, <1>2, <1>4, <1>5

\* What the three ways to an import share: it is linked to where its symbol is.
LEMMA LinkImportKeeps ==
    ASSUME IInv, NEW p \in Plugins, Relocating(p), NEW a \in Nat,
           NEW k, k = current.k, LinkImport(p, Imports[p][k], a),
           UNCHANGED <<linked, base, done>>,
           used \subseteq used', used' \subseteq Rpls, at' \in [Rpls -> Places \cup {NoAddress}],
           \A r \in used : at'[r] = at[r], \A r \in used' : at'[r] # NoAddress,
           Finds(a) => Imports[p][k].sym \in Thunks \cup used'
                       /\ a = Target(Imports[p][k].sym)'
    PROVE  IInv'
<1> USE DEF IInv
<1>0. PICK type : type = Imports[p][k].type
  OBVIOUS
<1>1. /\ phase = "relocating" /\ current.plugin = p /\ k \in DOMAIN Imports[p] /\ k \in Nat
      /\ current # Nothing /\ p \in linked \ done
  BY RelocationAssumption DEF Relocating, TypeOK, Working, Nothing
<1>2. CASE Finds(a) /\ Linkable(p, type, a)
  <2>1. /\ Link(p, "imports", k, type, a)
        /\ current' = [current EXCEPT !.k = @ + 1]
        /\ phase' = phase
    BY <1>0, <1>2 DEF LinkImport
  <2>2. CodeOK /\ TrampOK
    BY TypeParts
  <2>3. /\ CodeOK' /\ TrampOK'
        /\ Leads(p, "imports", k, a)'
        /\ \A q \in Plugins, kd \in Kinds : \A j \in DOMAIN Relocs(q, kd) :
              <<q, kd, j>> # <<p, "imports", k>> => code'[q][kd][j] = code[q][kd][j]
        /\ \A q \in Plugins, s \in 1..Slots :
              tramp[q][s].status # "free" => tramp'[q][s] = tramp[q][s]
    <3>1. k \in DOMAIN Relocs(p, "imports") /\ "imports" \in Kinds
      BY <1>1 DEF Relocs, Kinds
    <3>2. QED
      BY <1>2, <2>1, <2>2, <3>1, LinkLeads, Zenon
  <2>4. TypeOK'
    BY <1>1, <2>1, <2>3 DEF TypeOK, CodeOK, TrampOK
  <2>5. Working' /\ HandlesFresh'
    BY <1>1, <2>1, RelocationAssumption DEF Working, HandlesFresh, Nothing, TypeOK
  <2>6. FixedLead'
    <3> SUFFICES ASSUME NEW q \in Plugins, NEW j \in FixedDone(q)'
                 PROVE  Leads(q, "fixed", j, Own(q, Fixed[q][j].sym))'
      BY DEF FixedLead
    <3>1. j \in FixedDone(q) /\ j \in DOMAIN Relocs(q, "fixed")
      BY <1>1, <2>1 DEF FixedDone, Relocs
    <3>2. Leads(q, "fixed", j, Own(q, Fixed[q][j].sym))
      BY <3>1 DEF FixedLead
    <3>3. code'[q]["fixed"][j] = code[q]["fixed"][j]
      BY <2>3, <3>1 DEF Kinds
    <3>4. QED
      BY <2>3, <3>2, <3>3 DEF Leads, Own
  <2>7. ImportsLead'
    <3> SUFFICES ASSUME NEW q \in Plugins, NEW j \in ImportsDone(q)'
                 PROVE  /\ Imports[q][j].sym \in Thunks \cup used'
                        /\ Leads(q, "imports", j, Target(Imports[q][j].sym))'
      BY DEF ImportsLead
    <3>1. CASE q = p /\ j = k
      BY <1>1, <1>2, <2>3, <3>1
    <3>2. CASE ~(q = p /\ j = k)
      <4>1. j \in ImportsDone(q) /\ j \in DOMAIN Relocs(q, "imports")
        BY <1>1, <2>1, <3>2, RelocationAssumption DEF ImportsDone, Relocs, TypeOK
      <4>2. /\ Imports[q][j].sym \in Thunks \cup used
            /\ Leads(q, "imports", j, Target(Imports[q][j].sym))
        BY <4>1 DEF ImportsLead
      <4>3. code'[q]["imports"][j] = code[q]["imports"][j]
        BY <2>3, <3>2, <4>1 DEF Kinds
      <4>4. Target(Imports[q][j].sym)' = Target(Imports[q][j].sym)
        BY <4>2 DEF Target
      <4>5. QED
        BY <2>3, <4>2, <4>3, <4>4 DEF Leads
    <3>3. QED
      BY <3>1, <3>2
  <2>8. QED
    BY <2>4, <2>5, <2>6, <2>7
<1>3. CASE ~(Finds(a) /\ Linkable(p, type, a))
  <2>1. phase' \in {"missing", "unreachable"} /\ UNCHANGED <<code, tramp, current>>
    BY <1>0, <1>3 DEF LinkImport
  <2>2. TypeOK'
    BY <1>1, <2>1 DEF TypeOK, Relocs
  <2>3. Working' /\ HandlesFresh'
    BY <1>1, <2>1 DEF Working, HandlesFresh
  <2>4. FixedLead'
    BY <1>1, <2>1 DEF FixedLead, FixedDone, Leads, Own
  <2>5. ImportsLead'
    BY <1>1, <2>1 DEF ImportsLead, ImportsDone
  <2>6. QED
    BY <2>2, <2>3, <2>4, <2>5
<1>4. QED
  BY <1>2, <1>3

LEMMA LinkThunkKeeps == ASSUME NEW p \in Plugins PROVE IInv /\ LinkThunk(p) => IInv'
<1> SUFFICES ASSUME IInv, LinkThunk(p) PROVE IInv'
  OBVIOUS
<1>1. PICK k : k = current.k
  OBVIOUS
<1>2. /\ Relocating(p)
      /\ Imports[p][k].sym \in Thunks
      /\ LinkImport(p, Imports[p][k], ThunkAt)
      /\ UNCHANGED <<linked, base, at, used, done>>
  BY <1>1 DEF LinkThunk
<1>3. ThunkAt \in Nat
  BY RelocationAssumption
<1>4. used \subseteq Rpls /\ at \in [Rpls -> Places \cup {NoAddress}]
  BY DEF IInv, TypeOK
<1>5. \A r \in used : at[r] # NoAddress
  BY <1>2 DEF IInv, HandlesFresh, Relocating
<1>6. QED
  BY <1>1, <1>2, <1>3, <1>4, <1>5, LinkImportKeeps DEF Target

LEMMA LinkUsedKeeps == ASSUME NEW p \in Plugins PROVE IInv /\ LinkUsed(p) => IInv'
<1> SUFFICES ASSUME IInv, LinkUsed(p) PROVE IInv'
  OBVIOUS
<1>1. PICK k : k = current.k
  OBVIOUS
<1>2. PICK a \in {at[Imports[p][k].sym], NoAddress} :
         /\ Relocating(p)
         /\ Imports[p][k].sym \in used
         /\ LinkImport(p, Imports[p][k], a)
         /\ UNCHANGED <<linked, base, at, used, done>>
  BY <1>1 DEF LinkUsed
<1>3. used \subseteq Rpls /\ at \in [Rpls -> Places \cup {NoAddress}]
  BY DEF IInv, TypeOK
<1>4. \A r \in used : at[r] # NoAddress
  BY <1>2 DEF IInv, HandlesFresh, Relocating
<1>5. a \in Nat
  <2>1. at[Imports[p][k].sym] \in Places \cup {NoAddress}
    BY <1>2, <1>3
  <2>2. Places \cup {NoAddress} \subseteq Nat
    BY RelocationAssumption DEF NoAddress
  <2>3. QED
    BY <1>2, <2>1, <2>2
<1>6. Imports[p][k].sym \notin Thunks
  BY <1>2, <1>3, RelocationAssumption
<1>7. Finds(a) => a = Target(Imports[p][k].sym)'
  BY <1>2, <1>6 DEF Finds, Target
<1>8. QED
  BY <1>1, <1>2, <1>3, <1>4, <1>5, <1>7, LinkImportKeeps

LEMMA AcquireKeeps == ASSUME NEW p \in Plugins PROVE IInv /\ AcquireAndLink(p) => IInv'
<1> SUFFICES ASSUME IInv, AcquireAndLink(p) PROVE IInv'
  OBVIOUS
<1>1. PICK k : k = current.k
  OBVIOUS
<1>2. PICK sym : sym = Imports[p][k].sym
  OBVIOUS
<1>3. /\ Relocating(p) /\ sym \in Rpls \ used
      /\ UNCHANGED <<linked, base, done>>
  BY <1>1, <1>2 DEF AcquireAndLink
<1>4. /\ used \subseteq Rpls /\ at \in [Rpls -> Places \cup {NoAddress}]
      /\ \A r \in used : at[r] # NoAddress
  BY <1>3 DEF IInv, TypeOK, HandlesFresh, Relocating
<1>5. CASE used' = used \cup {sym}
  <2>1. PICK a \in IF at[sym] = NoAddress THEN Places ELSE {at[sym]} :
           /\ at' = [at EXCEPT ![sym] = a]
           /\ \E found \in {a, NoAddress} : LinkImport(p, Imports[p][k], found)
    BY <1>1, <1>2, <1>3, <1>5 DEF AcquireAndLink
  <2>2. PICK found \in {a, NoAddress} : LinkImport(p, Imports[p][k], found)
    BY <2>1
  <2>3. a \in Places /\ a # NoAddress
    BY <1>3, <1>4, <2>1, RelocationAssumption DEF NoAddress
  <2>4. at' \in [Rpls -> Places \cup {NoAddress}] /\ at'[sym] = a
        /\ \A r \in used : at'[r] = at[r]
    BY <1>3, <1>4, <2>1, <2>3
  <2>5. found \in Nat
    BY <2>3, RelocationAssumption DEF NoAddress
  <2>6. Finds(found) => found = Target(Imports[p][k].sym)'
    BY <1>2, <1>3, <2>2, <2>4, RelocationAssumption DEF Finds, Target
  <2>7. /\ used \subseteq used' /\ used' \subseteq Rpls /\ Imports[p][k].sym \in used'
        /\ \A r \in used' : at'[r] # NoAddress
    BY <1>2, <1>3, <1>4, <1>5, <2>3, <2>4
  <2>8. QED
    BY <1>1, <1>3, <2>2, <2>4, <2>5, <2>6, <2>7, LinkImportKeeps
<1>6. CASE used' # used \cup {sym}
  <2>1. phase' = "missing" /\ UNCHANGED <<linked, base, code, tramp, at, used, current, done>>
    BY <1>1, <1>2, <1>3, <1>6 DEF AcquireAndLink
  <2> USE DEF IInv
  <2>2. phase = "relocating"
    BY <1>3 DEF Relocating
  <2>3. TypeOK'
    BY <2>1 DEF TypeOK, Relocs
  <2>4. Working' /\ HandlesFresh'
    BY <2>1, <2>2 DEF Working, HandlesFresh
  <2>5. FixedLead'
    BY <2>1, <2>2 DEF FixedLead, FixedDone, Leads, Own
  <2>6. ImportsLead'
    BY <2>1, <2>2 DEF ImportsLead, ImportsDone
  <2>7. QED
    BY <2>3, <2>4, <2>5, <2>6
<1>7. QED
  BY <1>5, <1>6

LEMMA RelocatedKeeps == ASSUME NEW p \in Plugins PROVE IInv /\ Relocated(p) => IInv'
<1> SUFFICES ASSUME IInv, Relocated(p) PROVE IInv'
  OBVIOUS
<1> USE DEF IInv, Relocated
<1>1. TypeOK'
  BY DEF TypeOK, Relocs, Nothing
<1>2. Working' /\ HandlesFresh'
  BY RelocationAssumption DEF Working, HandlesFresh, Nothing
<1>3. FixedLead'
  BY DEF FixedLead, FixedDone, Leads, Own
<1>4. ImportsLead'
  <2> SUFFICES ASSUME NEW q \in Plugins, NEW k \in ImportsDone(q)'
               PROVE  /\ Imports[q][k].sym \in Thunks \cup used'
                      /\ Leads(q, "imports", k, Target(Imports[q][k].sym))'
    BY DEF ImportsLead
  <2>1. k \in ImportsDone(q)
    BY RelocationAssumption DEF ImportsDone, TypeOK, Nothing
  <2>2. QED
    BY <2>1 DEF ImportsLead, Leads, Target
<1>5. QED
  BY <1>1, <1>2, <1>3, <1>4

LEMMA RunKeeps == IInv /\ Run => IInv'
<1> SUFFICES ASSUME IInv, Run PROVE IInv'
  OBVIOUS
<1> USE DEF IInv, Run
<1>1. TypeOK'
  BY DEF TypeOK, Relocs
<1>2. Working' /\ HandlesFresh'
  BY DEF Working, HandlesFresh
<1>3. FixedLead'
  BY DEF FixedLead, FixedDone, Leads, Own
<1>4. ImportsLead'
  BY RelocationAssumption DEF ImportsLead, ImportsDone, Leads, Target, Working, Nothing
<1>5. QED
  BY <1>1, <1>2, <1>3, <1>4

\* An application loads and releases RPLs that the plugins do not use.
LEMMA RplKeeps == ASSUME NEW r \in Rpls PROVE IInv /\ (LoadRpl(r) \/ ReleaseRpl(r)) => IInv'
<1> SUFFICES ASSUME IInv, LoadRpl(r) \/ ReleaseRpl(r) PROVE IInv'
  OBVIOUS
<1> USE DEF IInv
<1>1. /\ UNCHANGED <<phase, linked, base, code, tramp, used, current, done>>
      /\ at' \in [Rpls -> Places \cup {NoAddress}]
      /\ phase \in {"started", "runs"}
  BY DEF LoadRpl, ReleaseRpl, TypeOK
<1>2. \A u \in used : at'[u] = at[u]
  BY RelocationAssumption DEF LoadRpl, ReleaseRpl, TypeOK, HandlesFresh, Working
<1>3. TypeOK'
  BY <1>1 DEF TypeOK, Relocs
<1>4. Working' /\ HandlesFresh'
  BY <1>1, <1>2 DEF Working, HandlesFresh
<1>5. FixedLead'
  BY <1>1 DEF FixedLead, FixedDone, Leads, Own
<1>6. ImportsLead'
  BY <1>1, <1>2 DEF ImportsLead, ImportsDone, Leads, Target
<1>7. QED
  BY <1>3, <1>4, <1>5, <1>6

LEMMA EndKeeps == IInv /\ ApplicationEnds => IInv'
<1> SUFFICES ASSUME IInv, ApplicationEnds PROVE IInv'
  OBVIOUS
<1> USE DEF IInv, ApplicationEnds
<1>1. TypeOK'
  BY DEF TypeOK, Relocs
<1>2. Working' /\ HandlesFresh'
  BY DEF Working, HandlesFresh
<1>3. FixedLead'
  BY DEF FixedLead, FixedDone, Leads, Own
<1>4. ImportsLead'
  BY DEF ImportsLead, ImportsDone
<1>5. QED
  BY <1>1, <1>2, <1>3, <1>4

LEMMA StepKeeps == IInv /\ [Next]_vars => IInv'
<1> SUFFICES ASSUME IInv, [Next]_vars PROVE IInv'
  OBVIOUS
<1>1. CASE StartApplication \/ Run \/ ApplicationEnds
  BY <1>1, StartKeeps, RunKeeps, EndKeeps
<1>2. ASSUME NEW p \in Plugins,
             \/ Unload(p) \/ Load(p) \/ LinkFixed(p) \/ Loaded(p)
             \/ BeginRelocation(p) \/ LinkThunk(p) \/ LinkUsed(p) \/ AcquireAndLink(p)
             \/ Relocated(p)
      PROVE  IInv'
  BY <1>2, UnloadKeeps, LoadKeeps, LinkFixedKeeps, LoadedKeeps, BeginKeeps, LinkThunkKeeps,
     LinkUsedKeeps, AcquireKeeps, RelocatedKeeps
<1>3. ASSUME NEW r \in Rpls, LoadRpl(r) \/ ReleaseRpl(r) PROVE IInv'
  BY <1>3, RplKeeps
<1>4. CASE UNCHANGED vars
  BY <1>4 DEF vars, IInv, TypeOK, Relocs, Working, HandlesFresh, FixedLead, FixedDone, ImportsLead,
     ImportsDone, Leads, Own, Target
<1>5. QED
  BY <1>1, <1>2, <1>3, <1>4 DEF Next

THEOREM Invariant == Spec => []IInv
BY InitInvariant, StepKeeps, PTL DEF Spec

-----------------------------------------------------------------------------
(* What follows from it                                                    *)

\* Every variable keeps its type: the trampoline that is taken exists, and what
\* is linked has a place.
THEOREM RelocationTypes == Spec => []TypeOK
<1>1. IInv => TypeOK
  BY DEF IInv
<1>2. QED
  BY <1>1, Invariant, PTL

\* Imports are looked up with handles of the application that starts or runs.
THEOREM HandlesOfThisApplication == Spec => []HandlesFresh
<1>1. IInv => HandlesFresh
  BY DEF IInv
<1>2. QED
  BY <1>1, Invariant, PTL

\* What was linked inside of a plugin when it was loaded stays linked.
THEOREM InsideStaysLinked == Spec => []FixedStay
<1>1. IInv => FixedStay
  <2> SUFFICES ASSUME IInv, NEW p \in linked, NEW k \in DOMAIN Fixed[p]
               PROVE  Ends(p, "fixed", k) = Own(p, Fixed[p][k].sym)
    BY DEF FixedStay
  <2>1. Leads(p, "fixed", k, Own(p, Fixed[p][k].sym))
    BY DEF IInv, TypeOK, FixedLead, FixedDone
  <2>2. QED
    BY <2>1 DEF Leads, Ends, Direct
<1>2. QED
  BY <1>1, Invariant, PTL

\* While an application runs, every import leads to its symbol.
THEOREM ImportsReachSymbols == Spec => []ImportsReached
<1>1. IInv => ImportsReached
  <2> SUFFICES ASSUME IInv, phase = "runs", NEW p \in linked, NEW k \in DOMAIN Imports[p]
               PROVE  /\ Ends(p, "imports", k) = Target(Imports[p][k].sym)
                      /\ Ends(p, "imports", k) # NoAddress
    BY DEF ImportsReached, Target
  <2>1. /\ Imports[p][k].sym \in Thunks \cup used
        /\ Leads(p, "imports", k, Target(Imports[p][k].sym))
    BY DEF IInv, TypeOK, Working, ImportsLead, ImportsDone
  <2>2. Ends(p, "imports", k) = Target(Imports[p][k].sym)
    BY <2>1 DEF Leads, Ends, Direct
  <2>3. Target(Imports[p][k].sym) # NoAddress
    BY <2>1, RelocationAssumption DEF Target, IInv, HandlesFresh, NoAddress
  <2>4. QED
    BY <2>2, <2>3
<1>2. QED
  BY <1>1, Invariant, PTL

-----------------------------------------------------------------------------
(* How many trampolines are taken                                          *)

Linking(p) == p \in linked \/ (phase = "linking" /\ current.plugin = p)

FarImport(p, k) == NeedsTramp(p, Imports[p][k].type, Target(Imports[p][k].sym))

\* A trampoline of the inside of a plugin is one of a branch that needs it,
FixedHeld ==
    \A p \in Plugins : Linking(p) =>
        \A s \in 1..Slots : tramp[p][s].status = "fixed" =>
            \E k \in FixedDone(p) : k \in FarFixed(p) /\ code[p]["fixed"][k].via = s

\* and one of the imports is of this application, while they are done.
ImportsHeld ==
    phase = "relocating" /\ current # Nothing =>
        \A s \in 1..Slots : tramp[current.plugin][s].status = "imports" =>
            \E k \in DOMAIN Imports[current.plugin] :
                /\ k < current.k
                /\ FarImport(current.plugin, k)
                /\ code[current.plugin]["imports"][k].via = s

PoolInv == IInv /\ FixedHeld /\ ImportsHeld /\ PoolSuffices

\* What is covered by a family of elements of K has no more elements than K.
LEMMA Covered ==
    ASSUME NEW K, IsFiniteSet(K), NEW S, NEW v, \A s \in S : \E k \in K : v[k] = s
    PROVE  IsFiniteSet(S) /\ Cardinality(S) <= Cardinality(K)
<1> DEFINE L == {k \in K : v[k] \in S}
           f == [k \in L |-> v[k]]
<1>1. f \in Surjection(L, S)
  <2>1. f \in [L -> S] /\ DOMAIN f = L
    OBVIOUS
  <2>2. \A s \in S : \E k \in L : f[k] = s
    OBVIOUS
  <2> HIDE DEF f, L
  <2>3. QED
    BY <2>1, <2>2 DEF Surjection
<1>2. L \in SUBSET K
  OBVIOUS
<1> HIDE DEF f, L
<1>3. IsFiniteSet(L) /\ Cardinality(L) <= Cardinality(K)
  BY <1>2, FS_Subset
<1>4. IsFiniteSet(S) /\ Cardinality(S) <= Cardinality(L)
  BY <1>1, <1>3, FS_Surjection
<1>5. Cardinality(L) \in Nat /\ Cardinality(K) \in Nat /\ Cardinality(S) \in Nat
  BY <1>3, <1>4, FS_CardinalityType
<1>6. QED
  BY <1>3, <1>4, <1>5

\* A link takes the trampoline it goes through, if it goes through one.
LEMMA LinkTakes ==
    ASSUME CodeOK, TrampOK, NEW p \in Plugins, NEW kind \in Kinds,
           NEW k \in DOMAIN Relocs(p, kind), NEW type, NEW value \in Nat,
           Linkable(p, type, value), Link(p, kind, k, type, value)
    PROVE  \A q \in Plugins, s \in 1..Slots :
              \/ tramp'[q][s] = tramp[q][s]
              \/ /\ q = p /\ NeedsTramp(p, type, value)
                 /\ tramp'[q][s].status = kind
                 /\ code'[p][kind][k].via = s
<1> USE DEF Kinds
<1>1. CASE NeedsTramp(p, type, value)
  <2> DEFINE u == FreeSlot(p)
  <2>1. u \in 1..Slots
    BY <1>1, FreeSlotIsFree DEF Linkable
  <2>2. /\ tramp' = [tramp EXCEPT ![p][u] = [status |-> kind, to |-> value]]
        /\ code' = [code EXCEPT ![p][kind][k] = Through(u, NoAddress)]
    BY <1>1 DEF Link
  <2> HIDE DEF u
  <2>3. code'[p][kind][k].via = u
    BY <2>2 DEF CodeOK, Relocs, Through
  <2>4. tramp'[p][u].status = kind
    BY <2>1, <2>2 DEF TrampOK
  <2>5. \A q \in Plugins, s \in 1..Slots : <<q, s>> # <<p, u>> => tramp'[q][s] = tramp[q][s]
    BY <2>1, <2>2 DEF TrampOK
  <2>6. QED
    BY <1>1, <2>3, <2>4, <2>5
<1>2. CASE ~NeedsTramp(p, type, value)
  BY <1>2 DEF Link
<1>3. QED
  BY <1>1, <1>2

\* Where no plugin is linked and nothing is taken the trampolines stay accounted for.
LEMMA FixedHeldStays ==
    ASSUME FixedHeld, UNCHANGED <<base, code, tramp>>,
           \A p \in Plugins : Linking(p)' => Linking(p) /\ FixedDone(p) \subseteq FixedDone(p)'
    PROVE  FixedHeld'
<1> SUFFICES ASSUME NEW p \in Plugins, Linking(p)', NEW s \in 1..Slots,
                    tramp'[p][s].status = "fixed"
             PROVE  \E k \in FixedDone(p)' : k \in FarFixed(p)' /\ code'[p]["fixed"][k].via = s
  BY DEF FixedHeld
<1>1. PICK k \in FixedDone(p) : k \in FarFixed(p) /\ code[p]["fixed"][k].via = s
  BY DEF FixedHeld
<1>2. FarFixed(p)' = FarFixed(p)
  BY DEF FarFixed, NeedsTramp, Own
<1>3. QED
  BY <1>1, <1>2

\* All steps but those that link.
LEMMA OthersHold ==
    ASSUME PoolInv, IInv',
           \/ StartApplication \/ Run \/ ApplicationEnds
           \/ \E p \in Plugins :
                 Unload(p) \/ Load(p) \/ Loaded(p) \/ BeginRelocation(p) \/ Relocated(p)
           \/ \E r \in Rpls : LoadRpl(r) \/ ReleaseRpl(r)
    PROVE  PoolInv'
<1> USE DEF PoolInv
<1>1. PoolSuffices'
  BY DEF StartApplication, Run, ApplicationEnds, Unload, Load, Loaded, BeginRelocation, Relocated,
     LoadRpl, ReleaseRpl, PoolSuffices
<1>2. CASE \/ StartApplication \/ Run \/ ApplicationEnds
           \/ \E p \in Plugins : Unload(p) \/ Loaded(p) \/ Relocated(p)
           \/ \E r \in Rpls : LoadRpl(r) \/ ReleaseRpl(r)
  <2>1. phase' # "relocating" \/ current' = Nothing
    BY <1>2 DEF StartApplication, Run, ApplicationEnds, Unload, Loaded, Relocated, LoadRpl, ReleaseRpl
  <2>2. \A q \in Plugins : Linking(q)' => Linking(q) /\ FixedDone(q) \subseteq FixedDone(q)'
    BY <1>2, RelocationAssumption DEF Linking, FixedDone, Nothing, StartApplication, Run, ApplicationEnds,
       Unload, Loaded, Relocated, LoadRpl, ReleaseRpl
  <2>3. UNCHANGED <<base, code, tramp>>
    BY <1>2 DEF StartApplication, Run, ApplicationEnds, Unload, Loaded, Relocated, LoadRpl, ReleaseRpl
  <2>4. QED
    BY <1>1, <2>1, <2>2, <2>3, FixedHeldStays DEF ImportsHeld
<1>3. ASSUME NEW p \in Plugins, Load(p) PROVE PoolInv'
  <2>1. ImportsHeld'
    BY <1>3 DEF Load, ImportsHeld
  <2>2. FixedHeld'
    <3> SUFFICES ASSUME NEW q \in Plugins, Linking(q)', NEW s \in 1..Slots,
                        tramp'[q][s].status = "fixed"
                 PROVE  \E k \in FixedDone(q)' : k \in FarFixed(q)' /\ code'[q]["fixed"][k].via = s
      BY DEF FixedHeld
    <3>1. q # p
      BY <1>3 DEF Load, NoTramps, IInv, TypeOK
    <3>2. q \in linked /\ linked' = linked
      BY <1>3, <3>1 DEF Load, Linking
    <3>3. base'[q] = base[q] /\ code'[q] = code[q] /\ tramp'[q] = tramp[q]
      BY <1>3, <3>1 DEF Load, IInv, TypeOK
    <3>4. PICK k \in FixedDone(q) : k \in FarFixed(q) /\ code[q]["fixed"][k].via = s
      BY <3>2, <3>3 DEF FixedHeld, Linking
    <3>5. k \in FixedDone(q)' /\ k \in FarFixed(q)'
      BY <3>2, <3>3, <3>4 DEF FixedDone, FarFixed, NeedsTramp, Own
    <3>6. QED
      BY <3>3, <3>4, <3>5
  <2>3. QED
    BY <1>1, <2>1, <2>2
<1>4. ASSUME NEW p \in Plugins, BeginRelocation(p) PROVE PoolInv'
  <2>1. /\ tramp \in [Plugins -> [1..Slots -> [status: {"free", "fixed", "imports"}, to: Nat]]]
        /\ tramp' = [tramp EXCEPT ![p] = Freed(p)]
        /\ UNCHANGED <<linked, base, code>> /\ current'.plugin = p
        /\ phase \in {"started", "relocating"} /\ phase' = "relocating"
    BY <1>4 DEF BeginRelocation, IInv, TypeOK
  <2>2. \A s \in 1..Slots : /\ Freed(p)[s].status # "imports"
                            /\ Freed(p)[s].status = "fixed" => Freed(p)[s] = tramp[p][s]
    <3>1. tramp[p] \in [1..Slots -> [status: {"free", "fixed", "imports"}, to: Nat]]
      BY <2>1
    <3>2. QED
      BY <3>1 DEF Freed
  <2>3. ImportsHeld'
    BY <2>1, <2>2 DEF ImportsHeld
  <2>4. FixedHeld'
    <3> SUFFICES ASSUME NEW q \in Plugins, Linking(q)', NEW s \in 1..Slots,
                        tramp'[q][s].status = "fixed"
                 PROVE  \E k \in FixedDone(q)' : k \in FarFixed(q)' /\ code'[q]["fixed"][k].via = s
      BY DEF FixedHeld
    <3>1. tramp[q][s].status = "fixed"
      BY <2>1, <2>2
    <3>2. q \in linked /\ Linking(q)
      BY <2>1 DEF Linking
    <3>3. PICK k \in FixedDone(q) : k \in FarFixed(q) /\ code[q]["fixed"][k].via = s
      BY <3>1, <3>2 DEF FixedHeld
    <3>4. k \in FixedDone(q)' /\ k \in FarFixed(q)'
      BY <2>1, <3>2, <3>3 DEF FixedDone, FarFixed, NeedsTramp, Own
    <3>5. QED
      BY <2>1, <3>3, <3>4
  <2>5. QED
    BY <1>1, <2>3, <2>4
<1>5. QED
  BY <1>2, <1>3, <1>4

LEMMA FixedLinkHolds ==
    ASSUME PoolInv, IInv', NEW p \in Plugins, LinkFixed(p)
    PROVE  PoolInv'
<1> USE DEF PoolInv
<1>0. PICK k, type, value : k = current.k /\ type = Fixed[p][k].type
                            /\ value = Own(p, Fixed[p][k].sym)
  OBVIOUS
<1>1. /\ phase = "linking" /\ current.plugin = p /\ k \in DOMAIN Fixed[p] /\ k \in Nat
      /\ UNCHANGED <<linked, base, at, used, done>>
      /\ p \notin linked
  BY <1>0 DEF LinkFixed, IInv, TypeOK, Working
<1>2. phase' \in {"linking", "started"}
  BY <1>1 DEF LinkFixed
<1>3. PoolSuffices' /\ ImportsHeld'
  BY <1>2 DEF PoolSuffices, ImportsHeld
<1>4. CASE Linkable(p, type, value)
  <2>1. /\ Link(p, "fixed", k, type, value)
        /\ current' = [current EXCEPT !.k = @ + 1]
        /\ phase' = phase
    BY <1>0, <1>4 DEF LinkFixed
  <2>2. value \in Nat
    <3>1. base[p] \in Heap \cup {NoAddress}
      BY DEF IInv, TypeOK
    <3>2. Heap \cup {NoAddress} \subseteq Nat
      BY RelocationAssumption DEF NoAddress
    <3>3. QED
      BY <1>0, <3>1, <3>2 DEF Own
  <2>3. CodeOK /\ TrampOK
    BY TypeParts DEF IInv
  <2>4. k \in DOMAIN Relocs(p, "fixed") /\ "fixed" \in Kinds
    BY <1>1 DEF Relocs, Kinds
  <2>5. \A q \in Plugins, s \in 1..Slots :
              \/ tramp'[q][s] = tramp[q][s]
              \/ /\ q = p /\ NeedsTramp(p, type, value)
                 /\ tramp'[q][s].status = "fixed"
                 /\ code'[p]["fixed"][k].via = s
    BY <1>4, <2>1, <2>2, <2>3, <2>4, LinkTakes
  <2>6. \A q \in Plugins, kd \in Kinds : \A j \in DOMAIN Relocs(q, kd) :
           <<q, kd, j>> # <<p, "fixed", k>> => code'[q][kd][j] = code[q][kd][j]
    BY <1>4, <2>1, <2>2, <2>3, <2>4, LinkLeads, Zenon
  <2>7. current'.plugin = p /\ current'.k = k + 1 /\ k \in 1..Len(Fixed[p])
    BY <1>0, <1>1, <2>1, RelocationAssumption DEF IInv, TypeOK
  <2>8. FixedHeld'
    <3> SUFFICES ASSUME NEW q \in Plugins, Linking(q)', NEW s \in 1..Slots,
                        tramp'[q][s].status = "fixed"
                 PROVE  \E j \in FixedDone(q)' : j \in FarFixed(q)' /\ code'[q]["fixed"][j].via = s
      BY DEF FixedHeld
    <3>1. FarFixed(q)' = FarFixed(q) /\ Linking(q)
      BY <1>1, <2>1, <2>7 DEF FarFixed, NeedsTramp, Own, Linking
    <3>2. CASE tramp'[q][s] = tramp[q][s]
      <4>1. PICK j \in FixedDone(q) : j \in FarFixed(q) /\ code[q]["fixed"][j].via = s
        BY <3>1, <3>2 DEF FixedHeld
      <4>2. j \in DOMAIN Relocs(q, "fixed") /\ <<q, "fixed", j>> # <<p, "fixed", k>>
        BY <1>0, <1>1, <4>1 DEF FixedDone, Relocs
      <4>3. code'[q]["fixed"][j] = code[q]["fixed"][j]
        BY <2>4, <2>6, <4>2
      <4>4. j \in FixedDone(q)'
        BY <1>0, <1>1, <2>1, <2>7, <4>1, RelocationAssumption DEF FixedDone
      <4>5. QED
        BY <3>1, <4>1, <4>3, <4>4
    <3>3. CASE q = p /\ NeedsTramp(p, type, value) /\ code'[p]["fixed"][k].via = s
      <4>1. k \in FarFixed(p)
        BY <1>0, <1>1, <3>3 DEF FarFixed
      <4>2. k \in FixedDone(p)'
        BY <1>1, <2>1, <2>7 DEF FixedDone
      <4>3. QED
        BY <3>1, <3>3, <4>1, <4>2
    <3>4. QED
      BY <2>5, <3>2, <3>3
  <2>9. QED
    BY <1>3, <2>8
<1>5. CASE ~Linkable(p, type, value)
  <2>1. phase' = "started" /\ current' = Nothing /\ UNCHANGED <<code, tramp>>
    BY <1>0, <1>5 DEF LinkFixed
  <2>2. \A q \in Plugins : Linking(q)' => Linking(q) /\ FixedDone(q) \subseteq FixedDone(q)'
    BY <1>1, <2>1 DEF Linking, FixedDone
  <2>3. FixedHeld'
    BY <1>1, <2>1, <2>2, FixedHeldStays
  <2>4. QED
    BY <1>3, <2>3
<1>6. QED
  BY <1>4, <1>5

\* A pool that is all taken, by branches that need it, and one more branch: the
\* imports in F need one.
LEMMA PoolIsTaken ==
    ASSUME PoolInv, NEW p \in Plugins, Relocating(p), FreeSlots(p) = {},
           NEW k, k = current.k, NEW F \in SUBSET (1..k), k \in F,
           \A j \in DOMAIN Imports[p] : j < k /\ FarImport(p, j) => j \in F
    PROVE  Cardinality(FarFixed(p)) + Cardinality(F) > Slots
<1> DEFINE SF == {s \in 1..Slots : tramp[p][s].status = "fixed"}
           SI == {s \in 1..Slots : tramp[p][s].status = "imports"}
           Before == F \ {k}
<1>1. /\ phase = "relocating" /\ current.plugin = p /\ k \in Nat
      /\ DOMAIN Fixed[p] = 1..Len(Fixed[p]) /\ Len(Fixed[p]) \in Nat
      /\ current # Nothing /\ p \in linked
  BY RelocationAssumption DEF Relocating, PoolInv, IInv, TypeOK, Working, Nothing
<1>2. IsFiniteSet(FarFixed(p)) /\ Cardinality(FarFixed(p)) \in Nat
  <2>1. FarFixed(p) \in SUBSET (1..Len(Fixed[p]))
    BY <1>1 DEF FarFixed
  <2>2. 1 \in Int /\ Len(Fixed[p]) \in Int
    BY <1>1
  <2>3. IsFiniteSet(1..Len(Fixed[p]))
    BY <2>2, FS_Interval, Zenon
  <2>4. QED
    BY <2>1, <2>3, FS_Subset, FS_CardinalityType
<1>3. IsFiniteSet(F) /\ Cardinality(F) \in Nat
  <2>1. 1 \in Int /\ k \in Int
    BY <1>1
  <2>2. IsFiniteSet(1..k)
    BY <2>1, FS_Interval, Zenon
  <2>3. QED
    BY <2>2, FS_Subset, FS_CardinalityType
<1>4. IsFiniteSet(SF) /\ Cardinality(SF) <= Cardinality(FarFixed(p))
  <2>1. \A s \in SF : \E j \in FarFixed(p) : code[p]["fixed"][j].via = s
    BY <1>1 DEF PoolInv, FixedHeld, Linking
  <2> DEFINE v == [j \in FarFixed(p) |-> code[p]["fixed"][j].via]
  <2>2. \A s \in SF : \E j \in FarFixed(p) : v[j] = s
    BY <2>1
  <2> HIDE DEF v, SF
  <2>3. QED
    BY <1>2, <2>2, Covered
<1>5. IsFiniteSet(Before) /\ Cardinality(Before) = Cardinality(F) - 1
  BY <1>3, FS_RemoveElement
<1>6. IsFiniteSet(SI) /\ Cardinality(SI) <= Cardinality(Before)
  <2>1. \A s \in SI : \E j \in Before : code[p]["imports"][j].via = s
    <3> SUFFICES ASSUME NEW s \in SI PROVE \E j \in Before : code[p]["imports"][j].via = s
      OBVIOUS
    <3>1. PICK j \in DOMAIN Imports[p] :
                  j < k /\ FarImport(p, j) /\ code[p]["imports"][j].via = s
      BY <1>1 DEF PoolInv, ImportsHeld
    <3>2. j # k
      BY <1>1, <3>1, RelocationAssumption
    <3>3. QED
      BY <3>1, <3>2
  <2> DEFINE v == [j \in Before |-> code[p]["imports"][j].via]
  <2>2. \A s \in SI : \E j \in Before : v[j] = s
    BY <2>1
  <2> HIDE DEF v, SI, Before
  <2>3. QED
    BY <1>5, <2>2, Covered
<1>7. SF \cup SI = 1..Slots
  <2>1. tramp[p] \in [1..Slots -> [status: {"free", "fixed", "imports"}, to: Nat]]
    BY DEF PoolInv, IInv, TypeOK
  <2>2. \A s \in 1..Slots : tramp[p][s].status \in {"fixed", "imports"}
    BY <2>1 DEF FreeSlots
  <2>3. QED
    BY <2>2
<1>8. Cardinality(1..Slots) = Slots /\ Slots \in Nat
  <2>1. Slots \in Nat /\ 1 \in Int /\ Slots \in Int
    BY RelocationAssumption
  <2>2. Cardinality(1..Slots) = IF 1 > Slots THEN 0 ELSE Slots - 1 + 1
    BY <2>1, FS_Interval, Zenon
  <2>3. QED
    BY <2>1, <2>2
<1> HIDE DEF SF, SI, Before
<1>9. /\ Cardinality(SF \cup SI) = Cardinality(SF) + Cardinality(SI) - Cardinality(SF \cap SI)
      /\ Cardinality(SF) \in Nat /\ Cardinality(SI) \in Nat
      /\ Cardinality(SF \cap SI) \in Nat
  <2>1. SF \cap SI \in SUBSET SF
    OBVIOUS
  <2>2. IsFiniteSet(SF \cap SI)
    BY <1>4, <2>1, FS_Subset
  <2>3. QED
    BY <1>4, <1>6, <2>2, FS_Union, FS_CardinalityType
<1>10. Slots = Cardinality(SF) + Cardinality(SI) - Cardinality(SF \cap SI)
  BY <1>7, <1>8, <1>9
<1>11. QED
  BY <1>2, <1>3, <1>4, <1>5, <1>6, <1>8, <1>9, <1>10

\* What the three ways to an import share.
LEMMA ImportLinkHolds ==
    ASSUME PoolInv, IInv', NEW p \in Plugins, Relocating(p), NEW a \in Nat,
           NEW k, k = current.k, LinkImport(p, Imports[p][k], a),
           UNCHANGED <<linked, base, done>>,
           \A r \in used : at'[r] = at[r],
           Finds(a) => a = Target(Imports[p][k].sym)'
    PROVE  PoolInv'
<1> USE DEF PoolInv
<1>0. PICK type : type = Imports[p][k].type
  OBVIOUS
<1>1. /\ phase = "relocating" /\ current.plugin = p /\ k \in DOMAIN Imports[p] /\ k \in Nat
      /\ current # Nothing /\ p \in linked \ done
      /\ DOMAIN Imports[p] = 1..Len(Imports[p]) /\ Len(Imports[p]) \in Nat
  BY RelocationAssumption DEF Relocating, IInv, TypeOK, Working, Nothing
\* The imports before this one are where they were.
<1>2. \A j \in DOMAIN Imports[p] : j < k => FarImport(p, j)' = FarImport(p, j)
  <2>1. \A j \in DOMAIN Imports[p] : j < k => Imports[p][j].sym \in Thunks \cup used
    BY <1>1 DEF IInv, ImportsLead, ImportsDone
  <2>2. \A j \in DOMAIN Imports[p] : j < k =>
           Target(Imports[p][j].sym)' = Target(Imports[p][j].sym)
    BY <2>1 DEF Target
  <2>3. QED
    BY <2>2 DEF FarImport, NeedsTramp
<1>3. \A q \in Plugins : FarFixed(q)' = FarFixed(q)
  BY DEF FarFixed, NeedsTramp, Own
<1>4. NeedsTramp(p, type, a)' = NeedsTramp(p, type, a)
  BY DEF NeedsTramp
<1>5. Finds(a) => (FarImport(p, k)' <=> NeedsTramp(p, type, a))
  BY <1>0, <1>4 DEF FarImport, NeedsTramp
<1>6. CASE Finds(a) /\ Linkable(p, type, a)
  <2>1. /\ Link(p, "imports", k, type, a)
        /\ current' = [current EXCEPT !.k = @ + 1]
        /\ phase' = phase
    BY <1>0, <1>6 DEF LinkImport
  <2>2. CodeOK /\ TrampOK
    BY TypeParts DEF IInv
  <2>3. k \in DOMAIN Relocs(p, "imports") /\ "imports" \in Kinds
    BY <1>1 DEF Relocs, Kinds
  <2>4. \A q \in Plugins, s \in 1..Slots :
              \/ tramp'[q][s] = tramp[q][s]
              \/ /\ q = p /\ NeedsTramp(p, type, a)
                 /\ tramp'[q][s].status = "imports"
                 /\ code'[p]["imports"][k].via = s
    BY <1>6, <2>1, <2>2, <2>3, LinkTakes
  <2>5. \A q \in Plugins, kd \in Kinds : \A j \in DOMAIN Relocs(q, kd) :
           <<q, kd, j>> # <<p, "imports", k>> => code'[q][kd][j] = code[q][kd][j]
    BY <1>6, <2>1, <2>2, <2>3, LinkLeads, Zenon
  <2>6. current'.plugin = p /\ current'.k = k + 1 /\ current' # Nothing
    BY <1>1, <2>1, RelocationAssumption DEF IInv, TypeOK, Nothing
  <2>7. PoolSuffices'
    BY <1>1, <2>1 DEF PoolSuffices
  <2>8. ImportsHeld'
    <3> SUFFICES ASSUME NEW s \in 1..Slots, tramp'[p][s].status = "imports"
                 PROVE  \E j \in DOMAIN Imports[p] :
                           /\ j < k + 1
                           /\ FarImport(p, j)'
                           /\ code'[p]["imports"][j].via = s
      BY <2>6 DEF ImportsHeld
    <3>1. CASE tramp'[p][s] = tramp[p][s]
      <4>1. PICK j \in DOMAIN Imports[p] :
                    j < k /\ FarImport(p, j) /\ code[p]["imports"][j].via = s
        BY <1>1, <3>1 DEF ImportsHeld
      <4>2. code'[p]["imports"][j] = code[p]["imports"][j]
        <5>1. j \in DOMAIN Relocs(p, "imports") /\ <<p, "imports", j>> # <<p, "imports", k>>
          BY <1>1, <4>1 DEF Relocs
        <5>2. QED
          BY <2>3, <2>5, <5>1
      <4>3. FarImport(p, j)'
        BY <1>2, <4>1
      <4>4. QED
        BY <1>1, <4>1, <4>2, <4>3
    <3>2. CASE NeedsTramp(p, type, a) /\ code'[p]["imports"][k].via = s
      BY <1>1, <1>5, <1>6, <3>2
    <3>3. QED
      BY <2>4, <3>1, <3>2
  <2>9. FixedHeld'
    <3> SUFFICES ASSUME NEW q \in Plugins, Linking(q)', NEW s \in 1..Slots,
                        tramp'[q][s].status = "fixed"
                 PROVE  \E j \in FixedDone(q)' : j \in FarFixed(q)' /\ code'[q]["fixed"][j].via = s
      BY DEF FixedHeld
    <3>1. q \in linked /\ Linking(q) /\ tramp'[q][s] = tramp[q][s]
      BY <1>1, <2>1, <2>4 DEF Linking
    <3>2. PICK j \in FixedDone(q) : j \in FarFixed(q) /\ code[q]["fixed"][j].via = s
      BY <3>1 DEF FixedHeld
    <3>3. code'[q]["fixed"][j] = code[q]["fixed"][j]
      <4>1. j \in DOMAIN Relocs(q, "fixed") /\ "fixed" \in Kinds
        BY <3>1, <3>2 DEF FixedDone, Relocs, Kinds
      <4>2. QED
        BY <2>5, <4>1
    <3>4. j \in FixedDone(q)'
      BY <3>1, <3>2 DEF FixedDone
    <3>5. QED
      BY <1>3, <3>2, <3>3, <3>4
  <2>10. QED
    BY <2>7, <2>8, <2>9
<1>7. CASE ~(Finds(a) /\ Linkable(p, type, a))
  <2>1. /\ phase' = IF Finds(a) THEN "unreachable" ELSE "missing"
        /\ UNCHANGED <<code, tramp, current>>
    BY <1>0, <1>7 DEF LinkImport
  <2>2. \A q \in Plugins : Linking(q)' => Linking(q) /\ FixedDone(q) \subseteq FixedDone(q)'
    BY <1>1, <2>1 DEF Linking, FixedDone
  <2>3. FixedHeld'
    BY <1>1, <2>1, <2>2, FixedHeldStays
  <2>4. ImportsHeld'
    BY <2>1 DEF ImportsHeld
  <2>5. PoolSuffices'
    <3> SUFFICES ASSUME phase' = "unreachable", type # "short"
                 PROVE  Cardinality(FarFixed(p)') + Cardinality(FarImports(p)') > Slots
      BY <1>0, <1>1, <2>1 DEF PoolSuffices
    <3>1. Finds(a) /\ NeedsTramp(p, type, a) /\ FreeSlots(p) = {}
      BY <1>7, <2>1 DEF Linkable
    <3>2. FarImports(p)' = {j \in 1..k : FarImport(p, j)'}
      BY <2>1 DEF FarImports, FarImport, Target
    <3>3. k \in FarImports(p)' /\ FarImports(p)' \in SUBSET (1..k)
      BY <1>1, <1>5, <3>1, <3>2
    <3>4. \A j \in DOMAIN Imports[p] : j < k /\ FarImport(p, j) => j \in FarImports(p)'
      BY <1>1, <1>2, <3>2
    <3> DEFINE F == FarImports(p)'
    <3>5. F \in SUBSET (1..k) /\ k \in F
          /\ \A j \in DOMAIN Imports[p] : j < k /\ FarImport(p, j) => j \in F
      BY <3>3, <3>4
    <3> HIDE DEF F
    <3>6. Cardinality(FarFixed(p)) + Cardinality(F) > Slots
      BY <3>1, <3>5, PoolIsTaken
    <3>7. QED
      BY <1>3, <3>6 DEF F
  <2>6. QED
    BY <2>3, <2>4, <2>5
<1>8. QED
  BY <1>6, <1>7

LEMMA ThunkHolds == ASSUME PoolInv, IInv', NEW p \in Plugins, LinkThunk(p) PROVE PoolInv'
<1>1. PICK k : k = current.k
  OBVIOUS
<1>2. /\ Relocating(p)
      /\ Imports[p][k].sym \in Thunks
      /\ LinkImport(p, Imports[p][k], ThunkAt)
      /\ UNCHANGED <<linked, base, at, used, done>>
  BY <1>1 DEF LinkThunk
<1>3. ThunkAt \in Nat
  BY RelocationAssumption
<1>4. QED
  BY <1>1, <1>2, <1>3, ImportLinkHolds DEF Target

LEMMA UsedHolds == ASSUME PoolInv, IInv', NEW p \in Plugins, LinkUsed(p) PROVE PoolInv'
<1>1. PICK k : k = current.k
  OBVIOUS
<1>2. PICK a \in {at[Imports[p][k].sym], NoAddress} :
         /\ Relocating(p)
         /\ Imports[p][k].sym \in used
         /\ LinkImport(p, Imports[p][k], a)
         /\ UNCHANGED <<linked, base, at, used, done>>
  BY <1>1 DEF LinkUsed
<1>3. used \subseteq Rpls /\ at \in [Rpls -> Places \cup {NoAddress}]
  BY DEF PoolInv, IInv, TypeOK
<1>4. a \in Nat
  <2>1. at[Imports[p][k].sym] \in Places \cup {NoAddress}
    BY <1>2, <1>3
  <2>2. Places \cup {NoAddress} \subseteq Nat
    BY RelocationAssumption DEF NoAddress
  <2>3. QED
    BY <1>2, <2>1, <2>2
<1>5. Imports[p][k].sym \notin Thunks
  BY <1>2, <1>3, RelocationAssumption
<1>6. Finds(a) => a = Target(Imports[p][k].sym)'
  BY <1>2, <1>5 DEF Finds, Target
<1>7. QED
  BY <1>1, <1>2, <1>4, <1>6, ImportLinkHolds

LEMMA AcquireHolds == ASSUME PoolInv, IInv', NEW p \in Plugins, AcquireAndLink(p) PROVE PoolInv'
<1>1. PICK k : k = current.k
  OBVIOUS
<1>2. PICK sym : sym = Imports[p][k].sym
  OBVIOUS
<1>3. /\ Relocating(p) /\ sym \in Rpls \ used
      /\ UNCHANGED <<linked, base, done>>
  BY <1>1, <1>2 DEF AcquireAndLink
<1>4. used \subseteq Rpls /\ at \in [Rpls -> Places \cup {NoAddress}]
  BY DEF PoolInv, IInv, TypeOK
<1>5. CASE used' = used \cup {sym}
  <2>1. PICK a \in IF at[sym] = NoAddress THEN Places ELSE {at[sym]} :
           /\ at' = [at EXCEPT ![sym] = a]
           /\ \E found \in {a, NoAddress} : LinkImport(p, Imports[p][k], found)
    BY <1>1, <1>2, <1>3, <1>5 DEF AcquireAndLink
  <2>2. PICK found \in {a, NoAddress} : LinkImport(p, Imports[p][k], found)
    BY <2>1
  <2>3. a \in Places
    BY <1>3, <1>4, <2>1
  <2>4. at'[sym] = a /\ \A r \in used : at'[r] = at[r]
    BY <1>3, <1>4, <2>1
  <2>5. found \in Nat
    BY <2>3, RelocationAssumption DEF NoAddress
  <2>6. Finds(found) => found = Target(Imports[p][k].sym)'
    BY <1>2, <1>3, <2>2, <2>4, RelocationAssumption DEF Finds, Target
  <2>7. QED
    BY <1>1, <1>3, <2>2, <2>4, <2>5, <2>6, ImportLinkHolds
<1>6. CASE used' # used \cup {sym}
  <2>1. phase' = "missing" /\ UNCHANGED <<linked, base, code, tramp>>
    BY <1>1, <1>2, <1>3, <1>6 DEF AcquireAndLink
  <2>2. phase = "relocating"
    BY <1>3 DEF Relocating
  <2>3. \A q \in Plugins : Linking(q)' => Linking(q) /\ FixedDone(q) \subseteq FixedDone(q)'
    BY <2>1, <2>2 DEF Linking, FixedDone
  <2>4. FixedHeld'
    BY <2>1, <2>3, FixedHeldStays DEF PoolInv
  <2>5. QED
    BY <2>1, <2>4 DEF PoolInv, ImportsHeld, PoolSuffices
<1>7. QED
  BY <1>5, <1>6

LEMMA StutterHolds == ASSUME PoolInv, IInv', UNCHANGED vars PROVE PoolInv'
  BY DEF vars, PoolInv, FixedHeld, Linking, FixedDone, FarFixed, NeedsTramp, Own, ImportsHeld,
     FarImport, Target, PoolSuffices, FarImports

LEMMA PoolStep == PoolInv /\ [Next]_vars => PoolInv'
<1> SUFFICES ASSUME PoolInv, [Next]_vars PROVE PoolInv'
  OBVIOUS
<1>0. IInv'
  BY StepKeeps DEF PoolInv
<1>1. ASSUME NEW p \in Plugins,
             \/ Unload(p) \/ Load(p) \/ LinkFixed(p) \/ Loaded(p)
             \/ BeginRelocation(p) \/ LinkThunk(p) \/ LinkUsed(p) \/ AcquireAndLink(p)
             \/ Relocated(p)
      PROVE  PoolInv'
  BY <1>0, <1>1, OthersHold, FixedLinkHolds, ThunkHolds, UsedHolds, AcquireHolds
<1>2. CASE StartApplication \/ Run \/ ApplicationEnds \/ \E r \in Rpls : LoadRpl(r) \/ ReleaseRpl(r)
  BY <1>0, <1>2, OthersHold
<1>3. QED
  BY <1>0, <1>1, <1>2, StutterHolds DEF Next

\* The pool is not used up by earlier applications, nor by plugins that were
\* unloaded or are reloaded: what doRelocations finds taken is taken by branches of
\* this plugin that need a trampoline where everything lies now.
THEOREM PoolIsEnough == Spec => []PoolSuffices
<1>1. Init => PoolInv
  BY InitInvariant DEF Init, Nothing, PoolInv, FixedHeld, Linking, ImportsHeld, PoolSuffices
<1>2. PoolInv => PoolSuffices
  BY DEF PoolInv
<1>3. QED
  BY <1>1, <1>2, PoolStep, PTL DEF Spec
=============================================================================
