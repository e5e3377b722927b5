-------------------------- MODULE HeapTracking_proofs --------------------------
(***************************************************************************)
(* What holds of the tracked heaps in every run, for any number of plugins, *)
(* slots, threads and addresses.                                           *)
(*                                                                         *)
(* TypeOK and OneOwner follow from HeapInv: the vectors share no container,  *)
(* no two containers share an identity, and only those in the vectors hold  *)
(* slots.  That the entries of a running plugin are what it holds follows   *)
(* from LiveInv, which adds what each thread inside a thunk still owes to   *)
(* the map.  That currentAllocated is their sum needs what MapThenSumSet    *)
(* computes, by induction on the sizes of sets.                            *)
(***************************************************************************)
EXTENDS HeapTracking, FiniteSetTheorems, SequenceTheorems, WellFoundedInduction, TLAPS

-----------------------------------------------------------------------------
(* The invariants                                                          *)

\* The vectors that APPLICATION_STARTS fills are empty outside of their phase.
Phased ==
    /\ pluginsToKeep # <<>> => phase = "matching"
    /\ doomed # <<>> => phase = "deinit"
    /\ plugins # <<>> => phase = "loading"

Disjoint(A, B) == A \cap B = {}

\* A container is at one place.
Apart ==
    /\ \A v \in Vectors : IsInjective(v)
    /\ \A v \in {pluginsToKeep, doomed, newLoadedPlugins, plugins} :
          Disjoint(ToSet(gLoadedPlugins), ToSet(v))
    /\ \A v \in {pluginsToKeep, doomed, plugins} : Disjoint(ToSet(newLoadedPlugins), ToSet(v))

Keyed == \A c, d \in Containers : c.id = d.id => c = d

\* Containers that went through the linker.
Home == ToSet(gLoadedPlugins) \cup ToSet(pluginsToKeep) \cup ToSet(doomed)

Linked == \A c \in Home : Resolved(c) = c

\* A thread in a thunk works on an address, for a slot.
Called ==
    \A t \in Threads : call[t].at # "out" =>
        /\ call[t].ptr \in Ptrs /\ call[t].thunk \in Slots
        /\ call[t].at = "record" => call[t].size \in Sizes

HeapInv == TypeOK /\ Phased /\ Apart /\ Keyed /\ OneOwner /\ Linked /\ Called

\* What was not linked yet allocated nothing.
Fresh ==
    \A c \in ToSet(newLoadedPlugins) \cup ToSet(plugins) :
        c.opt \in Slots => stats[c.opt].map = Blank.map

\* What has an owner is allocated, by a container that is still there.
Owned ==
    \A x \in Ptrs : owner[x] # Nobody =>
        heap[x] # 0 /\ \E c \in Home : c.id = owner[x]

\* It is memory of its own, and the slot is the one of a running plugin.
InThunk(t) ==
    call[t].at # "out" =>
        /\ phase \in {"running", "deinit"}
        /\ \E c \in Running : c.id = owner[call[t].ptr] /\ c.opt = call[t].thunk
        /\ call[t].at = "record" => /\ call[t].size = heap[call[t].ptr]
                                    /\ call[t].ptr \notin cut
        /\ \A u \in Threads \ {t} : call[u].at # "out" => call[u].ptr # call[t].ptr

Entries == \A c \in Home : c.opt \in Slots => EntriesLive(c)

LiveInv == HeapInv /\ Fresh /\ Owned /\ (\A t \in Threads : InThunk(t)) /\ Entries

-----------------------------------------------------------------------------
(* Vectors                                                                 *)

LEMMA NoElements == ToSet(<<>>) = {} /\ <<>> \in Seq(Container) /\ IsInjective(<<>>)
  BY DEF ToSet, IsInjective

LEMMA Elements ==
    ASSUME NEW v \in Seq(Container)
    PROVE  /\ ToSet(v) \subseteq Container
           /\ \A c \in ToSet(v) : \E i \in 1..Len(v) : c = v[i]
           /\ \A i \in 1..Len(v) : v[i] \in ToSet(v)
           /\ DOMAIN v = 1..Len(v) /\ Len(v) \in Nat
  BY DEF ToSet

\* Where the containers are.
LEMMA FivePlaces ==
    ASSUME NEW a, NEW b, NEW c, NEW d, NEW e
    PROVE  UNION {ToSet(v) : v \in {a, b, c, d, e}}
             = ToSet(a) \cup ToSet(b) \cup ToSet(c) \cup ToSet(d) \cup ToSet(e)
  OBVIOUS

LEMMA AppendElements ==
    ASSUME NEW v \in Seq(Container), NEW c \in Container
    PROVE  Append(v, c) \in Seq(Container) /\ ToSet(Append(v, c)) = ToSet(v) \cup {c}
<1> DEFINE w == Append(v, c)
<1>1. /\ w \in Seq(Container) /\ Len(w) = Len(v) + 1
      /\ \A i \in 1..Len(v) : w[i] = v[i]
      /\ w[Len(v) + 1] = c
  OBVIOUS
<1> HIDE DEF w
<1>2. ToSet(w) \subseteq ToSet(v) \cup {c}
  <2> SUFFICES ASSUME NEW x \in ToSet(w) PROVE x \in ToSet(v) \cup {c}
    OBVIOUS
  <2>1. PICK i \in 1..Len(w) : x = w[i]
    BY <1>1, Elements
  <2>2. CASE i = Len(v) + 1
    BY <2>1, <2>2, <1>1
  <2>3. CASE i # Len(v) + 1
    <3>1. i \in 1..Len(v)
      BY <2>3, <1>1, Elements
    <3>2. QED
      BY <3>1, <2>1, <1>1, Elements
  <2>4. QED
    BY <2>2, <2>3
<1>3. ToSet(v) \subseteq ToSet(w)
  <2> SUFFICES ASSUME NEW x \in ToSet(v) PROVE x \in ToSet(w)
    OBVIOUS
  <2>1. PICK i \in 1..Len(v) : x = v[i]
    BY Elements
  <2>2. i \in 1..Len(w) /\ x = w[i]
    BY <2>1, <1>1, Elements
  <2>3. QED
    BY <2>2, <1>1, Elements
<1>4. c \in ToSet(w)
  <2>1. Len(v) + 1 \in 1..Len(w)
    BY <1>1, Elements
  <2>2. QED
    BY <2>1, <1>1, Elements
<1>5. QED
  BY <1>1, <1>2, <1>3, <1>4 DEF w

\* erase takes one container from a vector and leaves the others.
LEMMA ErasedElements ==
    ASSUME NEW v \in Seq(Container), IsInjective(v), NEW i \in 1..Len(v)
    PROVE  /\ Erased(v, i) \in Seq(Container) /\ IsInjective(Erased(v, i))
           /\ ToSet(Erased(v, i)) = ToSet(v) \ {v[i]}
<1> DEFINE w == Erased(v, i)
           At(j) == IF j < i THEN j ELSE j + 1
<1>1. /\ w \in Seq(Container) /\ Len(w) = Len(v) - 1
      /\ \A j \in 1..Len(w) : w[j] = v[At(j)]
  <2> DEFINE a == SubSeq(v, 1, i - 1)
             b == SubSeq(v, i + 1, Len(v))
  <2>1. a \in Seq(Container) /\ b \in Seq(Container)
    OBVIOUS
  <2>2. Len(a) = i - 1 /\ Len(b) = Len(v) - i
    OBVIOUS
  <2>3. (\A j \in 1..(i - 1) : a[j] = v[j]) /\ (\A j \in 1..(Len(v) - i) : b[j] = v[j + i])
    OBVIOUS
  <2>4. w = a \o b
    BY DEF Erased, RemoveAt
  <2> HIDE DEF w, a, b
  <2>5. w \in Seq(Container) /\ Len(w) = Len(v) - 1
    <3>1. Len(a \o b) = Len(a) + Len(b)
      BY <2>1
    <3>2. QED
      BY <3>1, <2>1, <2>2, <2>4, Elements
  <2>6. ASSUME NEW j \in 1..Len(w) PROVE w[j] = v[At(j)]
    <3>1. CASE j < i
      <4>1. j \in 1..Len(a)
        BY <3>1, <2>2, <2>5
      <4>2. (a \o b)[j] = a[j]
        BY <4>1, <2>1
      <4>3. QED
        BY <4>1, <4>2, <2>2, <2>3, <2>4, <3>1
    <3>2. CASE ~(j < i)
      <4>1. j \in (Len(a) + 1)..(Len(a) + Len(b)) /\ j - Len(a) \in 1..(Len(v) - i)
        BY <3>2, <2>2, <2>5
      <4>2. (a \o b)[j] = b[j - Len(a)]
        BY <4>1, <2>1
      <4>3. QED
        BY <4>1, <4>2, <2>2, <2>3, <2>4, <3>2
    <3>3. QED
      BY <3>1, <3>2
  <2>7. QED
    BY <2>5, <2>6
<1> HIDE DEF w
<1>2. \A j \in 1..Len(w) : At(j) \in 1..Len(v) /\ At(j) # i
  BY <1>1
<1>3. \A j, k \in 1..Len(v) : v[j] = v[k] => j = k
  BY Elements DEF IsInjective
<1>4. IsInjective(w)
  <2> SUFFICES ASSUME NEW j \in 1..Len(w), NEW k \in 1..Len(w), w[j] = w[k] PROVE j = k
    BY <1>1, Elements DEF IsInjective
  <2>1. At(j) = At(k)
    BY <1>1, <1>2, <1>3
  <2>2. QED
    BY <2>1
<1>5. ToSet(w) \subseteq ToSet(v) \ {v[i]}
  <2> SUFFICES ASSUME NEW x \in ToSet(w) PROVE x \in ToSet(v) \ {v[i]}
    OBVIOUS
  <2>1. PICK j \in 1..Len(w) : x = w[j]
    BY <1>1, Elements
  <2>2. x = v[At(j)] /\ At(j) \in 1..Len(v) /\ At(j) # i
    BY <2>1, <1>1, <1>2
  <2> HIDE DEF At
  <2>3. QED
    BY <2>2, <1>3, Elements
<1>6. ToSet(v) \ {v[i]} \subseteq ToSet(w)
  <2> SUFFICES ASSUME NEW x \in ToSet(v) \ {v[i]} PROVE x \in ToSet(w)
    OBVIOUS
  <2>1. PICK k \in 1..Len(v) : x = v[k] /\ k # i
    BY Elements
  <2>2. PICK j \in 1..Len(w) : At(j) = k
    <3>1. CASE k < i
      BY <3>1, <2>1, <1>1
    <3>2. CASE k > i
      <4>1. k - 1 \in 1..Len(w) /\ At(k - 1) = k
        BY <3>2, <2>1, <1>1
      <4>2. QED
        BY <4>1
    <3>3. QED
      BY <3>1, <3>2, <2>1
  <2>3. x = w[j]
    BY <2>1, <2>2, <1>1
  <2>4. QED
    BY <2>3, <1>1, Elements
<1>7. QED
  BY <1>1, <1>4, <1>5, <1>6 DEF w

LEMMA AppendKeepsApart ==
    ASSUME NEW v \in Seq(Container), NEW c \in Container, IsInjective(v), c \notin ToSet(v)
    PROVE  IsInjective(Append(v, c))
<1> SUFFICES ASSUME NEW w, w = Append(v, c) PROVE IsInjective(w)
  OBVIOUS
<1>1. /\ DOMAIN w = 1..(Len(v) + 1)
      /\ \A i \in 1..Len(v) : w[i] = v[i]
      /\ w[Len(v) + 1] = c
  OBVIOUS
<1>2. \A j, k \in 1..Len(v) : v[j] = v[k] => j = k
  BY Elements DEF IsInjective
<1>3. ASSUME NEW i \in DOMAIN w, NEW j \in DOMAIN w, w[i] = w[j] PROVE i = j
  <2>1. \A k \in DOMAIN w : k \in 1..Len(v) \/ k = Len(v) + 1
    BY <1>1, Elements
  <2>2. \A k \in 1..Len(v) : w[k] # c
    BY <1>1, Elements
  <2>3. QED
    BY <1>1, <1>2, <1>3, <2>1, <2>2
<1>4. QED
  BY <1>3 DEF IsInjective

LEMMA ResolvedType ==
    ASSUME NEW c \in Container
    PROVE  /\ Resolved(c) \in Container
           /\ Resolved(c).id = c.id /\ Resolved(c).opt = c.opt
           /\ Resolved(c).thunk = IF c.opt \in Slots THEN c.opt ELSE Default
           /\ Resolved(Resolved(c)) = Resolved(c)
<1> DEFINE r == Resolved(c)
<1>1. /\ r \in Container /\ r.id = c.id /\ r.opt = c.opt /\ r.plugin = c.plugin
      /\ r.thunk = IF c.opt \in Slots THEN c.opt ELSE Default
  BY DEF Resolved, Container
<1> HIDE DEF r
<1>2. /\ Resolved(r) \in Container /\ Resolved(r).id = r.id /\ Resolved(r).opt = r.opt
      /\ Resolved(r).plugin = r.plugin
      /\ Resolved(r).thunk = IF r.opt \in Slots THEN r.opt ELSE Default
  BY <1>1 DEF Resolved, Container
<1>3. Resolved(r) = r
  BY <1>1, <1>2 DEF Container
<1>4. QED
  BY <1>1, <1>3 DEF r

\* append_move_all_values puts one vector behind the other, and doRelocations
\* leaves every container where it is.
LEMMA JoinedElements ==
    ASSUME NEW v \in Seq(Container), NEW w \in Seq(Container),
           IsInjective(v), IsInjective(w), Disjoint(ToSet(v), ToSet(w)),
           \A c, d \in ToSet(v) \cup ToSet(w) : c.id = d.id => c = d,
           NEW r, r = [i \in DOMAIN (v \o w) |-> Resolved((v \o w)[i])]
    PROVE  /\ r \in Seq(Container) /\ IsInjective(r)
           /\ ToSet(r) = {Resolved(c) : c \in ToSet(v) \cup ToSet(w)}
<1> DEFINE all == v \o w
<1>1. /\ all \in Seq(Container) /\ Len(all) = Len(v) + Len(w)
      /\ \A i \in 1..Len(v) : all[i] = v[i]
      /\ \A i \in (Len(v) + 1)..(Len(v) + Len(w)) : all[i] = w[i - Len(v)]
  OBVIOUS
<1>2. r = [i \in DOMAIN all |-> Resolved(all[i])]
  OBVIOUS
<1> HIDE DEF all
<1>3. \A i \in 1..Len(all) :
          \/ i \in 1..Len(v) /\ all[i] = v[i]
          \/ i > Len(v) /\ i - Len(v) \in 1..Len(w) /\ all[i] = w[i - Len(v)]
  BY <1>1, Elements
<1>4. \A i \in 1..Len(all) : all[i] \in ToSet(v) \cup ToSet(w)
  BY <1>3, Elements
<1>5. \A c \in ToSet(v) \cup ToSet(w) : \E i \in 1..Len(all) : c = all[i]
  <2>1. ASSUME NEW c \in ToSet(v) PROVE \E i \in 1..Len(all) : c = all[i]
    <3>1. PICK i \in 1..Len(v) : c = v[i]
      BY Elements
    <3>2. i \in 1..Len(all) /\ c = all[i]
      BY <3>1, <1>1, Elements
    <3>3. QED
      BY <3>2
  <2>2. ASSUME NEW c \in ToSet(w) PROVE \E i \in 1..Len(all) : c = all[i]
    <3>1. PICK i \in 1..Len(w) : c = w[i]
      BY Elements
    <3>2. /\ i + Len(v) \in 1..Len(all) /\ (i + Len(v)) - Len(v) = i
          /\ i + Len(v) \in (Len(v) + 1)..(Len(v) + Len(w))
      BY <3>1, <1>1, Elements
    <3>3. c = all[i + Len(v)]
      BY <3>1, <3>2, <1>1
    <3>4. QED
      BY <3>2, <3>3
  <2>3. QED
    BY <2>1, <2>2
<1>6. ASSUME NEW i \in 1..Len(all), NEW j \in 1..Len(all), all[i] = all[j] PROVE i = j
  <2>1. /\ \A m, n \in 1..Len(v) : v[m] = v[n] => m = n
        /\ \A m, n \in 1..Len(w) : w[m] = w[n] => m = n
    BY Elements DEF IsInjective
  <2>2. \A m \in 1..Len(v), n \in 1..Len(w) : v[m] # w[n]
    BY Elements DEF Disjoint
  <2>3. QED
    BY <1>3, <1>6, <2>1, <2>2, Elements
<1>7. r \in Seq(Container) /\ DOMAIN r = 1..Len(all) /\ Len(r) = Len(all)
      /\ \A i \in 1..Len(all) : r[i] = Resolved(all[i])
  <2>1. DOMAIN all = 1..Len(all) /\ \A i \in 1..Len(all) : all[i] \in Container
    BY <1>1, Elements
  <2>2. \A i \in 1..Len(all) : Resolved(all[i]) \in Container
    BY <2>1, ResolvedType
  <2>3. Len(all) \in Nat
    BY <1>1
  <2>4. \A n \in Nat : \A f \in [1..n -> Container] : f \in Seq(Container) /\ Len(f) = n
    OBVIOUS
  <2>5. r \in [1..Len(all) -> Container] /\ \A i \in 1..Len(all) : r[i] = Resolved(all[i])
    BY <1>2, <2>1, <2>2, Zenon
  <2>6. QED
    BY <2>3, <2>4, <2>5
<1>8. ASSUME NEW i \in DOMAIN r, NEW j \in DOMAIN r, r[i] = r[j] PROVE i = j
  <2>1. all[i] \in Container /\ all[j] \in Container
    BY <1>1, <1>7, Elements
  <2>2. all[i].id = all[j].id
    <3>1. i \in 1..Len(all) /\ j \in 1..Len(all)
      BY <1>7
    <3>2. Resolved(all[i]) = Resolved(all[j])
      BY <3>1, <1>7, <1>8
    <3>3. Resolved(all[i]).id = all[i].id /\ Resolved(all[j]).id = all[j].id
      BY <2>1, ResolvedType
    <3>4. QED
      BY <3>2, <3>3
  <2>3. all[i] = all[j]
    BY <2>2, <1>4, <1>7
  <2>4. QED
    BY <2>3, <1>6, <1>7
<1>9. ToSet(r) = {Resolved(c) : c \in ToSet(v) \cup ToSet(w)}
  <2>1. ToSet(r) = {r[i] : i \in 1..Len(all)}
    BY <1>7 DEF ToSet
  <2>2. ToSet(r) \subseteq {Resolved(c) : c \in ToSet(v) \cup ToSet(w)}
    BY <2>1, <1>4, <1>7
  <2>3. ASSUME NEW c \in ToSet(v) \cup ToSet(w) PROVE Resolved(c) \in ToSet(r)
    <3>1. PICK i \in 1..Len(all) : c = all[i]
      BY <1>5
    <3>2. QED
      BY <3>1, <2>1, <1>7
  <2>4. QED
    BY <2>2, <2>3
<1>10. QED
  BY <1>7, <1>8, <1>9 DEF IsInjective

-----------------------------------------------------------------------------
(* Slots                                                                   *)

LEMMA Releasing ==
    ASSUME stats \in [Slots -> Slot], NEW ss
    PROVE  /\ Release(ss) \in [Slots -> Slot]
           /\ \A s \in Slots :
                 /\ Release(ss)[s].inUse <=> stats[s].inUse /\ s \notin ss
                 /\ Release(ss)[s].map = stats[s].map
<1>1. ASSUME NEW s \in Slots
      PROVE  /\ Unused(stats[s]) \in Slot /\ ~Unused(stats[s]).inUse
             /\ Unused(stats[s]).map = stats[s].map
  BY DEF Unused, Slot
<1>2. QED
  BY <1>1 DEF Release

\* What is left of a container that was moved has no slot to give back.
LEMMA LeftoversHoldNothing ==
    ASSUME NEW v \in Seq(Container), NEW i \in Nat \ {0}
    PROVE  /\ Released(Leftovers(v)) = {}
           /\ Released(LeftoversOfErase(v, i)) = {}
<1>1. \A s \in Slots : s >= 0
  BY TrackingAssumption DEF Slots
<1>2. ASSUME NEW c \in Container PROVE MovedFrom(c).opt \notin Slots
  BY <1>1 DEF MovedFrom, Container, Moved
<1>3. \A c \in Leftovers(v) \cup LeftoversOfErase(v, i) : c.opt \notin Slots
  <2>1. \A j \in DOMAIN v : v[j] \in Container
    OBVIOUS
  <2>2. \A j \in i..Len(v) : v[j] \in Container
    OBVIOUS
  <2>3. QED
    BY <2>1, <2>2, <1>2 DEF Leftovers, LeftoversOfErase
<1>4. QED
  BY <1>3 DEF Released

LEMMA NothingLeft ==
    ASSUME NEW v \in Seq(Container)
    PROVE  Released(Leftovers(v)) = {}
  <1>1. 1 \in Nat \ {0}
    OBVIOUS
  <1>2. QED
    BY <1>1, LeftoversHoldNothing

LEMMA ReleaseNothing ==
    ASSUME stats \in [Slots -> Slot]
    PROVE  Release({}) = stats
  BY DEF Release

\* Every set of numbers that is not empty has a least one.
LEMMA LeastOf ==
    ASSUME NEW S \in SUBSET Nat, S # {}
    PROVE  \E x \in S : \A y \in S : x <= y
<1> DEFINE Below == {ss \in Nat \X Nat : ss[1] < ss[2]}
<1>1. IsWellFoundedOn(Below, Nat)
  BY NatLessThanWellFounded DEF OpToRel
<1>2. \A x, y \in S : y < x => <<y, x>> \in Below
  OBVIOUS
<1> HIDE DEF Below
<1>3. PICK x \in S : \A y \in S : <<y, x>> \notin Below
  BY <1>1, WFMin, Zenon
<1>4. \A y \in S : ~(y < x)
  BY <1>2, <1>3
<1>5. QED
  BY <1>4

LEMMA LeastNumber ==
    ASSUME NEW S, S \subseteq Nat, S # {}
    PROVE  Min(S) \in S
<1>1. \E x \in S : \A y \in S : x <= y
  BY LeastOf
<1>2. QED
  BY <1>1 DEF Min

\* Create takes a slot that nobody has, when there is one.
LEMMA CreateIsFree ==
    Create \in {None} \cup Slots /\ (Create \in Slots => ~stats[Create].inUse)
<1>1. CASE {s \in Slots : ~stats[s].inUse} = {}
  <2>1. Create = None /\ None \notin Slots
    BY <1>1, TrackingAssumption DEF Create, None, Slots
  <2>2. QED
    BY <2>1
<1>2. CASE {s \in Slots : ~stats[s].inUse} # {}
  <2>1. {s \in Slots : ~stats[s].inUse} \subseteq Nat
    BY TrackingAssumption DEF Slots
  <2>2. Create \in {s \in Slots : ~stats[s].inUse}
    BY <1>2, <2>1, LeastNumber DEF Create
  <2>3. QED
    BY <2>2
<1>3. QED
  BY <1>1, <1>2

\* There are finitely many requests, so that SetToSeqs lists them.
LEMMA ListsOf ==
    ASSUME NEW S, IsFiniteSet(S), NEW v \in SetToSeqs(S)
    PROVE  v \in Seq(S) /\ DOMAIN v = 1..Len(v)
<1>1. Cardinality(S) \in Nat
  BY FS_CardinalityType
<1>2. v \in [1..Cardinality(S) -> S]
  BY DEF SetToSeqs
<1>3. QED
  BY <1>1, <1>2

LEMMA WrappersFinite ==
    ASSUME NEW ws \in SUBSET Wrapper
    PROVE  IsFiniteSet(ws)
<1>1. ASSUME NEW b \in BOOLEAN PROVE IsFiniteSet({w \in Wrapper : w.track = b})
  <2> DEFINE S == {w \in Wrapper : w.track = b}
             f == [w \in S |-> w.plugin]
  <2>1. f \in [S -> Plugins]
    BY DEF Wrapper
  <2>2. \A w1, w2 \in S : f[w1] = f[w2] => w1 = w2
    BY DEF Wrapper
  <2>3. f \in Injection(S, Plugins)
    BY <2>1, <2>2 DEF Injection, IsInjective
  <2>4. QED
    BY <2>3, FS_Injection, TrackingAssumption, Zenon
<1>2. Wrapper = {w \in Wrapper : w.track = TRUE} \cup {w \in Wrapper : w.track = FALSE}
  BY DEF Wrapper
<1>3. IsFiniteSet(Wrapper)
  BY <1>1, <1>2, FS_Union, Zenon
<1>4. QED
  BY <1>3, FS_Subset

-----------------------------------------------------------------------------
(* HeapInv and the loader                                                  *)

Loaded == ToSet(gLoadedPlugins)
Kept == ToSet(pluginsToKeep)
Going == ToSet(doomed)
Newly == ToSet(newLoadedPlugins)
Made == ToSet(plugins)

LEMMA PlacesOf == Containers = Loaded \cup Kept \cup Going \cup Newly \cup Made
  BY FivePlaces DEF Containers, Vectors, Loaded, Kept, Going, Newly, Made

LEMMA PlacesNext == (Containers = Loaded \cup Kept \cup Going \cup Newly \cup Made)'
  BY PlacesOf, PTL

\* What TypeOK and Apart say of each vector.
VectorsFine ==
    /\ gLoadedPlugins \in Seq(Container) /\ IsInjective(gLoadedPlugins)
    /\ pluginsToKeep \in Seq(Container) /\ IsInjective(pluginsToKeep)
    /\ doomed \in Seq(Container) /\ IsInjective(doomed)
    /\ newLoadedPlugins \in Seq(Container) /\ IsInjective(newLoadedPlugins)
    /\ plugins \in Seq(Container) /\ IsInjective(plugins)

SetsApart ==
    /\ Disjoint(Loaded, Kept) /\ Disjoint(Loaded, Going)
    /\ Disjoint(Loaded, Newly) /\ Disjoint(Loaded, Made)
    /\ Disjoint(Newly, Kept) /\ Disjoint(Newly, Going) /\ Disjoint(Newly, Made)

LEMMA VectorsAre ==
    ((\A v \in Vectors : v \in Seq(Container)) /\ Apart) <=> (VectorsFine /\ SetsApart)
  BY DEF Vectors, Apart, VectorsFine, SetsApart, Loaded, Kept, Going, Newly, Made

\* The rest of TypeOK.
RestTyped ==
    /\ phase \in Phases
    /\ requests \in Seq(Wrapper) /\ toBeLoaded \in Seq(Wrapper)
    /\ stats \in [Slots -> Slot]
    /\ mutex \in [Slots -> Threads \cup {Nobody}]
    /\ heap \in [Ptrs -> Sizes \cup {0}]
    /\ call \in [Threads -> Call]
    /\ owner \in [Ptrs -> Ids \cup {Nobody}]
    /\ cut \subseteq Ptrs

LEMMA TypesAre == TypeOK <=> (\A v \in Vectors : v \in Seq(Container)) /\ RestTyped
  BY DEF TypeOK, RestTyped

Built == VectorsFine /\ SetsApart /\ RestTyped /\ Phased /\ Keyed /\ OneOwner /\ Linked /\ Called

LEMMA InvIsBuilt == HeapInv <=> Built
  BY VectorsAre, TypesAre DEF HeapInv, Built

LEMMA BuiltNext == (HeapInv <=> Built)'
  BY InvIsBuilt, PTL

\* Containers go, with the slots they hold, or just change places.
LEMMA OthersStay ==
    ASSUME Keyed, OneOwner, NEW going, going \subseteq Containers,
           Containers' = Containers \ going,
           \A s \in Slots : stats'[s].inUse <=> stats[s].inUse /\ s \notin Released(going)
    PROVE  Keyed' /\ OneOwner'
<1>1. Keyed'
  BY DEF Keyed
<1>2. \A s \in Slots : s \in Released(going) <=> \E c \in going : c.opt = s
  BY DEF Released
<1>3. /\ \A s \in Slots : stats[s].inUse <=> \E c \in Containers : c.opt = s
      /\ \A c, d \in Containers : c.opt = d.opt /\ c.opt \in Slots => c = d
      /\ \A c \in Containers : c.opt # Moved
  BY DEF OneOwner
<1>4. ASSUME NEW s \in Slots
      PROVE  stats'[s].inUse <=> \E c \in Containers' : c.opt = s
  <2>1. CASE s \in Released(going)
    <3>1. PICK c \in going : c.opt = s
      BY <2>1, <1>2
    <3>2. \A d \in Containers : d.opt = s => d = c
      BY <3>1, <1>3
    <3>3. QED
      BY <2>1, <3>1, <3>2
  <2>2. CASE s \notin Released(going)
    <3>1. \A c \in going : c.opt # s
      BY <2>2, <1>2
    <3>2. QED
      BY <2>2, <3>1, <1>3
  <2>3. QED
    BY <2>1, <2>2
<1>5. OneOwner'
  <2>1. Containers' \subseteq Containers
    OBVIOUS
  <2>2. QED
    BY <2>1, <1>3, <1>4 DEF OneOwner, Moved, Slots
<1>6. QED
  BY <1>1, <1>5

LEMMA InitHeap == Init => Built
<1> SUFFICES ASSUME Init PROVE Built
  OBVIOUS
<1>1. VectorsFine
  BY NoElements DEF Init, VectorsFine
<1>2. Loaded = {} /\ Kept = {} /\ Going = {} /\ Newly = {} /\ Made = {}
  BY NoElements DEF Init, Loaded, Kept, Going, Newly, Made
<1>3. SetsApart
  BY <1>2 DEF SetsApart, Disjoint
<1>4. RestTyped
  <2>1. Unused(Blank) \in Slot
    <3>1. Blank.map \in [{} -> Sizes] /\ {} \in SUBSET Ptrs
      BY DEF Blank
    <3>2. Blank.map \in UNION {[xs -> Sizes] : xs \in SUBSET Ptrs}
      BY <3>1
    <3>3. QED
      BY <3>2 DEF Blank, Unused, Slot
  <2>2. Idle \in Call
    BY DEF Idle, Call
  <2>3. <<>> \in Seq(Wrapper)
    OBVIOUS
  <2>4. QED
    BY <2>1, <2>2, <2>3 DEF Init, RestTyped, Phases
<1>5. Phased
  BY DEF Init, Phased
<1>6. Containers = {} /\ Home = {}
  BY <1>2, PlacesOf DEF Home, Loaded, Kept, Going
<1>7. Keyed /\ Linked
  BY <1>6 DEF Keyed, Linked
<1>8. \A s \in Slots : ~stats[s].inUse
  BY DEF Init, Unused, Blank
<1>9. OneOwner
  BY <1>6, <1>8 DEF OneOwner
<1>10. Called
  BY DEF Init, Idle, Called
<1>11. QED
  BY <1>1, <1>3, <1>4, <1>5, <1>7, <1>9, <1>10 DEF Built

\* Steps that move no container and give no slot back.
LEMMA PlacesStay ==
    ASSUME Built, RestTyped', Phased', Called', UNCHANGED lists,
           \A s \in Slots : stats'[s].inUse = stats[s].inUse
    PROVE  Built'
<1>1. /\ gLoadedPlugins' = gLoadedPlugins /\ pluginsToKeep' = pluginsToKeep
      /\ doomed' = doomed /\ newLoadedPlugins' = newLoadedPlugins /\ plugins' = plugins
  BY DEF lists
<1>2. VectorsFine' /\ SetsApart' /\ Containers' = Containers /\ Home' = Home
  BY <1>1 DEF Built, VectorsFine, SetsApart, Loaded, Kept, Going, Newly, Made, Containers,
              Vectors, Home
<1>3. Keyed /\ OneOwner /\ Linked
  BY DEF Built
<1>4. Keyed' /\ OneOwner'
  <2>1. Released({}) = {}
    BY DEF Released
  <2>2. QED
    BY <2>1, <1>2, <1>3, OthersStay
<1>5. Linked'
  BY <1>2, <1>3 DEF Linked
<1>6. QED
  BY <1>2, <1>4, <1>5 DEF Built

LEMMA StartsKeep ==
    ASSUME Built,
           \/ \E ps \in SUBSET Plugins : StartFromDirectory(ps)
           \/ \E ws \in Wishes : StartWithReload(ws)
           \/ StartUnchanged \/ ApplicationEnds
    PROVE  Built'
<1>1. UNCHANGED <<lists, stats>>
  BY DEF StartFromDirectory, StartWithReload, StartUnchanged, ApplicationEnds
<1>2. RestTyped
  BY DEF Built
<1>3. RestTyped'
  <2>1. ASSUME NEW ps \in SUBSET Plugins, StartFromDirectory(ps) PROVE RestTyped'
    <3>1. PICK v \in SetToSeqs(ps) :
              toBeLoaded' = [i \in DOMAIN v |-> [plugin |-> v[i], track |-> FALSE]]
      BY <2>1 DEF StartFromDirectory
    <3>2. IsFiniteSet(ps)
      BY FS_Subset, TrackingAssumption
    <3>3. v \in Seq(ps) /\ DOMAIN v = 1..Len(v)
      BY <3>2, ListsOf
    <3>4. \A i \in DOMAIN v : [plugin |-> v[i], track |-> FALSE] \in Wrapper
      BY <3>3 DEF Wrapper
    <3>5. toBeLoaded' \in [1..Len(v) -> Wrapper] /\ Len(v) \in Nat
      BY <3>1, <3>3, <3>4
    <3>6. toBeLoaded' \in Seq(Wrapper)
      BY <3>5
    <3>7. QED
      BY <3>6, <2>1, <1>2 DEF StartFromDirectory, RestTyped, Phases, memory
  <2>2. ASSUME NEW ws \in Wishes, StartWithReload(ws) PROVE RestTyped'
    <3>1. ws \in SUBSET Wrapper
      BY DEF Wishes
    <3>2. requests' \in Seq(ws)
      BY <3>1, <2>2, WrappersFinite, ListsOf DEF StartWithReload
    <3>3. requests' \in Seq(Wrapper)
      BY <3>1, <3>2
    <3>4. QED
      BY <3>3, <2>2, <1>2 DEF StartWithReload, RestTyped, Phases, memory
  <2>3. ASSUME StartUnchanged PROVE RestTyped'
    BY <2>3, <1>2 DEF StartUnchanged, RestTyped, Phases, memory, wishes
  <2>4. ASSUME ApplicationEnds PROVE RestTyped'
    <3>1. Idle \in Call
      BY DEF Idle, Call
    <3>2. \A t \in Threads : call[t].at = "record" => call[t].ptr \in Ptrs
      BY DEF Built, Called
    <3>3. QED
      BY <3>1, <3>2, <2>4, <1>2 DEF ApplicationEnds, RestTyped, Phases, wishes
  <2>5. QED
    BY <2>1, <2>2, <2>3, <2>4
<1>4. Phased'
  BY <1>1 DEF Built, Phased, StartFromDirectory, StartWithReload, StartUnchanged,
              ApplicationEnds, lists
<1>5. Called'
  BY DEF Built, Called, StartFromDirectory, StartWithReload, StartUnchanged, ApplicationEnds,
         Idle, memory
<1>6. QED
  BY <1>1, <1>3, <1>4, <1>5, PlacesStay

\* No plugin fits the request.
MatchesNone ==
    /\ UNCHANGED lists
    /\ toBeLoaded' = Append(toBeLoaded, Head(requests))

\* A container that is kept goes from one vector to another; what the moves
\* leave behind has no slot to give back.
MatchesOne ==
    /\ UNCHANGED <<doomed, newLoadedPlugins, plugins, toBeLoaded>>
    /\ VectorsFine'
    /\ \E x \in Loaded : Loaded' = Loaded \ {x} /\ Kept' = Kept \cup {x}

LEMMA MatchMoves ==
    ASSUME Built, Match
    PROVE  /\ UNCHANGED <<phase, stats, memory>>
           /\ requests' = Tail(requests)
           /\ MatchesNone \/ MatchesOne
<1> DEFINE w == Head(requests)
           fits == {i \in DOMAIN gLoadedPlugins : NeedsNoReload(gLoadedPlugins[i], w)}
           i == Min(fits)
<1>1. /\ VectorsFine /\ SetsApart /\ stats \in [Slots -> Slot]
      /\ phase = "matching" /\ doomed = <<>> /\ plugins = <<>>
  BY DEF Built, RestTyped, Match, Phased
<1>0. CASE fits = {}
  BY <1>0 DEF Match, MatchesNone
<1> SUFFICES ASSUME fits # {}
             PROVE  UNCHANGED <<phase, stats, memory>> /\ requests' = Tail(requests) /\ MatchesOne
  BY <1>0
<1>2. /\ pluginsToKeep' = Append(pluginsToKeep, gLoadedPlugins[i])
      /\ gLoadedPlugins' = Erased(gLoadedPlugins, i)
      /\ stats' = Release(Released(LeftoversOfErase(gLoadedPlugins, i)
                                   \cup Leftovers(pluginsToKeep)))
      /\ UNCHANGED <<phase, doomed, newLoadedPlugins, plugins, toBeLoaded, memory>>
      /\ requests' = Tail(requests)
  BY DEF Match
<1>3. i \in 1..Len(gLoadedPlugins)
  <2>1. DOMAIN gLoadedPlugins = 1..Len(gLoadedPlugins) /\ Len(gLoadedPlugins) \in Nat
    BY <1>1, Elements DEF VectorsFine
  <2>2. fits \subseteq Nat /\ fits \subseteq 1..Len(gLoadedPlugins)
    BY <2>1
  <2> HIDE DEF fits
  <2>3. QED
    BY <2>2, LeastNumber
<1> HIDE DEF i, fits, w
<1> DEFINE x == gLoadedPlugins[i]
<1>4. x \in Container /\ x \in Loaded
  BY <1>1, <1>3, Elements DEF VectorsFine, Loaded
<1>5. stats' = stats
  <2>1. /\ Released(LeftoversOfErase(gLoadedPlugins, i)) = {}
        /\ Released(Leftovers(pluginsToKeep)) = {}
    BY <1>1, <1>3, LeftoversHoldNothing DEF VectorsFine
  <2>2. Released(LeftoversOfErase(gLoadedPlugins, i) \cup Leftovers(pluginsToKeep)) = {}
    BY <2>1 DEF Released
  <2>3. QED
    BY <2>2, <1>1, <1>2, ReleaseNothing
<1>6. /\ gLoadedPlugins' \in Seq(Container) /\ IsInjective(gLoadedPlugins')
      /\ Loaded' = Loaded \ {x}
  BY <1>1, <1>2, <1>3, ErasedElements DEF VectorsFine, Loaded
<1>7. /\ pluginsToKeep' \in Seq(Container) /\ IsInjective(pluginsToKeep')
      /\ Kept' = Kept \cup {x}
  <2>1. x \notin ToSet(pluginsToKeep)
    BY <1>1, <1>4 DEF SetsApart, Disjoint, Kept
  <2> HIDE DEF x
  <2>2. QED
    BY <2>1, <1>1, <1>2, <1>4, AppendElements, AppendKeepsApart DEF VectorsFine, Kept, x
<1>8. VectorsFine'
  BY <1>1, <1>2, <1>6, <1>7 DEF VectorsFine
<1>9. QED
  BY <1>2, <1>4, <1>5, <1>6, <1>7, <1>8 DEF MatchesOne

LEMMA MatchKeeps ==
    ASSUME Built, Match
    PROVE  Built' /\ Home' = Home
<1>1. UNCHANGED <<phase, stats, memory>> /\ requests' = Tail(requests)
  BY MatchMoves
<1>2. /\ RestTyped /\ requests # <<>> /\ phase = "matching"
      /\ Tail(requests) \in Seq(Wrapper) /\ Head(requests) \in Wrapper
  BY DEF Built, Match, RestTyped
<1>3. CASE MatchesNone
  <2>1. Append(toBeLoaded, Head(requests)) \in Seq(Wrapper)
    BY <1>2 DEF RestTyped
  <2>2. RestTyped'
    BY <1>1, <1>2, <1>3, <2>1 DEF RestTyped, MatchesNone, memory
  <2>3. Phased' /\ Called' /\ UNCHANGED lists /\ Home' = Home
    BY <1>1, <1>3 DEF Built, Phased, Called, lists, memory, MatchesNone, Home
  <2>4. QED
    BY <1>1, <2>2, <2>3, PlacesStay
<1>4. CASE MatchesOne
  <2>1. PICK x \in Loaded : Loaded' = Loaded \ {x} /\ Kept' = Kept \cup {x}
    BY <1>4 DEF MatchesOne
  <2>2. UNCHANGED <<doomed, newLoadedPlugins, plugins, toBeLoaded>> /\ VectorsFine'
    BY <1>4 DEF MatchesOne
  <2>3. Going' = Going /\ Newly' = Newly /\ Made' = Made
    BY <2>2 DEF Going, Newly, Made
  <2>4. SetsApart'
    BY <2>1, <2>3 DEF Built, SetsApart, Disjoint
  <2>5. (Containers = Loaded \cup Kept \cup Going \cup Newly \cup Made)'
    BY PlacesNext
  <2>6. Containers' = Containers /\ Home' = Home
    BY <2>1, <2>3, <2>5, PlacesOf DEF Home, Loaded, Kept, Going
  <2>7. Keyed' /\ OneOwner'
    <3>1. Released({}) = {}
      BY DEF Released
    <3>2. Keyed /\ OneOwner
      BY DEF Built
    <3>3. QED
      BY <3>1, <3>2, <1>1, <2>6, OthersStay
  <2>8. Linked' /\ Called' /\ Phased'
    BY <1>1, <1>2, <2>2, <2>6 DEF Built, Linked, Called, Phased, memory
  <2>9. RestTyped'
    BY <1>1, <1>2, <2>2 DEF RestTyped, memory
  <2>10. QED
    BY <2>2, <2>4, <2>6, <2>7, <2>8, <2>9 DEF Built
<1>5. QED
  BY <1>3, <1>4, MatchMoves

LEMMA MatchDoneKeeps ==
    ASSUME Built, MatchDone
    PROVE  Built' /\ Home' = Home
<1>1. VectorsFine /\ SetsApart /\ RestTyped /\ Keyed /\ OneOwner /\ Linked /\ Called
      /\ doomed = <<>> /\ plugins = <<>>
  BY DEF Built, MatchDone, Phased
<1>2. /\ phase' = "deinit" /\ doomed' = gLoadedPlugins /\ gLoadedPlugins' = pluginsToKeep
      /\ pluginsToKeep' = <<>> /\ stats' = stats
      /\ UNCHANGED <<newLoadedPlugins, plugins, wishes, memory>>
  BY DEF MatchDone
<1>3. /\ Going' = Loaded /\ Loaded' = Kept /\ Kept' = {} /\ Newly' = Newly /\ Made' = Made
      /\ Made = {} /\ Going = {}
  BY <1>1, <1>2, NoElements DEF Loaded, Kept, Going, Newly, Made
<1>4. VectorsFine' /\ SetsApart'
  BY <1>1, <1>2, <1>3, NoElements DEF VectorsFine, SetsApart, Disjoint
<1>5. (Containers = Loaded \cup Kept \cup Going \cup Newly \cup Made)'
  BY PlacesNext
<1>6. Containers' = Containers /\ Home' = Home
  BY <1>3, <1>5, PlacesOf DEF Home, Loaded, Kept, Going
<1>7. Keyed' /\ OneOwner'
  <2>1. Released({}) = {}
    BY DEF Released
  <2>2. QED
    BY <2>1, <1>1, <1>2, <1>6, OthersStay
<1>8. Linked' /\ Called' /\ Phased'
  BY <1>1, <1>2, <1>6 DEF Linked, Called, Phased, memory
<1>9. RestTyped'
  BY <1>1, <1>2 DEF RestTyped, Phases, wishes, memory
<1>10. QED
  BY <1>4, <1>6, <1>7, <1>8, <1>9 DEF Built

LEMMA DestroyDoomedKeeps ==
    ASSUME Built, DestroyDoomed
    PROVE  Built' /\ Home' = Home \ Going /\ Loaded' = Loaded /\ Kept' = {} /\ Kept = {}
           /\ Going' = {}
<1>1. VectorsFine /\ SetsApart /\ RestTyped /\ Keyed /\ OneOwner /\ Linked /\ Called
      /\ pluginsToKeep = <<>> /\ plugins = <<>>
  BY DEF Built, DestroyDoomed, Phased
<1>2. /\ phase' = "loading" /\ doomed' = <<>> /\ stats' = Release(Released(Going))
      /\ owner' = Orphaned(Going)
      /\ UNCHANGED <<gLoadedPlugins, pluginsToKeep, newLoadedPlugins, plugins, wishes,
                     mutex, heap, call, cut>>
  BY DEF DestroyDoomed, Going
<1>3. /\ Going' = {} /\ Loaded' = Loaded /\ Kept' = {} /\ Newly' = Newly /\ Made' = {}
      /\ Made = {} /\ Kept = {}
  BY <1>1, <1>2, NoElements DEF Loaded, Kept, Going, Newly, Made
<1>4. VectorsFine' /\ SetsApart'
  BY <1>1, <1>2, <1>3, NoElements DEF VectorsFine, SetsApart, Disjoint
<1>5. (Containers = Loaded \cup Kept \cup Going \cup Newly \cup Made)'
  BY PlacesNext
<1>6. Containers' = Containers \ Going /\ Going \subseteq Containers
  BY <1>1, <1>3, <1>5, PlacesOf DEF SetsApart, Disjoint
<1>7. Home' = Home \ Going
  BY <1>1, <1>3 DEF Home, Loaded, Kept, Going, SetsApart, Disjoint
<1>8. /\ stats' \in [Slots -> Slot]
      /\ \A s \in Slots : stats'[s].inUse <=> stats[s].inUse /\ s \notin Released(Going)
  BY <1>1, <1>2, Releasing DEF RestTyped
<1>9. Keyed' /\ OneOwner'
  BY <1>1, <1>6, <1>8, OthersStay
<1>10. Linked' /\ Called' /\ Phased'
  BY <1>1, <1>2, <1>7 DEF Linked, Called, Phased
<1>11. RestTyped'
  <2>1. owner' \in [Ptrs -> Ids \cup {Nobody}]
    BY <1>1, <1>2 DEF RestTyped, Orphaned
  <2>2. QED
    BY <1>1, <1>2, <1>8, <2>1 DEF RestTyped, Phases, wishes
<1>12. QED
  BY <1>3, <1>4, <1>7, <1>9, <1>10, <1>11 DEF Built

LEMMA BlankIsSlot == Blank \in Slot
<1>1. Blank.map \in [{} -> Sizes] /\ {} \in SUBSET Ptrs
  BY DEF Blank
<1>2. Blank.map \in UNION {[xs -> Sizes] : xs \in SUBSET Ptrs}
  BY <1>1
<1>3. QED
  BY <1>2 DEF Blank, Slot

\* A container is built, with a slot nobody had or with none.
Builds(c) ==
    /\ c \in Container /\ c.id \notin {d.id : d \in Containers}
    /\ c.opt \in {None} \cup Slots
    /\ c.opt \in Slots => ~stats[c.opt].inUse
    /\ plugins' = Append(plugins, c)
    /\ stats' = [s \in Slots |-> IF s = c.opt THEN Blank ELSE stats[s]]

LEMMA LoadPluginBuilds ==
    ASSUME Built, NEW id \in Ids, LoadPlugin(id)
    PROVE  \E c : Builds(c)
<1> DEFINE w == Head(toBeLoaded)
           o == IF w.track \/ w.plugin \in AsksForTracking THEN Create ELSE None
           c == [id |-> id, plugin |-> w.plugin, opt |-> o, thunk |-> Unresolved]
<1>1. /\ VectorsFine /\ RestTyped /\ toBeLoaded # <<>>
      /\ plugins' = Append(plugins, c) /\ id \notin {d.id : d \in Containers}
      /\ stats' = [s \in Slots |->
                     IF s = o THEN Blank ELSE Release(Released(Leftovers(plugins)))[s]]
  BY DEF Built, LoadPlugin
<1>2. w \in Wrapper
  BY <1>1 DEF RestTyped
<1>3. o \in {None} \cup Slots /\ (o \in Slots => ~stats[o].inUse)
  <2>1. None \notin Slots
    BY TrackingAssumption DEF None, Slots
  <2>2. QED
    BY <2>1, CreateIsFree
<1>4. Release(Released(Leftovers(plugins))) = stats
  <2>1. plugins \in Seq(Container)
    BY <1>1 DEF VectorsFine
  <2>2. Released(Leftovers(plugins)) = {}
    BY ONLY <2>1, NothingLeft
  <2>3. QED
    BY <2>2, <1>1, ReleaseNothing DEF RestTyped
<1> HIDE DEF o, w
<1>5. c \in Container /\ c.id = id /\ c.opt = o
  BY <1>2, <1>3 DEF Container, Wrapper
<1> HIDE DEF c
<1>6. Builds(c)
  BY <1>1, <1>3, <1>4, <1>5 DEF Builds
<1>7. QED
  BY <1>6

LEMMA LoadPluginKeeps ==
    ASSUME Built, NEW id \in Ids, LoadPlugin(id), NEW c, Builds(c)
    PROVE  Built' /\ Home' = Home /\ Made' = Made \cup {c}
<1>1. VectorsFine /\ SetsApart /\ RestTyped /\ Keyed /\ OneOwner /\ Linked /\ Called
  BY DEF Built
<1>2. /\ toBeLoaded # <<>> /\ toBeLoaded' = Tail(toBeLoaded) /\ phase = "loading"
      /\ UNCHANGED <<phase, gLoadedPlugins, pluginsToKeep, doomed, newLoadedPlugins, requests,
                     memory>>
  BY DEF LoadPlugin
<1>3. /\ c \in Container /\ c \notin Containers
      /\ \A d \in Containers : d.id # c.id
      /\ c.opt \in {None} \cup Slots
      /\ c.opt \in Slots => ~stats[c.opt].inUse
      /\ plugins' = Append(plugins, c)
      /\ stats' = [s \in Slots |-> IF s = c.opt THEN Blank ELSE stats[s]]
  BY DEF Builds
<1>4. c \notin Made
  BY <1>3, PlacesOf
<1>5. plugins' \in Seq(Container) /\ IsInjective(plugins') /\ Made' = Made \cup {c}
  BY <1>1, <1>3, <1>4, AppendElements, AppendKeepsApart DEF VectorsFine, Made
<1>6. Loaded' = Loaded /\ Kept' = Kept /\ Going' = Going /\ Newly' = Newly /\ Home' = Home
  BY <1>2 DEF Loaded, Kept, Going, Newly, Home
<1>7. VectorsFine' /\ SetsApart'
  <2>1. VectorsFine'
    BY <1>1, <1>2, <1>5 DEF VectorsFine
  <2>2. c \notin Loaded /\ c \notin Newly
    BY <1>3, PlacesOf
  <2>3. QED
    BY <2>1, <2>2, <1>1, <1>5, <1>6 DEF SetsApart, Disjoint
<1>8. (Containers = Loaded \cup Kept \cup Going \cup Newly \cup Made)'
  BY PlacesNext
<1>9. Containers' = Containers \cup {c}
  BY <1>5, <1>6, <1>8, PlacesOf
<1>10. Keyed'
  BY <1>1, <1>3, <1>9 DEF Keyed
<1>11. \A s \in Slots : stats'[s] \in Slot /\ (stats'[s].inUse <=> stats[s].inUse \/ s = c.opt)
  BY <1>1, <1>3, BlankIsSlot DEF RestTyped, Blank
<1>12. OneOwner'
  <2>1. /\ \A s \in Slots : stats[s].inUse <=> \E d \in Containers : d.opt = s
        /\ \A d, e \in Containers : d.opt = e.opt /\ d.opt \in Slots => d = e
        /\ \A d \in Containers : d.opt # Moved
    BY <1>1 DEF OneOwner
  <2>2. c.opt # Moved
    BY <1>3, TrackingAssumption DEF None, Moved, Slots
  <2>3. \A s \in Slots : stats'[s].inUse <=> \E d \in Containers' : d.opt = s
    BY <2>1, <1>9, <1>11
  <2>4. \A d, e \in Containers' : d.opt = e.opt /\ d.opt \in Slots => d = e
    BY <2>1, <1>3, <1>9
  <2>5. QED
    BY <2>1, <2>2, <2>3, <2>4, <1>9 DEF OneOwner, Moved, Slots
<1>13. RestTyped'
  <2>1. stats' \in [Slots -> Slot]
    BY <1>3, <1>11
  <2>2. Tail(toBeLoaded) \in Seq(Wrapper)
    BY <1>1, <1>2 DEF RestTyped
  <2>3. QED
    BY <2>1, <2>2, <1>1, <1>2 DEF RestTyped, memory
<1>14. Linked' /\ Called' /\ Phased'
  BY <1>1, <1>2, <1>6 DEF Built, Linked, Called, Phased, memory
<1>15. QED
  BY <1>5, <1>6, <1>7, <1>10, <1>12, <1>13, <1>14 DEF Built

LEMMA LoadDoneKeeps ==
    ASSUME Built, LoadDone
    PROVE  /\ Built' /\ Home' = Home /\ Newly' = Made /\ Made' = {}
           /\ stats' = Release(Released(Newly)) /\ Newly \subseteq Containers
           /\ Disjoint(Newly, Home) /\ Disjoint(Newly, Made)
<1>1. VectorsFine /\ SetsApart /\ RestTyped /\ Keyed /\ OneOwner /\ Linked /\ Called
      /\ pluginsToKeep = <<>> /\ doomed = <<>>
  BY DEF Built, LoadDone, Phased
<1>2. /\ phase' \in {"linking", "replacing"} /\ newLoadedPlugins' = plugins /\ plugins' = <<>>
      /\ stats' = Release(Released(Newly))
      /\ UNCHANGED <<gLoadedPlugins, pluginsToKeep, doomed, wishes, memory>>
  BY DEF LoadDone, Newly
<1>3. /\ Newly' = Made /\ Made' = {} /\ Loaded' = Loaded /\ Kept' = {} /\ Going' = {}
      /\ Kept = {} /\ Going = {}
  BY <1>1, <1>2, NoElements DEF Loaded, Kept, Going, Newly, Made
<1>4. VectorsFine' /\ SetsApart'
  BY <1>1, <1>2, <1>3, NoElements DEF VectorsFine, SetsApart, Disjoint
<1>5. (Containers = Loaded \cup Kept \cup Going \cup Newly \cup Made)'
  BY PlacesNext
<1>6. Containers' = Containers \ Newly /\ Newly \subseteq Containers
  BY <1>1, <1>3, <1>5, PlacesOf DEF SetsApart, Disjoint
<1>7. Home' = Home /\ Disjoint(Newly, Home) /\ Disjoint(Newly, Made)
  BY <1>1, <1>3 DEF Home, Loaded, Kept, Going, SetsApart, Disjoint
<1>8. /\ stats' \in [Slots -> Slot]
      /\ \A s \in Slots : stats'[s].inUse <=> stats[s].inUse /\ s \notin Released(Newly)
  BY <1>1, <1>2, Releasing DEF RestTyped
<1>9. Keyed' /\ OneOwner'
  BY <1>1, <1>6, <1>8, OthersStay
<1>10. Linked' /\ Called' /\ Phased'
  BY <1>1, <1>2, <1>7 DEF Linked, Called, Phased, memory
<1>11. RestTyped'
  BY <1>1, <1>2, <1>8 DEF RestTyped, Phases, wishes, memory
<1>12. QED
  BY <1>2, <1>3, <1>4, <1>6, <1>7, <1>9, <1>10, <1>11 DEF Built

LEMMA StartApplicationKeeps ==
    ASSUME Built, StartApplication
    PROVE  /\ Built' /\ stats' = stats /\ Home = Loaded /\ Made = {} /\ Made' = {} /\ Newly' = {}
           /\ Home' = {Resolved(c) : c \in Loaded \cup Newly}
           /\ Loaded \cup Newly \subseteq Container
<1>1. VectorsFine /\ SetsApart /\ RestTyped /\ Keyed /\ OneOwner /\ Linked /\ Called
      /\ pluginsToKeep = <<>> /\ doomed = <<>> /\ plugins = <<>>
  BY DEF Built, StartApplication, Phased
<1> DEFINE all == gLoadedPlugins \o newLoadedPlugins
<1>2. /\ phase' = "running" /\ newLoadedPlugins' = <<>>
      /\ gLoadedPlugins' = [i \in DOMAIN all |-> Resolved(all[i])]
      /\ stats' = Release(Released(Leftovers(gLoadedPlugins) \cup Leftovers(newLoadedPlugins)))
      /\ UNCHANGED <<pluginsToKeep, doomed, plugins, wishes, memory>>
  BY DEF StartApplication
<1>3. /\ Newly' = {} /\ Kept' = {} /\ Going' = {} /\ Made' = {}
      /\ Kept = {} /\ Going = {} /\ Made = {}
  BY <1>1, <1>2, NoElements DEF Kept, Going, Newly, Made
<1>4. Containers = Loaded \cup Newly /\ Home = Loaded
  BY <1>3, PlacesOf DEF Home, Loaded, Kept, Going
<1>5. /\ gLoadedPlugins' \in Seq(Container) /\ IsInjective(gLoadedPlugins')
      /\ Loaded' = {Resolved(c) : c \in Loaded \cup Newly}
  <2>1. \A c, d \in Loaded \cup Newly : c.id = d.id => c = d
    BY <1>1, <1>4 DEF Keyed
  <2>2. Disjoint(Loaded, Newly)
    BY <1>1 DEF SetsApart
  <2>3. QED
    BY <2>1, <2>2, <1>1, <1>2, JoinedElements DEF VectorsFine, Loaded, Newly
<1>6. stats' = stats
  <2>1. Released(Leftovers(gLoadedPlugins)) = {} /\ Released(Leftovers(newLoadedPlugins)) = {}
    BY <1>1, LeftoversHoldNothing DEF VectorsFine
  <2>2. Released(Leftovers(gLoadedPlugins) \cup Leftovers(newLoadedPlugins)) = {}
    BY <2>1 DEF Released
  <2>3. QED
    BY <2>2, <1>1, <1>2, ReleaseNothing DEF RestTyped
<1>7. VectorsFine' /\ SetsApart'
  BY <1>1, <1>2, <1>3, <1>5, NoElements DEF VectorsFine, SetsApart, Disjoint
<1>8. (Containers = Loaded \cup Kept \cup Going \cup Newly \cup Made)'
  BY PlacesNext
<1>9. Containers' = {Resolved(c) : c \in Containers} /\ Home' = {Resolved(c) : c \in Containers}
  BY <1>3, <1>4, <1>5, <1>8 DEF Home, Loaded, Kept, Going
<1>10. Containers \subseteq Container
  BY <1>1, <1>4, Elements DEF VectorsFine, Loaded, Newly
<1>11. \A c \in Containers : /\ Resolved(c).id = c.id /\ Resolved(c).opt = c.opt
                             /\ Resolved(Resolved(c)) = Resolved(c)
  BY <1>10, ResolvedType
<1>12. Keyed'
  BY <1>1, <1>9, <1>11 DEF Keyed
<1>13. OneOwner'
  <2>1. /\ \A s \in Slots : stats[s].inUse <=> \E d \in Containers : d.opt = s
        /\ \A d, e \in Containers : d.opt = e.opt /\ d.opt \in Slots => d = e
        /\ \A d \in Containers : d.opt # Moved
    BY <1>1 DEF OneOwner
  <2>2. \A s \in Slots : stats'[s].inUse <=> \E d \in Containers' : d.opt = s
    BY <2>1, <1>6, <1>9, <1>11
  <2>3. \A d, e \in Containers' : d.opt = e.opt /\ d.opt \in Slots => d = e
    BY <2>1, <1>9, <1>11
  <2>4. \A d \in Containers' : d.opt # Moved
    BY <2>1, <1>9, <1>11
  <2>5. QED
    BY <2>2, <2>3, <2>4 DEF OneOwner, Moved, Slots
<1>14. Linked'
  BY <1>9, <1>11 DEF Linked, Resolved, Slots, Default
<1>15. Called' /\ Phased'
  BY <1>1, <1>2 DEF Called, Phased, memory
<1>16. RestTyped'
  BY <1>1, <1>2, <1>6 DEF RestTyped, Phases, wishes, memory
<1>17. QED
  BY <1>3, <1>4, <1>6, <1>7, <1>9, <1>10, <1>12, <1>13, <1>14, <1>15, <1>16 DEF Built

-----------------------------------------------------------------------------
(* HeapInv and the thunks                                                  *)

LEMMA RunningIsHome ==
    ASSUME Built
    PROVE  /\ Running \subseteq Home
           /\ \A c \in Running : c \in Container /\ (c.thunk # Default => c.thunk \in Slots
                                                                       /\ c.opt = c.thunk)
           /\ \A c \in Running : c.thunk = Default => c.opt \notin Slots
<1>1. Running \subseteq Home
  BY DEF Running, Home
<1>2. Home \subseteq Container
  BY Elements DEF Built, VectorsFine, Home
<1>3. \A c \in Home : Resolved(c) = c
  BY DEF Built, Linked
<1>4. \A c \in Home : c.thunk = IF c.opt \in Slots THEN c.opt ELSE Default
  BY <1>2, <1>3, ResolvedType
<1>5. Default \notin Slots
  BY TrackingAssumption DEF Default, Slots
<1>6. QED
  BY <1>1, <1>2, <1>4, <1>5

LEMMA MapType ==
    ASSUME NEW m
    PROVE  m \in UNION {[xs -> Sizes] : xs \in SUBSET Ptrs}
             <=> DOMAIN m \subseteq Ptrs /\ m \in [DOMAIN m -> Sizes]
<1>1. ASSUME m \in UNION {[xs -> Sizes] : xs \in SUBSET Ptrs}
      PROVE  DOMAIN m \subseteq Ptrs /\ m \in [DOMAIN m -> Sizes]
  <2>1. PICK xs \in SUBSET Ptrs : m \in [xs -> Sizes]
    BY <1>1
  <2>2. QED
    BY <2>1
<1>2. ASSUME DOMAIN m \subseteq Ptrs, m \in [DOMAIN m -> Sizes]
      PROVE  m \in UNION {[xs -> Sizes] : xs \in SUBSET Ptrs}
  BY <1>2
<1>3. QED
  BY <1>1, <1>2

\* Only the map and the sum of one slot change.
OnlyMap(s, map) ==
    /\ stats' \in [Slots -> Slot]
    /\ \A r \in Slots : stats'[r].inUse = stats[r].inUse
    /\ \A r \in Slots \ {s} : stats'[r] = stats[r]
    /\ stats'[s].map = map

LEMMA ChangesMap ==
    ASSUME stats \in [Slots -> Slot], NEW s \in Slots, NEW n \in Nat,
           NEW map, DOMAIN map \subseteq Ptrs, map \in [DOMAIN map -> Sizes],
           stats' = [stats EXCEPT ![s].current = n, ![s].map = map]
    PROVE  OnlyMap(s, map)
<1> DEFINE old == stats[s]
           maps == UNION {[xs -> Sizes] : xs \in SUBSET Ptrs}
           new == [old EXCEPT !.current = n, !.map = map]
<1>1. map \in maps
  BY MapType
<1>2. Slot = [inUse : BOOLEAN, map : maps, current : Nat]
  BY DEF Slot
<1>3. stats' = [stats EXCEPT ![s] = new] /\ old \in Slot
  OBVIOUS
<1> HIDE DEF maps, old
<1>4. new \in Slot /\ new.inUse = old.inUse /\ new.map = map
  BY <1>1, <1>2, <1>3
<1> HIDE DEF new
<1>5. /\ stats'[s] = new
      /\ \A r \in Slots \ {s} : stats'[r] = stats[r]
      /\ stats' \in [Slots -> Slot]
  BY <1>3, <1>4
<1>6. \A r \in Slots : stats'[r].inUse = stats[r].inUse
  BY <1>4, <1>5 DEF old
<1>7. QED
  BY <1>4, <1>5, <1>6 DEF OnlyMap

\* What Record enters.
WithEntry(map, x, n) == [y \in DOMAIN map \cup {x} |-> IF y = x THEN n ELSE map[y]]

LEMMA RecordEnters ==
    ASSUME Built, NEW t \in Threads, Record(t)
    PROVE  LET s == call[t].thunk
           IN  IF stats[s].inUse
               THEN OnlyMap(s, WithEntry(stats[s].map, call[t].ptr, call[t].size))
               ELSE stats' = stats
<1> DEFINE s == call[t].thunk
           map == WithEntry(stats[s].map, call[t].ptr, call[t].size)
<1>1. /\ s \in Slots /\ call[t].ptr \in Ptrs /\ call[t].size \in Sizes
      /\ stats \in [Slots -> Slot]
  BY DEF Built, RestTyped, Called, Record
<1>2. stats[s] \in Slot
  BY <1>1
<1>3. DOMAIN stats[s].map \subseteq Ptrs /\ stats[s].map \in [DOMAIN stats[s].map -> Sizes]
      /\ stats[s].current \in Nat
  BY <1>2, MapType DEF Slot
<1>4. DOMAIN map \subseteq Ptrs /\ map \in [DOMAIN map -> Sizes]
  BY <1>1, <1>3 DEF WithEntry
<1>5. stats[s].current + call[t].size \in Nat
  <2>1. call[t].size \in Nat
    BY <1>1, TrackingAssumption
  <2> HIDE DEF s
  <2>2. QED
    BY <2>1, <1>3
<1>6. CASE stats[s].inUse
  <2>1. stats' = [stats EXCEPT ![s].current = stats[s].current + call[t].size, ![s].map = map]
    <3> DEFINE e(o) == [y \in DOMAIN o \cup {call[t].ptr} |->
                            IF y = call[t].ptr THEN call[t].size ELSE o[y]]
    <3>1. stats' = [stats EXCEPT ![s].current = @ + call[t].size, ![s].map = e(@)]
      BY <1>6 DEF Record
    <3>2. e(stats[s].map) = map
      BY DEF WithEntry
    <3> HIDE DEF e, map, s
    <3>3. QED
      BY <3>1, <3>2, <1>1, <1>2 DEF Slot
  <2> HIDE DEF map, s
  <2>2. OnlyMap(s, map)
    BY <2>1, <1>1, <1>4, <1>5, ChangesMap
  <2>3. QED
    BY <2>2, <1>6 DEF map, s
<1>7. CASE ~stats[s].inUse
  BY <1>7 DEF Record
<1>8. QED
  BY <1>6, <1>7

LEMMA FreeEntryErases ==
    ASSUME Built, NEW t \in Threads, NEW c \in Running, NEW x \in Ptrs, FreeEntry(t, c, x)
    PROVE  /\ c.thunk \in Slots /\ c.opt = c.thunk
           /\ LET s == c.thunk
              IN  IF stats[s].inUse /\ x \in DOMAIN stats[s].map
                  THEN OnlyMap(s, Restrict(stats[s].map, DOMAIN stats[s].map \ {x}))
                  ELSE stats' = stats
<1> DEFINE s == c.thunk
           map == Restrict(stats[s].map, DOMAIN stats[s].map \ {x})
           n == IF stats[s].current >= stats[s].map[x] THEN stats[s].current - stats[s].map[x]
                ELSE 0
<1>1. s \in Slots /\ c.opt = s /\ stats \in [Slots -> Slot]
  BY RunningIsHome DEF Built, RestTyped, FreeEntry
<1>2. stats[s] \in Slot
  BY <1>1
<1>3. DOMAIN stats[s].map \subseteq Ptrs /\ stats[s].map \in [DOMAIN stats[s].map -> Sizes]
      /\ stats[s].current \in Nat
  BY <1>2, MapType DEF Slot
<1>4. DOMAIN map \subseteq Ptrs /\ map \in [DOMAIN map -> Sizes]
  BY <1>3 DEF Restrict
<1>5. CASE stats[s].inUse /\ x \in DOMAIN stats[s].map
  <2>1. n \in Nat
    <3>1. stats[s].map[x] \in Nat
      BY <1>3, <1>5, TrackingAssumption
    <3>2. QED
      BY <3>1, <1>3
  <2>2. stats' = [stats EXCEPT ![s].current = n, ![s].map = map]
    <3>1. stats' = [stats EXCEPT ![s].current =
                                     IF @ >= stats[s].map[x] THEN @ - stats[s].map[x] ELSE 0,
                                 ![s].map = Restrict(@, DOMAIN @ \ {x})]
      BY <1>5 DEF FreeEntry
    <3> HIDE DEF s
    <3>2. QED
      BY <3>1, <1>1, <1>2 DEF Slot
  <2> HIDE DEF map, s, n
  <2>3. OnlyMap(s, map)
    BY <2>1, <2>2, <1>1, <1>4, ChangesMap
  <2>4. QED
    BY <2>3, <1>1, <1>5 DEF map, s
<1>6. CASE ~(stats[s].inUse /\ x \in DOMAIN stats[s].map)
  BY <1>1, <1>6 DEF FreeEntry
<1>7. QED
  BY <1>5, <1>6

\* What one thread does to its own call keeps the types of all calls.
LEMMA CallChanges ==
    ASSUME Built, NEW t \in Threads, NEW k \in Call, call' = [call EXCEPT ![t] = k],
           k.at # "out" => /\ k.ptr \in Ptrs /\ k.thunk \in Slots
                           /\ k.at = "record" => k.size \in Sizes
    PROVE  call' \in [Threads -> Call] /\ Called'
<1>1. call \in [Threads -> Call] /\ Called
  BY DEF Built, RestTyped
<1>2. call' \in [Threads -> Call] /\ call'[t] = k /\ \A u \in Threads \ {t} : call'[u] = call[u]
  BY <1>1
<1>3. QED
  BY <1>1, <1>2 DEF Called

LEMMA ThunkKeeps ==
    ASSUME Built, Thunk
    PROVE  Built' /\ UNCHANGED lists
<1>1. RestTyped /\ Called /\ Phased /\ stats \in [Slots -> Slot]
  BY DEF Built, RestTyped
<1>2. PICK t \in Threads :
          \/ Record(t) \/ FreeMemory(t)
          \/ \E c \in Running, x \in Ptrs :
                \/ FreeEntry(t, c, x) \/ FreeDefault(t, c, x)
                \/ \E n \in Sizes : Alloc(t, c, x, n)
  BY DEF Thunk
<1>3. Idle \in Call /\ Idle.at = "out"
  BY DEF Idle, Call
<1>4. CASE Record(t)
  <2>1. /\ call' = [call EXCEPT ![t] = Idle]
        /\ UNCHANGED <<phase, lists, wishes, mutex, heap, owner, cut>>
    BY <1>4 DEF Record
  <2>2. call' \in [Threads -> Call] /\ Called'
    BY <2>1, <1>3, CallChanges
  <2>3. stats' \in [Slots -> Slot] /\ \A s \in Slots : stats'[s].inUse = stats[s].inUse
    BY <1>1, <1>4, RecordEnters DEF OnlyMap
  <2>4. RestTyped' /\ Phased'
    BY <2>1, <2>2, <2>3, <1>1 DEF RestTyped, Phased, wishes, lists
  <2>5. QED
    BY <2>1, <2>2, <2>3, <2>4, PlacesStay
<1>5. CASE FreeMemory(t)
  <2>1. /\ call' = [call EXCEPT ![t] = Idle]
        /\ UNCHANGED <<phase, lists, wishes, stats>>
    BY <1>5 DEF FreeMemory
  <2>2. call' \in [Threads -> Call] /\ Called'
    BY <2>1, <1>3, CallChanges
  <2>3. RestTyped' /\ Phased'
    BY <2>1, <2>2, <1>1, <1>5 DEF FreeMemory, RestTyped, Phased, wishes, lists
  <2>4. QED
    BY <2>1, <2>2, <2>3, PlacesStay
<1>6. ASSUME NEW c \in Running, NEW x \in Ptrs, FreeEntry(t, c, x) PROVE Built' /\ UNCHANGED lists
  <2> DEFINE k == [at |-> "freeing", thunk |-> c.thunk, ptr |-> x, size |-> 0]
  <2>1. /\ call' = [call EXCEPT ![t] = k] /\ mutex' = [mutex EXCEPT ![c.thunk] = t]
        /\ UNCHANGED <<phase, lists, wishes, heap, owner, cut>>
    BY <1>6 DEF FreeEntry
  <2>2. c.thunk \in Slots
    BY <1>6, FreeEntryErases
  <2>3. k \in Call /\ k.at = "freeing" /\ k.ptr = x /\ k.thunk = c.thunk
    BY <2>2 DEF Call
  <2> HIDE DEF k
  <2>4. call' \in [Threads -> Call] /\ Called'
    BY <2>1, <2>2, <2>3, CallChanges
  <2>5. stats' \in [Slots -> Slot] /\ \A s \in Slots : stats'[s].inUse = stats[s].inUse
    BY <1>1, <1>6, FreeEntryErases DEF OnlyMap
  <2>6. RestTyped' /\ Phased'
    BY <2>1, <2>4, <2>5, <1>1 DEF RestTyped, Phased, wishes, lists
  <2>7. QED
    BY <2>1, <2>4, <2>5, <2>6, PlacesStay
<1>7. ASSUME NEW c \in Running, NEW x \in Ptrs, FreeDefault(t, c, x)
      PROVE  Built' /\ UNCHANGED lists
  <2>1. UNCHANGED <<phase, lists, wishes, stats, mutex, call>>
    BY <1>7 DEF FreeDefault
  <2>2. RestTyped' /\ Phased' /\ Called'
    BY <2>1, <1>1, <1>7 DEF FreeDefault, RestTyped, Phased, Called, wishes, lists
  <2>3. QED
    BY <2>1, <2>2, PlacesStay
<1>8. ASSUME NEW c \in Running, NEW x \in Ptrs, NEW n \in Sizes, Alloc(t, c, x, n)
      PROVE  Built' /\ UNCHANGED lists
  <2>1. /\ heap' = [heap EXCEPT ![x] = n] /\ owner' = [owner EXCEPT ![x] = c.id]
        /\ cut' = cut \ {x}
        /\ UNCHANGED <<phase, lists, wishes, stats, mutex>>
    BY <1>8 DEF Alloc
  <2>2. c.id \in Ids /\ (c.thunk # Default => c.thunk \in Slots)
    BY RunningIsHome DEF Container
  <2>3. call' \in [Threads -> Call] /\ Called'
    <3>1. CASE c.thunk = Default
      BY <3>1, <1>1, <1>8 DEF Alloc, RestTyped, Called
    <3>2. CASE c.thunk # Default
      <4> DEFINE k == [at |-> "record", thunk |-> c.thunk, ptr |-> x, size |-> n]
      <4>1. call' = [call EXCEPT ![t] = k]
        BY <3>2, <1>8 DEF Alloc
      <4>2. k \in Call /\ k.at = "record" /\ k.ptr = x /\ k.thunk = c.thunk /\ k.size = n
        BY <2>2, <3>2 DEF Call
      <4> HIDE DEF k
      <4>3. QED
        BY <4>1, <4>2, <2>2, <3>2, CallChanges
    <3>3. QED
      BY <3>1, <3>2
  <2>4. RestTyped' /\ Phased'
    BY <2>1, <2>2, <2>3, <1>1 DEF RestTyped, Phased, wishes, lists
  <2>5. QED
    BY <2>1, <2>3, <2>4, PlacesStay
<1>9. QED
  BY <1>2, <1>4, <1>5, <1>6, <1>7, <1>8

LEMMA StutterHeap ==
    ASSUME Built, UNCHANGED vars
    PROVE  Built'
<1>1. UNCHANGED <<phase, lists, wishes, stats, memory>>
  BY DEF vars
<1>2. RestTyped' /\ Phased' /\ Called'
  BY <1>1 DEF Built, RestTyped, Phased, Called, lists, wishes, memory
<1>3. QED
  BY <1>1, <1>2, PlacesStay

THEOREM HeapInvariant == Spec => []HeapInv
<1>1. Init => HeapInv
  BY InitHeap, InvIsBuilt
<1>2. HeapInv /\ [Next]_vars => HeapInv'
  <2> SUFFICES ASSUME HeapInv, [Next]_vars PROVE HeapInv'
    OBVIOUS
  <2>1. Built
    BY InvIsBuilt
  <2>2. Built'
    <3>1. ASSUME NEW id \in Ids, LoadPlugin(id) PROVE Built'
      BY <2>1, <3>1, LoadPluginBuilds, LoadPluginKeeps
    <3>2. CASE Loader
      BY <2>1, <3>1, <3>2, StartsKeep, MatchKeeps, MatchDoneKeeps, DestroyDoomedKeeps,
         LoadDoneKeeps, StartApplicationKeeps DEF Loader
    <3>3. QED
      BY <2>1, <3>2, ThunkKeeps, StutterHeap DEF Next
  <2>3. (HeapInv <=> Built)'
    BY BuiltNext
  <2>4. QED
    BY <2>2, <2>3
<1>3. QED
  BY <1>1, <1>2, PTL DEF Spec

\* The types, and that vectors and maps hold what they should.
THEOREM TrackingTypes == Spec => []TypeOK
<1>1. HeapInv => TypeOK
  BY DEF HeapInv
<1>2. QED
  BY <1>1, HeapInvariant, PTL

\* A slot of the pool is in use exactly while one container holds its index,
\* however the containers move between the vectors of APPLICATION_STARTS.
THEOREM SlotsHaveOneOwner == Spec => []OneOwner
<1>1. HeapInv => OneOwner
  BY DEF HeapInv
<1>2. QED
  BY <1>1, HeapInvariant, PTL

-----------------------------------------------------------------------------
(* The entries                                                             *)

\* A thread in a thunk has this address in hand.
Pending(x) == \E t \in Threads : call[t].at # "out" /\ call[t].ptr = x

\* EntriesLive, one address at a time.
HasEntries(c) ==
    LET map == stats[c.opt].map
    IN  /\ DOMAIN map \subseteq Ptrs
        /\ \A x \in Ptrs : x \in DOMAIN map <=> owner[x] = c.id /\ x \notin cut /\ ~Pending(x)
        /\ \A x \in DOMAIN map : map[x] = heap[x]

LEMMA EntriesAre == \A c : EntriesLive(c) <=> HasEntries(c)
<1> SUFFICES ASSUME NEW c PROVE EntriesLive(c) <=> HasEntries(c)
  OBVIOUS
<1> DEFINE unrecorded == {call[t].ptr : t \in {u \in Threads : call[u].at # "out"}}
<1>1. \A x : x \in unrecorded <=> Pending(x)
  BY DEF Pending
<1> HIDE DEF unrecorded
<1>2. EntriesLive(c) <=>
        /\ DOMAIN stats[c.opt].map = {x \in Ptrs : owner[x] = c.id} \ (unrecorded \cup cut)
        /\ \A x \in DOMAIN stats[c.opt].map : stats[c.opt].map[x] = heap[x]
  BY DEF EntriesLive, unrecorded
<1>3. QED
  BY <1>1, <1>2 DEF HasEntries

AllEntries == \A c \in Home : c.opt \in Slots => HasEntries(c)

Live == Built /\ Fresh /\ Owned /\ (\A t \in Threads : InThunk(t)) /\ AllEntries

LEMMA LiveIs == LiveInv <=> Live
<1>1. Entries <=> AllEntries
  BY EntriesAre DEF Entries, AllEntries
<1>2. QED
  BY <1>1, InvIsBuilt DEF LiveInv, Live

LEMMA LiveNext == (LiveInv <=> Live)'
  BY LiveIs, PTL

LEMMA InitLive == Init => Live
<1> SUFFICES ASSUME Init PROVE Live
  OBVIOUS
<1>1. Built
  BY InitHeap
<1>2. Home = {} /\ ToSet(newLoadedPlugins) \cup ToSet(plugins) = {}
  BY NoElements DEF Init, Home
<1>3. Fresh /\ AllEntries
  BY <1>2 DEF Fresh, AllEntries
<1>4. Owned /\ \A t \in Threads : InThunk(t)
  BY DEF Init, Owned, InThunk, Idle
<1>5. QED
  BY <1>1, <1>3, <1>4 DEF Live

\* A container is linked or it is not.
LEMMA HomeApart ==
    ASSUME Built
    PROVE  /\ Disjoint(Home, Newly \cup Made)
           /\ Home \cup Newly \cup Made = Containers
<1>1. Containers = Home \cup Newly \cup Made
  BY PlacesOf DEF Home, Loaded, Kept, Going
<1>2. SetsApart /\ (Kept = {} \/ Made = {}) /\ (Going = {} \/ Made = {})
  BY NoElements DEF Built, Phased, Kept, Made, Going
<1>3. QED
  BY <1>1, <1>2 DEF SetsApart, Disjoint, Home, Loaded, Kept, Going

\* Outside of the thunks, with the addresses of the containers that stay.
LEMMA EntriesStay ==
    ASSUME Live, Quiet, UNCHANGED <<call, heap, cut>>, Home' \subseteq Home,
           \A c \in Home' : c.opt \in Slots => stats'[c.opt].map = stats[c.opt].map,
           \A c \in Home', x \in Ptrs : owner'[x] = c.id <=> owner[x] = c.id,
           \A x \in Ptrs : owner'[x] # Nobody =>
              owner'[x] = owner[x] /\ \E c \in Home' : c.id = owner[x]
    PROVE  Owned' /\ (\A t \in Threads : InThunk(t)') /\ AllEntries'
<1>1. Owned'
  BY DEF Live, Owned
<1>2. \A t \in Threads : InThunk(t)'
  BY DEF Quiet, InThunk
<1>3. ASSUME NEW c \in Home', c.opt \in Slots PROVE HasEntries(c)'
  <2>1. HasEntries(c)
    BY <1>3 DEF Live, AllEntries
  <2>2. \A x : Pending(x)' <=> Pending(x)
    BY DEF Pending
  <2>3. QED
    BY <2>1, <2>2, <1>3 DEF HasEntries
<1>4. AllEntries'
  BY <1>3 DEF AllEntries, Slots
<1>5. QED
  BY <1>1, <1>2, <1>4

LEMMA FreshAs ==
    Fresh <=> \A c \in Newly \cup Made : c.opt \in Slots => stats[c.opt].map = Blank.map
  BY DEF Fresh, Newly, Made

LEMMA FreshNext ==
    (Fresh <=> \A c \in Newly \cup Made : c.opt \in Slots => stats[c.opt].map = Blank.map)'
  BY FreshAs, PTL

LEMMA QuietOutside ==
    ASSUME Live, phase \notin {"running", "deinit"}
    PROVE  Quiet
  BY DEF Live, InThunk, Quiet

LEMMA LoaderLive ==
    ASSUME Live, Loader
    PROVE  Live'
<1>1. Built /\ Fresh /\ Owned /\ (\A t \in Threads : InThunk(t)) /\ AllEntries
  BY DEF Live
<1>2. RestTyped /\ Phased /\ Keyed /\ OneOwner /\ Nobody \notin Ids
  BY <1>1, TrackingAssumption DEF Built
<1>3. (Fresh <=> \A c \in Newly \cup Made : c.opt \in Slots => stats[c.opt].map = Blank.map)'
  BY FreshNext
<1>4. ASSUME Home' = Home, UNCHANGED <<call, heap, cut, owner>>, Quiet,
             \A c \in Home : c.opt \in Slots => stats'[c.opt].map = stats[c.opt].map
      PROVE  Owned' /\ (\A t \in Threads : InThunk(t)') /\ AllEntries'
  BY <1>4, <1>1, EntriesStay DEF Owned, Live
<1>5. ASSUME UNCHANGED <<lists, stats, heap, owner>>, call' = call, Quiet, cut' = cut, Built'
      PROVE  Live'
  <2>1. Home' = Home /\ Newly' = Newly /\ Made' = Made
    BY <1>5 DEF Home, Newly, Made, lists
  <2>2. Fresh'
    BY <2>1, <1>1, <1>3, <1>5, FreshAs
  <2>3. Owned' /\ (\A t \in Threads : InThunk(t)') /\ AllEntries'
    BY <2>1, <1>4, <1>5
  <2>4. QED
    BY <2>2, <2>3, <1>5 DEF Live
<1>6. ASSUME NEW ps \in SUBSET Plugins, StartFromDirectory(ps) PROVE Live'
  <2>1. Built'
    BY <1>1, <1>6, StartsKeep
  <2>2. UNCHANGED <<lists, stats, heap, owner>> /\ call' = call /\ cut' = cut
        /\ phase = "stopped"
    BY <1>6 DEF StartFromDirectory, memory
  <2>3. Quiet
    BY <2>2, QuietOutside
  <2>4. QED
    BY <2>1, <2>2, <2>3, <1>5
<1>7. ASSUME NEW ws \in Wishes, StartWithReload(ws) PROVE Live'
  <2>1. Built'
    BY <1>1, <1>7, StartsKeep
  <2>2. UNCHANGED <<lists, stats, heap, owner>> /\ call' = call /\ cut' = cut
        /\ phase \in {"stopped", "replacing"}
    BY <1>7 DEF StartWithReload, memory
  <2>3. Quiet
    BY <2>2, QuietOutside
  <2>4. QED
    BY <2>1, <2>2, <2>3, <1>5
<1>8. ASSUME StartUnchanged PROVE Live'
  <2>1. Built'
    BY <1>1, <1>8, StartsKeep
  <2>2. UNCHANGED <<lists, stats, heap, owner>> /\ call' = call /\ cut' = cut
        /\ phase = "stopped"
    BY <1>8 DEF StartUnchanged, memory
  <2>3. Quiet
    BY <2>2, QuietOutside
  <2>4. QED
    BY <2>1, <2>2, <2>3, <1>5
<1>9. ASSUME Match PROVE Live'
  <2>1. Built' /\ Home' = Home /\ UNCHANGED <<stats, heap, call, owner, cut>>
    BY <1>1, <1>9, MatchKeeps, MatchMoves DEF memory
  <2>2. Newly' = Newly /\ Made' = Made
    BY <1>1, <1>9, MatchMoves DEF MatchesNone, MatchesOne, lists, Newly, Made
  <2>3. Quiet
    BY <1>9, QuietOutside DEF Match
  <2>4. Fresh'
    BY <2>1, <2>2, <1>1, <1>3, FreshAs
  <2>5. QED
    BY <2>1, <2>3, <2>4, <1>4 DEF Live
<1>10. ASSUME MatchDone PROVE Live'
  <2>1. Built' /\ Home' = Home
    BY <1>1, <1>10, MatchDoneKeeps
  <2>2. Newly' = Newly /\ Made' = Made /\ UNCHANGED <<stats, heap, call, owner, cut>>
    BY <1>10 DEF MatchDone, Newly, Made, memory
  <2>3. Quiet
    BY <1>10, QuietOutside DEF MatchDone
  <2>4. Fresh'
    BY <2>2, <1>1, <1>3, FreshAs
  <2>5. QED
    BY <2>1, <2>2, <2>3, <2>4, <1>4 DEF Live
<1>11. ASSUME DestroyDoomed PROVE Live'
  <2>1. Built' /\ Home' = Home \ Going
    BY <1>1, <1>11, DestroyDoomedKeeps
  <2>2. /\ Quiet /\ stats' = Release(Released(Going)) /\ owner' = Orphaned(Going)
        /\ Newly' = Newly /\ Made' = Made /\ UNCHANGED <<heap, call, cut>>
    BY <1>11 DEF DestroyDoomed, Newly, Made, Going
  <2>3. \A s \in Slots : stats'[s].map = stats[s].map
    BY <2>2, <1>2, Releasing DEF RestTyped
  <2>4. Fresh'
    BY <2>2, <2>3, <1>1, <1>3, FreshAs
  <2>5. \A x \in Ptrs : owner'[x] = IF \E c \in Going : c.id = owner[x] THEN Nobody ELSE owner[x]
    BY <2>2 DEF Orphaned
  <2>6. Going \subseteq Containers /\ Home \subseteq Containers
    BY PlacesOf DEF Home, Loaded, Kept, Going
  <2>7. \A c \in Home', d \in Going : c.id # d.id
    BY <2>1, <2>6, <1>2 DEF Keyed
  <2>8. \A c \in Home' : c.id # Nobody
    BY <2>1, <1>1, <1>2, Elements DEF Built, VectorsFine, Home, Container
  <2>9. \A c \in Home', x \in Ptrs : owner'[x] = c.id <=> owner[x] = c.id
    BY <2>5, <2>7, <2>8
  <2>10. ASSUME NEW x \in Ptrs, owner'[x] # Nobody
         PROVE  owner'[x] = owner[x] /\ \E c \in Home' : c.id = owner[x]
    <3>1. owner'[x] = owner[x] /\ ~\E c \in Going : c.id = owner[x]
      BY <2>5, <2>10
    <3>2. PICK c \in Home : c.id = owner[x]
      BY <3>1, <2>10, <1>1 DEF Owned
    <3>3. QED
      BY <3>1, <3>2, <2>1
  <2>11. Owned' /\ (\A t \in Threads : InThunk(t)') /\ AllEntries'
    BY <2>1, <2>2, <2>3, <2>9, <2>10, EntriesStay
  <2>12. QED
    BY <2>1, <2>4, <2>11 DEF Live
<1>12. ASSUME NEW id \in Ids, LoadPlugin(id) PROVE Live'
  <2>1. PICK c : Builds(c)
    BY <1>1, <1>12, LoadPluginBuilds
  <2>2. Built' /\ Home' = Home /\ Made' = Made \cup {c}
    BY <2>1, <1>1, <1>12, LoadPluginKeeps
  <2>3. phase = "loading" /\ Newly' = Newly /\ UNCHANGED <<heap, call, owner, cut>>
    BY <1>12 DEF LoadPlugin, Newly, memory
  <2>4. Quiet
    BY <2>3, QuietOutside
  <2>5. \A d \in Containers : d.opt \in Slots => stats'[d.opt] = stats[d.opt]
    <3>1. \A d \in Containers : d.opt \in Slots => stats[d.opt].inUse
      BY <1>2 DEF OneOwner
    <3>2. QED
      BY <3>1, <2>1 DEF Builds
  <2>6. c.opt \in Slots => stats'[c.opt] = Blank
    BY <2>1 DEF Builds
  <2>7. Fresh'
    BY <2>2, <2>3, <2>5, <2>6, <1>1, <1>3, FreshAs, PlacesOf
  <2>8. \A d \in Home : d.opt \in Slots => stats'[d.opt].map = stats[d.opt].map
    BY <2>5, <1>1, HomeApart
  <2>9. QED
    BY <2>2, <2>3, <2>4, <2>7, <2>8, <1>4 DEF Live
<1>13. ASSUME LoadDone PROVE Live'
  <2>1. /\ Built' /\ Home' = Home /\ Newly' = Made /\ Made' = {}
        /\ stats' = Release(Released(Newly))
    BY <1>1, <1>13, LoadDoneKeeps
  <2>2. phase = "loading" /\ UNCHANGED <<heap, call, owner, cut>>
    BY <1>13 DEF LoadDone, memory
  <2>3. Quiet
    BY <2>2, QuietOutside
  <2>4. \A s \in Slots : stats'[s].map = stats[s].map
    BY <2>1, <1>2, Releasing DEF RestTyped
  <2>5. Fresh'
    BY <2>1, <2>4, <1>1, <1>3, FreshAs
  <2>6. QED
    BY <2>1, <2>2, <2>3, <2>4, <2>5, <1>4 DEF Live
<1>14. ASSUME StartApplication PROVE Live'
  <2>1. /\ Built' /\ stats' = stats /\ Home = Loaded /\ Made' = {} /\ Newly' = {}
        /\ Home' = {Resolved(c) : c \in Loaded \cup Newly}
        /\ Loaded \cup Newly \subseteq Container
    BY <1>1, <1>14, StartApplicationKeeps
  <2>2. phase = "linking" /\ UNCHANGED <<heap, call, owner, cut>>
    BY <1>14 DEF StartApplication, memory
  <2>3. Quiet
    BY <2>2, QuietOutside
  <2>4. Fresh'
    BY <2>1, <1>3
  <2>5. \A t \in Threads : InThunk(t)'
    BY <2>2, <2>3 DEF Quiet, InThunk
  <2>6. \A c \in Loaded \cup Newly : /\ Resolved(c) \in Home'
                                     /\ Resolved(c).id = c.id /\ Resolved(c).opt = c.opt
    BY <2>1, ResolvedType
  <2>7. Owned'
    BY <2>1, <2>2, <2>6, <1>1 DEF Owned
  <2>8. ASSUME NEW d \in Home', d.opt \in Slots PROVE HasEntries(d)'
    <3>1. PICK c \in Loaded \cup Newly : d = Resolved(c)
      BY <2>1
    <3>2. d.id = c.id /\ d.opt = c.opt
      BY <3>1, <2>6
    <3>3. HasEntries(c)
      <4>1. CASE c \in Loaded
        BY <4>1, <3>2, <2>1, <2>8, <1>1 DEF AllEntries
      <4>2. CASE c \in Newly
        <5>1. stats[c.opt].map = Blank.map
          BY <4>2, <3>2, <2>8, <1>1, FreshAs
        <5>2. DOMAIN stats[c.opt].map = {}
          BY <5>1 DEF Blank
        <5>3. ASSUME NEW x \in Ptrs PROVE owner[x] # c.id
          <6>1. c \in Containers /\ c \notin Home /\ Home \subseteq Containers
            BY <4>2, <1>1, HomeApart DEF Disjoint
          <6>2. \A e \in Home : e.id # c.id
            BY <6>1, <1>2 DEF Keyed
          <6>3. c.id # Nobody
            BY <2>1, <1>2 DEF Container
          <6>4. QED
            BY <6>2, <6>3, <1>1 DEF Owned
        <5>4. QED
          BY <5>2, <5>3 DEF HasEntries
      <4>3. QED
        BY <4>1, <4>2
    <3>4. \A x : Pending(x)' <=> Pending(x)
      BY <2>2 DEF Pending
    <3>5. QED
      BY <3>2, <3>3, <3>4, <2>1, <2>2 DEF HasEntries
  <2>9. AllEntries'
    BY <2>8 DEF AllEntries, Slots
  <2>10. QED
    BY <2>1, <2>4, <2>5, <2>7, <2>9 DEF Live
<1>15. ASSUME ApplicationEnds PROVE Live'
  <2>1. Built'
    BY <1>1, <1>15, StartsKeep
  <2>2. /\ UNCHANGED <<lists, stats, mutex, heap, owner>>
        /\ \A t \in Threads : call'[t] = Idle
        /\ \A t \in Threads : call[t].at # "freeing"
        /\ cut' = cut \cup {call[t].ptr : t \in {u \in Threads : call[u].at = "record"}}
    BY <1>15 DEF ApplicationEnds
  <2>3. Home' = Home /\ Newly' = Newly /\ Made' = Made
    BY <2>2 DEF Home, Newly, Made, lists
  <2>4. Fresh'
    BY <2>2, <2>3, <1>1, <1>3, FreshAs
  <2>5. Owned'
    BY <2>2, <2>3, <1>1 DEF Owned
  <2>6. \A t \in Threads : InThunk(t)'
    BY <2>2 DEF InThunk, Idle
  <2>7. \A x : ~Pending(x)'
    BY <2>2 DEF Pending, Idle
  <2>8. \A x : x \in cut' <=> x \in cut \/ Pending(x)
    <3>1. \A t \in Threads : call[t].at # "out" <=> call[t].at = "record"
      BY <2>2, <1>2 DEF RestTyped, Call
    <3>2. QED
      BY <2>2, <3>1 DEF Pending
  <2>9. ASSUME NEW c \in Home', c.opt \in Slots PROVE HasEntries(c)'
    <3>1. HasEntries(c)
      BY <2>3, <2>9, <1>1 DEF AllEntries
    <3>2. QED
      BY <3>1, <2>2, <2>7, <2>8 DEF HasEntries
  <2>10. AllEntries'
    BY <2>9 DEF AllEntries, Slots
  <2>11. QED
    BY <2>1, <2>4, <2>5, <2>6, <2>10 DEF Live
<1>16. QED
  BY <1>6, <1>7, <1>8, <1>9, <1>10, <1>11, <1>12, <1>13, <1>14, <1>15 DEF Loader

\* Threads other than t are where they were, or t is in no thunk.
LEMMA PendingOfOthers ==
    ASSUME Built, NEW t \in Threads, NEW k \in Call, call' = [call EXCEPT ![t] = k]
    PROVE  /\ call'[t] = k /\ \A u \in Threads \ {t} : call'[u] = call[u]
           /\ \A x : Pending(x)' <=> \/ k.at # "out" /\ k.ptr = x
                                     \/ \E u \in Threads \ {t} : call[u].at # "out" /\ call[u].ptr = x
<1>1. call'[t] = k /\ \A u \in Threads \ {t} : call'[u] = call[u]
  BY DEF Built, RestTyped
<1>2. QED
  BY <1>1 DEF Pending

\* The container of the thread that is in a thunk.
LEMMA CallerOf ==
    ASSUME Live, NEW t \in Threads, call[t].at # "out"
    PROVE  /\ \E c \in Running : c.id = owner[call[t].ptr] /\ c.opt = call[t].thunk
           /\ \A c \in Home : c.id = owner[call[t].ptr] => c.opt = call[t].thunk
           /\ \A c \in Containers : c.opt = call[t].thunk => c \in Home /\ c.id = owner[call[t].ptr]
           /\ stats[call[t].thunk].inUse
<1>1. PICK c \in Running : c.id = owner[call[t].ptr] /\ c.opt = call[t].thunk
  BY DEF Live, InThunk
<1>2. c \in Home /\ c \in Containers /\ Home \subseteq Containers /\ call[t].thunk \in Slots
  BY RunningIsHome, HomeApart DEF Live, Built, Called
<1>3. \A d \in Containers : d.id = c.id \/ d.opt = c.opt => d = c
  BY <1>1, <1>2 DEF Live, Built, Keyed, OneOwner
<1>4. QED
  BY <1>1, <1>2, <1>3 DEF Live, Built, OneOwner

LEMMA ThunkPlaces ==
    ASSUME UNCHANGED <<phase, lists>>
    PROVE  /\ Home' = Home /\ Newly' = Newly /\ Made' = Made /\ Running' = Running
           /\ Containers' = Containers
  BY DEF lists, Home, Newly, Made, Running, Containers, Vectors

LEMMA RecordLive ==
    ASSUME Live, NEW t \in Threads, Record(t)
    PROVE  Fresh' /\ Owned' /\ (\A u \in Threads : InThunk(u)') /\ AllEntries'
<1> SUFFICES ASSUME NEW s, s = call[t].thunk, NEW x, x = call[t].ptr
             PROVE  Fresh' /\ Owned' /\ (\A u \in Threads : InThunk(u)') /\ AllEntries'
  OBVIOUS
<1>1. Built /\ Fresh /\ Owned /\ (\A u \in Threads : InThunk(u)) /\ AllEntries
  BY DEF Live
<1>2. /\ call[t].at = "record" /\ call' = [call EXCEPT ![t] = Idle]
      /\ UNCHANGED <<phase, lists, heap, owner, cut>>
  BY DEF Record
<1>3. s \in Slots /\ x \in Ptrs /\ x \notin cut /\ call[t].size = heap[x]
  BY <1>1, <1>2 DEF Built, Called, InThunk
<1>4. /\ \A c \in Containers : c.opt = s => c \in Home /\ c.id = owner[x]
      /\ \A c \in Home : c.id = owner[x] => c.opt = s
      /\ OnlyMap(s, WithEntry(stats[s].map, x, heap[x]))
  BY <1>1, <1>2, <1>3, CallerOf, RecordEnters
<1>5. /\ Home' = Home /\ Newly' = Newly /\ Made' = Made /\ Running' = Running
  BY <1>2, ThunkPlaces
<1>6. /\ call'[t] = Idle /\ \A u \in Threads \ {t} : call'[u] = call[u]
      /\ \A y : Pending(y)' <=> \E u \in Threads \ {t} : call[u].at # "out" /\ call[u].ptr = y
      /\ Idle.at = "out"
  <2>1. Idle \in Call /\ Idle.at = "out"
    BY DEF Idle, Call
  <2>2. QED
    BY <2>1, <1>1, <1>2, PendingOfOthers
<1>7. ~Pending(x)' /\ \A y : y # x => (Pending(y)' <=> Pending(y))
  <2>1. \A u \in Threads \ {t} : call[u].at # "out" => call[u].ptr # x
    BY <1>1, <1>2 DEF InThunk
  <2>2. QED
    BY <2>1, <1>6 DEF Pending
<1>8. Fresh'
  <2>1. \A c \in Newly \cup Made : c.opt # s
    BY <1>1, <1>4, HomeApart DEF Disjoint
  <2>2. \A c \in Newly \cup Made : c.opt \in Slots => stats'[c.opt].map = Blank.map
    BY <2>1, <1>1, <1>4, FreshAs DEF OnlyMap
  <2>3. QED
    BY <2>2, <1>5, FreshNext
<1>9. Owned'
  BY <1>1, <1>2, <1>5 DEF Owned
<1>10. \A u \in Threads : InThunk(u)'
  BY <1>1, <1>2, <1>5, <1>6 DEF InThunk
<1>11. ASSUME NEW c \in Home, c.opt \in Slots PROVE HasEntries(c)'
  <2>1. HasEntries(c)
    BY <1>1, <1>11 DEF AllEntries
  <2>2. CASE c.opt = s
    <3>1. stats'[c.opt].map = WithEntry(stats[c.opt].map, x, heap[x])
      BY <2>2, <1>4 DEF OnlyMap
    <3>2. c.id = owner[x]
      BY <2>2, <1>1, <1>4, HomeApart
    <3>3. /\ DOMAIN stats'[c.opt].map = DOMAIN stats[c.opt].map \cup {x}
          /\ \A y \in DOMAIN stats'[c.opt].map :
                stats'[c.opt].map[y] = IF y = x THEN heap[x] ELSE stats[c.opt].map[y]
      BY <3>1 DEF WithEntry
    <3>4. \A y \in Ptrs : y \in DOMAIN stats'[c.opt].map
                            <=> owner[y] = c.id /\ y \notin cut /\ ~Pending(y)'
      BY <2>1, <3>2, <3>3, <1>3, <1>7 DEF HasEntries
    <3>5. \A y \in DOMAIN stats'[c.opt].map : stats'[c.opt].map[y] = heap[y]
      BY <2>1, <3>3 DEF HasEntries
    <3>6. DOMAIN stats'[c.opt].map \subseteq Ptrs
      BY <2>1, <3>3, <1>3 DEF HasEntries
    <3>7. QED
      BY <3>4, <3>5, <3>6, <1>2 DEF HasEntries
  <2>3. CASE c.opt # s
    <3>1. stats'[c.opt] = stats[c.opt]
      BY <2>3, <1>4, <1>11 DEF OnlyMap
    <3>2. c.id # owner[x]
      BY <2>3, <1>4
    <3>3. QED
      BY <2>1, <3>1, <3>2, <1>2, <1>7 DEF HasEntries
  <2>4. QED
    BY <2>2, <2>3
<1>12. AllEntries'
  BY <1>5, <1>11 DEF AllEntries, Slots
<1>13. QED
  BY <1>8, <1>9, <1>10, <1>12

LEMMA FreeMemoryLive ==
    ASSUME Live, NEW t \in Threads, FreeMemory(t)
    PROVE  Fresh' /\ Owned' /\ (\A u \in Threads : InThunk(u)') /\ AllEntries'
<1> DEFINE x == call[t].ptr
<1>1. Built /\ Fresh /\ Owned /\ (\A u \in Threads : InThunk(u)) /\ AllEntries
      /\ Nobody \notin Ids
  BY TrackingAssumption DEF Live
<1>2. /\ call[t].at = "freeing" /\ call' = [call EXCEPT ![t] = Idle]
      /\ heap' = [heap EXCEPT ![x] = 0] /\ owner' = [owner EXCEPT ![x] = Nobody]
      /\ cut' = cut \ {x}
      /\ UNCHANGED <<phase, lists, stats>>
  BY DEF FreeMemory
<1>3. x \in Ptrs /\ \A u \in Threads \ {t} : call[u].at # "out" => call[u].ptr # x
  BY <1>1, <1>2 DEF Built, Called, InThunk
<1>4. /\ Home' = Home /\ Newly' = Newly /\ Made' = Made /\ Running' = Running
  BY <1>2, ThunkPlaces
<1>5. /\ call'[t] = Idle /\ \A u \in Threads \ {t} : call'[u] = call[u]
      /\ \A y : Pending(y)' <=> \E u \in Threads \ {t} : call[u].at # "out" /\ call[u].ptr = y
      /\ Idle.at = "out"
  <2>1. Idle \in Call /\ Idle.at = "out"
    BY DEF Idle, Call
  <2>2. QED
    BY <2>1, <1>1, <1>2, PendingOfOthers
<1>6. \A y : y # x => (Pending(y)' <=> Pending(y))
  BY <1>5 DEF Pending
<1>7. Pending(x)
  BY <1>2 DEF Pending
<1> HIDE DEF x
<1>8. /\ heap \in [Ptrs -> Sizes \cup {0}] /\ owner \in [Ptrs -> Ids \cup {Nobody}]
      /\ \A y \in Ptrs \ {x} : heap'[y] = heap[y] /\ owner'[y] = owner[y]
      /\ owner'[x] = Nobody
  BY <1>1, <1>2, <1>3 DEF Built, RestTyped
<1>9. Fresh'
  BY <1>1, <1>2, <1>4, ThunkPlaces DEF Fresh, Newly, Made, Slots
<1>10. Owned'
  BY <1>1, <1>4, <1>8 DEF Owned
<1>11. \A u \in Threads : InThunk(u)'
  <2> SUFFICES ASSUME NEW u \in Threads, u # t PROVE InThunk(u)'
    BY <1>5 DEF InThunk
  <2>1. call'[u] = call[u] /\ (call[u].at # "out" => call[u].ptr \in Ptrs \ {x})
    BY <1>1, <1>3, <1>5 DEF Built, Called
  <2>2. QED
    BY <2>1, <1>1, <1>2, <1>4, <1>5, <1>8 DEF InThunk
<1>12. ASSUME NEW c \in Home, c.opt \in Slots PROVE HasEntries(c)'
  <2>1. HasEntries(c) /\ c.id \in Ids
    BY <1>1, <1>12, Elements DEF AllEntries, Built, VectorsFine, Home, Container
  <2>2. x \notin DOMAIN stats[c.opt].map
    BY <2>1, <1>3, <1>7 DEF HasEntries
  <2>3. \A y \in Ptrs : y \in DOMAIN stats[c.opt].map
                          <=> owner'[y] = c.id /\ y \notin cut' /\ ~Pending(y)'
    BY <2>1, <2>2, <1>1, <1>2, <1>6, <1>8 DEF HasEntries
  <2>4. \A y \in DOMAIN stats[c.opt].map : stats[c.opt].map[y] = heap'[y]
    BY <2>1, <2>2, <1>8 DEF HasEntries
  <2>5. QED
    BY <2>1, <2>3, <2>4, <1>2 DEF HasEntries
<1>13. AllEntries'
  BY <1>4, <1>12 DEF AllEntries, Slots
<1>14. QED
  BY <1>9, <1>10, <1>11, <1>13

LEMMA FreeEntryLive ==
    ASSUME Live, NEW t \in Threads, NEW c \in Running, NEW x \in Ptrs, FreeEntry(t, c, x)
    PROVE  Fresh' /\ Owned' /\ (\A u \in Threads : InThunk(u)') /\ AllEntries'
<1> DEFINE s == c.thunk
           k == [at |-> "freeing", thunk |-> s, ptr |-> x, size |-> 0]
<1>1. Built /\ Fresh /\ Owned /\ (\A u \in Threads : InThunk(u)) /\ AllEntries
  BY DEF Live
<1>2. /\ call[t].at = "out" /\ call' = [call EXCEPT ![t] = k] /\ owner[x] = c.id
      /\ \A u \in Threads : call[u].at # "out" => call[u].ptr # x
      /\ UNCHANGED <<phase, lists, heap, owner, cut>>
  BY DEF FreeEntry
<1>3. /\ s \in Slots /\ c.opt = s
      /\ IF stats[s].inUse /\ x \in DOMAIN stats[s].map
         THEN OnlyMap(s, Restrict(stats[s].map, DOMAIN stats[s].map \ {x}))
         ELSE stats' = stats
  BY <1>1, FreeEntryErases
<1>4. c \in Home /\ c \in Containers /\ Home \subseteq Containers
  BY <1>1, RunningIsHome, HomeApart
<1>5. /\ \A d \in Containers : d.opt = s => d = c
      /\ \A d \in Home : d.id = owner[x] => d = c
      /\ stats[s].inUse
  BY <1>1, <1>2, <1>3, <1>4 DEF Built, OneOwner, Keyed
<1>6. /\ \A r \in Slots \ {s} : stats'[r] = stats[r]
      /\ DOMAIN stats'[s].map = DOMAIN stats[s].map \ {x}
      /\ \A y \in DOMAIN stats'[s].map : stats'[s].map[y] = stats[s].map[y]
  BY <1>3, <1>5 DEF OnlyMap, Restrict
<1>7. k \in Call /\ k.at = "freeing" /\ k.ptr = x /\ k.thunk = s
  BY <1>3 DEF Call
<1> HIDE DEF k, s
<1>8. /\ Home' = Home /\ Newly' = Newly /\ Made' = Made /\ Running' = Running
  BY <1>2, ThunkPlaces
<1>9. /\ call'[t] = k /\ \A u \in Threads \ {t} : call'[u] = call[u]
      /\ Pending(x)' /\ \A y : y # x => (Pending(y)' <=> Pending(y))
  <2>1. \A y : Pending(y) <=> \E u \in Threads \ {t} : call[u].at # "out" /\ call[u].ptr = y
    BY <1>2 DEF Pending
  <2>2. /\ call'[t] = k /\ \A u \in Threads \ {t} : call'[u] = call[u]
        /\ \A y : Pending(y)' <=> x = y \/ Pending(y)
    <3>1. \A y : Pending(y)' <=> \/ k.at # "out" /\ k.ptr = y
                                \/ \E u \in Threads \ {t} : call[u].at # "out" /\ call[u].ptr = y
      BY <1>1, <1>2, <1>7, PendingOfOthers
    <3>2. \A y : Pending(y)' <=> (k.at # "out" /\ k.ptr = y) \/ Pending(y)
      BY <2>1, <3>1
    <3>3. call'[t] = k /\ \A u \in Threads \ {t} : call'[u] = call[u]
      BY <1>1, <1>2, <1>7, PendingOfOthers
    <3>4. QED
      BY <3>2, <3>3, <1>7
  <2>3. QED
    BY <2>2
<1>10. phase \in {"running", "deinit"}
  BY DEF Running
<1>11. Fresh'
  <2>1. \A d \in Newly \cup Made : d.opt # s
    BY <1>1, <1>4, <1>5, HomeApart DEF Disjoint
  <2>2. \A d \in Newly \cup Made : d.opt \in Slots => stats'[d.opt].map = Blank.map
    BY <2>1, <1>1, <1>6, FreshAs
  <2>3. QED
    BY <2>2, <1>8, FreshNext
<1>12. Owned'
  BY <1>1, <1>2, <1>8 DEF Owned
<1>13. \A u \in Threads : InThunk(u)'
  <2>1. InThunk(t)'
    BY <1>2, <1>3, <1>7, <1>8, <1>9, <1>10 DEF InThunk
  <2>2. ASSUME NEW u \in Threads \ {t} PROVE InThunk(u)'
    BY <1>1, <1>2, <1>7, <1>8, <1>9 DEF InThunk
  <2>3. QED
    BY <2>1, <2>2
<1>14. ASSUME NEW d \in Home, d.opt \in Slots PROVE HasEntries(d)'
  <2>1. HasEntries(d)
    BY <1>1, <1>14 DEF AllEntries
  <2>2. CASE d = c
    BY <2>1, <2>2, <1>2, <1>3, <1>6, <1>9 DEF HasEntries
  <2>3. CASE d # c
    <3>1. stats'[d.opt] = stats[d.opt] /\ d.id # owner[x]
      BY <2>3, <1>4, <1>5, <1>6, <1>14
    <3>2. QED
      BY <2>1, <3>1, <1>2, <1>9 DEF HasEntries
  <2>4. QED
    BY <2>2, <2>3
<1>15. AllEntries'
  BY <1>8, <1>14 DEF AllEntries, Slots
<1>16. QED
  BY <1>11, <1>12, <1>13, <1>15

LEMMA FreeDefaultLive ==
    ASSUME Live, NEW t \in Threads, NEW c \in Running, NEW x \in Ptrs, FreeDefault(t, c, x)
    PROVE  Fresh' /\ Owned' /\ (\A u \in Threads : InThunk(u)') /\ AllEntries'
<1>1. Built /\ Fresh /\ Owned /\ (\A u \in Threads : InThunk(u)) /\ AllEntries
      /\ Nobody \notin Ids
  BY TrackingAssumption DEF Live
<1>2. /\ owner[x] = c.id /\ c.thunk = Default
      /\ heap' = [heap EXCEPT ![x] = 0] /\ owner' = [owner EXCEPT ![x] = Nobody]
      /\ cut' = cut \ {x}
      /\ UNCHANGED <<phase, lists, stats, call>>
  BY DEF FreeDefault
<1>3. /\ \A y \in Ptrs \ {x} : heap'[y] = heap[y] /\ owner'[y] = owner[y]
      /\ owner'[x] = Nobody
  BY <1>1, <1>2 DEF Built, RestTyped
<1>4. c \in Home /\ c.opt \notin Slots /\ Home \subseteq Containers
  BY <1>1, <1>2, RunningIsHome, HomeApart
<1>5. \A d \in Home : d.id = owner[x] => d = c
  BY <1>1, <1>2, <1>4 DEF Built, Keyed
<1>6. /\ Home' = Home /\ Newly' = Newly /\ Made' = Made /\ Running' = Running
  BY <1>2, ThunkPlaces
<1>7. \A u \in Threads : call[u].at # "out" => call[u].ptr \in Ptrs \ {x}
  <2> SUFFICES ASSUME NEW u \in Threads, call[u].at # "out", call[u].ptr = x PROVE FALSE
    BY <1>1 DEF Built, Called
  <2>1. PICK d \in Running : d.id = owner[x] /\ d.opt = call[u].thunk
    BY <1>1 DEF InThunk
  <2>2. d = c /\ call[u].thunk \in Slots
    BY <2>1, <1>1, <1>5, RunningIsHome DEF Built, Called
  <2>3. QED
    BY <2>1, <2>2, <1>4
<1>8. \A y : Pending(y)' <=> Pending(y)
  BY <1>2 DEF Pending
<1>9. Fresh'
  BY <1>1, <1>2, <1>6 DEF Fresh, Newly, Made, Slots
<1>10. Owned'
  BY <1>1, <1>3, <1>6 DEF Owned
<1>11. \A u \in Threads : InThunk(u)'
  BY <1>1, <1>2, <1>3, <1>6, <1>7 DEF InThunk
<1>12. ASSUME NEW d \in Home, d.opt \in Slots PROVE HasEntries(d)'
  <2>1. HasEntries(d) /\ d.id \in Ids
    BY <1>1, <1>12, Elements DEF AllEntries, Built, VectorsFine, Home, Container
  <2>2. owner[x] # d.id
    BY <1>4, <1>5, <1>12
  <2>3. \A y \in Ptrs : y \in DOMAIN stats[d.opt].map
                          <=> owner'[y] = d.id /\ y \notin cut' /\ ~Pending(y)'
    BY <2>1, <2>2, <1>1, <1>2, <1>3, <1>8 DEF HasEntries
  <2>4. \A y \in DOMAIN stats[d.opt].map : stats[d.opt].map[y] = heap'[y]
    BY <2>1, <2>2, <1>3 DEF HasEntries
  <2>5. QED
    BY <2>1, <2>3, <2>4, <1>2 DEF HasEntries
<1>13. AllEntries'
  BY <1>6, <1>12 DEF AllEntries, Slots
<1>14. QED
  BY <1>9, <1>10, <1>11, <1>13

LEMMA AllocLive ==
    ASSUME Live, NEW t \in Threads, NEW c \in Running, NEW x \in Ptrs, NEW n \in Sizes,
           Alloc(t, c, x, n)
    PROVE  Fresh' /\ Owned' /\ (\A u \in Threads : InThunk(u)') /\ AllEntries'
<1> DEFINE k == [at |-> "record", thunk |-> c.thunk, ptr |-> x, size |-> n]
<1>1. Built /\ Fresh /\ Owned /\ (\A u \in Threads : InThunk(u)) /\ AllEntries
      /\ Nobody \notin Ids
  BY TrackingAssumption DEF Live
<1>2. /\ call[t].at = "out" /\ heap[x] = 0
      /\ heap' = [heap EXCEPT ![x] = n] /\ owner' = [owner EXCEPT ![x] = c.id]
      /\ cut' = cut \ {x}
      /\ call' = IF c.thunk = Default THEN call ELSE [call EXCEPT ![t] = k]
      /\ UNCHANGED <<phase, lists, stats>>
  BY DEF Alloc
<1>3. /\ \A y \in Ptrs \ {x} : heap'[y] = heap[y] /\ owner'[y] = owner[y]
      /\ owner'[x] = c.id /\ heap'[x] = n /\ n # 0
      /\ owner[x] = Nobody
  <2>1. owner[x] = Nobody
    BY <1>1, <1>2 DEF Owned
  <2>2. n # 0
    BY TrackingAssumption
  <2>3. QED
    BY <2>1, <2>2, <1>1, <1>2 DEF Built, RestTyped
<1>4. /\ c \in Home /\ Home \subseteq Containers
      /\ c.thunk # Default => c.thunk \in Slots /\ c.opt = c.thunk
      /\ c.thunk = Default => c.opt \notin Slots
  BY <1>1, RunningIsHome, HomeApart
<1>5. \A d \in Home : d.id \in Ids /\ (d.id = c.id => d = c)
  BY <1>1, <1>4, Elements DEF Built, Keyed, VectorsFine, Home, Container
<1>6. /\ Home' = Home /\ Newly' = Newly /\ Made' = Made /\ Running' = Running
  BY <1>2, ThunkPlaces
<1>7. \A u \in Threads : call[u].at # "out" => call[u].ptr \in Ptrs \ {x}
  <2>1. \A u \in Threads : call[u].at # "out" => call[u].ptr \in Ptrs /\ owner[call[u].ptr] \in Ids
    BY <1>1, <1>5, RunningIsHome DEF InThunk, Built, Called
  <2>2. QED
    BY <2>1, <1>1, <1>3
<1>8. phase \in {"running", "deinit"}
  BY DEF Running
<1>9. CASE c.thunk = Default
  <2>1. call' = call /\ \A y : Pending(y)' <=> Pending(y)
    BY <1>2, <1>9 DEF Pending
  <2>2. \A u \in Threads : InThunk(u)'
    BY <2>1, <1>1, <1>2, <1>3, <1>6, <1>7 DEF InThunk
  <2>3. ASSUME NEW d \in Home, d.opt \in Slots PROVE HasEntries(d)'
    <3>1. HasEntries(d) /\ d.id # c.id
      BY <2>3, <1>1, <1>4, <1>5, <1>9 DEF AllEntries
    <3>2. \A y \in Ptrs : y \in DOMAIN stats[d.opt].map
                            <=> owner'[y] = d.id /\ y \notin cut' /\ ~Pending(y)'
      BY <2>1, <2>3, <3>1, <1>1, <1>2, <1>3, <1>5 DEF HasEntries
    <3>3. x \notin DOMAIN stats[d.opt].map
      BY <3>1, <1>1, <1>3, <1>5 DEF HasEntries
    <3>4. \A y \in DOMAIN stats[d.opt].map : stats[d.opt].map[y] = heap'[y]
      BY <3>1, <3>3, <1>3 DEF HasEntries
    <3>5. QED
      BY <3>1, <3>2, <3>4, <1>2 DEF HasEntries
  <2>4. AllEntries'
    BY <2>3, <1>6 DEF AllEntries, Slots
  <2>5. Fresh' /\ Owned'
    BY <1>1, <1>2, <1>3, <1>4, <1>6 DEF Fresh, Newly, Made, Slots, Owned
  <2>6. QED
    BY <2>2, <2>4, <2>5
<1>10. CASE c.thunk # Default
  <2>1. k \in Call /\ k.at = "record" /\ k.ptr = x /\ k.thunk = c.thunk /\ k.size = n
    BY <1>4, <1>10 DEF Call
  <2> HIDE DEF k
  <2>2. /\ call'[t] = k /\ \A u \in Threads \ {t} : call'[u] = call[u]
        /\ \A y : Pending(y)' <=> x = y \/ Pending(y)
    <3>1. /\ call'[t] = k /\ \A u \in Threads \ {t} : call'[u] = call[u]
          /\ \A y : Pending(y)' <=> \/ k.at # "out" /\ k.ptr = y
                                    \/ \E u \in Threads \ {t} : call[u].at # "out" /\ call[u].ptr = y
      BY <2>1, <1>1, <1>2, <1>10, PendingOfOthers
    <3>2. \A y : Pending(y) <=> \E u \in Threads \ {t} : call[u].at # "out" /\ call[u].ptr = y
      BY <1>2 DEF Pending
    <3>3. \A y : Pending(y)' <=> (k.at # "out" /\ k.ptr = y) \/ Pending(y)
      BY <3>1, <3>2
    <3>4. QED
      BY <3>1, <3>3, <2>1
  <2>3. \A u \in Threads : InThunk(u)'
    <3>1. InThunk(t)'
      BY <2>1, <2>2, <1>2, <1>3, <1>4, <1>6, <1>7, <1>8, <1>10 DEF InThunk
    <3>2. ASSUME NEW u \in Threads \ {t} PROVE InThunk(u)'
      BY <2>1, <2>2, <1>1, <1>2, <1>3, <1>6, <1>7 DEF InThunk
    <3>3. QED
      BY <3>1, <3>2
  <2>4. ASSUME NEW d \in Home, d.opt \in Slots PROVE HasEntries(d)'
    <3>1. HasEntries(d)
      BY <2>4, <1>1 DEF AllEntries
    <3>2. x \notin DOMAIN stats[d.opt].map
      BY <3>1, <2>4, <1>1, <1>3, <1>5 DEF HasEntries
    <3>3. \A y \in Ptrs : y \in DOMAIN stats[d.opt].map
                            <=> owner'[y] = d.id /\ y \notin cut' /\ ~Pending(y)'
      BY <2>2, <3>1, <3>2, <1>2, <1>3 DEF HasEntries
    <3>4. \A y \in DOMAIN stats[d.opt].map : stats[d.opt].map[y] = heap'[y]
      BY <3>1, <3>2, <1>3 DEF HasEntries
    <3>5. QED
      BY <3>1, <3>3, <3>4, <1>2 DEF HasEntries
  <2>5. AllEntries'
    BY <2>4, <1>6 DEF AllEntries, Slots
  <2>6. Fresh' /\ Owned'
    BY <1>1, <1>2, <1>3, <1>4, <1>6 DEF Fresh, Newly, Made, Slots, Owned
  <2>7. QED
    BY <2>3, <2>5, <2>6
<1>11. QED
  BY <1>9, <1>10

LEMMA ThunkLive ==
    ASSUME Live, Thunk
    PROVE  Live'
<1>1. Built'
  BY ThunkKeeps DEF Live
<1>2. PICK t \in Threads :
          \/ Record(t) \/ FreeMemory(t)
          \/ \E c \in Running, x \in Ptrs :
                \/ FreeEntry(t, c, x) \/ FreeDefault(t, c, x)
                \/ \E n \in Sizes : Alloc(t, c, x, n)
  BY DEF Thunk
<1>3. Fresh' /\ Owned' /\ (\A u \in Threads : InThunk(u)') /\ AllEntries'
  BY <1>2, RecordLive, FreeMemoryLive, FreeEntryLive, FreeDefaultLive, AllocLive
<1>4. QED
  BY <1>1, <1>3 DEF Live

LEMMA StutterLive ==
    ASSUME Live, UNCHANGED vars
    PROVE  Live'
<1>1. UNCHANGED <<phase, lists, stats, heap, call, owner, cut>>
  BY DEF vars, memory
<1>2. Built'
  BY StutterHeap DEF Live
<1>3. Home' = Home /\ Newly' = Newly /\ Made' = Made /\ Running' = Running
  BY <1>1, ThunkPlaces
<1>4. \A y : Pending(y)' <=> Pending(y)
  BY <1>1 DEF Pending
<1>5. \A c \in Home : HasEntries(c) => HasEntries(c)'
  BY <1>1, <1>4 DEF HasEntries
<1>6. AllEntries'
  BY <1>3, <1>5 DEF Live, AllEntries, Slots
<1>7. Fresh' /\ Owned' /\ \A t \in Threads : InThunk(t)'
  BY <1>1, <1>3 DEF Live, Fresh, Newly, Made, Slots, Owned, InThunk
<1>8. QED
  BY <1>2, <1>6, <1>7 DEF Live

\* Of every running plugin that is tracked, the map holds exactly what the
\* plugin allocated and did not free, each address with its size, but for what
\* a thread is about to enter or lost with its application: no thunk of another
\* plugin, no free that races an allocation and no reload changes that.
THEOREM MapsAreLive == Spec => []MapsLive
<1>1. Init => LiveInv
  BY InitLive, LiveIs
<1>2. LiveInv /\ [Next]_vars => LiveInv'
  <2> SUFFICES ASSUME LiveInv, [Next]_vars PROVE LiveInv'
    OBVIOUS
  <2>1. Live
    BY LiveIs
  <2>2. Live'
    BY <2>1, LoaderLive, ThunkLive, StutterLive DEF Next
  <2>3. (LiveInv <=> Live)'
    BY LiveNext
  <2>4. QED
    BY <2>2, <2>3
<1>3. LiveInv => MapsLive
  BY DEF LiveInv, Entries, Running, Home, MapsLive
<1>4. QED
  BY <1>1, <1>2, <1>3, PTL DEF Spec

-----------------------------------------------------------------------------
(* Sums                                                                    *)

\* What the sum of f over s is, in terms of the sums of smaller sets.
Adds(f, g, s) ==
    IF s = {} THEN 0 ELSE f[CHOOSE x \in s : TRUE] + g[s \ {CHOOSE x \in s : TRUE}]

\* The sums that MapThenSumSet builds, one for each subset of S.
Sums(f, S) == CHOOSE g : g = [s \in SUBSET S |->
    IF s = {} THEN 0 ELSE f[CHOOSE x \in s : TRUE] + g[s \ {CHOOSE x \in s : TRUE}]]

Total(f) == Sums(f, DOMAIN f)[DOMAIN f]

\* What holds of a set whenever it holds of all smaller ones holds of all.
LEMMA SmallerFirst ==
    ASSUME NEW S, IsFiniteSet(S), NEW C,
           \A s \in SUBSET S : (\A u \in SUBSET s : u # s => u \in C) => s \in C
    PROVE  \A s \in SUBSET S : s \in C
<1> SUFFICES ASSUME NEW s0 \in SUBSET S, s0 \notin C PROVE FALSE
  OBVIOUS
<1> DEFINE Counts == {Cardinality(s) : s \in {u \in SUBSET S : u \notin C}}
<1>1. \A s \in SUBSET S : IsFiniteSet(s) /\ Cardinality(s) \in Nat
  BY FS_Subset, FS_CardinalityType
<1>2. Counts \in SUBSET Nat /\ Counts # {}
  BY <1>1
<1>3. PICK n \in Counts : \A k \in Counts : n <= k
  <2> HIDE DEF Counts
  <2>1. QED
    BY <1>2, LeastOf
<1>4. PICK s \in SUBSET S : s \notin C /\ n = Cardinality(s)
  BY <1>3
<1>5. ASSUME NEW u \in SUBSET s, u # s PROVE u \in C
  <2>1. Cardinality(u) <= Cardinality(s) /\ Cardinality(u) # Cardinality(s)
    BY <1>1, <1>5, FS_Subset
  <2>2. u \in SUBSET S
    OBVIOUS
  <2>3. u \notin C => n <= Cardinality(u)
    BY <1>3, <2>2
  <2>4. QED
    BY <1>1, <1>4, <2>1, <2>2, <2>3
<1>6. QED
  BY <1>4, <1>5

\* The sums of the sets with no more than n elements.
Level(S, n) == {s \in SUBSET S : Cardinality(s) <= n}
Partial(f, S, n) == {g \in [Level(S, n) -> Nat] : \A s \in Level(S, n) : g[s] = Adds(f, g, s)}

LEMMA RestOfSet ==
    ASSUME NEW s, IsFiniteSet(s), s # {}
    PROVE  \E x \in s : /\ x = CHOOSE y \in s : TRUE
                        /\ IsFiniteSet(s \ {x})
                        /\ Cardinality(s) \in Nat /\ Cardinality(s \ {x}) \in Nat
                        /\ Cardinality(s \ {x}) = Cardinality(s) - 1
<1>1. PICK x : x = CHOOSE y \in s : TRUE
  OBVIOUS
<1>2. x \in s
  BY <1>1
<1>3. IsFiniteSet(s \ {x}) /\ Cardinality(s \ {x}) = Cardinality(s) - 1
  BY <1>2, FS_RemoveElement
<1>4. QED
  BY <1>1, <1>2, <1>3, FS_CardinalityType

LEMMA PartialSums ==
    ASSUME NEW S, IsFiniteSet(S), NEW f \in [S -> Nat]
    PROVE  \A n \in Nat : Partial(f, S, n) # {}
<1>0. \A s \in SUBSET S : IsFiniteSet(s) /\ Cardinality(s) \in Nat
  BY FS_Subset, FS_CardinalityType
<1>1. Partial(f, S, 0) # {}
  <2> DEFINE g == [s \in Level(S, 0) |-> 0]
  <2>1. \A s \in Level(S, 0) : s = {}
    BY <1>0, FS_EmptySet DEF Level
  <2>2. g \in [Level(S, 0) -> Nat] /\ \A s \in Level(S, 0) : g[s] = Adds(f, g, s)
    BY <2>1 DEF Adds
  <2> HIDE DEF g
  <2>3. QED
    BY <2>2 DEF Partial
<1>2. ASSUME NEW n \in Nat, Partial(f, S, n) # {} PROVE Partial(f, S, n + 1) # {}
  <2>1. PICK g \in [Level(S, n) -> Nat] : \A s \in Level(S, n) : g[s] = Adds(f, g, s)
    BY <1>2 DEF Partial
  <2> DEFINE h == [s \in Level(S, n + 1) |-> Adds(f, g, s)]
  <2>2. ASSUME NEW s \in Level(S, n + 1), s # {}
        PROVE  \E x \in s : /\ x = CHOOSE y \in s : TRUE
                            /\ s \ {x} \in Level(S, n) /\ s \ {x} \in Level(S, n + 1)
                            /\ x \in S
    <3>1. s \in SUBSET S /\ Cardinality(s) <= n + 1 /\ IsFiniteSet(s)
      BY <1>0 DEF Level
    <3>2. PICK x \in s : /\ x = CHOOSE y \in s : TRUE
                         /\ Cardinality(s) \in Nat /\ Cardinality(s \ {x}) \in Nat
                         /\ Cardinality(s \ {x}) = Cardinality(s) - 1
      BY <2>2, <3>1, RestOfSet
    <3>3. s \ {x} \in SUBSET S /\ Cardinality(s \ {x}) <= n /\ Cardinality(s \ {x}) <= n + 1
      BY <3>1, <3>2
    <3>4. QED
      BY <3>1, <3>2, <3>3 DEF Level
  <2>3. ASSUME NEW s \in Level(S, n + 1) PROVE h[s] \in Nat
    <3>1. CASE s = {}
      BY <3>1 DEF Adds
    <3>2. CASE s # {}
      <4>1. PICK x \in s : x = (CHOOSE y \in s : TRUE) /\ s \ {x} \in Level(S, n) /\ x \in S
        BY <2>2, <3>2
      <4>2. h[s] = f[x] + g[s \ {x}]
        BY <3>2, <4>1 DEF Adds
      <4>3. QED
        BY <4>1, <4>2
    <3>3. QED
      BY <3>1, <3>2
  <2>4. \A s \in Level(S, n) : s \in Level(S, n + 1) /\ h[s] = g[s]
    BY <1>0, <2>1 DEF Level
  <2>5. ASSUME NEW s \in Level(S, n + 1) PROVE h[s] = Adds(f, h, s)
    <3>1. CASE s = {}
      BY <3>1 DEF Adds
    <3>2. CASE s # {}
      <4>1. PICK x \in s : x = (CHOOSE y \in s : TRUE) /\ s \ {x} \in Level(S, n)
        BY <2>2, <3>2
      <4>2. h[s] = f[x] + g[s \ {x}]
        BY <3>2, <4>1 DEF Adds
      <4>3. g[s \ {x}] = h[s \ {x}]
        BY <2>4, <4>1
      <4> HIDE DEF h
      <4>4. QED
        BY <3>2, <4>1, <4>2, <4>3 DEF Adds
    <3>3. QED
      BY <3>1, <3>2
  <2>6. h \in [Level(S, n + 1) -> Nat]
    BY <2>3
  <2> HIDE DEF h
  <2>7. QED
    BY <2>5, <2>6 DEF Partial
<1>3. QED
  <2> DEFINE Bad == {n \in Nat : Partial(f, S, n) = {}}
  <2>1. SUFFICES ASSUME Bad # {} PROVE FALSE
    OBVIOUS
  <2>2. Bad \in SUBSET Nat
    OBVIOUS
  <2>3. PICK n \in Bad : \A k \in Bad : n <= k
    <3> HIDE DEF Bad
    <3>1. QED
      BY <2>1, <2>2, LeastOf
  <2>4. n \in Nat /\ n # 0
    BY <1>1
  <2>5. n - 1 \in Nat /\ n - 1 \notin Bad /\ n = (n - 1) + 1
    BY <2>3, <2>4
  <2>6. Partial(f, S, n - 1) # {}
    BY <2>5
  <2>7. Partial(f, S, (n - 1) + 1) # {}
    BY <1>2, <2>5, <2>6
  <2>8. QED
    BY <2>5, <2>7

\* MapThenSumSet adds up the sums of smaller sets.
LEMMA SumsAdd ==
    ASSUME NEW S, IsFiniteSet(S), NEW f \in [S -> Nat]
    PROVE  \A s \in SUBSET S : Sums(f, S)[s] = Adds(f, Sums(f, S), s)
<1>1. Cardinality(S) \in Nat /\ \A s \in SUBSET S : Cardinality(s) <= Cardinality(S)
  BY FS_Subset, FS_CardinalityType
<1>2. Level(S, Cardinality(S)) = SUBSET S
  BY <1>1 DEF Level
<1>3. PICK g \in [SUBSET S -> Nat] : \A s \in SUBSET S : g[s] = Adds(f, g, s)
  <2>1. Partial(f, S, Cardinality(S)) # {}
    BY <1>1, PartialSums
  <2>2. PICK g \in Partial(f, S, Cardinality(S)) : TRUE
    BY <2>1
  <2>3. QED
    BY <1>2, <2>2 DEF Partial
<1>4. g = [s \in SUBSET S |->
             IF s = {} THEN 0 ELSE f[CHOOSE x \in s : TRUE] + g[s \ {CHOOSE x \in s : TRUE}]]
  BY <1>3 DEF Adds
<1> DEFINE h == Sums(f, S)
<1>5. h = [s \in SUBSET S |->
             IF s = {} THEN 0 ELSE f[CHOOSE x \in s : TRUE] + h[s \ {CHOOSE x \in s : TRUE}]]
  BY <1>4 DEF Sums
<1> HIDE DEF h
<1>6. h = [s \in SUBSET S |-> Adds(f, h, s)]
  BY <1>5 DEF Adds
<1>7. QED
  BY <1>6 DEF h

\* A sum is a number, and each element may be the one that is added last.
LEMMA SumsType ==
    ASSUME NEW S, IsFiniteSet(S), NEW f \in [S -> Nat]
    PROVE  \A s \in SUBSET S : Sums(f, S)[s] \in Nat
<1> DEFINE g == Sums(f, S)
           C == {s \in SUBSET S : g[s] \in Nat}
<1>1. \A s \in SUBSET S : g[s] = Adds(f, g, s)
  BY SumsAdd
<1> HIDE DEF g
<1>2. ASSUME NEW s \in SUBSET S, \A u \in SUBSET s : u # s => u \in C
      PROVE  s \in C
  <2>1. CASE s = {}
    <3>1. g[s] = 0
      BY <1>1, <2>1 DEF Adds
    <3>2. QED
      BY <3>1
  <2>2. CASE s # {}
    <3>1. PICK x \in s : x = CHOOSE y \in s : TRUE
      BY <2>2
    <3>2. g[s] = f[x] + g[s \ {x}]
      BY <1>1, <2>2, <3>1 DEF Adds
    <3>3. s \ {x} \in C
      BY <1>2
    <3>4. QED
      BY <3>2, <3>3
  <2>3. QED
    BY <2>1, <2>2
<1> HIDE DEF C
<1>3. \A s \in SUBSET S : s \in C
  BY <1>2, SmallerFirst
<1>4. QED
  BY <1>3 DEF C, g

LEMMA SumsOne ==
    ASSUME NEW S, IsFiniteSet(S), NEW f \in [S -> Nat], NEW t \in SUBSET S, NEW z \in t
    PROVE  Sums(f, S)[t] = f[z] + Sums(f, S)[t \ {z}]
<1> DEFINE g == Sums(f, S)
           C == {s \in SUBSET S : \A y \in s : g[s] = f[y] + g[s \ {y}]}
<1>1. \A s \in SUBSET S : g[s] = Adds(f, g, s) /\ g[s] \in Nat
  BY SumsAdd, SumsType
<1> HIDE DEF g
<1>2. ASSUME NEW s \in SUBSET S, \A u \in SUBSET s : u # s => u \in C
      PROVE  s \in C
  <2> SUFFICES ASSUME NEW y \in s PROVE g[s] = f[y] + g[s \ {y}]
    OBVIOUS
  <2>1. PICK x \in s : x = CHOOSE w \in s : TRUE
    OBVIOUS
  <2>2. g[s] = f[x] + g[s \ {x}]
    BY <1>1, <2>1 DEF Adds
  <2>3. CASE y = x
    BY <2>2, <2>3
  <2>4. CASE y # x
    <3>1. s \ {x} \in C /\ s \ {y} \in C
      BY <1>2
    <3>2. g[s \ {x}] = f[y] + g[(s \ {x}) \ {y}]
      BY <2>4, <3>1
    <3>3. g[s \ {y}] = f[x] + g[(s \ {y}) \ {x}]
      BY <2>4, <3>1
    <3>4. (s \ {x}) \ {y} = (s \ {y}) \ {x}
      OBVIOUS
    <3>5. PICK n : n = g[(s \ {y}) \ {x}]
      OBVIOUS
    <3>6. n \in Nat /\ f[x] \in Nat /\ f[y] \in Nat
      BY <1>1, <3>5
    <3>7. g[s] = f[x] + (f[y] + n)
      BY <2>2, <3>2, <3>4, <3>5
    <3>8. g[s \ {y}] = f[x] + n
      BY <3>3, <3>5
    <3>9. QED
      BY <3>6, <3>7, <3>8
  <2>5. QED
    BY <2>3, <2>4
<1> HIDE DEF C
<1>3. \A s \in SUBSET S : s \in C
  BY <1>2, SmallerFirst
<1>4. QED
  BY <1>3 DEF C, g

\* Sums depend on the elements that are added up only.
LEMMA SumsAgree ==
    ASSUME NEW S, IsFiniteSet(S), NEW f \in [S -> Nat],
           NEW T, IsFiniteSet(T), NEW e \in [T -> Nat], S \subseteq T,
           \A x \in S : e[x] = f[x]
    PROVE  Sums(e, T)[S] = Sums(f, S)[S]
<1> DEFINE g == Sums(f, S)
           h == Sums(e, T)
           C == {s \in SUBSET S : h[s] = g[s]}
<1>1. /\ \A s \in SUBSET S : g[s] = Adds(f, g, s)
      /\ \A s \in SUBSET T : h[s] = Adds(e, h, s)
  BY SumsAdd
<1> HIDE DEF g, h
<1>2. ASSUME NEW s \in SUBSET S, \A u \in SUBSET s : u # s => u \in C
      PROVE  s \in C
  <2>1. CASE s = {}
    BY <1>1, <2>1 DEF Adds
  <2>2. CASE s # {}
    <3>1. PICK x \in s : x = CHOOSE y \in s : TRUE
      BY <2>2
    <3>2. g[s] = f[x] + g[s \ {x}] /\ h[s] = e[x] + h[s \ {x}]
      BY <1>1, <2>2, <3>1 DEF Adds
    <3>3. s \ {x} \in C
      BY <1>2
    <3>4. QED
      BY <3>2, <3>3
  <2>3. QED
    BY <2>1, <2>2
<1> HIDE DEF C
<1>3. \A s \in SUBSET S : s \in C
  BY <1>2, SmallerFirst
<1>4. QED
  BY <1>3 DEF C, g, h

LEMMA TotalOfNothing ==
    ASSUME NEW f, DOMAIN f = {}
    PROVE  Total(f) = 0
<1>1. IsFiniteSet({}) /\ f \in [{} -> Nat]
  BY FS_EmptySet
<1>2. QED
  BY <1>1, SumsAdd DEF Total, Adds

\* One more entry adds to the sum what it says.
LEMMA TotalGrows ==
    ASSUME NEW f, IsFiniteSet(DOMAIN f), f \in [DOMAIN f -> Nat], NEW x, x \notin DOMAIN f,
           NEW e, DOMAIN e = DOMAIN f \cup {x}, e \in [DOMAIN e -> Nat],
           \A y \in DOMAIN f : e[y] = f[y]
    PROVE  Total(e) = Total(f) + e[x] /\ Total(f) \in Nat /\ e[x] \in Nat
<1> DEFINE S == DOMAIN f
           T == DOMAIN e
<1>1. IsFiniteSet(T)
  BY FS_AddElement
<1>2. S \subseteq T /\ x \in T /\ T \ {x} = S /\ T \in SUBSET T /\ e[x] \in Nat
  OBVIOUS
<1>3. Sums(e, T)[T] = e[x] + Sums(e, T)[T \ {x}]
  <2> HIDE DEF T
  <2>1. QED
    BY <1>1, <1>2, SumsOne DEF T
<1>4. Sums(e, T)[S] = Sums(f, S)[S]
  BY <1>1, <1>2, SumsAgree
<1>5. Sums(f, S)[S] \in Nat
  BY SumsType
<1>6. QED
  BY <1>2, <1>3, <1>4, <1>5 DEF Total

\* The loader keeps the map and the sum of a slot together: it sets up a slot, or
\* changes only whether it is in use.
Summed(st) == IsFiniteSet(DOMAIN st.map) /\ st.current = Total(st.map)

AllSummed == \A s \in Slots : Summed(stats[s])

SumInv == LiveInv /\ AllSummed

LEMMA BlankSummed == Summed(Blank) /\ Summed(Unused(Blank))
<1>1. DOMAIN Blank.map = {} /\ Blank.current = 0
  BY DEF Blank
<1>2. Unused(Blank).map = Blank.map /\ Unused(Blank).current = Blank.current
  BY DEF Unused, Blank
<1>3. IsFiniteSet({})
  BY FS_EmptySet
<1>4. Total(Blank.map) = 0
  BY <1>1, TotalOfNothing
<1>5. QED
  BY <1>1, <1>2, <1>3, <1>4 DEF Summed

LEMMA ReleaseSummed ==
    ASSUME stats \in [Slots -> Slot], AllSummed, NEW ss
    PROVE  \A s \in Slots : Summed(Release(ss)[s])
<1> SUFFICES ASSUME NEW s \in Slots PROVE Summed(Release(ss)[s])
  OBVIOUS
<1>1. Unused(stats[s]).map = stats[s].map /\ Unused(stats[s]).current = stats[s].current
  BY DEF Unused, Slot
<1>2. Release(ss)[s].map = stats[s].map /\ Release(ss)[s].current = stats[s].current
  BY <1>1 DEF Release
<1>3. QED
  BY <1>2 DEF AllSummed, Summed

LEMMA LoaderSums ==
    ASSUME Live, AllSummed, Loader
    PROVE  AllSummed'
<1>1. stats \in [Slots -> Slot]
  BY DEF Live, Built, RestTyped
<1>2. \/ stats' = stats
      \/ \E ss : stats' = Release(ss)
      \/ \E ss, o : stats' = [s \in Slots |-> IF s = o THEN Blank ELSE Release(ss)[s]]
  <2>1. ASSUME \/ \E ps \in SUBSET Plugins : StartFromDirectory(ps)
               \/ \E ws \in Wishes : StartWithReload(ws)
               \/ StartUnchanged \/ MatchDone \/ ApplicationEnds
        PROVE  stats' = stats
    BY <2>1 DEF StartFromDirectory, StartWithReload, StartUnchanged, MatchDone, ApplicationEnds
  <2>2. ASSUME DestroyDoomed \/ LoadDone \/ StartApplication
        PROVE  \E ss : stats' = Release(ss)
    BY <2>2 DEF DestroyDoomed, LoadDone, StartApplication
  <2>3. ASSUME Match PROVE stats' = stats \/ \E ss : stats' = Release(ss)
    BY <2>3 DEF Match
  <2>4. ASSUME NEW id \in Ids, LoadPlugin(id)
        PROVE  \E ss, o : stats' = [s \in Slots |-> IF s = o THEN Blank ELSE Release(ss)[s]]
    BY <2>4 DEF LoadPlugin
  <2>5. QED
    BY <2>1, <2>2, <2>3, <2>4 DEF Loader
<1>3. CASE stats' = stats
  BY <1>3 DEF AllSummed, Slots
<1>4. ASSUME NEW ss, stats' = Release(ss) PROVE AllSummed'
  BY <1>1, <1>4, ReleaseSummed DEF AllSummed, Slots
<1>5. ASSUME NEW ss, NEW o,
             stats' = [s \in Slots |-> IF s = o THEN Blank ELSE Release(ss)[s]]
      PROVE  AllSummed'
  BY <1>1, <1>5, ReleaseSummed, BlankSummed DEF AllSummed, Slots
<1>6. QED
  BY <1>2, <1>3, <1>4, <1>5

LEMMA RecordSums ==
    ASSUME Live, AllSummed, NEW t \in Threads, Record(t)
    PROVE  AllSummed'
<1> DEFINE s == call[t].thunk
           x == call[t].ptr
           n == call[t].size
           old == stats[s].map
           new == WithEntry(old, x, n)
<1>1. Built /\ AllEntries /\ InThunk(t) /\ call[t].at = "record"
  BY DEF Live, Record
<1>2. s \in Slots /\ n \in Nat /\ stats[s] \in Slot /\ stats[s].inUse
  BY <1>1, CallerOf, TrackingAssumption DEF Built, RestTyped, Called
<1>3. /\ stats' \in [Slots -> Slot] /\ stats'[s].map = new
      /\ \A r \in Slots \ {s} : stats'[r] = stats[r]
  BY <1>1, <1>2, RecordEnters DEF OnlyMap
<1>4. stats'[s].current = stats[s].current + n
  <2>1. stats \in [Slots -> Slot]
    BY <1>1 DEF Built, RestTyped
  <2> DEFINE e(o) == [y \in DOMAIN o \cup {call[t].ptr} |->
                            IF y = call[t].ptr THEN call[t].size ELSE o[y]]
  <2>2. stats' = [stats EXCEPT ![s].current = @ + n, ![s].map = e(@)]
    BY <1>2 DEF Record
  <2> HIDE DEF e, s, n
  <2>3. QED
    BY <2>1, <2>2, <1>2 DEF Slot
<1>5. x \in Ptrs /\ x \notin DOMAIN old
  <2>1. PICK c \in Running : c.opt = s /\ c \in Home
    BY <1>1, RunningIsHome DEF InThunk
  <2>2. HasEntries(c)
    BY <2>1, <1>1, <1>2 DEF AllEntries
  <2>3. x \in Ptrs /\ Pending(x)
    BY <1>1 DEF Built, Called, Pending
  <2>4. QED
    BY <2>1, <2>2, <2>3 DEF HasEntries
<1>6. old \in [DOMAIN old -> Nat] /\ Summed(stats[s])
  <2>1. old \in [DOMAIN old -> Sizes]
    BY <1>2, MapType DEF Slot
  <2>2. QED
    BY <2>1, <1>2, TrackingAssumption DEF AllSummed
<1>7. /\ DOMAIN new = DOMAIN old \cup {x} /\ new[x] = n /\ \A y \in DOMAIN old : new[y] = old[y]
      /\ new \in [DOMAIN new -> Nat]
  <2> HIDE DEF old, x, n
  <2>1. QED
    BY <1>2, <1>5, <1>6 DEF WithEntry
<1> HIDE DEF s, x, n, old, new
<1>8. IsFiniteSet(DOMAIN old) /\ stats[s].current = Total(old)
  BY <1>6 DEF Summed, old
<1>9. Total(new) = Total(old) + n
  BY <1>5, <1>6, <1>7, <1>8, TotalGrows
<1>10. IsFiniteSet(DOMAIN new)
  BY <1>7, <1>8, FS_AddElement
<1>11. Summed(stats'[s])
  BY <1>3, <1>4, <1>8, <1>9, <1>10 DEF Summed
<1>12. QED
  BY <1>3, <1>11 DEF AllSummed, Slots

LEMMA FreeEntrySums ==
    ASSUME Live, AllSummed, NEW t \in Threads, NEW c \in Running, NEW x \in Ptrs, FreeEntry(t, c, x)
    PROVE  AllSummed'
<1> DEFINE s == c.thunk
           old == stats[s].map
           new == Restrict(old, DOMAIN old \ {x})
<1>1. Built
  BY DEF Live
<1>2. s \in Slots /\ stats \in [Slots -> Slot] /\ stats[s] \in Slot
  BY <1>1, FreeEntryErases DEF Built, RestTyped
<1>3. CASE ~(stats[s].inUse /\ x \in DOMAIN old)
  <2>1. stats' = stats
    BY <1>1, <1>3, FreeEntryErases
  <2>2. QED
    BY <2>1 DEF AllSummed, Slots
<1>4. CASE stats[s].inUse /\ x \in DOMAIN old
  <2>1. /\ stats'[s].map = new
        /\ \A r \in Slots \ {s} : stats'[r] = stats[r]
    BY <1>1, <1>4, FreeEntryErases DEF OnlyMap
  <2>2. stats'[s].current = IF stats[s].current >= old[x] THEN stats[s].current - old[x] ELSE 0
    <3>1. stats' = [stats EXCEPT ![s].current =
                                     IF @ >= stats[s].map[x] THEN @ - stats[s].map[x] ELSE 0,
                                 ![s].map = Restrict(@, DOMAIN @ \ {x})]
      BY <1>4 DEF FreeEntry
    <3> HIDE DEF s
    <3>2. QED
      BY <3>1, <1>2 DEF Slot
  <2>3. old \in [DOMAIN old -> Nat] /\ Summed(stats[s])
    <3>1. old \in [DOMAIN old -> Sizes]
      BY <1>2, MapType DEF Slot
    <3>2. QED
      BY <3>1, <1>2, TrackingAssumption DEF AllSummed
  <2>4. /\ DOMAIN new = DOMAIN old \ {x} /\ \A y \in DOMAIN new : old[y] = new[y]
        /\ new \in [DOMAIN new -> Nat]
    <3> HIDE DEF old
    <3>1. QED
      BY <2>3 DEF Restrict
  <2> HIDE DEF s, old, new
  <2>5. IsFiniteSet(DOMAIN old) /\ stats[s].current = Total(old)
    BY <2>3 DEF Summed, old
  <2>6. IsFiniteSet(DOMAIN new) /\ x \notin DOMAIN new /\ DOMAIN old = DOMAIN new \cup {x}
    BY <1>4, <2>4, <2>5, FS_Subset
  <2>7. Total(old) = Total(new) + old[x] /\ Total(new) \in Nat /\ old[x] \in Nat
    BY <2>3, <2>4, <2>6, TotalGrows
  <2>8. stats'[s].current = Total(new)
    BY <2>2, <2>5, <2>7
  <2>9. Summed(stats'[s])
    BY <2>1, <2>6, <2>8 DEF Summed
  <2>10. QED
    BY <2>1, <2>9 DEF AllSummed, Slots
<1>5. QED
  BY <1>3, <1>4

LEMMA StepSums ==
    ASSUME Live, AllSummed, [Next]_vars
    PROVE  AllSummed'
<1>1. CASE Loader
  BY <1>1, LoaderSums
<1>2. CASE Thunk
  <2>1. PICK t \in Threads :
          \/ Record(t) \/ FreeMemory(t)
          \/ \E c \in Running, x \in Ptrs :
                \/ FreeEntry(t, c, x) \/ FreeDefault(t, c, x)
                \/ \E n \in Sizes : Alloc(t, c, x, n)
    BY <1>2 DEF Thunk
  <2>2. CASE stats' = stats
    BY <2>2 DEF AllSummed, Slots
  <2>3. FreeMemory(t) \/ (\E c \in Running, x \in Ptrs :
                            FreeDefault(t, c, x) \/ \E n \in Sizes : Alloc(t, c, x, n))
        => stats' = stats
    BY DEF FreeMemory, FreeDefault, Alloc
  <2>4. QED
    BY <2>1, <2>2, <2>3, RecordSums, FreeEntrySums
<1>3. CASE UNCHANGED vars
  BY <1>3 DEF vars, AllSummed, Slots
<1>4. QED
  BY <1>1, <1>2, <1>3 DEF Next

\* A leak report names every leak and nothing else, and the bytes it counts are
\* those of the entries: currentAllocated never runs away from the map, though
\* threads enter and erase without the mutex of the heap, an application ends in the middle
\* of an allocation and slots pass from plugin to plugin.
THEOREM ReportsAreExact == Spec => []MapIsLive
<1>1. Init => SumInv
  <2>1. Init => LiveInv
    BY InitLive, LiveIs
  <2>2. Init => AllSummed
    BY BlankSummed DEF Init, AllSummed
  <2>3. QED
    BY <2>1, <2>2 DEF SumInv
<1>2. SumInv /\ [Next]_vars => SumInv'
  <2> SUFFICES ASSUME SumInv, [Next]_vars PROVE SumInv'
    OBVIOUS
  <2>1. Live /\ AllSummed
    BY LiveIs DEF SumInv
  <2>2. Live'
    BY <2>1, LoaderLive, ThunkLive, StutterLive DEF Next
  <2>3. (LiveInv <=> Live)'
    BY LiveNext
  <2>4. AllSummed'
    BY <2>1, StepSums
  <2>5. QED
    BY <2>2, <2>3, <2>4 DEF SumInv
<1>3. SumInv => MapIsLive
  <2> SUFFICES ASSUME SumInv PROVE MapIsLive
    OBVIOUS
  <2>1. MapsLive
    BY DEF SumInv, LiveInv, Entries, Running, Home, MapsLive
  <2>2. \A s \in Slots : stats[s].current = Total(stats[s].map)
    BY DEF SumInv, AllSummed, Summed
  <2>3. ASSUME NEW c \in Running, c.opt \in Slots
        PROVE  stats[c.opt].current =
                  MapThenSumSet(LAMBDA x : stats[c.opt].map[x], DOMAIN stats[c.opt].map)
    BY <2>2, <2>3 DEF MapThenSumSet, MapThenFoldSet, Total, Sums
  <2>4. QED
    BY <2>1, <2>3 DEF MapIsLive, MapThenSumSet, MapThenFoldSet
<1>4. QED
  BY <1>1, <1>2, <1>3, PTL DEF Spec
=============================================================================
