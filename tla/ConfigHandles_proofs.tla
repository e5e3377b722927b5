-------------------------- MODULE ConfigHandles_proofs --------------------------
(***************************************************************************)
(* For any number of objects and threads: the types of ConfigHandles, that *)
(* every object has an owner that is alive, that the menu alone disposes of *)
(* what it shows, and that threads block each other only where one of them *)
(* asks for the name of a category.                                        *)
(*                                                                         *)
(* Places never form a longer cycle than a category in itself, so that each *)
(* object reaches one root; the mutexes keep the parent that AddItem found  *)
(* where it was until the item is in it.                                   *)
(***************************************************************************)
EXTENDS ConfigHandles, TLAPS

-----------------------------------------------------------------------------
(* The invariants                                                          *)

\* What each call works on, and how far it can be.
CallsMakeSense ==
    \A t \in Threads :
        /\ call[t].op = "Idle" => call[t] = Idle
        /\ call[t].op # "Idle" => call[t].holds # 0
        /\ call[t].op \in {"AddCategory", "GetName"} => call[t].holds = 1
        /\ call[t].op \in {"AddCategory", "AddItem"} => call[t].parent \in Configs \cup Categories
        /\ call[t].op = "AddCategory" => call[t].child \in Categories
        /\ call[t].op = "AddItem" => call[t].child \in Items
        /\ call[t].op = "CleanAll" => t = Menu /\ menu = "closing"

MutexesApart == \A t \in Threads : \A u \in Threads \ {t} : Held(t) \cap Held(u) = {}

\* What AddItem found stays there while it waits for the list of the items.
ParentsStay ==
    \A t \in Threads : call[t].op = "AddItem" /\ call[t].holds = 2 => call[t].parent \in Parents

IInv == TypeOK /\ CallsMakeSense /\ MutexesApart /\ ParentsStay /\ OwnedOnce

-----------------------------------------------------------------------------
(* Trees                                                                   *)

PlaceType == [Objects -> {"free", "listed", "shown"} \cup Configs \cup Categories]

LEMMA OwnerType ==
    ASSUME NEW o \in Objects
    PROVE  Owner(o) \in Objects
  BY DEF Owner

\* What is free, on a list or in the menu has no owner.
LEMMA Unowned ==
    ASSUME NEW o \in Objects, place[o] \in {"free", "listed", "shown", o}
    PROVE  Owner(o) = o
  BY HandleAssumption DEF Owner

LEMMA ReachesSelf ==
    ASSUME NEW o
    PROVE  Reaches(o, o)
  BY DEF Reaches

LEMMA ReachesOwner ==
    ASSUME NEW o
    PROVE  Reaches(o, Owner(o))
  BY DEF Reaches

LEMMA ReachesOn ==
    ASSUME NEW x, NEW y, NEW z, Reaches(x, y), Reaches(y, z)
    PROVE  Reaches(x, z)
  BY DEF Reaches

\* What has no owner reaches nothing else.
LEMMA RootReaches ==
    ASSUME NEW r \in Objects, NEW o, Owner(r) = r, Reaches(r, o)
    PROVE  o = r
<1>1. {r} \in SUBSET Objects /\ \A y \in {r} : Owner(y) \in {r}
  OBVIOUS
<1>2. o \in {r}
  BY <1>1 DEF Reaches
<1>3. QED
  BY <1>2

LEMMA ReachesObjects ==
    ASSUME NEW x \in Objects, NEW o, Reaches(x, o)
    PROVE  o \in Objects
<1>1. Objects \in SUBSET Objects /\ \A y \in Objects : Owner(y) \in Objects
  BY OwnerType
<1>2. QED
  BY <1>1 DEF Reaches

\* On the way to a root is everything else that is reached.
LEMMA OneRoot ==
    ASSUME NEW x \in Objects, NEW r, NEW o, Owner(r) = r, Reaches(x, r), Reaches(x, o)
    PROVE  Reaches(o, r)
<1> DEFINE S == {y \in Objects : Reaches(y, r)}
<1>1. ASSUME NEW y \in S PROVE Owner(y) \in S
  <2>1. CASE y = r
    BY <2>1, <1>1
  <2>2. CASE y # r
    <3> SUFFICES ASSUME NEW T \in SUBSET Objects, Owner(y) \in T, \A z \in T : Owner(z) \in T
                 PROVE  r \in T
      BY OwnerType DEF Reaches
    <3>1. T \cup {y} \in SUBSET Objects /\ y \in T \cup {y}
          /\ \A z \in T \cup {y} : Owner(z) \in T \cup {y}
      OBVIOUS
    <3>2. Reaches(y, r)
      OBVIOUS
    <3>3. r \in T \cup {y}
      BY <3>1, <3>2 DEF Reaches
    <3>4. QED
      BY <3>3, <2>2
  <2>3. QED
    BY <2>1, <2>2
<1>2. x \in S /\ S \in SUBSET Objects
  OBVIOUS
<1> HIDE DEF S
<1>3. o \in S
  BY <1>1, <1>2 DEF Reaches
<1>4. QED
  BY <1>3 DEF S

\* There is only one.
LEMMA RootsEqual ==
    ASSUME NEW x \in Objects, NEW r, NEW q, Owner(r) = r, Owner(q) = q,
           Reaches(x, r), Reaches(x, q)
    PROVE  r = q
<1>1. Reaches(q, r) /\ q \in Objects
  BY OneRoot, ReachesObjects
<1>2. QED
  BY <1>1, RootReaches

-----------------------------------------------------------------------------
(* Trees that are destroyed                                                *)

Top(o) == place[o] \in {"listed", "shown"}

TreesOf(rs) == UNION {Tree(o) : o \in rs}

\* The paths of what stays do not lead through what goes.
LEMMA PathsStay ==
    ASSUME place \in PlaceType, NEW rs \in SUBSET Objects, place' = Without(TreesOf(rs)),
           NEW x \in Objects, x \notin TreesOf(rs), NEW r
    PROVE  Reaches(x, r)' <=> Reaches(x, r)
<1> DEFINE gone == TreesOf(rs)
<1>1. \A y \in Objects : /\ y \in gone <=> place[y] # "free" /\ \E o \in rs : Reaches(y, o)
                         /\ place'[y] = IF y \in gone THEN "free" ELSE place[y]
  BY DEF TreesOf, Tree, Without
<1>2. ASSUME NEW y \in Objects, y \notin gone
      PROVE  Owner(y)' = Owner(y) /\ Owner(y) \notin gone
  <2>1. Owner(y)' = Owner(y)
    BY <1>1, <1>2 DEF Owner
  <2>2. CASE place[y] = "free"
    BY <2>1, <2>2, <1>2, Unowned
  <2>3. CASE place[y] # "free"
    BY <2>1, <2>3, <1>1, <1>2, OwnerType, ReachesOwner, ReachesOn
  <2>4. QED
    BY <2>1, <2>2, <2>3
<1> HIDE DEF gone
<1>3. ASSUME Reaches(x, r), NEW S \in SUBSET Objects, x \in S, \A y \in S : Owner(y)' \in S
      PROVE  r \in S
  <2>1. S \ gone \in SUBSET Objects /\ x \in S \ gone /\ \A y \in S \ gone : Owner(y) \in S \ gone
    BY <1>2, <1>3 DEF gone
  <2>2. QED
    BY <2>1, <1>3 DEF Reaches
<1>4. ASSUME Reaches(x, r)', NEW S \in SUBSET Objects, x \in S, \A y \in S : Owner(y) \in S
      PROVE  r \in S
  <2>1. S \ gone \in SUBSET Objects /\ x \in S \ gone /\ \A y \in S \ gone : Owner(y)' \in S \ gone
    BY <1>2, <1>4 DEF gone
  <2>2. QED
    BY <2>1, <1>4 DEF Reaches, Objects
<1>5. QED
  BY <1>3, <1>4 DEF Reaches, Objects

LEMMA TreesGo ==
    ASSUME place \in PlaceType, NEW rs \in SUBSET Objects, \A o \in rs : Top(o),
           place' = Without(TreesOf(rs))
    PROVE  /\ place' \in PlaceType
           /\ \A o \in Objects : place'[o] \in {"free", place[o]}
           /\ \A o \in rs : place'[o] = "free"
           /\ \A o \in Objects \ rs : Top(o) => place'[o] = place[o] /\ Tree(o)' = Tree(o)
           /\ OwnedOnce => OwnedOnce'
<1> DEFINE gone == TreesOf(rs)
<1>1. /\ place' \in PlaceType
      /\ \A y \in Objects : /\ y \in gone <=> place[y] # "free" /\ \E o \in rs : Reaches(y, o)
                            /\ place'[y] = IF y \in gone THEN "free" ELSE place[y]
  BY DEF TreesOf, Tree, Without, PlaceType
<1>2. \A o \in rs : o \in gone
  BY <1>1, ReachesSelf, HandleAssumption DEF Top
<1>3. \A x \in Objects \ gone : \A r : Reaches(x, r)' <=> Reaches(x, r)
  BY PathsStay
<1> HIDE DEF gone
<1>4. ASSUME NEW o \in Objects \ rs, Top(o)
      PROVE  place'[o] = place[o] /\ Tree(o)' = Tree(o)
  <2>1. Owner(o) = o /\ \A r \in rs : Owner(r) = r
    BY <1>4, Unowned DEF Top
  <2>2. \A x \in Objects : Reaches(x, o) => x \notin gone
    BY <2>1, <1>1, <1>4, RootsEqual
  <2>3. o \notin gone
    BY <2>2, ReachesSelf
  <2>4. \A x \in Objects : place'[x] # "free" /\ Reaches(x, o)' <=> place[x] # "free" /\ Reaches(x, o)
    BY <2>2, <1>1, <1>3
  <2>5. QED
    BY <2>3, <2>4, <1>1 DEF Tree, Objects
<1>5. ASSUME OwnedOnce PROVE OwnedOnce'
  <2> SUFFICES ASSUME NEW x \in Objects, place'[x] # "free"
               PROVE  \E r \in Objects : Reaches(x, r)' /\ place'[r] \in {"listed", "shown", r}
    BY DEF OwnedOnce, Objects
  <2>1. x \notin gone /\ place[x] # "free"
    BY <1>1
  <2>2. PICK r \in Objects : Reaches(x, r) /\ place[r] \in {"listed", "shown", r}
    BY <2>1, <1>5 DEF OwnedOnce
  <2>3. r \notin gone
    BY <2>1, <2>2, <1>1, ReachesOn
  <2>4. QED
    BY <2>1, <2>2, <2>3, <1>1, <1>3
<1>6. QED
  BY <1>1, <1>2, <1>4, <1>5

-----------------------------------------------------------------------------
(* Objects that get an owner                                               *)

\* AddCategory and AddItem: the child leaves its list, and the menu keeps what
\* it shows.
LEMMA ChildMoves ==
    ASSUME place \in PlaceType, NEW parent \in Configs \cup Categories, NEW child \in Objects,
           place' = [place EXCEPT ![child] = parent], place[child] = "listed",
           NEW r \in Objects, Reaches(parent, r), place[r] = "listed",
           r = child => parent = child
    PROVE  /\ place' \in PlaceType
           /\ \A x, y \in Objects : Reaches(x, y) => Reaches(x, y)'
           /\ \A c \in Objects : place[c] = "shown" => Tree(c)' = Tree(c)
           /\ OwnedOnce => OwnedOnce'
<1>1. /\ place' \in PlaceType /\ place'[child] = parent /\ parent \in Objects
      /\ \A y \in Objects \ {child} : place'[y] = place[y]
  BY DEF PlaceType, Objects
<1>2. /\ Owner(child)' = parent /\ Owner(child) = child /\ Owner(r) = r
      /\ \A y \in Objects \ {child} : Owner(y)' = Owner(y)
  BY <1>1, Unowned DEF Owner, Objects
<1>3. ASSUME NEW x \in Objects, NEW y \in Objects, Reaches(x, y) PROVE Reaches(x, y)'
  <2> SUFFICES ASSUME NEW S \in SUBSET Objects, x \in S, \A z \in S : Owner(z)' \in S
               PROVE  y \in S
    BY DEF Reaches, Objects
  <2>1. \A z \in S : Owner(z) \in S
    BY <1>2
  <2>2. QED
    BY <2>1, <1>3 DEF Reaches
<1>4. ASSUME NEW c \in Objects, place[c] = "shown" PROVE Tree(c)' = Tree(c)
  <2>1. Owner(c) = c /\ c # r /\ c # child
    BY <1>4, Unowned
  <2>2. ~Reaches(parent, c)
    BY <2>1, <1>1, <1>2, RootsEqual
  <2>3. ASSUME NEW x \in Objects, ~Reaches(x, c) PROVE ~Reaches(x, c)'
    <3> DEFINE S == {y \in Objects : ~Reaches(y, c)}
    <3>1. \A y \in S : Owner(y) \in S
      BY OwnerType, ReachesOwner, ReachesOn
    <3>2. \A y \in S : Owner(y)' \in S
      BY <3>1, <2>2, <1>1, <1>2
    <3>3. x \in S /\ c \notin S /\ S \in SUBSET Objects
      BY <2>3, ReachesSelf
    <3> HIDE DEF S
    <3>4. QED
      BY <3>2, <3>3 DEF Reaches, Objects
  <2>4. \A x \in Objects : Reaches(x, c)' <=> Reaches(x, c)
    BY <2>3, <1>3
  <2>5. \A x \in Objects : place'[x] # "free" <=> place[x] # "free"
    BY <1>1, HandleAssumption
  <2>6. QED
    BY <2>4, <2>5 DEF Tree, Objects
<1>5. ASSUME OwnedOnce PROVE OwnedOnce'
  <2> SUFFICES ASSUME NEW x \in Objects, place'[x] # "free"
               PROVE  \E q \in Objects : Reaches(x, q)' /\ place'[q] \in {"listed", "shown", q}
    BY DEF OwnedOnce, Objects
  <2>1. place[x] # "free"
    BY <1>1
  <2>2. PICK q \in Objects : Reaches(x, q) /\ place[q] \in {"listed", "shown", q}
    BY <2>1, <1>5 DEF OwnedOnce
  <2>3. CASE q # child
    BY <2>2, <2>3, <1>1, <1>3
  <2>4. CASE q = child
    <3>1. Reaches(x, r)'
      <4> SUFFICES ASSUME NEW S \in SUBSET Objects, x \in S, \A z \in S : Owner(z)' \in S
                   PROVE  r \in S
        BY DEF Reaches, Objects
      <4>1. \A z \in S : Owner(z) \in S
        BY <1>2
      <4>2. child \in S
        BY <4>1, <2>2, <2>4 DEF Reaches
      <4>3. parent \in S
        BY <4>2, <1>2
      <4>4. QED
        BY <4>1, <4>3 DEF Reaches
    <3>2. place'[r] \in {"listed", "shown", r}
      BY <1>1
    <3>3. QED
      BY <3>1, <3>2
  <2>5. QED
    BY <2>3, <2>4
<1>6. QED
  BY <1>1, <1>3, <1>4, <1>5

\* A new object, and a config that the menu takes from the list: no owner changes.
LEMMA OwnersStay ==
    ASSUME place \in PlaceType, NEW o \in Objects, NEW where \in {"listed", "shown"},
           place[o] \in {"free", "listed"}, place' = [place EXCEPT ![o] = where]
    PROVE  /\ place' \in PlaceType
           /\ \A x, y \in Objects : Reaches(x, y)' <=> Reaches(x, y)
           /\ \A c \in Objects : place[c] = "shown" => Tree(c)' = Tree(c)
           /\ OwnedOnce => OwnedOnce'
<1>1. /\ place' \in PlaceType /\ place'[o] = where
      /\ \A y \in Objects \ {o} : place'[y] = place[y]
  BY DEF PlaceType
<1>2. \A y \in Objects : Owner(y)' = Owner(y)
  BY <1>1, HandleAssumption DEF Owner, Objects
<1>3. \A x, y \in Objects : Reaches(x, y)' <=> Reaches(x, y)
  BY <1>2 DEF Reaches, Objects
<1>4. ASSUME NEW c \in Objects, place[c] = "shown" PROVE Tree(c)' = Tree(c)
  <2>1. c # o /\ Owner(o) = o
    BY <1>4, Unowned
  <2>2. ~Reaches(o, c)
    BY <2>1, RootReaches
  <2>3. \A x \in Objects \ {o} : place'[x] # "free" <=> place[x] # "free"
    BY <1>1
  <2>4. QED
    BY <2>2, <2>3, <1>3 DEF Tree, Objects
<1>5. ASSUME OwnedOnce PROVE OwnedOnce'
  <2> SUFFICES ASSUME NEW x \in Objects, place'[x] # "free"
               PROVE  \E q \in Objects : Reaches(x, q)' /\ place'[q] \in {"listed", "shown", q}
    BY DEF OwnedOnce, Objects
  <2>1. CASE x = o
    BY <2>1, <1>1, <1>3, ReachesSelf
  <2>2. CASE x # o
    <3>1. PICK q \in Objects : Reaches(x, q) /\ place[q] \in {"listed", "shown", q}
      BY <2>2, <1>1, <1>5 DEF OwnedOnce
    <3>2. place'[q] \in {"listed", "shown", q}
      BY <3>1, <1>1
    <3>3. QED
      BY <3>1, <3>2, <1>3
  <2>3. QED
    BY <2>1, <2>2
<1>6. QED
  BY <1>1, <1>3, <1>4, <1>5

\* The category or config that AddItem found has a root on a list.
LEMMA ParentRoot ==
    ASSUME NEW p
    PROVE  p \in Parents <=>
             /\ p \in Configs \cup Categories
             /\ \E r \in Configs \cup {p} : place[r] = "listed" /\ Reaches(p, r)
  BY ReachesSelf DEF Parents, Objects

-----------------------------------------------------------------------------
(* What the steps do to the places                                         *)

PlacesFine ==
    /\ place \in PlaceType
    /\ \A c \in Configs : place[c] \in {"free", "listed", "shown"}
    /\ \A o \in Categories \cup Items : place[o] # "shown"

\* The first half of MenuTakesOver.
ShownStays == \A c \in Configs : place[c] = "shown" /\ place'[c] = "shown" => Tree(c)' = Tree(c)

PlacesMove == PlacesFine' /\ OwnedOnce' /\ ShownStays

LEMMA KindsApart ==
    /\ \A c \in Configs : c \in Objects /\ c \notin Categories /\ c \notin Items
    /\ \A c \in Categories : c \in Objects /\ c \notin Configs /\ c \notin Items
    /\ \A i \in Items : i \in Objects /\ i \notin Configs /\ i \notin Categories
  BY HandleAssumption DEF Objects

LEMMA NothingMoves ==
    ASSUME PlacesFine, OwnedOnce, UNCHANGED place
    PROVE  PlacesMove /\ Parents' = Parents
<1>1. \A x : Owner(x)' = Owner(x)
  BY DEF Owner, Objects
<1>2. \A x, y : Reaches(x, y)' <=> Reaches(x, y)
  BY <1>1 DEF Reaches, Objects
<1>3. \A o : Tree(o)' = Tree(o)
  BY <1>2 DEF Tree, Objects
<1>4. OwnedOnce' /\ Parents' = Parents
  BY <1>2 DEF OwnedOnce, Parents, Objects
<1>5. QED
  BY <1>3, <1>4 DEF PlacesMove, PlacesFine, PlaceType, Objects, ShownStays

LEMMA ObjectAppears ==
    ASSUME PlacesFine, OwnedOnce, NEW o \in Objects, place[o] = "free",
           place' = [place EXCEPT ![o] = "listed"]
    PROVE  /\ PlacesMove /\ Parents \subseteq Parents'
           /\ place'[o] = "listed" /\ \A c \in Objects \ {o} : place'[c] = place[c]
<1>1. /\ place' \in PlaceType
      /\ \A x, y \in Objects : Reaches(x, y)' <=> Reaches(x, y)
      /\ \A c \in Objects : place[c] = "shown" => Tree(c)' = Tree(c)
      /\ OwnedOnce'
  BY OwnersStay DEF PlacesFine
<1>2. place'[o] = "listed" /\ \A c \in Objects \ {o} : place'[c] = place[c]
  BY DEF PlacesFine, PlaceType
<1>3. PlacesFine'
  BY <1>1, <1>2, KindsApart DEF PlacesFine, PlaceType, Objects
<1>4. Parents \subseteq Parents'
  BY <1>1, <1>2, KindsApart DEF Parents, Objects
<1>5. QED
  BY <1>1, <1>2, <1>3, <1>4, KindsApart DEF PlacesMove, ShownStays

LEMMA ConfigShown ==
    ASSUME PlacesFine, OwnedOnce, NEW c \in Configs, place[c] = "listed",
           place' = [place EXCEPT ![c] = "shown"]
    PROVE  PlacesMove /\ place'[c] = "shown"
<1>1. c \in Objects
  BY KindsApart
<1>2. /\ place' \in PlaceType /\ OwnedOnce'
      /\ \A o \in Objects : place[o] = "shown" => Tree(o)' = Tree(o)
  BY <1>1, OwnersStay DEF PlacesFine
<1>3. place'[c] = "shown" /\ \A o \in Objects \ {c} : place'[o] = place[o]
  BY <1>1 DEF PlacesFine, PlaceType
<1>4. PlacesFine'
  BY <1>2, <1>3, KindsApart DEF PlacesFine, PlaceType, Objects
<1>5. QED
  BY <1>2, <1>3, <1>4, KindsApart DEF PlacesMove, ShownStays

LEMMA TreesVanish ==
    ASSUME PlacesFine, OwnedOnce, NEW rs \in SUBSET Objects, \A o \in rs : Top(o),
           place' = Without(TreesOf(rs))
    PROVE  /\ PlacesMove
           /\ \A o \in rs : place'[o] = "free"
           /\ \A c \in Configs \ rs : place'[c] = place[c]
           /\ \A p \in Parents : (\A r \in rs \cap (Configs \cup {p}) : place[r] # "listed")
                                     => p \in Parents'
<1>1. /\ place' \in PlaceType
      /\ \A o \in Objects : place'[o] \in {"free", place[o]}
      /\ \A o \in rs : place'[o] = "free"
      /\ \A o \in Objects \ rs : Top(o) => place'[o] = place[o] /\ Tree(o)' = Tree(o)
      /\ OwnedOnce'
  BY TreesGo DEF PlacesFine
<1>2. PlacesFine'
  BY <1>1, KindsApart DEF PlacesFine, PlaceType, Objects
<1>3. ShownStays
  BY <1>1, KindsApart DEF ShownStays, Top
<1>4. \A c \in Configs \ rs : place'[c] = place[c]
  BY <1>1, KindsApart DEF Top, PlacesFine
<1>5. ASSUME NEW p \in Parents, \A r \in rs \cap (Configs \cup {p}) : place[r] # "listed"
      PROVE  p \in Parents'
  <2>1. PICK r \in Configs \cup {p} : place[r] = "listed" /\ Reaches(p, r)
    BY ParentRoot
  <2>2. r \in Objects \ rs /\ p \in Objects /\ p \in Configs \cup Categories
    BY <2>1, <1>5, KindsApart DEF Parents
  <2>3. place'[r] = "listed" /\ Tree(r)' = Tree(r) /\ Owner(r) = r
    BY <2>1, <2>2, <1>1, Unowned DEF Top
  <2>4. place[p] # "free"
    <3>1. CASE place[p] = "free"
      <4>1. Owner(p) = p
        BY <3>1, <2>2, Unowned
      <4>2. r = p
        BY <4>1, <2>1, <2>2, RootReaches
      <4>3. QED
        BY <4>2, <3>1, <2>1
    <3>2. QED
      BY <3>1
  <2>5. Reaches(p, r)'
    BY <2>1, <2>2, <2>3, <2>4 DEF Tree, Objects
  <2>6. QED
    BY <2>1, <2>2, <2>3, <2>5, KindsApart DEF Parents
<1>6. QED
  BY <1>1, <1>2, <1>3, <1>4, <1>5 DEF PlacesMove

LEMMA ChildAdded ==
    ASSUME PlacesFine, OwnedOnce, NEW parent \in Configs \cup Categories,
           NEW child \in Categories \cup Items,
           place' = [place EXCEPT ![child] = parent], place[child] = "listed",
           NEW r \in Objects, Reaches(parent, r), place[r] = "listed",
           r = child => parent = child
    PROVE  PlacesMove /\ \A c \in Configs : place'[c] = place[c]
<1>1. child \in Objects
  BY KindsApart
<1>2. /\ place' \in PlaceType /\ OwnedOnce'
      /\ \A c \in Objects : place[c] = "shown" => Tree(c)' = Tree(c)
  BY <1>1, ChildMoves DEF PlacesFine
<1>3. place'[child] = parent /\ \A o \in Objects \ {child} : place'[o] = place[o]
  BY <1>1 DEF PlacesFine, PlaceType
<1>4. parent # "shown"
  BY HandleAssumption DEF Objects
<1>5. PlacesFine'
  BY <1>2, <1>3, <1>4, KindsApart DEF PlacesFine, PlaceType, Objects
<1>6. QED
  BY <1>2, <1>3, <1>5, KindsApart DEF PlacesMove, ShownStays

-----------------------------------------------------------------------------
(* The calls                                                               *)

Ops == {"Idle", "AddCategory", "AddItem", "GetName", "CleanAll"}

CallType == [op: Ops, holds: 0..2, parent: Objects \cup {Nobody}, child: Objects \cup {Nobody}]

\* What CallsMakeSense says of one call.
Sensible(t, k) ==
    /\ k \in CallType
    /\ k.op = "Idle" => k = Idle
    /\ k.op # "Idle" => k.holds # 0
    /\ k.op \in {"AddCategory", "GetName"} => k.holds = 1
    /\ k.op \in {"AddCategory", "AddItem"} => k.parent \in Configs \cup Categories
    /\ k.op = "AddCategory" => k.child \in Categories
    /\ k.op = "AddItem" => k.child \in Items
    /\ k.op = "CleanAll" => t = Menu

\* The mutexes of a call.
HeldBy(k) == {Order(k.op)[i] : i \in 1..k.holds}

LEMMA HeldOf ==
    ASSUME NEW t, NEW k, Sensible(t, k)
    PROVE  /\ k.op = "Idle" => HeldBy(k) = {}
           /\ k.op = "AddCategory" => HeldBy(k) = {"configs"}
           /\ k.op = "GetName" => HeldBy(k) = {"categories"}
           /\ k.op \in {"AddItem", "CleanAll"} /\ k.holds = 1 => HeldBy(k) = {"configs"}
           /\ k.op \in {"AddItem", "CleanAll"} /\ k.holds = 2 => HeldBy(k) = {"configs", "categories"}
           /\ k.op \in {"AddItem", "CleanAll"} => k.holds \in {1, 2}
           /\ k.op \in Ops
<1>1. k.op \in Ops /\ k.holds \in 0..2
  BY DEF Sensible, CallType
<1>2. ASSUME k.holds = 0 PROVE HeldBy(k) = {}
  BY <1>2 DEF HeldBy
<1>3. ASSUME k.holds = 1 PROVE HeldBy(k) = {Order(k.op)[1]}
  BY <1>3 DEF HeldBy
<1>4. ASSUME k.holds = 2 PROVE HeldBy(k) = {Order(k.op)[1], Order(k.op)[2]}
  BY <1>4 DEF HeldBy
<1>5. k.op = "Idle" => k.holds = 0
  BY DEF Sensible, Idle
<1>6. /\ k.op = "AddCategory" => Order(k.op)[1] = "configs"
      /\ k.op = "GetName" => Order(k.op)[1] = "categories"
      /\ k.op \in {"AddItem", "CleanAll"} =>
            Order(k.op)[1] = "configs" /\ Order(k.op)[2] = "categories"
  BY DEF Order
<1>7. QED
  BY <1>1, <1>2, <1>3, <1>4, <1>5, <1>6 DEF Sensible

CallsFine == \A t \in Threads : Sensible(t, call[t]) /\ (call[t].op = "CleanAll" => menu = "closing")

MenuFine ==
    /\ menu \in {"closed", "opening", "callback", "shown", "closing", "leaving"}
    /\ current \in Configs \cup {Nobody}
    /\ menu = "callback" => current # Nobody /\ place[current] = "listed"

CallsTyped == call \in [Threads -> CallType]

LEMMA TypesAre == TypeOK /\ CallsMakeSense <=> PlacesFine /\ CallsTyped /\ CallsFine /\ MenuFine
<1>1. TypeOK <=> PlacesFine /\ CallsTyped /\ MenuFine
  BY DEF TypeOK, PlacesFine, PlaceType, CallsTyped, CallType, Ops, MenuFine
<1>2. ASSUME CallsTyped PROVE CallsMakeSense <=> CallsFine
  BY <1>2 DEF CallsTyped, CallsMakeSense, CallsFine, Sensible
<1>3. QED
  BY <1>1, <1>2

Fine == PlacesFine /\ CallsTyped /\ CallsFine /\ MenuFine /\ MutexesApart /\ ParentsStay /\ OwnedOnce

LEMMA InvIsFine == IInv <=> Fine
  BY TypesAre DEF IInv, Fine

\* One thread goes on with its call, with no mutex that another thread has.
LEMMA CallMoves ==
    ASSUME CallsTyped, CallsFine, MutexesApart, NEW t \in Threads, NEW k, Sensible(t, k),
           call' = [call EXCEPT ![t] = k],
           \A m \in HeldBy(k) : m \in Held(t) \/ Free(m)
    PROVE  /\ CallsTyped' /\ MutexesApart' /\ (\A u \in Threads : Sensible(u, call[u])')
           /\ call'[t] = k /\ \A u \in Threads \ {t} : call'[u] = call[u]
<1>1. /\ call'[t] = k /\ k \in CallType
      /\ \A u \in Threads \ {t} : call'[u] = call[u]
      /\ CallsTyped'
  BY DEF CallsTyped, Sensible
<1>2. Held(t)' = HeldBy(k) /\ \A u \in Threads \ {t} : Held(u)' = Held(u)
  BY <1>1 DEF Held, HeldBy, Order
<1>3. \A u \in Threads \ {t} : \A m \in HeldBy(k) : m \notin Held(u)
  BY DEF Free, MutexesApart
<1>4. MutexesApart'
  BY <1>2, <1>3 DEF MutexesApart
<1>5. \A u \in Threads : Sensible(u, call[u])'
  BY <1>1 DEF CallsFine, Sensible, CallType, Ops, Objects, Idle
<1>6. QED
  BY <1>1, <1>4, <1>5

-----------------------------------------------------------------------------
(* The steps                                                               *)

Waits(t) == call[t].op = "AddItem" /\ call[t].holds = 2

\* What every step does.
StepFine ==
    /\ Fine'
    /\ ShownStays
    /\ current # Nobody /\ current' = Nobody => place'[current] # "listed"

LEMMA HeldIs ==
    ASSUME CallsFine, NEW t \in Threads
    PROVE  /\ call[t].op = "Idle" => Held(t) = {}
           /\ call[t].op = "AddCategory" => Held(t) = {"configs"}
           /\ call[t].op = "GetName" => Held(t) = {"categories"}
           /\ call[t].op \in {"AddItem", "CleanAll"} /\ call[t].holds = 1 => Held(t) = {"configs"}
           /\ call[t].op \in {"AddItem", "CleanAll"} /\ call[t].holds = 2
                 => Held(t) = {"configs", "categories"}
           /\ call[t].op \in {"AddItem", "CleanAll"} => call[t].holds \in {1, 2}
           /\ call[t].op \in Ops
<1>1. Sensible(t, call[t])
  BY DEF CallsFine
<1>2. Held(t) = HeldBy(call[t])
  BY DEF Held, HeldBy
<1>3. QED
  BY ONLY <1>1, <1>2, HeldOf

\* Who waits for the list of the items keeps the other two.
LEMMA NoneWaits ==
    ASSUME CallsFine, NEW m \in {"configs", "categories"}, Free(m)
    PROVE  \A t \in Threads : ~Waits(t)
  BY HeldIs DEF Waits, Free

LEMMA OneWaits ==
    ASSUME CallsFine, MutexesApart, NEW t \in Threads, "configs" \in Held(t)
    PROVE  \A u \in Threads \ {t} : ~Waits(u)
<1>1. SUFFICES ASSUME NEW u \in Threads \ {t}, Waits(u) PROVE FALSE
  OBVIOUS
<1>2. "configs" \in Held(u)
  BY <1>1, HeldIs DEF Waits
<1>3. QED
  BY <1>2 DEF MutexesApart

LEMMA CallsKeep ==
    ASSUME Fine, UNCHANGED call, menu' = menu \/ call[Menu] = Idle
    PROVE  CallsTyped' /\ CallsFine' /\ MutexesApart'
<1>1. CallsTyped'
  BY DEF Fine, CallsTyped, CallType, Ops, Objects
<1>2. \A t : Held(t)' = Held(t)
  BY DEF Held, Order
<1>3. MutexesApart'
  BY <1>2 DEF Fine, MutexesApart
<1>4. ASSUME NEW t \in Threads PROVE Sensible(t, call[t])' /\ (call'[t].op = "CleanAll" => menu' = "closing")
  <2>1. Sensible(t, call[t]) /\ (call[t].op = "CleanAll" => menu = "closing")
    BY DEF Fine, CallsFine
  <2>2. Sensible(t, call[t])'
    BY <2>1 DEF Sensible, CallType, Ops, Objects, Idle
  <2>3. call[t].op = "CleanAll" => t = Menu
    BY <2>1 DEF Sensible
  <2>4. QED
    BY <2>1, <2>2, <2>3 DEF Idle
<1>5. QED
  BY <1>1, <1>3, <1>4 DEF CallsFine

LEMMA InitFine ==
    ASSUME Init
    PROVE  Fine
<1>1. PlacesFine /\ OwnedOnce
  BY KindsApart DEF Init, PlacesFine, PlaceType, OwnedOnce
<1>2. \A t \in Threads : call[t] = Idle
  BY DEF Init
<1>3. Idle \in CallType /\ \A t : Sensible(t, Idle)
  BY DEF Idle, CallType, Ops, Sensible
<1>4. CallsTyped
  BY <1>3 DEF Init, CallsTyped
<1>5. CallsFine
  BY <1>2, <1>3 DEF CallsFine, Idle
<1>6. MutexesApart
  BY <1>2, <1>5, HeldIs DEF MutexesApart, Idle
<1>7. ParentsStay
  BY <1>2 DEF ParentsStay, Idle
<1>8. MenuFine
  BY DEF Init, MenuFine
<1>9. QED
  BY <1>1, <1>4, <1>5, <1>6, <1>7, <1>8 DEF Fine

LEMMA StutterFine ==
    ASSUME Fine, UNCHANGED vars
    PROVE  StepFine
<1>1. UNCHANGED <<place, call, menu, current>>
  BY DEF vars
<1>2. PlacesMove /\ Parents' = Parents
  BY <1>1, NothingMoves DEF Fine
<1>3. CallsTyped' /\ CallsFine' /\ MutexesApart'
  BY <1>1, CallsKeep
<1>4. ParentsStay' /\ MenuFine'
  BY <1>1, <1>2 DEF Fine, ParentsStay, MenuFine
<1>5. QED
  BY <1>1, <1>2, <1>3, <1>4 DEF StepFine, Fine, PlacesMove

LEMMA CreateFine ==
    ASSUME Fine, NEW t \in Threads, NEW o \in Objects, Create(t, o)
    PROVE  StepFine
<1>1. place[o] = "free" /\ place' = [place EXCEPT ![o] = "listed"] /\ UNCHANGED <<call, menu, current>>
  BY DEF Create
<1>2. /\ PlacesMove /\ Parents \subseteq Parents'
      /\ \A c \in Objects \ {o} : place'[c] = place[c]
  BY <1>1, ObjectAppears DEF Fine
<1>3. CallsTyped' /\ CallsFine' /\ MutexesApart'
  BY <1>1, CallsKeep
<1>4. ParentsStay'
  BY <1>1, <1>2 DEF Fine, ParentsStay
<1>5. MenuFine'
  BY <1>1, <1>2, KindsApart DEF Fine, MenuFine
<1>6. QED
  BY <1>1, <1>2, <1>3, <1>4, <1>5 DEF StepFine, Fine, PlacesMove

LEMMA DestroyFine ==
    ASSUME Fine, NEW t \in Threads, NEW o \in Objects, Destroy(t, o)
    PROVE  StepFine
<1>1. /\ o \in Categories \cup Items /\ place[o] = "listed"
      /\ Free(IF o \in Categories THEN "categories" ELSE "items")
      /\ place' = Without(Tree(o)) /\ UNCHANGED <<call, menu, current>>
  BY DEF Destroy
<1>2. {o} \in SUBSET Objects /\ (\A r \in {o} : Top(r)) /\ TreesOf({o}) = Tree(o)
  BY <1>1 DEF Top, TreesOf
<1>3. /\ PlacesMove
      /\ \A c \in Configs \ {o} : place'[c] = place[c]
      /\ \A p \in Parents : (\A r \in {o} \cap (Configs \cup {p}) : place[r] # "listed")
                                => p \in Parents'
  BY <1>1, <1>2, TreesVanish DEF Fine
<1>4. CallsTyped' /\ CallsFine' /\ MutexesApart'
  BY <1>1, CallsKeep
<1>5. o \notin Configs
  BY <1>1, KindsApart
<1>6. ParentsStay'
  <2>1. SUFFICES ASSUME NEW u \in Threads, Waits(u) PROVE call[u].parent \in Parents'
    BY <1>1 DEF ParentsStay, Waits
  <2>2. call[u].parent \in Parents
    BY <2>1 DEF Fine, ParentsStay, Waits
  <2>3. o \in Items
    BY <2>1, <1>1, NoneWaits DEF Fine
  <2>4. call[u].parent # o
    BY <2>2, <2>3, KindsApart DEF Parents
  <2>5. QED
    BY <2>2, <2>4, <1>3, <1>5
<1>7. MenuFine'
  BY <1>1, <1>3, <1>5 DEF Fine, MenuFine
<1>8. QED
  BY <1>1, <1>3, <1>4, <1>6, <1>7 DEF StepFine, Fine, PlacesMove

LEMMA CallGoes ==
    ASSUME Fine, NEW t \in Threads, NEW k, Sensible(t, k), call' = [call EXCEPT ![t] = k],
           \A m \in HeldBy(k) : m \in Held(t) \/ Free(m),
           k.op = "CleanAll" => menu' = "closing", menu' = menu \/ t = Menu
    PROVE  /\ CallsTyped' /\ CallsFine' /\ MutexesApart'
           /\ call'[t] = k /\ \A u \in Threads \ {t} : call'[u] = call[u]
<1>1. CallsTyped /\ CallsFine /\ MutexesApart
  BY DEF Fine
<1>2. /\ CallsTyped' /\ MutexesApart' /\ (\A u \in Threads : Sensible(u, call[u])')
      /\ call'[t] = k /\ \A u \in Threads \ {t} : call'[u] = call[u]
  BY <1>1, CallMoves
<1>3. ASSUME NEW u \in Threads, call'[u].op = "CleanAll" PROVE menu' = "closing"
  <2>1. CASE u = t
    BY <2>1, <1>2, <1>3
  <2>2. CASE u # t
    <3>1. call[u].op = "CleanAll"
      BY <2>2, <1>2, <1>3
    <3>2. u = Menu /\ menu = "closing"
      BY <3>1, <1>1 DEF CallsFine, Sensible
    <3>3. QED
      BY <3>2, <2>2
  <2>3. QED
    BY <2>1, <2>2
<1>4. CallsFine'
  BY <1>2, <1>3 DEF CallsFine
<1>5. QED
  BY <1>2, <1>4

\* A step of a call that leaves the objects alone.
LEMMA CallOnly ==
    ASSUME Fine, NEW t \in Threads, NEW k, Sensible(t, k), call' = [call EXCEPT ![t] = k],
           \A m \in HeldBy(k) : m \in Held(t) \/ Free(m),
           k.op = "CleanAll" => menu = "closing",
           k.op = "AddItem" /\ k.holds = 2 => k.parent \in Parents,
           UNCHANGED <<place, menu, current>>
    PROVE  StepFine
<1>1. PlacesMove /\ Parents' = Parents
  BY NothingMoves DEF Fine
<1>2. /\ CallsTyped' /\ CallsFine' /\ MutexesApart'
      /\ call'[t] = k /\ \A u \in Threads \ {t} : call'[u] = call[u]
  BY CallGoes
<1>3. ParentsStay'
  BY <1>1, <1>2 DEF Fine, ParentsStay
<1>4. MenuFine'
  BY DEF Fine, MenuFine
<1>5. QED
  BY <1>1, <1>2, <1>3, <1>4 DEF StepFine, Fine, PlacesMove

LEMMA IdleSensible ==
    ASSUME NEW t
    PROVE  Sensible(t, Idle) /\ HeldBy(Idle) = {} /\ Idle.op = "Idle"
<1>1. Sensible(t, Idle)
  BY DEF Idle, CallType, Ops, Sensible
<1>2. QED
  BY <1>1, HeldOf DEF Idle

LEMMA BeginsFine ==
    ASSUME Fine, NEW t \in Threads,
           NEW op \in {"AddCategory", "AddItem", "GetName", "CleanAll"},
           NEW parent, NEW child, Begins(t, op, parent, child),
           op = "AddCategory" => parent \in Configs \cup Categories /\ child \in Categories,
           op = "AddItem" => parent \in Configs \cup Categories /\ child \in Items,
           op = "GetName" => parent \in Categories /\ child = Nobody,
           op = "CleanAll" => parent = Nobody /\ child = Nobody /\ t = Menu /\ menu = "closing"
    PROVE  StepFine
<1> DEFINE k == [op |-> op, holds |-> 1, parent |-> parent, child |-> child]
<1>1. k.op = op /\ k.holds = 1 /\ k.parent = parent /\ k.child = child
  OBVIOUS
<1>2. k \in CallType
  BY DEF CallType, Ops, Objects
<1>3. call' = [call EXCEPT ![t] = k] /\ Free(Order(op)[1]) /\ UNCHANGED <<place, menu, current>>
  BY DEF Begins
<1> HIDE DEF k
<1>4. Sensible(t, k)
  BY <1>1, <1>2 DEF Sensible
<1>5. HeldBy(k) = {Order(op)[1]}
  BY <1>1 DEF HeldBy
<1>6. \A m \in HeldBy(k) : m \in Held(t) \/ Free(m)
  BY <1>3, <1>5
<1>7. (k.op = "CleanAll" => menu = "closing") /\ k.holds # 2
  BY <1>1
<1>8. QED
  BY <1>3, <1>4, <1>6, <1>7, CallOnly

LEMMA FindParentFine ==
    ASSUME Fine, NEW t \in Threads, FindParent(t)
    PROVE  StepFine
<1>1. /\ call[t].op = "AddItem" /\ call[t].holds = 1 /\ Free(NextMutex(t))
      /\ UNCHANGED <<place, menu, current>>
      /\ \/ call[t].parent \in Parents /\ GoesOn(t)
         \/ Ends(t)
  BY DEF FindParent, Locks, GoesOn
<1>2. CASE call[t].parent \in Parents /\ GoesOn(t)
  <2> DEFINE k == [call[t] EXCEPT !.holds = 2]
  <2>1. call[t] \in CallType /\ Sensible(t, call[t]) /\ CallsFine /\ CallsTyped
    BY DEF Fine, CallsFine, Sensible
  <2>2. /\ k \in CallType /\ k.op = "AddItem" /\ k.holds = 2
        /\ k.parent = call[t].parent /\ k.child = call[t].child
    BY <2>1, <1>1 DEF CallType
  <2>3. call' = [call EXCEPT ![t] = k]
    BY <1>1, <1>2, <2>1 DEF GoesOn, CallsTyped
  <2> HIDE DEF k
  <2>4. Sensible(t, k)
    BY <2>1, <2>2, <1>1 DEF Sensible
  <2>5. HeldBy(k) = {"configs", "categories"}
    BY <2>2, <2>4, HeldOf
  <2>6. Held(t) = {"configs"}
    BY <1>1, <2>1, HeldIs
  <2>7. NextMutex(t) = "categories"
    BY <1>1 DEF NextMutex, Order
  <2>8. QED
    BY <1>1, <1>2, <2>2, <2>3, <2>4, <2>5, <2>6, <2>7, CallOnly
<1>3. CASE Ends(t)
  BY <1>1, <1>3, IdleSensible, CallOnly DEF Ends
<1>4. QED
  BY <1>1, <1>2, <1>3

LEMMA GetNameFine ==
    ASSUME Fine, NEW t \in Threads, GetName(t)
    PROVE  StepFine
  BY IdleSensible, CallOnly DEF GetName, Ends

\* A call that ends leaves nobody waiting who was not.
LEMMA CallEnds ==
    ASSUME Fine, NEW t \in Threads, Ends(t), menu' = menu \/ t = Menu
    PROVE  /\ CallsTyped' /\ CallsFine' /\ MutexesApart'
           /\ \A u \in Threads : Waits(u)' => u # t /\ Waits(u)
<1>1. /\ CallsTyped' /\ CallsFine' /\ MutexesApart'
      /\ call'[t] = Idle /\ \A u \in Threads \ {t} : call'[u] = call[u]
  BY IdleSensible, CallGoes DEF Ends
<1>2. QED
  BY <1>1, IdleSensible DEF Waits

LEMMA AddCategoryFine ==
    ASSUME Fine, NEW t \in Threads, AddCategory(t)
    PROVE  StepFine
<1> DEFINE parent == call[t].parent
           child == call[t].child
<1>1. /\ call[t].op = "AddCategory" /\ Ends(t) /\ UNCHANGED <<menu, current>>
      /\ \/ /\ place[parent] = "listed" /\ place[child] = "listed"
            /\ place' = [place EXCEPT ![child] = parent]
         \/ UNCHANGED place
  BY DEF AddCategory, Locks
<1>2. parent \in Configs \cup Categories /\ child \in Categories /\ parent \in Objects
  BY <1>1, KindsApart DEF Fine, CallsFine, Sensible
<1> HIDE DEF parent, child
<1>3. PlacesMove /\ \A c \in Configs : place'[c] = place[c]
  <2>1. CASE UNCHANGED place
    BY <2>1, NothingMoves DEF Fine
  <2>2. CASE /\ place[parent] = "listed" /\ place[child] = "listed"
             /\ place' = [place EXCEPT ![child] = parent]
    BY <2>2, <1>2, ChildAdded, ReachesSelf DEF Fine
  <2>3. QED
    BY <1>1, <2>1, <2>2
<1>4. /\ CallsTyped' /\ CallsFine' /\ MutexesApart'
      /\ \A u \in Threads : Waits(u)' => u # t /\ Waits(u)
  BY <1>1, CallEnds
<1>5. "configs" \in Held(t)
  BY <1>1, HeldIs DEF Fine
<1>6. ParentsStay'
  BY <1>4, <1>5, OneWaits DEF Fine, ParentsStay, Waits
<1>7. MenuFine'
  BY <1>1, <1>3 DEF Fine, MenuFine
<1>8. QED
  BY <1>1, <1>3, <1>4, <1>6, <1>7 DEF StepFine, Fine, PlacesMove

LEMMA AddItemFine ==
    ASSUME Fine, NEW t \in Threads, AddItem(t)
    PROVE  StepFine
<1> DEFINE parent == call[t].parent
           child == call[t].child
<1>1. /\ call[t].op = "AddItem" /\ call[t].holds = 2 /\ Ends(t) /\ UNCHANGED <<menu, current>>
      /\ \/ /\ place[child] = "listed"
            /\ place' = [place EXCEPT ![child] = parent]
         \/ UNCHANGED place
  BY DEF AddItem, Locks
<1>2. child \in Items /\ parent \in Parents
  BY <1>1 DEF Fine, CallsFine, Sensible, ParentsStay
<1> HIDE DEF parent, child
<1>3. PlacesMove /\ \A c \in Configs : place'[c] = place[c]
  <2>1. CASE UNCHANGED place
    BY <2>1, NothingMoves DEF Fine
  <2>2. CASE /\ place[child] = "listed"
             /\ place' = [place EXCEPT ![child] = parent]
    <3>1. PICK r \in Configs \cup {parent} : place[r] = "listed" /\ Reaches(parent, r)
      BY <1>2, ParentRoot
    <3>2. parent \in Configs \cup Categories
      BY <1>2 DEF Parents
    <3>3. r \in Objects /\ r # child
      BY <1>2, <3>2, KindsApart
    <3>4. QED
      BY <2>2, <1>2, <3>1, <3>2, <3>3, ChildAdded DEF Fine
  <2>3. QED
    BY <1>1, <2>1, <2>2
<1>4. /\ CallsTyped' /\ CallsFine' /\ MutexesApart'
      /\ \A u \in Threads : Waits(u)' => u # t /\ Waits(u)
  BY <1>1, CallEnds
<1>5. "configs" \in Held(t)
  BY <1>1, HeldIs DEF Fine
<1>6. ParentsStay'
  BY <1>4, <1>5, OneWaits DEF Fine, ParentsStay, Waits
<1>7. MenuFine'
  BY <1>1, <1>3 DEF Fine, MenuFine
<1>8. QED
  BY <1>1, <1>3, <1>4, <1>6, <1>7 DEF StepFine, Fine, PlacesMove

\* displayMenu goes on while its thread is in no call.
LEMMA MenuGoes ==
    ASSUME Fine, NEW from, NEW to, Goes(from, to), UNCHANGED call
    PROVE  menu = from /\ menu' = to /\ CallsTyped' /\ CallsFine' /\ MutexesApart'
  BY CallsKeep DEF Goes

LEMMA MenuOnlyFine ==
    ASSUME Fine, OpenMenu \/ ShowMenu \/ CloseMenu
    PROVE  StepFine
<1>1. PICK from \in {"closed", "opening", "shown"}, to \in {"opening", "shown", "closing"} : Goes(from, to)
  BY DEF OpenMenu, ShowMenu, CloseMenu
<1>2. UNCHANGED <<place, call, current>>
  BY DEF OpenMenu, ShowMenu, CloseMenu
<1>3. PlacesMove /\ Parents' = Parents
  BY <1>2, NothingMoves DEF Fine
<1>4. menu' = to /\ CallsTyped' /\ CallsFine' /\ MutexesApart'
  BY <1>1, <1>2, MenuGoes
<1>5. ParentsStay'
  BY <1>2, <1>3 DEF Fine, ParentsStay
<1>6. MenuFine'
  BY <1>2, <1>4 DEF Fine, MenuFine
<1>7. QED
  BY <1>2, <1>3, <1>4, <1>5, <1>6 DEF StepFine, Fine, PlacesMove

LEMMA CreateConfigFine ==
    ASSUME Fine, NEW c \in Configs, CreateConfig(c)
    PROVE  StepFine
<1>1. /\ Goes("opening", "callback") /\ place[c] = "free" /\ current' = c /\ UNCHANGED call
      /\ place' = [place EXCEPT ![c] = "listed"]
  BY DEF CreateConfig
<1>2. PlacesMove /\ Parents \subseteq Parents' /\ place'[c] = "listed"
  BY <1>1, KindsApart, ObjectAppears DEF Fine
<1>3. menu' = "callback" /\ CallsTyped' /\ CallsFine' /\ MutexesApart'
  BY <1>1, MenuGoes
<1>4. ParentsStay'
  BY <1>1, <1>2 DEF Fine, ParentsStay
<1>5. c # Nobody
  BY KindsApart, HandleAssumption
<1>6. MenuFine'
  BY <1>1, <1>2, <1>3, <1>5 DEF MenuFine
<1>7. QED
  BY <1>1, <1>2, <1>3, <1>4, <1>5, <1>6 DEF StepFine, Fine, PlacesMove

\* A config leaves its list: for the menu, or with what it holds.
LEMMA ConfigPopped ==
    ASSUME Fine, NEW c \in Configs, place[c] = "listed", Free("configs"), UNCHANGED call,
           \/ place' = [place EXCEPT ![c] = "shown"]
           \/ place' = Without(Tree(c))
    PROVE  PlacesMove /\ ParentsStay' /\ place'[c] # "listed"
<1>1. \A t \in Threads : ~Waits(t)
  BY NoneWaits DEF Fine
<1>2. ParentsStay'
  BY <1>1 DEF ParentsStay, Waits
<1>3. PlacesMove /\ place'[c] # "listed"
  <2>1. CASE place' = [place EXCEPT ![c] = "shown"]
    BY <2>1, ConfigShown DEF Fine
  <2>2. CASE place' = Without(Tree(c))
    <3>1. {c} \in SUBSET Objects /\ (\A r \in {c} : Top(r)) /\ TreesOf({c}) = Tree(c)
      BY KindsApart DEF Top, TreesOf
    <3>2. PlacesMove /\ \A r \in {c} : place'[r] = "free"
      BY <3>1, <2>2, TreesVanish DEF Fine
    <3>3. QED
      BY <3>2
  <2>3. QED
    BY <2>1, <2>2
<1>4. QED
  BY <1>2, <1>3

LEMMA PopConfigFine ==
    ASSUME Fine, PopConfig
    PROVE  StepFine
<1>1. /\ Goes("callback", "opening") /\ Free("configs") /\ current' = Nobody /\ UNCHANGED call
      /\ \/ place' = [place EXCEPT ![current] = "shown"]
         \/ place' = Without(Tree(current))
  BY DEF PopConfig
<1>2. menu = "callback" /\ menu' = "opening" /\ CallsTyped' /\ CallsFine' /\ MutexesApart'
  BY <1>1, MenuGoes
<1>3. current \in Configs /\ place[current] = "listed"
  BY <1>2 DEF Fine, MenuFine
<1>4. PlacesMove /\ ParentsStay' /\ place'[current] # "listed"
  <2>1. SUFFICES ASSUME NEW c, c = current
                 PROVE  PlacesMove /\ ParentsStay' /\ place'[c] # "listed"
    OBVIOUS
  <2>2. QED
    BY <2>1, <1>1, <1>3, ConfigPopped
<1>5. MenuFine'
  BY <1>1, <1>2 DEF MenuFine
<1>6. QED
  BY <1>2, <1>4, <1>5 DEF StepFine, Fine, PlacesMove

LEMMA PopDeprecatedFine ==
    ASSUME Fine, NEW c \in Configs, PopDeprecated(c)
    PROVE  StepFine
<1>1. /\ Goes("opening", "opening") /\ Free("configs") /\ UNCHANGED <<call, current>>
      /\ place[c] = "listed" /\ place' = [place EXCEPT ![c] = "shown"]
  BY DEF PopDeprecated
<1>2. menu' = "opening" /\ CallsTyped' /\ CallsFine' /\ MutexesApart'
  BY <1>1, MenuGoes
<1>3. PlacesMove /\ ParentsStay'
  BY <1>1, ConfigPopped
<1>4. MenuFine'
  BY <1>1, <1>2 DEF Fine, MenuFine
<1>5. QED
  BY <1>1, <1>2, <1>3, <1>4 DEF StepFine, Fine, PlacesMove

\* With all three mutexes, nobody else can be in AddItem's last step.
LEMMA CleanAllFine ==
    ASSUME Fine, CleanAll
    PROVE  StepFine
<1>1. Menu \in Threads /\ Sensible(Menu, call[Menu]) /\ call[Menu] \in CallType
  BY HandleAssumption DEF Fine, CallsFine, Sensible
<1>2. CASE /\ Locks(Menu, "CleanAll", 1) /\ GoesOn(Menu) /\ UNCHANGED <<menu, current>>
  <2> DEFINE k == [call[Menu] EXCEPT !.holds = 2]
  <2>1. /\ call[Menu].op = "CleanAll" /\ call[Menu].holds = 1 /\ Free(NextMutex(Menu))
        /\ UNCHANGED <<place, menu, current>>
    BY <1>2 DEF Locks, GoesOn
  <2>2. k \in CallType /\ k.op = "CleanAll" /\ k.holds = 2
    BY <2>1, <1>1 DEF CallType
  <2>3. call' = [call EXCEPT ![Menu] = k]
    BY <1>1, <1>2, <2>1 DEF GoesOn, Fine, CallsTyped
  <2> HIDE DEF k
  <2>4. Sensible(Menu, k)
    BY <2>2 DEF Sensible
  <2>5. \A m \in HeldBy(k) : m \in Held(Menu) \/ Free(m)
    <3>1. HeldBy(k) = {"configs", "categories"}
      BY <2>2, <2>4, HeldOf
    <3>2. Held(Menu) = {"configs"}
      BY <1>1, <2>1, HeldIs DEF Fine
    <3>3. NextMutex(Menu) = "categories"
      BY <2>1 DEF NextMutex, Order
    <3>4. QED
      BY <2>1, <3>1, <3>2, <3>3
  <2>6. menu = "closing"
    BY <1>1, <2>1 DEF Fine, CallsFine
  <2>7. QED
    BY <1>1, <2>1, <2>2, <2>3, <2>4, <2>5, <2>6, CallOnly
<1>3. CASE /\ Locks(Menu, "CleanAll", 2) /\ Ends(Menu) /\ menu' = "leaving" /\ UNCHANGED current
           /\ place' = Without(UNION {Tree(o) : o \in {x \in Objects : place[x] = "listed"}})
  <2> DEFINE rs == {x \in Objects : place[x] = "listed"}
  <2>1. rs \in SUBSET Objects /\ (\A r \in rs : Top(r)) /\ place' = Without(TreesOf(rs))
    BY <1>3 DEF Top, TreesOf
  <2> HIDE DEF rs
  <2>2. PlacesMove
    BY <2>1, TreesVanish DEF Fine
  <2>3. /\ CallsTyped' /\ CallsFine' /\ MutexesApart'
        /\ \A u \in Threads : Waits(u)' => u # Menu /\ Waits(u)
    BY <1>1, <1>3, CallEnds
  <2>4. "configs" \in Held(Menu)
    BY <1>1, <1>3, HeldIs DEF Fine, Locks
  <2>5. ParentsStay'
    BY <1>1, <2>3, <2>4, OneWaits DEF Fine, ParentsStay, Waits
  <2>6. MenuFine'
    BY <1>3 DEF Fine, MenuFine
  <2>7. QED
    BY <1>3, <2>2, <2>3, <2>5, <2>6 DEF StepFine, Fine, PlacesMove
<1>4. QED
  BY <1>2, <1>3 DEF CleanAll

LEMMA LeaveMenuFine ==
    ASSUME Fine, LeaveMenu
    PROVE  StepFine
<1> DEFINE rs == {x \in Configs : place[x] = "shown"}
<1>1. Goes("leaving", "closed") /\ UNCHANGED <<call, current>>
  BY DEF LeaveMenu
<1>2. rs \in SUBSET Objects /\ (\A r \in rs : Top(r)) /\ place' = Without(TreesOf(rs))
  BY KindsApart DEF Top, TreesOf, LeaveMenu
<1>3. \A r \in rs : place[r] # "listed"
  OBVIOUS
<1> HIDE DEF rs
<1>4. PlacesMove /\ Parents \subseteq Parents'
  BY <1>2, <1>3, TreesVanish DEF Fine
<1>5. menu' = "closed" /\ CallsTyped' /\ CallsFine' /\ MutexesApart'
  BY <1>1, MenuGoes
<1>6. ParentsStay'
  BY <1>1, <1>4 DEF Fine, ParentsStay
<1>7. MenuFine'
  BY <1>1, <1>5 DEF Fine, MenuFine
<1>8. QED
  BY <1>1, <1>4, <1>5, <1>6, <1>7 DEF StepFine, Fine, PlacesMove

LEMMA NextFine ==
    ASSUME Fine, Next
    PROVE  StepFine
<1>1. CASE DisplayMenu
  <2>1. ASSUME BeginCleanAll PROVE StepFine
    <3>1. Begins(Menu, "CleanAll", Nobody, Nobody) /\ menu = "closing" /\ Menu \in Threads
      BY <2>1, HandleAssumption DEF BeginCleanAll
    <3>2. QED
      BY <3>1, BeginsFine
  <2>2. QED
    BY <1>1, <2>1, MenuOnlyFine, PopConfigFine, CreateConfigFine, PopDeprecatedFine, CleanAllFine,
       LeaveMenuFine DEF DisplayMenu
<1>2. CASE \E t \in Threads : Api(t)
  <2>1. PICK t \in Threads : Api(t)
    BY <1>2
  <2>2. ASSUME NEW o \in Objects, Create(t, o) \/ Destroy(t, o) PROVE StepFine
    BY <2>2, CreateFine, DestroyFine
  <2>3. ASSUME NEW p \in Configs \cup Categories, NEW c \in Categories, Begins(t, "AddCategory", p, c)
        PROVE  StepFine
    BY <2>3, BeginsFine
  <2>4. ASSUME NEW p \in Configs \cup Categories, NEW i \in Items, Begins(t, "AddItem", p, i)
        PROVE  StepFine
    BY <2>4, BeginsFine
  <2>5. ASSUME NEW c \in Categories, Begins(t, "GetName", c, Nobody) PROVE StepFine
    BY <2>5, BeginsFine
  <2>6. QED
    BY <2>1, <2>2, <2>3, <2>4, <2>5, AddCategoryFine, FindParentFine, AddItemFine, GetNameFine DEF Api
<1>3. QED
  BY <1>1, <1>2 DEF Next

-----------------------------------------------------------------------------
(* Theorems                                                                *)

\* The inductive invariant: the calls of all threads keep the mutexes apart, and
\* with them what AddItem found, so that no owner is lost.
THEOREM HandlesInvariant == Spec => []IInv
<1>1. Fine /\ [Next]_vars => Fine'
  BY NextFine, StutterFine DEF StepFine
<1>2. QED
  BY <1>1, InitFine, InvIsFine, PTL DEF Spec

\* The lists of WUPSConfigAPI.cpp keep their kinds: a config is never in a category,
\* only configs are shown, no call holds more than two mutexes when it waits for one,
\* and the config whose opened callback runs is on its list until displayMenu pops it.
THEOREM HandleTypes == Spec => []TypeOK
  BY HandlesInvariant, PTL DEF IInv

\* Whatever handles the plugins of any number of threads add to each other or
\* destroy, and whenever the menu takes configs over or cleans up: each object has
\* an owner that is alive, up to a list, to the menu, or to a category that is in
\* itself.  addCategory and addItem move the object into its new owner, and what is
\* destroyed takes everything that it owns along.
THEOREM ObjectsOwned == Spec => []OwnedOnce
  BY HandlesInvariant, PTL DEF IInv

\* The calls of WUPSConfigAPI.cpp can block each other for ever only where one of
\* them is WUPSConfigCategory_GetName: all others take sConfigsMutex first,
\* sConfigCategoryMutex next, and never keep the one of the items.
THEOREM OnlyGetNameBlocksAnyone == Spec => []OnlyGetNameBlocks
<1>1. ASSUME Fine PROVE OnlyGetNameBlocks
  <2> SUFFICES ASSUME NEW ts \in SUBSET Threads, ts # {},
                      \A t \in ts : call[t] # Idle /\ \E u \in ts \ {t} : NextMutex(t) \in Held(u),
                      \A t \in ts : call[t].op # "GetName"
               PROVE  FALSE
    BY DEF OnlyGetNameBlocks
  <2>1. ASSUME NEW t \in ts
        PROVE  /\ Held(t) \subseteq {"configs", "categories"}
               /\ NextMutex(t) \in {"categories", "items"}
               /\ "categories" \in Held(t) => NextMutex(t) = "items"
    <3>1. Sensible(t, call[t]) /\ t \in Threads /\ call[t].op \in Ops
      BY <1>1 DEF Fine, CallsFine, Sensible, CallType
    <3>2. call[t].op \in {"AddCategory", "AddItem", "CleanAll"}
      BY <3>1 DEF Sensible, Ops
    <3>3. CASE call[t].op = "AddCategory"
      <4>1. call[t].holds = 1 /\ Held(t) = {"configs"}
        BY <3>1, <3>3, <1>1, HeldIs DEF Sensible, Fine
      <4>2. NextMutex(t) = "categories"
        BY <3>3, <4>1 DEF NextMutex, Order
      <4>3. QED
        BY <4>1, <4>2
    <3>4. CASE call[t].op \in {"AddItem", "CleanAll"} /\ call[t].holds = 1
      <4>1. Held(t) = {"configs"}
        BY <3>1, <3>4, <1>1, HeldIs DEF Fine
      <4>2. NextMutex(t) = "categories"
        BY <3>4 DEF NextMutex, Order
      <4>3. QED
        BY <4>1, <4>2
    <3>5. CASE call[t].op \in {"AddItem", "CleanAll"} /\ call[t].holds = 2
      <4>1. Held(t) = {"configs", "categories"}
        BY <3>1, <3>5, <1>1, HeldIs DEF Fine
      <4>2. NextMutex(t) = "items"
        BY <3>5 DEF NextMutex, Order
      <4>3. QED
        BY <4>1, <4>2
    <3>6. QED
      BY <3>1, <3>2, <3>3, <3>4, <3>5, <1>1, HeldIs DEF Fine
  <2>2. PICK t \in ts : TRUE
    OBVIOUS
  <2>3. PICK u \in ts : NextMutex(t) \in Held(u)
    OBVIOUS
  <2>4. PICK v \in ts : NextMutex(u) \in Held(v)
    OBVIOUS
  <2>5. "categories" \in Held(u)
    BY <2>1, <2>3
  <2>6. QED
    BY <2>1, <2>4, <2>5
<1>2. QED
  BY <1>1, HandlesInvariant, InvIsFine, PTL

\* displayMenu owns the configs it shows: whatever handles the plugins use while it
\* runs, and however their calls interleave, no tree of a shown config changes until
\* the menu destroys it, and PopConfigByHandle leaves no config on the list.
THEOREM MenuKeeps == Spec => MenuTakesOver
<1>1. ASSUME Fine, [Next]_vars
      PROVE  [/\ \A c \in Configs : place[c] = "shown" /\ place'[c] = "shown" => Tree(c)' = Tree(c)
              /\ current # Nobody /\ current' = Nobody => place'[current] # "listed"]_vars
  BY <1>1, NextFine, StutterFine DEF StepFine, ShownStays
<1>2. QED
  BY <1>1, HandlesInvariant, InvIsFine, PTL DEF Spec, MenuTakesOver
=============================================================================
