-------------------------- MODULE ConfigMenu_proofs --------------------------
(*****************************************************************************)
(* The safety of the config menu.  First MenuThreads, for any number of      *)
(* threads and any cooldown: each thing the menu takes is taken in the same  *)
(* stretch of its way, and the flags the other threads write do not change   *)
(* that.  Then ConfigScreens, for any plugins, trees of categories and rows  *)
(* on the screen: renderers that are kept when they are left still show what *)
(* the cursors above them are on, since a list is left as it was found, or   *)
(* the menu with it.                                                         *)
(*****************************************************************************)
EXTENDS MenuThreads, ConfigScreens, FiniteSetTheorems, WellFoundedInduction, TLAPS

\* What the rendering thread has at each point of its way.
Stretches ==
    /\ opened <=> menu \notin {"idle", "reset"}
    /\ accept = IF menu \in {"idle", "opened", "closing", "reset"} THEN NoThread ELSE Render
    /\ menu \in {"font", "loading", "loop", "frame", "saving"} => "none" \notin {target.tv, target.drc}
    /\ menu \in {"idle", "opened", "buffers", "closing", "reset"} => target = NoScreen
    /\ menu \in {"loading", "loop", "frame", "saving"} => {"font", "home"} \subseteq held
    /\ menu \in {"idle", "opened", "buffers", "font", "restore", "closing", "reset"} => held = {}

\* The stored TV buffer was set by the application that runs.
OwnTV == stored.tv # "old" /\ DrawsOnOwnTV

MenuInv == MenuTypeOK /\ Stretches /\ OwnTV

LEMMA MenuStarts == MenuInit => MenuInv
<1> SUFFICES ASSUME MenuInit PROVE MenuInv
  OBVIOUS
<1> USE DEF MenuInit, NoScreen
<1>1. MenuTypeOK
  <2>1. pad \in [Threads -> [at: {"idle", "asleep", "combo", "other", "asks", "store"},
                            seen: 0..Cooldown]] /\ cooldown \in 0..Cooldown
    BY MenuAssumption DEF Idle, Reads
  <2>2. QED
    BY <2>1 DEF MenuTypeOK, Places
<1>2. Stretches
  BY DEF Stretches
<1>3. OwnTV
  BY DEF OwnTV, DrawsOnOwnTV
<1>4. QED
  BY <1>1, <1>2, <1>3 DEF MenuInv

\* Between two applications, and when a menu opens or its way ends.
LEMMA WayKeeps ==
    MenuInv /\ (OpenMenu \/ RenderScreen \/ RestoreScreen \/ CloseMenu \/ ResetWants) => MenuInv'
<1> SUFFICES ASSUME MenuInv,
                    OpenMenu \/ RenderScreen \/ RestoreScreen \/ CloseMenu \/ ResetWants
             PROVE  MenuInv'
  OBVIOUS
<1> USE DEF MenuInv, OpenMenu, RenderScreen, RestoreScreen, CloseMenu, ResetWants, Goes, shared, drawing
<1>1. MenuTypeOK'
  <2>1. menu' \in Places /\ opened' \in BOOLEAN /\ wants' \in BOOLEAN
        /\ accept' \in {Render, NoThread}
    BY DEF MenuTypeOK, Places
  <2>2. target' \in [tv: {"none", "heap", "stored"}, drc: {"none", "heap", "stored"}]
    BY DEF MenuTypeOK, NoScreen
  <2>3. QED
    BY <2>1, <2>2 DEF MenuTypeOK
<1>2. Stretches'
  BY MenuAssumption DEF Stretches, NoScreen
<1>3. OwnTV'
  BY DEF OwnTV, DrawsOnOwnTV, NoScreen
<1>4. QED
  BY <1>1, <1>2, <1>3

\* The preparation of the menu, whichever part of it fails.
LEMMA PreparationKeeps == MenuInv /\ (AllocateBuffers \/ InitFont \/ LoadConfigs) => MenuInv'
<1> SUFFICES ASSUME MenuInv, AllocateBuffers \/ InitFont \/ LoadConfigs PROVE MenuInv'
  OBVIOUS
<1> USE DEF MenuInv, shared, drawing, Goes
<1>1. CASE AllocateBuffers
  <2>1. PICK tv \in Buffers("tv"), drc \in Buffers("drc") :
           /\ target' = [tv |-> tv, drc |-> drc]
           /\ menu' = IF "none" \in {tv, drc} THEN "restore" ELSE "font"
    BY <1>1 DEF AllocateBuffers
  <2>2. /\ menu = "buffers"
        /\ UNCHANGED <<opened, shouldClose, wants, accept, cooldown, pad, sending, stored, held>>
    BY <1>1 DEF AllocateBuffers
  <2>3. {tv, drc} \subseteq {"none", "heap", "stored"}
    BY DEF Buffers
  <2>4. MenuTypeOK'
    BY <2>1, <2>2, <2>3 DEF MenuTypeOK, Places
  <2>5. Stretches'
    BY <2>1, <2>2 DEF Stretches
  <2>6. OwnTV'
    BY <2>1, <2>2 DEF OwnTV, DrawsOnOwnTV, Buffers, MenuTypeOK
  <2>7. QED
    BY <2>4, <2>5, <2>6
<1>2. CASE InitFont
  <2>1. MenuTypeOK'
    BY <1>2 DEF InitFont, MenuTypeOK, Places
  <2>2. Stretches'
    BY <1>2 DEF InitFont, Stretches
  <2>3. OwnTV'
    BY <1>2 DEF InitFont, OwnTV, DrawsOnOwnTV
  <2>4. QED
    BY <2>1, <2>2, <2>3
<1>3. CASE LoadConfigs
  <2> USE <1>3 DEF LoadConfigs
  <2>1. MenuTypeOK'
    BY DEF MenuTypeOK, Places
  <2>2. Stretches'
    BY DEF Stretches
  <2>3. OwnTV'
    BY DEF OwnTV, DrawsOnOwnTV
  <2>4. QED
    BY <2>1, <2>2, <2>3
<1>4. QED
  BY <1>1, <1>2, <1>3

\* The frames of the loop, which ends because it was asked to or the user left it.
LEMMA LoopKeeps == MenuInv /\ (Loop \/ SaveConfigs) => MenuInv'
<1> SUFFICES ASSUME MenuInv, Loop \/ SaveConfigs PROVE MenuInv'
  OBVIOUS
<1> USE DEF MenuInv, shared, drawing, Goes, Loop, CloseForRelease,
           StartFrame, EndFrame, CloseByUser, SaveConfigs
<1>1. MenuTypeOK'
  BY DEF MenuTypeOK, Places
<1>2. Stretches'
  BY DEF Stretches
<1>3. OwnTV'
  BY DEF OwnTV, DrawsOnOwnTV
<1>4. QED
  BY <1>1, <1>2, <1>3

\* Reads change the cooldown and the request only.
LEMMA ReadKeeps == ASSUME NEW t \in Threads PROVE MenuInv /\ Read(t) => MenuInv'
<1> SUFFICES ASSUME MenuInv, Read(t) PROVE MenuInv'
  OBVIOUS
<1> USE DEF MenuInv, shared, drawing
<1>1. UNCHANGED <<menu, opened, shouldClose, accept, sending, stored, target, held>>
  BY DEF Read, BeginRead, Sleep, WakeUp, CheckCombo, AskForMenu, StoreCooldown, WPADRead
<1>2. wants' \in BOOLEAN
  BY DEF MenuTypeOK, Read, BeginRead, Sleep, WakeUp, CheckCombo, AskForMenu, StoreCooldown, WPADRead
<1>3. pad[t].seen \in 0..Cooldown /\ cooldown \in 0..Cooldown
  BY DEF MenuTypeOK
<1>4. cooldown' \in 0..Cooldown
  BY <1>3, MenuAssumption
  DEF Read, BeginRead, Sleep, WakeUp, CheckCombo, AskForMenu, StoreCooldown, WPADRead
<1>5. pad' \in [Threads -> [at: {"idle", "asleep", "combo", "other", "asks", "store"},
                            seen: 0..Cooldown]]
  <2>1. \E r \in [at: {"idle", "asleep", "combo", "other", "asks", "store"}, seen: 0..Cooldown] :
           pad' = [pad EXCEPT ![t] = r]
    <3> DEFINE Rs == [at: {"idle", "asleep", "combo", "other", "asks", "store"}, seen: 0..Cooldown]
    <3>1. /\ \A at \in {"idle", "asleep", "combo", "other", "asks"} : Reads(at, 0) \in Rs
          /\ \A n \in 0..Cooldown : Reads("asks", n) \in Rs /\ Reads("store", n) \in Rs
          /\ Cooldown \in 0..Cooldown
      BY MenuAssumption DEF Reads
    <3>2. CASE BeginRead(t) \/ Sleep(t) \/ WPADRead(t)
      BY <3>1, <3>2 DEF BeginRead, Sleep, WPADRead
    <3>3. CASE WakeUp(t) \/ AskForMenu(t) \/ StoreCooldown(t)
      BY <3>1, <3>3 DEF WakeUp, AskForMenu, StoreCooldown, Idle
    <3>4. CASE CheckCombo(t)
      BY <1>3, <3>1, <3>4 DEF CheckCombo
    <3>5. QED
      BY <3>2, <3>3, <3>4 DEF Read
  <2>2. QED
    BY <2>1 DEF MenuTypeOK
<1>6. MenuTypeOK'
  BY <1>1, <1>2, <1>4, <1>5 DEF MenuTypeOK
<1>7. Stretches' /\ OwnTV'
  BY <1>1 DEF Stretches, OwnTV, DrawsOnOwnTV
<1>8. QED
  BY <1>6, <1>7

\* Messages of the system, buffers of the application, and the next application.
LEMMA SystemKeeps == MenuInv /\ System => MenuInv'
<1> SUFFICES ASSUME MenuInv, System PROVE MenuInv'
  OBVIOUS
<1> USE DEF MenuInv, shared, drawing
<1>1. CASE SendRelease \/ OSSendMessage
  <2> USE <1>1 DEF SendRelease, OSSendMessage
  <2>1. MenuTypeOK'
    BY DEF MenuTypeOK
  <2>2. Stretches'
    BY DEF Stretches
  <2>3. OwnTV'
    BY DEF OwnTV, DrawsOnOwnTV
  <2>4. QED
    BY <2>1, <2>2, <2>3
<1>2. CASE StartApplication
  <2>1. MenuTypeOK'
    BY <1>2 DEF StartApplication, MenuTypeOK, Aged
  <2>2. Stretches'
    BY <1>2 DEF StartApplication, Stretches
  <2>3. OwnTV'
    BY <1>2 DEF StartApplication, OwnTV, DrawsOnOwnTV, Stretches, NoScreen
  <2>4. QED
    BY <2>1, <2>2, <2>3
<1>3. ASSUME NEW name \in {"tv", "drc"}, SetBuffer(name) PROVE MenuInv'
  <2>1. MenuTypeOK'
    BY <1>3 DEF SetBuffer, MenuTypeOK
  <2>2. Stretches'
    BY <1>3 DEF SetBuffer, Stretches
  <2>3. OwnTV'
    BY <1>3 DEF SetBuffer, OwnTV, DrawsOnOwnTV, Stretches, NoScreen, MenuTypeOK
  <2>4. QED
    BY <2>1, <2>2, <2>3
<1>4. QED
  BY <1>1, <1>2, <1>3 DEF System

LEMMA MenuStepKeeps == MenuInv /\ [MenuNext]_menuVars => MenuInv'
<1> SUFFICES ASSUME MenuInv, [MenuNext]_menuVars PROVE MenuInv'
  OBVIOUS
<1>1. CASE Menu
  BY <1>1, WayKeeps, PreparationKeeps, LoopKeeps DEF Menu
<1>2. CASE System
  BY <1>2, SystemKeeps
<1>3. ASSUME NEW t \in Threads, Read(t) PROVE MenuInv'
  BY <1>3, ReadKeeps
<1>4. CASE UNCHANGED menuVars
  BY <1>4 DEF menuVars, shared, drawing, MenuInv, MenuTypeOK, Stretches, OwnTV, DrawsOnOwnTV
<1>5. QED
  BY <1>1, <1>2, <1>3, <1>4 DEF MenuNext

THEOREM MenuInvariant == MenuSpec => []MenuInv
BY MenuStarts, MenuStepKeeps, PTL DEF MenuSpec

\* Every variable keeps its type; the cooldown, which threads count down without
\* a lock, does not run below zero.
THEOREM MenuTypes == MenuSpec => []MenuTypeOK
<1>1. MenuInv => MenuTypeOK
  BY DEF MenuInv
<1>2. QED
  BY <1>1, MenuInvariant, PTL

\* The loop of the menu has all it needs, and outside of the menu nothing is left.
THEOREM EverythingGivenBack == MenuSpec => []GivenBack
<1>1. MenuInv => GivenBack
  BY MenuAssumption DEF MenuInv, Stretches, OwnTV, GivenBack, Refused
<1>2. QED
  BY <1>1, MenuInvariant, PTL

\* The menu never draws to the TV buffer of an application that is gone.
THEOREM NoForeignBuffer == MenuSpec => []DrawsOnOwnTV
<1>1. MenuInv => DrawsOnOwnTV
  BY DEF MenuInv, OwnTV
<1>2. QED
  BY <1>1, MenuInvariant, PTL

-----------------------------------------------------------------------------
(* The list of plugins                                                     *)

LEMMA LeastNumber ==
    ASSUME NEW S \in SUBSET Nat, S # {}
    PROVE  \E x \in S : \A y \in S : x <= y
<1> DEFINE Below == {ss \in Nat \X Nat : ss[1] < ss[2]}
<1>1. IsWellFoundedOn(Below, Nat)
  BY NatLessThanWellFounded DEF OpToRel
<1>2. \A x, y \in S : y < x => <<y, x>> \in Below
  OBVIOUS
<1> HIDE DEF Below
<1>3. PICK x \in S : \A y \in S : <<y, x>> \notin Below
  BY <1>1, WFMin, Zenon
<1>4. \A y \in S : ~(y < x)
  BY <1>2, <1>3
<1>5. QED
  BY <1>4

\* What is taken of n plugins, in terms of what is taken of n - 1.
TakesMore(active, g, n) ==
    IF n = 0 THEN <<>>
    ELSE IF Plugins[n] \in active THEN Append(g[n - 1], Plugins[n]) ELSE g[n - 1]

\* The first steps of copy_if exist, for any number of them ...
Takings(active, m) ==
    {g \in [0..m -> Seq(Roots)] : \A n \in 0..m : g[n] = TakesMore(active, g, n)}

LEMMA RootsListed == Plugins \in Seq(Roots) /\ Roots \subseteq Categories
<1>1. \A k \in 1..Len(Plugins) : Plugins[k] \in Roots /\ Plugins[k] \in Categories
  BY ScreenAssumption DEF Roots
<1>2. QED
  BY <1>1, ScreenAssumption DEF Roots

LEMMA TakingsExist ==
    ASSUME NEW active PROVE \A m \in 0..Len(Plugins) : Takings(active, m) # {}
<1>0. Len(Plugins) \in Nat
  BY ScreenAssumption
<1>1. Takings(active, 0) # {}
  <2> DEFINE g == [n \in 0..0 |-> <<>>]
  <2>1. g \in [0..0 -> Seq(Roots)] /\ \A n \in 0..0 : g[n] = TakesMore(active, g, n)
    BY DEF TakesMore
  <2> HIDE DEF g
  <2>2. QED
    BY <2>1 DEF Takings
<1>2. ASSUME NEW m \in Nat, m + 1 \in 0..Len(Plugins), Takings(active, m) # {}
      PROVE  Takings(active, m + 1) # {}
  <2>1. PICK g \in [0..m -> Seq(Roots)] : \A n \in 0..m : g[n] = TakesMore(active, g, n)
    BY <1>2 DEF Takings
  <2> DEFINE h == [n \in 0..m + 1 |-> IF n \in 0..m THEN g[n] ELSE TakesMore(active, g, n)]
  <2>2. Plugins[m + 1] \in Roots /\ g[m] \in Seq(Roots)
    BY <1>2, RootsListed
  <2>3. TakesMore(active, g, m + 1) \in Seq(Roots)
    BY <2>2 DEF TakesMore
  <2>4. h \in [0..m + 1 -> Seq(Roots)]
    BY <2>3
  <2>5. ASSUME NEW n \in 0..m + 1 PROVE h[n] = TakesMore(active, h, n)
    <3>1. n # 0 => h[n - 1] = g[n - 1]
      OBVIOUS
    <3>2. h[n] = TakesMore(active, g, n)
      BY <2>1
    <3> HIDE DEF h
    <3>3. QED
      BY <3>1, <3>2 DEF TakesMore
  <2> HIDE DEF h
  <2>6. QED
    BY <2>4, <2>5 DEF Takings
<1>3. QED
  <2> DEFINE Bad == {m \in 0..Len(Plugins) : Takings(active, m) = {}}
  <2>1. SUFFICES ASSUME Bad # {} PROVE FALSE
    OBVIOUS
  <2>2. Bad \in SUBSET Nat
    BY <1>0
  <2>3. PICK m \in Bad : \A k \in Bad : m <= k
    <3> HIDE DEF Bad
    <3>1. QED
      BY <2>1, <2>2, LeastNumber
  <2>4. m \in Nat /\ m # 0
    BY <1>0, <1>1
  <2>5. m - 1 \in Nat /\ m - 1 \in 0..Len(Plugins) /\ m - 1 \notin Bad /\ m = (m - 1) + 1
    BY <1>0, <2>3, <2>4
  <2>6. Takings(active, m - 1) # {}
    BY <2>5
  <2>7. Takings(active, (m - 1) + 1) # {}
    BY <1>2, <2>5, <2>6
  <2>8. QED
    BY <2>5, <2>7

\* ... and so a list shows loaded plugins, whatever it is filtered by.
LEMMA FilterLists == ASSUME NEW sc, NEW active PROVE Filter(sc, active) \in Seq(Roots)
<1>1. Len(Plugins) \in 0..Len(Plugins)
  BY ScreenAssumption
<1>2. PICK g \in [0..Len(Plugins) -> Seq(Roots)] :
        \A n \in 0..Len(Plugins) : g[n] = TakesMore(active, g, n)
  BY <1>1, TakingsExist DEF Takings
<1>3. g = [n \in 0..Len(Plugins) |->
             IF n = 0 THEN <<>>
             ELSE IF Plugins[n] \in active THEN Append(g[n - 1], Plugins[n]) ELSE g[n - 1]]
  BY <1>2 DEF TakesMore
<1> DEFINE h == Taken(active)
<1>4. h = [n \in 0..Len(Plugins) |->
             IF n = 0 THEN <<>>
             ELSE IF Plugins[n] \in active THEN Append(h[n - 1], Plugins[n]) ELSE h[n - 1]]
  BY <1>3 DEF Taken
<1> HIDE DEF h
<1>5. \A n \in 0..Len(Plugins) : h[n] = TakesMore(active, h, n)
  BY <1>4 DEF TakesMore
<1>6. \A n \in 0..Len(Plugins) : h[n] \in Seq(Roots)
  <2> DEFINE Bad == {n \in 0..Len(Plugins) : h[n] \notin Seq(Roots)}
  <2>1. SUFFICES ASSUME Bad # {} PROVE FALSE
    OBVIOUS
  <2>2. Len(Plugins) \in Nat /\ Bad \in SUBSET Nat
    BY ScreenAssumption
  <2>3. PICK n \in Bad : \A k \in Bad : n <= k
    <3> HIDE DEF Bad
    <3>1. QED
      BY <2>1, <2>2, LeastNumber
  <2>4. n # 0
    <3>1. n = 0 => h[n] = <<>>
      BY <1>5 DEF TakesMore
    <3>2. h[n] \notin Seq(Roots) /\ <<>> \in Seq(Roots)
      BY <2>3
    <3>3. QED
      BY <3>1, <3>2
  <2>5. n \in 1..Len(Plugins) /\ n - 1 \in 0..Len(Plugins) /\ h[n - 1] \in Seq(Roots)
    BY <2>2, <2>3, <2>4
  <2>6. Plugins[n] \in Roots
    BY <2>5, RootsListed
  <2>7. h[n] = h[n - 1] \/ h[n] = Append(h[n - 1], Plugins[n])
    BY <1>5, <2>4 DEF TakesMore
  <2>8. h[n] \in Seq(Roots)
    <3>1. \A s \in Seq(Roots), x \in Roots : Append(s, x) \in Seq(Roots)
      OBVIOUS
    <3>2. QED
      BY <2>5, <2>6, <2>7, <3>1, Zenon
  <2>9. QED
    BY <2>3, <2>8
<1>7. Taken(active)[Len(Plugins)] \in Seq(Roots)
  BY <1>1, <1>6 DEF h
<1>8. QED
  BY <1>7, RootsListed DEF Filter

\* Wherever a cursor is sent, it is on a row, and the rows are scrolled to it.
LEMMA CursorShown ==
    ASSUME NEW size \in Nat, NEW pos \in Int, NEW off \in Nat
    PROVE  /\ Wrapped(pos, size) \in Nat
           /\ Scrolled(off, Wrapped(pos, size)) \in Nat
           /\ Visible(Scrolled(off, Wrapped(pos, size)), Wrapped(pos, size), size)
<1>0. MaxButtonsOnScreen \in Nat /\ MaxButtonsOnScreen > 1
  BY ScreenAssumption
<1> DEFINE w == Wrapped(pos, size)
<1>1. w \in Nat /\ (w < size \/ (size = 0 /\ w = 0))
  BY DEF Wrapped
<1> HIDE DEF w
<1>2. Scrolled(off, w) \in Nat /\ Visible(Scrolled(off, w), w, size)
  BY <1>0, <1>1 DEF Scrolled, Visible
<1>3. QED
  BY <1>1, <1>2 DEF w

LEMMA TopShown == ASSUME NEW size \in Nat PROVE Visible(0, 0, size)
BY ScreenAssumption DEF Visible

-----------------------------------------------------------------------------
(* What items hear                                                         *)

Ones(b) == IF b THEN 1 ELSE 0
On(s, i) == \E k \in DOMAIN s : ItemAt(s[k]) = i
SpotsOf(s, i) == {k \in DOMAIN s : ItemAt(s[k]) = i}

\* No two renderers have an item under their cursors.
Apart(s) == \A i \in Items : \A j, k \in DOMAIN s : ItemAt(s[j]) = i /\ ItemAt(s[k]) = i => j = k

\* Each renderer shows a sub category of the one before.
Opened(s) ==
    \A k \in 1..Len(s) - 1 :
        /\ s[k].open + 1 \in DOMAIN Subs[s[k].cat]
        /\ Subs[s[k].cat][s[k].open + 1] = s[k + 1].cat

\* A category does not come back further down, and each has items of its own.
LEMMA OpenedApart == ASSUME NEW s \in Seq(Renderers), Opened(s) PROVE Apart(s)
<1>1. ASSUME NEW j \in DOMAIN s, NEW k \in DOMAIN s, j < k, s[j].cat = s[k].cat PROVE FALSE
  <2> DEFINE S == {s[m].cat : m \in j..k - 1}
  <2>1. j \in Nat /\ k \in Nat /\ Len(s) \in Nat /\ 1 <= j /\ k <= Len(s)
    OBVIOUS
  <2>2. \A m \in 1..Len(s) : s[m].cat \in Categories
    <3>1. \A m \in 1..Len(s) : s[m] \in Renderers
      OBVIOUS
    <3>2. \A r \in Renderers : r.cat \in Categories
      BY DEF Renderers
    <3>3. QED
      BY <3>1, <3>2
  <2>3. S \in SUBSET Categories /\ S # {}
    BY <1>1, <2>1, <2>2
  <2>4. PICK c \in S : \A n \in DOMAIN Subs[c] : Subs[c][n] \notin S
    <3> HIDE DEF S
    <3>1. QED
      BY <2>3, ScreenAssumption
  <2>5. PICK m \in j..k - 1 : c = s[m].cat
    OBVIOUS
  <2>6. m \in 1..Len(s) - 1 /\ m + 1 \in j..k
    BY <2>1
  <2>7. s[m + 1].cat \in S
    <3>1. CASE m + 1 = k
      BY <1>1, <2>1, <3>1
    <3>2. CASE m + 1 \in j..k - 1
      BY <3>2
    <3>3. QED
      BY <2>1, <2>6, <3>1, <3>2
  <2>8. QED
    BY <2>4, <2>5, <2>6, <2>7 DEF Opened
<1>2. ASSUME NEW i \in Items, NEW j \in DOMAIN s, NEW k \in DOMAIN s,
             ItemAt(s[j]) = i, ItemAt(s[k]) = i
      PROVE  s[j].cat = s[k].cat
  <2>1. \A r \in Renderers : ItemAt(r) = i =>
            \E row \in DOMAIN ItemsOf[r.cat] : ItemsOf[r.cat][row] = i
    BY ScreenAssumption DEF ItemAt
  <2>2. s[j] \in Renderers /\ s[k] \in Renderers
    OBVIOUS
  <2>3. s[j].cat \in Categories /\ s[k].cat \in Categories
    BY <2>2 DEF Renderers
  <2>4. PICK a \in DOMAIN ItemsOf[s[j].cat] : ItemsOf[s[j].cat][a] = i
    BY <1>2, <2>1, <2>2
  <2>5. PICK b \in DOMAIN ItemsOf[s[k].cat] : ItemsOf[s[k].cat][b] = i
    BY <1>2, <2>1, <2>2
  <2>6. QED
    BY <2>3, <2>4, <2>5, ScreenAssumption
<1>3. SUFFICES ASSUME NEW i \in Items, NEW j \in DOMAIN s, NEW k \in DOMAIN s,
                      ItemAt(s[j]) = i, ItemAt(s[k]) = i, j # k
               PROVE  FALSE
  BY DEF Apart
<1>4. j < k \/ k < j
  BY <1>3
<1>5. QED
  BY <1>1, <1>2, <1>3, <1>4

\* So an item is counted once or not at all.
LEMMA CountedOnce ==
    ASSUME NEW s, Apart(s), NEW i \in Items
    PROVE  Cardinality(SpotsOf(s, i)) = Ones(On(s, i))
<1>1. CASE On(s, i)
  <2>1. PICK k \in DOMAIN s : ItemAt(s[k]) = i
    BY <1>1 DEF On
  <2>2. SpotsOf(s, i) = {k}
    BY <2>1 DEF SpotsOf, Apart
  <2>3. QED
    BY <1>1, <2>2, FS_Singleton DEF Ones
<1>2. CASE ~On(s, i)
  <2>1. SpotsOf(s, i) = {}
    BY <1>2 DEF On, SpotsOf
  <2>2. QED
    BY <1>2, <2>1, FS_EmptySet DEF Ones
<1>3. QED
  BY <1>1, <1>2

\* What the counts become when some renderers go, and others come, and one that
\* stays may be on the item.
LEMMA CountsMove ==
    ASSUME NEW gone, NEW new, Apart(gone), Apart(new), NEW i \in Items, NEW stays \in BOOLEAN,
           ~(stays /\ On(gone, i)), ~(stays /\ On(new, i)),
           selected[i] = Ones(stays \/ On(gone, i))
    PROVE  Reselected(gone, new)[i] = Ones(stays \/ On(new, i))
<1>1. Reselected(gone, new)[i] = selected[i] - Cardinality(SpotsOf(gone, i))
                                             + Cardinality(SpotsOf(new, i))
  BY DEF Reselected, SpotsOf
<1>2. Reselected(gone, new)[i] = Ones(stays \/ On(gone, i)) - Ones(On(gone, i)) + Ones(On(new, i))
  BY <1>1, CountedOnce
<1> DEFINE g == On(gone, i)
           n == On(new, i)
<1>3. g \in BOOLEAN /\ n \in BOOLEAN
  BY DEF On
<1>4. Reselected(gone, new)[i] = Ones(stays \/ g) - Ones(g) + Ones(n)
  BY <1>2
<1> HIDE DEF g, n
<1>5. ~(stays /\ g) /\ ~(stays /\ n) => Ones(stays \/ g) - Ones(g) + Ones(n) = Ones(stays \/ n)
  BY <1>3 DEF Ones
<1>6. QED
  BY <1>4, <1>5 DEF g, n

LEMMA CountsReplaced ==
    ASSUME NEW gone, NEW new, Apart(gone), Apart(new), NEW i \in Items,
           selected[i] = Ones(On(gone, i))
    PROVE  Reselected(gone, new)[i] = Ones(On(new, i))
<1>1. Ones(FALSE \/ On(gone, i)) = Ones(On(gone, i)) /\ Ones(FALSE \/ On(new, i)) = Ones(On(new, i))
  BY DEF Ones
<1>2. selected[i] = Ones(FALSE \/ On(gone, i))
  BY <1>1, Zenon
<1>3. Reselected(gone, new)[i] = Ones(FALSE \/ On(new, i))
  BY <1>2, CountsMove
<1>4. QED
  BY <1>1, <1>3, Zenon

LEMMA OneApart == ASSUME NEW r PROVE Apart(<<r>>) /\ \A i : On(<<r>>, i) <=> ItemAt(r) = i
BY DEF Apart, On

LEMMA NoneApart == Apart(<<>>) /\ \A i : ~On(<<>>, i)
BY DEF Apart, On

LEMMA NewRendererShown ==
    ASSUME NEW c \in Categories
    PROVE  /\ NewRenderer(c) \in Renderers /\ NewRenderer(c).cat = c /\ NewRenderer(c).open = -1
           /\ Visible(NewRenderer(c).offset, NewRenderer(c).cursor, Size(c)) /\ Size(c) \in Nat
<1>1. Size(c) \in Nat
  BY ScreenAssumption DEF Size
<1>2. QED
  BY <1>1, TopShown DEF NewRenderer, Renderers

-----------------------------------------------------------------------------
(* The invariant of the screens                                            *)

\* The renderer at the end of the chain has opened nothing, and items hear of
\* those of the chain.
Chained ==
    /\ Opened(chain)
    /\ chain # <<>> => chain[Len(chain)].open = -1
    /\ \A i \in Items : selected[i] = Ones(On(chain, i))

\* The close callbacks are called with the end of the chain.
Closings ==
    /\ result \in {"running", "released"} => \A i \in Items : closed[i] = 0
    /\ result \in {"return", "reload"} => \A i \in Items : closed[i] = 1
    /\ result \in {"return", "reload", "closed"} => chain = <<>>

\* What a list can have changed is what it shows of its own field.
Listed ==
    /\ filtered = Filter(screen, flags.active)
    /\ screen = "default" => flags = initial /\ ~dirty
    /\ screen = "active" => flags.tracked = initial.tracked
    /\ screen = "heap" => /\ flags.active = initial.active
                          /\ \A p \in Roots \ Shown : p \in flags.tracked <=> p \in initial.tracked
    /\ flags # initial => dirty

\* What is open is what the default list has there, which is the same after every
\* visit of another list; above the renderer that is shown, cursors have not moved.
Path ==
    result = "running" =>
        /\ open # -1 => chain # <<>> /\ chain[1].cat = Filter("default", initial.active)[open + 1]
        /\ level > 0 => /\ screen = "default" /\ cursor = open
                        /\ \A k \in 1..level - 1 : chain[k].cursor = chain[k].open

ScreenInv == TypeOK /\ CursorVisible /\ Chained /\ Closings /\ Listed /\ Path

LEMMA ScreensStart == Init => ScreenInv
<1> SUFFICES ASSUME Init PROVE ScreenInv
  OBVIOUS
<1> USE DEF Init
<1>1. filtered \in Seq(Roots)
  BY FilterLists
<1>2. TypeOK
  <2>1. chain \in Seq(Renderers) /\ level \in 0..Len(chain)
    OBVIOUS
  <2>2. selected \in [Items -> Nat] /\ closed \in [Items -> 0..1]
    OBVIOUS
  <2>3. initial \in [active: SUBSET Roots, tracked: SUBSET Roots]
    OBVIOUS
  <2>4. QED
    BY <1>1, <2>1, <2>2, <2>3 DEF TypeOK
<1>3. Len(filtered) \in Nat
  BY <1>1
<1>4. CursorVisible
  BY <1>3, TopShown DEF CursorVisible
<1>5. Chained
  BY NoneApart DEF Chained, Opened, Ones
<1>6. Closings /\ Path
  BY DEF Closings, Path
<1>7. Listed
  BY DEF Listed
<1>8. QED
  BY <1>2, <1>4, <1>5, <1>6, <1>7 DEF ScreenInv

\* What happens in the list leaves the renderers alone.
LEMMA ListMoves ==
    ASSUME ScreenInv, result = "running", level = 0,
           UNCHANGED <<initial, open, chain, level, result, selected, closed>>,
           flags' \in [active: SUBSET Roots, tracked: SUBSET Roots],
           screen' \in {"default", "active", "heap"}, dirty' \in BOOLEAN,
           filtered' \in Seq(Roots), cursor' \in Nat, offset' \in Nat,
           Visible(offset', cursor', Len(filtered')),
           Listed'
    PROVE  ScreenInv'
<1> USE DEF ScreenInv
<1>1. TypeOK'
  BY DEF TypeOK
<1>2. CursorVisible'
  BY DEF CursorVisible
<1>3. Chained'
  BY DEF Chained
<1>4. Closings'
  BY DEF Closings
<1>5. Path'
  BY DEF Path
<1>6. QED
  BY <1>1, <1>2, <1>3, <1>4, <1>5

LEMMA OtherListKeeps ==
    ASSUME NEW f \in Frames PROVE ScreenInv /\ (ShowHeap(f) \/ ShowActive(f)) => ScreenInv'
<1> SUFFICES ASSUME ScreenInv, ShowHeap(f) \/ ShowActive(f) PROVE ScreenInv'
  OBVIOUS
<1>1. PICK sc \in {"active", "heap"} : SetListState(sc, flags.active)
  BY DEF ShowHeap, ShowActive
<1>2. /\ result = "running" /\ level = 0 /\ screen = "default"
      /\ UNCHANGED <<initial, flags, open, chain, level, dirty, result, selected, closed>>
  BY DEF ShowHeap, ShowActive, InDefault, InList
<1>3. screen' = sc /\ filtered' = Filter(sc, flags.active) /\ cursor' = 0 /\ offset' = 0
  BY <1>1 DEF SetListState
<1>4. filtered' \in Seq(Roots) /\ Len(filtered') \in Nat
  BY <1>3, FilterLists
<1>5. Visible(offset', cursor', Len(filtered'))
  BY <1>3, <1>4, TopShown
<1>6. Listed'
  BY <1>1, <1>2, <1>3 DEF ScreenInv, Listed
<1>7. dirty' \in BOOLEAN /\ flags' \in [active: SUBSET Roots, tracked: SUBSET Roots]
  BY <1>2 DEF ScreenInv, TypeOK
<1>8. QED
  BY <1>1, <1>2, <1>3, <1>4, <1>5, <1>6, <1>7, ListMoves

LEMMA ToggleKeeps == ASSUME NEW f \in Frames PROVE ScreenInv /\ Toggle(f) => ScreenInv'
<1> SUFFICES ASSUME ScreenInv, Toggle(f) PROVE ScreenInv'
  OBVIOUS
<1> DEFINE p == filtered[cursor + 1]
<1>1. /\ result = "running" /\ level = 0 /\ screen \in {"active", "heap"}
      /\ cursor < Len(filtered) /\ flags' = Flip(Field, p) /\ dirty' = TRUE
      /\ UNCHANGED <<initial, screen, filtered, cursor, offset, open, chain, level, result,
                     selected, closed>>
  BY DEF Toggle, Manages, InList
<1>2. /\ filtered \in Seq(Roots) /\ cursor \in Nat /\ offset \in Nat
      /\ flags \in [active: SUBSET Roots, tracked: SUBSET Roots]
      /\ screen \in {"default", "active", "heap"}
  BY DEF ScreenInv, TypeOK
<1>3. p \in Roots /\ p \in Shown
  <2>1. cursor + 1 \in DOMAIN filtered
    BY <1>1, <1>2
  <2>2. QED
    BY <1>2, <2>1 DEF Shown
<1>4. Shown' = Shown
  BY <1>1 DEF Shown
<1> HIDE DEF p
<1>5. flags' \in [active: SUBSET Roots, tracked: SUBSET Roots] /\ Listed'
  <2>1. CASE screen = "active"
    <3>1. flags' = [flags EXCEPT !.active = Flipped(@, p)]
      BY <1>1, <2>1 DEF Flip, Field
    <3>2. Flipped(flags.active, p) \in SUBSET Roots
      BY <1>2, <1>3 DEF Flipped
    <3>3. flags' \in [active: SUBSET Roots, tracked: SUBSET Roots] /\ flags'.tracked = flags.tracked
      BY <1>2, <3>1, <3>2
    <3>4. filtered' = Filter(screen', flags'.active)
      BY <1>1, <2>1 DEF ScreenInv, Listed, Filter
    <3>5. QED
      BY <1>1, <2>1, <3>3, <3>4 DEF ScreenInv, Listed
  <2>2. CASE screen = "heap"
    <3>1. flags' = [flags EXCEPT !.tracked = Flipped(@, p)]
      BY <1>1, <2>2 DEF Flip, Field
    <3>2. Flipped(flags.tracked, p) \in SUBSET Roots
      BY <1>2, <1>3 DEF Flipped
    <3>3. /\ flags' \in [active: SUBSET Roots, tracked: SUBSET Roots] /\ flags'.active = flags.active
          /\ flags'.tracked = Flipped(flags.tracked, p)
      BY <1>2, <3>1, <3>2
    <3>4. \A q \in Roots \ Shown : q \in flags'.tracked <=> q \in initial.tracked
      BY <1>3, <2>2, <3>3 DEF ScreenInv, Listed, Flipped
    <3>5. QED
      BY <1>1, <1>4, <2>2, <3>3, <3>4 DEF ScreenInv, Listed
  <2>3. QED
    BY <1>1, <2>1, <2>2
<1>6. Visible(offset', cursor', Len(filtered'))
  BY <1>1 DEF ScreenInv, CursorVisible
<1>7. QED
  BY <1>1, <1>2, <1>5, <1>6, ListMoves

LEMMA AbortKeeps == ASSUME NEW f \in Frames PROVE ScreenInv /\ Abort(f) => ScreenInv'
<1> SUFFICES ASSUME ScreenInv, Abort(f) PROVE ScreenInv'
  OBVIOUS
<1>1. /\ result = "running" /\ level = 0 /\ screen \in {"active", "heap"}
      /\ flags' = Reset /\ dirty' = FALSE
      /\ screen' = "default" /\ filtered' = Filter("default", flags'.active)
      /\ cursor' = 0 /\ offset' = 0
      /\ UNCHANGED <<initial, open, chain, level, result, selected, closed>>
  BY DEF Abort, Manages, InList, SetListState
<1>2. /\ filtered \in Seq(Roots)
      /\ flags \in [active: SUBSET Roots, tracked: SUBSET Roots]
      /\ initial \in [active: SUBSET Roots, tracked: SUBSET Roots]
  BY DEF ScreenInv, TypeOK
<1>3. flags' = initial
  <2>1. CASE screen = "active"
    <3>1. flags' = [flags EXCEPT !.active = (@ \ Shown) \cup (initial.active \cap Shown)]
      BY <1>1, <2>1 DEF Reset, Field
    <3>2. Shown = Roots
      BY <2>1 DEF ScreenInv, Listed, Filter, Shown, Roots
    <3>3. (flags.active \ Shown) \cup (initial.active \cap Shown) = initial.active
      BY <1>2, <3>2
    <3>4. flags.tracked = initial.tracked
      BY <2>1 DEF ScreenInv, Listed
    <3>5. QED
      BY <1>2, <3>1, <3>3, <3>4
  <2>2. CASE screen = "heap"
    <3>1. flags' = [flags EXCEPT !.tracked = (@ \ Shown) \cup (initial.tracked \cap Shown)]
      BY <1>1, <2>2 DEF Reset, Field
    <3>2. \A q \in Roots \ Shown : q \in flags.tracked <=> q \in initial.tracked
      BY <2>2 DEF ScreenInv, Listed
    <3>3. (flags.tracked \ Shown) \cup (initial.tracked \cap Shown) = initial.tracked
      BY <1>2, <3>2
    <3>4. flags.active = initial.active
      BY <2>2 DEF ScreenInv, Listed
    <3>5. QED
      BY <1>2, <3>1, <3>3, <3>4
  <2>3. QED
    BY <1>1, <2>1, <2>2
<1>4. filtered' \in Seq(Roots) /\ Len(filtered') \in Nat
  BY <1>1, FilterLists
<1>5. Visible(offset', cursor', Len(filtered'))
  BY <1>1, <1>4, TopShown
<1>6. Listed'
  BY <1>1, <1>3 DEF Listed
<1>7. QED
  BY <1>1, <1>2, <1>3, <1>4, <1>5, <1>6, ListMoves

LEMMA NavigateKeeps == ASSUME NEW f \in Frames PROVE ScreenInv /\ Navigate(f) => ScreenInv'
<1> SUFFICES ASSUME ScreenInv, Navigate(f) PROVE ScreenInv'
  OBVIOUS
<1>1. /\ result = "running" /\ level = 0
      /\ cursor' = Wrapped(Moved(f \cap Moves), Len(filtered))
      /\ offset' = Scrolled(offset, cursor')
      /\ UNCHANGED <<initial, flags, screen, filtered, open, dirty, chain, level, result,
                     selected, closed>>
  BY DEF Navigate
<1>2. /\ filtered \in Seq(Roots) /\ cursor \in Nat /\ offset \in Nat
      /\ flags \in [active: SUBSET Roots, tracked: SUBSET Roots]
      /\ screen \in {"default", "active", "heap"} /\ dirty \in BOOLEAN
  BY DEF ScreenInv, TypeOK
<1>3. Moved(f \cap Moves) \in Int
  <2>1. Len(filtered) \in Nat /\ MaxButtonsOnScreen \in Nat
    BY <1>2, ScreenAssumption
  <2>2. QED
    BY <1>2, <2>1 DEF Moved
<1>4. /\ cursor' \in Nat /\ offset' \in Nat
      /\ Visible(offset', cursor', Len(filtered'))
  <2>1. Len(filtered) \in Nat
    BY <1>2
  <2>2. QED
    BY <1>1, <1>2, <1>3, <2>1, CursorShown
<1>5. Listed'
  <2>1. Shown' = Shown
    BY <1>1 DEF Shown
  <2>2. QED
    BY <1>1, <2>1 DEF ScreenInv, Listed
<1>6. QED
  BY <1>1, <1>2, <1>4, <1>5, ListMoves

LEMMA CountsTyped ==
    ASSUME NEW gone, NEW new, NEW s, \A i \in Items : Reselected(gone, new)[i] = Ones(On(s, i))
    PROVE  Reselected(gone, new) \in [Items -> Nat]
<1> DEFINE counts == Reselected(gone, new)
<1>1. counts = [i \in Items |-> counts[i]]
  BY DEF Reselected
<1>2. \A i \in Items : counts[i] \in Nat
  BY DEF Ones
<1> HIDE DEF counts
<1>3. counts \in [Items -> Nat]
  BY <1>1, <1>2
<1>4. QED
  BY <1>3 DEF counts

\* The first category of a plugin replaces the renderers of the one before.
LEMMA EnterKeeps ==
    ASSUME NEW f \in Frames PROVE ScreenInv /\ EnterSelectedCategory(f) => ScreenInv'
<1> SUFFICES ASSUME ScreenInv, EnterSelectedCategory(f) PROVE ScreenInv'
  OBVIOUS
<1> DEFINE r == NewRenderer(filtered[cursor + 1])
<1>1. /\ result = "running" /\ level = 0 /\ screen = "default" /\ cursor < Len(filtered)
      /\ open' = cursor /\ level' = 1
      /\ UNCHANGED <<initial, flags, screen, filtered, cursor, offset, dirty, result, closed>>
  BY DEF EnterSelectedCategory, InDefault, InList
<1>2. \/ cursor = open /\ UNCHANGED <<chain, selected>>
      \/ chain' = <<r>> /\ selected' = Reselected(chain, <<r>>)
  BY DEF EnterSelectedCategory
<1>3. filtered \in Seq(Roots) /\ cursor \in Nat /\ chain \in Seq(Renderers)
  BY DEF ScreenInv, TypeOK
<1>4. filtered = Filter("default", initial.active)
  BY <1>1 DEF ScreenInv, Listed
<1>5. /\ r \in Renderers /\ r.cat = filtered[cursor + 1] /\ r.open = -1
      /\ Visible(r.offset, r.cursor, Size(r.cat))
  <2>1. filtered[cursor + 1] \in Categories
    BY <1>1, <1>3, RootsListed
  <2>2. QED
    BY <2>1, NewRendererShown
<1> HIDE DEF r
<1>6. /\ chain' \in Seq(Renderers) /\ chain' # <<>> /\ Len(chain') >= 1
      /\ chain'[1].cat = filtered[cursor + 1] /\ selected' \in [Items -> Nat]
      /\ \A k \in DOMAIN chain' : Visible(chain'[k].offset, chain'[k].cursor, Size(chain'[k].cat))
      /\ Chained'
  <2>1. CASE cursor = open /\ UNCHANGED <<chain, selected>>
    <3>1. open # -1
      BY <1>3, <2>1
    <3>2. chain # <<>> /\ chain[1].cat = filtered[cursor + 1]
      BY <1>1, <1>4, <2>1, <3>1 DEF ScreenInv, Path
    <3>3. selected \in [Items -> Nat] /\ Chained
      BY DEF ScreenInv, TypeOK
    <3>4. \A k \in DOMAIN chain : Visible(chain[k].offset, chain[k].cursor, Size(chain[k].cat))
      BY DEF ScreenInv, CursorVisible
    <3>5. Chained'
      BY <2>1, <3>3 DEF Chained
    <3>6. QED
      BY <1>3, <2>1, <3>2, <3>3, <3>4, <3>5
  <2>2. CASE chain' = <<r>> /\ selected' = Reselected(chain, <<r>>)
    <3>1. \A i \in Items : Reselected(chain, <<r>>)[i] = Ones(On(<<r>>, i))
      <4>1. Apart(chain) /\ Apart(<<r>>)
        BY <1>3, OpenedApart, OneApart DEF ScreenInv, Chained
      <4>2. \A i \in Items : selected[i] = Ones(On(chain, i))
        BY DEF ScreenInv, Chained
      <4>3. QED
        BY <4>1, <4>2, CountsReplaced
    <3>2. selected' \in [Items -> Nat]
      BY <2>2, <3>1, CountsTyped
    <3>3. Opened(<<r>>)
      BY DEF Opened
    <3>4. Chained'
      BY <1>5, <2>2, <3>1, <3>3 DEF Chained
    <3>5. QED
      BY <1>5, <2>2, <3>2, <3>4
  <2>3. QED
    BY <1>2, <2>1, <2>2
<1>7. TypeOK'
  BY <1>1, <1>3, <1>6 DEF ScreenInv, TypeOK
<1>8. CursorVisible'
  BY <1>1, <1>6 DEF ScreenInv, CursorVisible
<1>9. Closings'
  BY <1>1 DEF ScreenInv, Closings
<1>10. Listed'
  BY <1>1 DEF ScreenInv, Listed, Shown
<1>11. Path'
  BY <1>1, <1>4, <1>6 DEF Path
<1>12. QED
  BY <1>6, <1>7, <1>8, <1>9, <1>10, <1>11 DEF ScreenInv

\* When all renderers go, every item that was selected is deselected.
LEMMA AllDeselected ==
    ASSUME ScreenInv
    PROVE  /\ Reselected(chain, <<>>) \in [Items -> Nat]
           /\ \A i \in Items : Reselected(chain, <<>>)[i] = Ones(On(<<>>, i))
<1>1. Apart(chain) /\ Apart(<<>>)
  BY OpenedApart, NoneApart DEF ScreenInv, Chained, TypeOK
<1>2. \A i \in Items : selected[i] = Ones(On(chain, i))
  BY DEF ScreenInv, Chained
<1>3. \A i \in Items : Reselected(chain, <<>>)[i] = Ones(On(<<>>, i))
  BY <1>1, <1>2, CountsReplaced
<1>4. QED
  BY <1>3, CountsTyped

LEMMA LeaveKeeps ==
    ASSUME NEW f \in Frames PROVE ScreenInv /\ (Exit(f) \/ ExitWithReload(f)) => ScreenInv'
<1> SUFFICES ASSUME ScreenInv, Exit(f) \/ ExitWithReload(f) PROVE ScreenInv'
  OBVIOUS
<1>1. PICK res \in {"return", "reload"} : Leave(res)
  BY DEF Exit, ExitWithReload
<1>2. result = "running"
  BY DEF Exit, ExitWithReload, InDefault, Manages, InList
<1>3. /\ chain' = <<>> /\ selected' = Reselected(chain, <<>>)
      /\ closed' = [i \in Items |-> closed[i] + 1] /\ result' = res
      /\ UNCHANGED <<initial, level, flags, screen, filtered, cursor, offset, open, dirty>>
  BY <1>1 DEF Leave, SavePending, list
<1>4. \A i \in Items : closed'[i] = 1
  BY <1>2, <1>3 DEF ScreenInv, Closings
<1>5. TypeOK'
  <2>1. closed' \in [Items -> 0..1]
    BY <1>3, <1>4
  <2>2. selected' \in [Items -> Nat]
    BY <1>3, AllDeselected
  <2>3. chain' \in Seq(Renderers)
    BY <1>3
  <2>4. QED
    BY <1>1, <1>3, <2>1, <2>2, <2>3 DEF ScreenInv, TypeOK
<1>6. CursorVisible'
  BY <1>3 DEF ScreenInv, CursorVisible
<1>7. Chained'
  BY <1>3, AllDeselected DEF Chained, Opened
<1>8. Closings'
  BY <1>1, <1>3, <1>4 DEF Closings
<1>9. Listed'
  BY <1>3 DEF ScreenInv, Listed, Shown
<1>10. Path'
  BY <1>1, <1>3 DEF Path
<1>11. QED
  BY <1>5, <1>6, <1>7, <1>8, <1>9, <1>10 DEF ScreenInv

LEMMA EndKeeps == ScreenInv /\ (LeaveLoop \/ Close) => ScreenInv'
<1> SUFFICES ASSUME ScreenInv PROVE LeaveLoop \/ Close => ScreenInv'
  OBVIOUS
<1>1. ASSUME LeaveLoop PROVE ScreenInv'
  <2>1. /\ result = "running" /\ result' = "released"
        /\ UNCHANGED <<initial, level, chain, selected, closed>>
        /\ UNCHANGED <<flags, screen, filtered, cursor, offset, open, dirty>>
    BY <1>1 DEF LeaveLoop, list
  <2>2. TypeOK'
    BY <2>1 DEF ScreenInv, TypeOK
  <2>3. CursorVisible' /\ Chained'
    BY <2>1 DEF ScreenInv, CursorVisible, Chained
  <2>4. Closings' /\ Path'
    BY <2>1 DEF ScreenInv, Closings, Path
  <2>5. Listed'
    BY <2>1 DEF ScreenInv, Listed, Shown
  <2>6. QED
    BY <2>2, <2>3, <2>4, <2>5 DEF ScreenInv
<1>2. ASSUME Close PROVE ScreenInv'
  <2>1. /\ result' = "closed" /\ chain' = <<>> /\ selected' = Reselected(chain, <<>>)
        /\ UNCHANGED <<initial, flags, screen, filtered, cursor, offset, open, dirty, closed>>
    BY <1>2 DEF Close, list
  <2>2. TypeOK'
    <3>1. selected' \in [Items -> Nat] /\ chain' \in Seq(Renderers)
      BY <2>1, AllDeselected
    <3>2. QED
      BY <2>1, <3>1 DEF ScreenInv, TypeOK
  <2>3. CursorVisible'
    BY <2>1 DEF ScreenInv, CursorVisible
  <2>4. Chained'
    BY <2>1, AllDeselected DEF Chained, Opened
  <2>5. Closings' /\ Path'
    BY <2>1 DEF Closings, Path
  <2>6. Listed'
    BY <2>1 DEF ScreenInv, Listed, Shown
  <2>7. QED
    BY <2>2, <2>3, <2>4, <2>5, <2>6 DEF ScreenInv
<1>3. QED
  BY <1>1, <1>2

\* In a category, the default list is below it, and nothing is changed.
LEMMA InsideCategory ==
    ASSUME ScreenInv, InCategory
    PROVE  /\ chain \in Seq(Renderers) /\ level \in 1..Len(chain) /\ level \in DOMAIN chain
           /\ Len(chain) \in Nat /\ Top \in Renderers
           /\ screen = "default" /\ flags = initial /\ dirty = FALSE /\ cursor = open /\ open # -1
<1>1. level > 0 /\ level \in 0..Len(chain) /\ chain \in Seq(Renderers) /\ cursor \in Nat
  BY DEF ScreenInv, InCategory, TypeOK
<1>2. screen = "default" /\ cursor = open
  BY DEF ScreenInv, InCategory, Path
<1>3. flags = initial /\ dirty = FALSE
  BY <1>2 DEF ScreenInv, Listed, TypeOK
<1>4. level \in DOMAIN chain
  BY <1>1
<1>5. QED
  BY <1>1, <1>2, <1>3, <1>4 DEF Top

LEMMA BackKeeps == ASSUME NEW f \in Frames PROVE ScreenInv /\ Back(f) => ScreenInv'
<1> SUFFICES ASSUME ScreenInv, Back(f) PROVE ScreenInv'
  OBVIOUS
<1>1. /\ InCategory /\ level' = level - 1 /\ dirty' = (dirty /\ level > 1)
      /\ UNCHANGED <<initial, flags, screen, filtered, cursor, offset, open, chain, result,
                     selected, closed>>
  BY DEF Back
<1>2. level \in 1..Len(chain) /\ Len(chain) \in Nat /\ dirty = FALSE
  BY <1>1, InsideCategory
<1>3. dirty' = FALSE /\ level' \in 0..Len(chain)
  <2>1. dirty' = FALSE
    BY <1>1, <1>2, Zenon
  <2>2. level' = level - 1
    BY <1>1
  <2>3. level' \in 0..Len(chain)
    BY <1>2, <2>2
  <2>4. QED
    BY <2>1, <2>3
<1>4. TypeOK'
  BY <1>1, <1>3 DEF ScreenInv, TypeOK
<1>5. CursorVisible' /\ Chained' /\ Closings'
  BY <1>1 DEF ScreenInv, CursorVisible, Chained, Closings
<1>6. Listed'
  BY <1>1, <1>2, <1>3 DEF ScreenInv, Listed, Shown
<1>7. Path'
  BY <1>1, <1>2 DEF ScreenInv, Path
<1>8. QED
  BY <1>4, <1>5, <1>6, <1>7 DEF ScreenInv

\* What an action in a category has to show, which leaves the list alone.
LEMMA CategoryMoves ==
    ASSUME ScreenInv, InCategory,
           UNCHANGED <<initial, flags, screen, filtered, cursor, offset, open, dirty, result, closed>>,
           chain' \in Seq(Renderers), level' \in 1..Len(chain'),
           \A k \in DOMAIN chain' : Visible(chain'[k].offset, chain'[k].cursor, Size(chain'[k].cat)),
           Opened(chain'), chain'[Len(chain')].open = -1, chain'[1].cat = chain[1].cat,
           \A k \in 1..level' - 1 : chain'[k].cursor = chain'[k].open,
           selected' \in [Items -> Nat], \A i \in Items : selected'[i] = Ones(On(chain', i))
    PROVE  ScreenInv'
<1>1. level' \in 0..Len(chain') /\ chain' # <<>>
  <2>1. Len(chain') \in Nat
    OBVIOUS
  <2>2. level' \in 0..Len(chain') /\ Len(chain') # 0
    BY <2>1
  <2>3. QED
    BY <2>2
<1>2. TypeOK'
  BY <1>1 DEF ScreenInv, TypeOK
<1>3. CursorVisible'
  BY DEF ScreenInv, CursorVisible
<1>4. Chained'
  BY DEF Chained
<1>5. Closings'
  BY DEF ScreenInv, InCategory, Closings
<1>6. Listed'
  BY DEF ScreenInv, Listed, Shown
<1>7. Path'
  BY <1>1, InsideCategory DEF ScreenInv, InCategory, Path
<1>8. QED
  BY <1>2, <1>3, <1>4, <1>5, <1>6, <1>7 DEF ScreenInv

LEMMA OpenSubKeeps == ASSUME NEW f \in Frames PROVE ScreenInv /\ OpenSubCategory(f) => ScreenInv'
<1> SUFFICES ASSUME ScreenInv, OpenSubCategory(f) PROVE ScreenInv'
  OBVIOUS
<1> DEFINE opens == [Top EXCEPT !.open = Top.cursor]
           seen == [chain EXCEPT ![level].open = Top.cursor]
           sub == NewRenderer(Subs[Top.cat][Top.cursor + 1])
           gone == SubSeq(chain, level + 1, Len(chain))
<1>1. /\ InCategory /\ Top.cursor < Len(Subs[Top.cat]) /\ level' = level + 1
      /\ UNCHANGED <<initial, flags, screen, filtered, cursor, offset, open, dirty, result, closed>>
      /\ IF Top.open = Top.cursor
         THEN chain' = seen /\ UNCHANGED selected
         ELSE /\ chain' = Append(SubSeq(seen, 1, level), sub)
              /\ selected' = Reselected(gone, <<sub>>)
  BY DEF OpenSubCategory, list
<1>2. /\ chain \in Seq(Renderers) /\ level \in 1..Len(chain) /\ level \in DOMAIN chain
      /\ Len(chain) \in Nat /\ Top \in Renderers
  BY <1>1, InsideCategory
<1>3. /\ Top.cat \in Categories /\ Top.cursor \in Nat /\ opens \in Renderers
      /\ opens.cat = Top.cat /\ opens.cursor = Top.cursor /\ opens.offset = Top.offset
      /\ opens.open = Top.cursor /\ ItemAt(opens) = ItemAt(Top)
  BY <1>2 DEF Renderers, ItemAt
<1>4. seen = [chain EXCEPT ![level] = opens]
  BY <1>2 DEF Top
<1>5. /\ Opened(chain) /\ chain[Len(chain)].open = -1
      /\ \A i \in Items : selected[i] = Ones(On(chain, i))
      /\ \A k \in DOMAIN chain : Visible(chain[k].offset, chain[k].cursor, Size(chain[k].cat))
      /\ \A k \in 1..level - 1 : chain[k].cursor = chain[k].open
  <2>1. chain # <<>>
    BY <1>2
  <2>2. Opened(chain) /\ chain[Len(chain)].open = -1
        /\ \A i \in Items : selected[i] = Ones(On(chain, i))
    BY <2>1 DEF ScreenInv, Chained
  <2>3. \A k \in 1..level - 1 : chain[k].cursor = chain[k].open
    BY <1>1 DEF ScreenInv, InCategory, Path
  <2>4. \A k \in DOMAIN chain : Visible(chain[k].offset, chain[k].cursor, Size(chain[k].cat))
    BY DEF ScreenInv, CursorVisible
  <2>5. QED
    BY <2>2, <2>3, <2>4
<1>6. CASE Top.open = Top.cursor
  <2>1. opens = Top
    BY <1>2, <1>6 DEF Renderers
  <2>2. chain' = chain /\ selected' = selected
    BY <1>1, <1>2, <1>4, <1>6, <2>1 DEF Top
  <2>3. level # Len(chain)
    BY <1>3, <1>5, <1>6 DEF Top
  <2>4. level' \in 1..Len(chain')
    BY <1>1, <1>2, <2>2, <2>3
  <2>5. \A k \in 1..level' - 1 : chain'[k].cursor = chain'[k].open
    BY <1>1, <1>2, <1>5, <1>6, <2>2 DEF Top
  <2>6. selected' \in [Items -> Nat]
    BY <2>2 DEF ScreenInv, TypeOK
  <2>7. QED
    BY <1>1, <1>2, <1>5, <2>2, <2>4, <2>5, <2>6, CategoryMoves
<1>7. CASE Top.open # Top.cursor
  <2>1. Top.cursor + 1 \in DOMAIN Subs[Top.cat] /\ Subs[Top.cat][Top.cursor + 1] \in Categories
    <3>1. Subs[Top.cat] \in Seq(Categories)
      BY <1>3, ScreenAssumption
    <3>2. Top.cursor + 1 \in DOMAIN Subs[Top.cat]
      BY <1>1, <1>3, <3>1
    <3>3. QED
      BY <3>1, <3>2
  <2>2. /\ sub \in Renderers /\ sub.cat = Subs[Top.cat][Top.cursor + 1] /\ sub.open = -1
        /\ Visible(sub.offset, sub.cursor, Size(sub.cat))
    BY <2>1, NewRendererShown
  <2>3. chain' = Append(SubSeq(seen, 1, level), sub) /\ selected' = Reselected(gone, <<sub>>)
    BY <1>1, <1>7
  <2> HIDE DEF sub, opens
  <2>4. /\ seen \in Seq(Renderers) /\ Len(seen) = Len(chain)
        /\ \A k \in 1..Len(chain) : seen[k] = IF k = level THEN opens ELSE chain[k]
    BY <1>2, <1>3, <1>4
  <2> HIDE DEF seen
  <2>5. /\ chain' \in Seq(Renderers) /\ Len(chain') = level + 1
        /\ \A k \in 1..level - 1 : chain'[k] = chain[k]
        /\ chain'[level] = opens /\ chain'[level + 1] = sub
    <3>1. /\ SubSeq(seen, 1, level) \in Seq(Renderers) /\ Len(SubSeq(seen, 1, level)) = level
          /\ \A k \in 1..level : SubSeq(seen, 1, level)[k] = seen[k]
      BY <1>2, <2>4
    <3> DEFINE kept == SubSeq(seen, 1, level)
    <3> HIDE DEF kept
    <3>2. kept \in Seq(Renderers) /\ Len(kept) = level /\ \A k \in 1..level : kept[k] = seen[k]
      BY <3>1 DEF kept
    <3>3. chain' = Append(kept, sub)
      BY <2>3 DEF kept
    <3>4. QED
      BY <1>2, <2>2, <2>4, <3>2, <3>3
  <2>6. Opened(chain')
    <3>1. SUFFICES ASSUME NEW k \in 1..Len(chain') - 1
                   PROVE  /\ chain'[k].open + 1 \in DOMAIN Subs[chain'[k].cat]
                          /\ Subs[chain'[k].cat][chain'[k].open + 1] = chain'[k + 1].cat
      BY DEF Opened
    <3>2. CASE k = level
      BY <1>3, <2>1, <2>2, <2>5, <3>2
    <3>3. CASE k \in 1..level - 1
      <4>1. chain'[k] = chain[k] /\ k + 1 \in 1..level /\ k \in 1..Len(chain) - 1
        BY <1>2, <2>5, <3>3
      <4>2. chain'[k + 1].cat = chain[k + 1].cat
        <5>1. CASE k + 1 = level
          BY <1>3, <2>5, <5>1 DEF Top
        <5>2. CASE k + 1 \in 1..level - 1
          BY <2>5, <5>2
        <5>3. QED
          BY <1>2, <4>1, <5>1, <5>2
      <4>3. QED
        BY <1>5, <4>1, <4>2 DEF Opened
    <3>4. QED
      BY <1>2, <2>5, <3>2, <3>3
  <2>7. \A k \in DOMAIN chain' : Visible(chain'[k].offset, chain'[k].cursor, Size(chain'[k].cat))
    <3>1. SUFFICES ASSUME NEW k \in 1..level + 1
                   PROVE  Visible(chain'[k].offset, chain'[k].cursor, Size(chain'[k].cat))
      BY <2>5
    <3>2. CASE k = level + 1
      BY <2>2, <2>5, <3>2
    <3>3. CASE k = level
      BY <1>2, <1>3, <1>5, <2>5, <3>3 DEF Top
    <3>4. CASE k \in 1..level - 1
      BY <1>2, <1>5, <2>5, <3>4
    <3>5. QED
      BY <1>2, <3>2, <3>3, <3>4
  <2>8. \A i \in Items : selected'[i] = Ones(On(chain', i))
    <3>0. SUFFICES ASSUME NEW i \in Items PROVE selected'[i] = Ones(On(chain', i))
      OBVIOUS
    <3> DEFINE stays == \E k \in 1..level : ItemAt(chain[k]) = i
    <3>1. Apart(chain) /\ Apart(chain')
      BY <1>2, <1>5, <2>5, <2>6, OpenedApart
    <3>2. /\ DOMAIN gone = 1..Len(chain) - level
          /\ \A k \in 1..Len(chain) - level : gone[k] = chain[level + k]
      BY <1>2
    <3> HIDE DEF gone
    <3>3. Apart(gone)
      <4>1. ASSUME NEW h \in Items, NEW j \in DOMAIN gone, NEW k \in DOMAIN gone,
                   ItemAt(gone[j]) = h, ItemAt(gone[k]) = h
            PROVE  j = k
        <5>1. level + j \in DOMAIN chain /\ level + k \in DOMAIN chain
          BY <1>2, <3>2
        <5>2. level + j = level + k
          BY <3>1, <3>2, <4>1, <5>1 DEF Apart
        <5>3. QED
          BY <1>2, <3>2, <5>2
      <4>2. QED
        BY <4>1 DEF Apart
    <3>4. On(chain, i) <=> stays \/ On(gone, i)
      <4>1. ASSUME NEW k \in DOMAIN chain, ItemAt(chain[k]) = i PROVE stays \/ On(gone, i)
        <5>1. CASE k \in 1..level
          BY <4>1, <5>1
        <5>2. CASE k > level
          <6>1. k - level \in DOMAIN gone /\ gone[k - level] = chain[k]
            BY <1>2, <3>2, <5>2
          <6>2. QED
            BY <4>1, <6>1 DEF On
        <5>3. QED
          BY <1>2, <5>1, <5>2
      <4>2. On(gone, i) => On(chain, i)
        <5>1. \A k \in DOMAIN gone : level + k \in DOMAIN chain
          BY <1>2, <3>2
        <5>2. QED
          BY <3>2, <5>1 DEF On
      <4>3. stays => On(chain, i)
        BY <1>2 DEF On
      <4>4. QED
        BY <4>1, <4>2, <4>3 DEF On
    <3>5. On(chain', i) <=> stays \/ ItemAt(sub) = i
      <4>1. \A k \in 1..level : ItemAt(chain'[k]) = ItemAt(chain[k])
        BY <1>2, <1>3, <2>5 DEF Top
      <4>2. DOMAIN chain' = 1..level + 1
        BY <2>5
      <4>3. On(chain', i) <=> \E k \in 1..level + 1 : ItemAt(chain'[k]) = i
        BY <4>2 DEF On
      <4>4. (\E k \in 1..level + 1 : ItemAt(chain'[k]) = i)
            <=> (\E k \in 1..level : ItemAt(chain'[k]) = i) \/ ItemAt(chain'[level + 1]) = i
        BY <1>2
      <4>5. QED
        BY <2>5, <4>1, <4>3, <4>4
    <3>6. ~(stays /\ On(gone, i))
      <4>1. ASSUME NEW j \in 1..level, NEW k \in DOMAIN gone,
                   ItemAt(chain[j]) = i, ItemAt(gone[k]) = i
            PROVE  FALSE
        <5>1. j \in DOMAIN chain /\ level + k \in DOMAIN chain /\ ItemAt(chain[level + k]) = i
              /\ j # level + k
          BY <1>2, <3>2, <4>1
        <5>2. QED
          BY <3>1, <4>1, <5>1 DEF Apart
      <4>2. QED
        BY <4>1 DEF On
    <3>7. ~(stays /\ ItemAt(sub) = i)
      <4>1. ASSUME NEW j \in 1..level, ItemAt(chain[j]) = i, ItemAt(sub) = i PROVE FALSE
        <5>1. ItemAt(chain'[j]) = i
          BY <1>2, <1>3, <2>5, <4>1 DEF Top
        <5>2. j \in DOMAIN chain' /\ level + 1 \in DOMAIN chain' /\ j # level + 1
          BY <1>2, <2>5
        <5>3. QED
          BY <2>5, <3>1, <4>1, <5>1, <5>2 DEF Apart
      <4>2. QED
        BY <4>1
    <3>8. selected[i] = Ones(stays \/ On(gone, i))
      BY <1>5, <3>4 DEF Ones
    <3>9. stays \in BOOLEAN
      OBVIOUS
    <3> HIDE DEF stays
    <3>10. Reselected(gone, <<sub>>)[i] = Ones(stays \/ On(<<sub>>, i))
      <4>1. ~(stays /\ On(<<sub>>, i)) /\ Apart(<<sub>>)
        BY <3>7, OneApart
      <4>2. QED
        BY <3>3, <3>6, <3>8, <3>9, <4>1, CountsMove
    <3>11. On(<<sub>>, i) <=> ItemAt(sub) = i
      BY OneApart
    <3>12. QED
      BY <2>3, <3>5, <3>10, <3>11 DEF Ones
  <2>9. selected' \in [Items -> Nat]
    <3>1. \A i \in Items : Reselected(gone, <<sub>>)[i] = Ones(On(chain', i))
      BY <2>3, <2>8
    <3>2. QED
      BY <2>3, <3>1, CountsTyped
  <2>10. \A k \in 1..level' - 1 : chain'[k].cursor = chain'[k].open
    <3>1. SUFFICES ASSUME NEW k \in 1..level PROVE chain'[k].cursor = chain'[k].open
      BY <1>1, <1>2
    <3>2. CASE k = level
      BY <1>3, <2>5, <3>2
    <3>3. CASE k \in 1..level - 1
      BY <1>5, <2>5, <3>3
    <3>4. QED
      BY <1>2, <3>2, <3>3
  <2>11. chain'[1].cat = chain[1].cat
    BY <1>2, <1>3, <2>5 DEF Top
  <2>12. level' \in 1..Len(chain') /\ chain'[Len(chain')].open = -1
    BY <1>1, <1>2, <2>2, <2>5
  <2>13. QED
    BY <1>1, <2>5, <2>6, <2>7, <2>8, <2>9, <2>10, <2>11, <2>12, CategoryMoves
<1>8. QED
  BY <1>6, <1>7

LEMMA UseKeeps == ASSUME NEW f \in Frames PROVE ScreenInv /\ Use(f) => ScreenInv'
<1> SUFFICES ASSUME ScreenInv, Use(f) PROVE ScreenInv'
  OBVIOUS
<1> DEFINE pos == Wrapped(Top.cursor + Direction(f), Size(Top.cat))
           moved == [Top EXCEPT !.cursor = pos, !.offset = Scrolled(@, pos)]
<1>1. PICK movable \in BOOLEAN :
        /\ chain' = [chain EXCEPT ![level] = [moved EXCEPT !.movable = movable]]
        /\ selected' = IF pos = Top.cursor THEN selected ELSE Reselected(<<Top>>, <<moved>>)
  BY DEF Use
<1>2. /\ InCategory /\ UNCHANGED level
      /\ UNCHANGED <<initial, flags, screen, filtered, cursor, offset, open, dirty, result, closed>>
  BY DEF Use, list
<1>3. /\ chain \in Seq(Renderers) /\ level \in 1..Len(chain) /\ level \in DOMAIN chain
      /\ Len(chain) \in Nat /\ Top \in Renderers
  BY <1>2, InsideCategory
<1>4. Top.cat \in Categories /\ Top.cursor \in Nat /\ Top.offset \in Nat
  BY <1>3 DEF Renderers
<1>5. pos \in Nat /\ Scrolled(Top.offset, pos) \in Nat
      /\ Visible(Scrolled(Top.offset, pos), pos, Size(Top.cat))
  <2>1. Size(Top.cat) \in Nat
    BY <1>4, ScreenAssumption DEF Size
  <2>2. Top.cursor + Direction(f) \in Int
    BY <1>4 DEF Direction
  <2>3. QED
    BY <1>4, <2>1, <2>2, CursorShown
<1> HIDE DEF pos
<1>6. /\ moved \in Renderers /\ moved.cat = Top.cat /\ moved.open = Top.open
      /\ moved.cursor = pos /\ moved.offset = Scrolled(Top.offset, pos)
  BY <1>3, <1>5 DEF Renderers
<1> HIDE DEF moved
<1> DEFINE now == [moved EXCEPT !.movable = movable]
<1>7. /\ now \in Renderers /\ now.cat = Top.cat /\ now.open = Top.open
      /\ now.cursor = pos /\ now.offset = Scrolled(Top.offset, pos)
      /\ ItemAt(now) = ItemAt(moved)
  BY <1>6 DEF Renderers, ItemAt
<1>8. chain' = [chain EXCEPT ![level] = now]
  BY <1>1
<1> HIDE DEF now
<1>9. /\ chain' \in Seq(Renderers) /\ Len(chain') = Len(chain) /\ DOMAIN chain' = DOMAIN chain
      /\ \A k \in DOMAIN chain : chain'[k] = IF k = level THEN now ELSE chain[k]
  BY <1>3, <1>7, <1>8
<1>10. /\ Opened(chain) /\ chain[Len(chain)].open = -1
       /\ \A i \in Items : selected[i] = Ones(On(chain, i))
       /\ \A k \in DOMAIN chain : Visible(chain[k].offset, chain[k].cursor, Size(chain[k].cat))
       /\ \A k \in 1..level - 1 : chain[k].cursor = chain[k].open
  <2>1. chain # <<>>
    BY <1>3
  <2>2. Opened(chain) /\ chain[Len(chain)].open = -1
        /\ \A i \in Items : selected[i] = Ones(On(chain, i))
    BY <2>1 DEF ScreenInv, Chained
  <2>3. \A k \in 1..level - 1 : chain[k].cursor = chain[k].open
    BY <1>2 DEF ScreenInv, InCategory, Path
  <2>4. \A k \in DOMAIN chain : Visible(chain[k].offset, chain[k].cursor, Size(chain[k].cat))
    BY DEF ScreenInv, CursorVisible
  <2>5. QED
    BY <2>2, <2>3, <2>4
<1>11. \A k \in DOMAIN chain : chain'[k].cat = chain[k].cat /\ chain'[k].open = chain[k].open
  BY <1>7, <1>9 DEF Top
<1>12. Opened(chain')
  <2>1. ASSUME NEW k \in 1..Len(chain) - 1
        PROVE  /\ chain'[k].cat = chain[k].cat /\ chain'[k].open = chain[k].open
               /\ chain'[k + 1].cat = chain[k + 1].cat
    <3>1. k \in DOMAIN chain /\ k + 1 \in DOMAIN chain
      BY <1>3
    <3>2. QED
      BY <1>11, <3>1
  <2>2. QED
    BY <1>9, <1>10, <2>1 DEF Opened
<1>13. \A k \in DOMAIN chain' : Visible(chain'[k].offset, chain'[k].cursor, Size(chain'[k].cat))
  <2>1. SUFFICES ASSUME NEW k \in DOMAIN chain
                 PROVE  Visible(chain'[k].offset, chain'[k].cursor, Size(chain'[k].cat))
    BY <1>9
  <2>2. CASE k = level
    BY <1>5, <1>7, <1>9, <2>2
  <2>3. CASE k # level
    BY <1>9, <1>10, <2>3
  <2>4. QED
    BY <2>2, <2>3
<1>14. \A i \in Items : selected'[i] = Ones(On(chain', i))
  <2>0. SUFFICES ASSUME NEW i \in Items PROVE selected'[i] = Ones(On(chain', i))
    OBVIOUS
  <2> DEFINE stays == \E k \in DOMAIN chain \ {level} : ItemAt(chain[k]) = i
  <2>1. On(chain, i) <=> stays \/ ItemAt(Top) = i
    BY <1>3 DEF On, Top
  <2>2. On(chain', i) <=> stays \/ ItemAt(moved) = i
    BY <1>3, <1>7, <1>9 DEF On
  <2>3. CASE pos = Top.cursor
    <3>1. ItemAt(moved) = ItemAt(Top)
      BY <1>6, <2>3 DEF ItemAt
    <3>2. selected' = selected
      BY <1>1, <2>3
    <3>3. QED
      BY <1>10, <2>1, <2>2, <3>1, <3>2 DEF Ones
  <2>4. CASE pos # Top.cursor
    <3>1. selected' = Reselected(<<Top>>, <<moved>>)
      BY <1>1, <2>4
    <3>2. Apart(chain) /\ Apart(chain')
      BY <1>3, <1>9, <1>10, <1>12, OpenedApart
    <3>3. ~(stays /\ ItemAt(Top) = i)
      BY <1>3, <3>2 DEF Apart, Top
    <3>4. ~(stays /\ ItemAt(moved) = i)
      BY <1>3, <1>7, <1>9, <3>2 DEF Apart
    <3>5. stays \in BOOLEAN
      OBVIOUS
    <3> HIDE DEF stays
    <3>6. /\ Apart(<<Top>>) /\ Apart(<<moved>>)
          /\ On(<<Top>>, i) <=> ItemAt(Top) = i
          /\ On(<<moved>>, i) <=> ItemAt(moved) = i
      BY OneApart
    <3>7. selected[i] = Ones(stays \/ On(<<Top>>, i))
      BY <1>10, <2>1, <3>6 DEF Ones
    <3>8. ~(stays /\ On(<<Top>>, i)) /\ ~(stays /\ On(<<moved>>, i))
      BY <3>3, <3>4, <3>6
    <3>9. Reselected(<<Top>>, <<moved>>)[i] = Ones(stays \/ On(<<moved>>, i))
      BY <3>5, <3>6, <3>7, <3>8, CountsMove
    <3>10. QED
      BY <2>2, <3>1, <3>6, <3>9 DEF Ones
  <2>5. QED
    BY <2>3, <2>4
<1>15. selected' \in [Items -> Nat]
  <2>1. CASE pos = Top.cursor
    BY <1>1, <2>1 DEF ScreenInv, TypeOK
  <2>2. CASE pos # Top.cursor
    <3>1. selected' = Reselected(<<Top>>, <<moved>>)
      BY <1>1, <2>2
    <3>2. \A i \in Items : Reselected(<<Top>>, <<moved>>)[i] = Ones(On(chain', i))
      BY <1>14, <3>1
    <3>3. QED
      BY <3>1, <3>2, CountsTyped
  <2>3. QED
    BY <2>1, <2>2
<1>16. \A k \in 1..level' - 1 : chain'[k].cursor = chain'[k].open
  BY <1>2, <1>3, <1>9, <1>10
<1>17. /\ level' \in 1..Len(chain') /\ chain'[Len(chain')].open = -1 /\ chain'[1].cat = chain[1].cat
  <2>1. 1 \in DOMAIN chain /\ Len(chain) \in DOMAIN chain
    BY <1>3
  <2>2. QED
    BY <1>2, <1>3, <1>9, <1>10, <1>11, <2>1
<1>18. QED
  BY <1>2, <1>9, <1>12, <1>13, <1>14, <1>15, <1>16, <1>17, CategoryMoves

LEMMA ScreensKeep == ScreenInv /\ [Next]_vars => ScreenInv'
<1> SUFFICES ASSUME ScreenInv, [Next]_vars PROVE ScreenInv'
  OBVIOUS
<1>1. ASSUME NEW f \in Frames, Frame(f) PROVE ScreenInv'
  BY <1>1, OtherListKeeps, EnterKeeps, LeaveKeeps, ToggleKeeps, AbortKeeps, NavigateKeeps,
     BackKeeps, OpenSubKeeps, UseKeeps DEF Frame
<1>2. CASE LeaveLoop \/ Close
  BY <1>2, EndKeeps
<1>3. CASE UNCHANGED vars
  <2>1. /\ UNCHANGED <<initial, flags, screen, filtered, cursor, offset, open, dirty, chain, level>>
        /\ UNCHANGED <<result, selected, closed>>
    BY <1>3 DEF vars, list
  <2>2. TypeOK' /\ CursorVisible'
    BY <2>1 DEF ScreenInv, TypeOK, CursorVisible
  <2>3. Chained' /\ Closings' /\ Path'
    BY <2>1 DEF ScreenInv, Chained, Closings, Path
  <2>4. Listed'
    BY <2>1 DEF ScreenInv, Listed, Shown
  <2>5. QED
    BY <2>2, <2>3, <2>4 DEF ScreenInv
<1>4. QED
  BY <1>1, <1>2, <1>3 DEF Next

THEOREM ScreensInvariant == Spec => []ScreenInv
BY ScreensStart, ScreensKeep, PTL DEF Spec

\* Every variable of the screens keeps its type; no cursor becomes negative.
THEOREM ScreenTypes == Spec => []TypeOK
<1>1. ScreenInv => TypeOK
  BY DEF ScreenInv
<1>2. QED
  BY <1>1, ScreensInvariant, PTL

\* In the list and in every category that was opened, the row of the cursor exists
\* and is drawn, for any number of rows on the screen.
THEOREM CursorsShown == Spec => []CursorVisible
<1>1. ScreenInv => CursorVisible
  BY DEF ScreenInv
<1>2. QED
  BY <1>1, ScreensInvariant, PTL

\* The list shows what it is for, and the category that is shown is the one the
\* cursors above it are on.
THEOREM OpenIsSelected == Spec => []OpenShowsSelected
<1>1. ScreenInv => OpenShowsSelected
  <2> SUFFICES ASSUME ScreenInv PROVE OpenShowsSelected
    OBVIOUS
  <2>1. filtered = Filter(screen, flags.active)
    BY DEF ScreenInv, Listed
  <2>2. ASSUME result = "running", level > 0 PROVE filtered[cursor + 1] = chain[1].cat
    <3>1. InCategory
      BY <2>2 DEF InCategory
    <3>2. screen = "default" /\ flags = initial /\ cursor = open /\ open # -1
      BY <3>1, InsideCategory
    <3>3. QED
      BY <2>1, <2>2, <3>2 DEF ScreenInv, Path
  <2>3. ASSUME result = "running", NEW k \in 1..level - 1
        PROVE  Subs[chain[k].cat][chain[k].cursor + 1] = chain[k + 1].cat
    <3>1. level \in 0..Len(chain) /\ Len(chain) \in Nat
      BY <2>3 DEF ScreenInv, TypeOK
    <3>2. level > 0 /\ k \in 1..Len(chain) - 1
      BY <3>1
    <3>3. chain[k].cursor = chain[k].open
      BY <2>3, <3>2 DEF ScreenInv, Path
    <3>4. QED
      BY <3>2, <3>3 DEF ScreenInv, Chained, Opened
  <2>4. QED
    BY <2>1, <2>2, <2>3 DEF OpenShowsSelected
<1>2. QED
  BY <1>1, ScreensInvariant, PTL

\* Items hear of selection and of the end in pairs, whatever is entered, left and
\* entered again, and only when the user left the menu are they closed.
THEOREM ItemsHearPairs == Spec => []ItemsHearOnce
<1>1. ScreenInv => ItemsHearOnce
  <2> SUFFICES ASSUME ScreenInv PROVE ItemsHearOnce
    OBVIOUS
  <2>1. SUFFICES ASSUME NEW i \in Items
                 PROVE  /\ selected[i] = IF \E k \in DOMAIN chain : ItemAt(chain[k]) = i THEN 1 ELSE 0
                        /\ closed[i] = 1 => selected[i] = 0
                        /\ result \in {"return", "reload"} => closed[i] = 1
                        /\ result \in {"running", "released"} => closed[i] = 0
    BY DEF ItemsHearOnce
  <2>2. selected[i] = Ones(On(chain, i))
    BY DEF ScreenInv, Chained
  <2>3. closed[i] = 1 => chain = <<>>
    BY DEF ScreenInv, Closings, TypeOK
  <2>4. chain = <<>> => selected[i] = 0
    BY <2>2, NoneApart DEF Ones
  <2>5. /\ result \in {"return", "reload"} => closed[i] = 1
        /\ result \in {"running", "released"} => closed[i] = 0
    BY DEF ScreenInv, Closings
  <2>6. selected[i] = IF \E k \in DOMAIN chain : ItemAt(chain[k]) = i THEN 1 ELSE 0
    BY <2>2 DEF Ones, On
  <2>7. QED
    BY <2>3, <2>4, <2>5, <2>6
<1>2. QED
  BY <1>1, ScreensInvariant, PTL

\* What was toggled in a list is undone or handed to the loader, for any plugins
\* and whichever of them are active.
THEOREM TogglesApplyOrUndo == Spec => []AppliedOrUndone
<1>1. ScreenInv => AppliedOrUndone
  BY DEF ScreenInv, Listed, AppliedOrUndone
<1>2. QED
  BY <1>1, ScreensInvariant, PTL
=============================================================================
