----------------------------- MODULE ConfigScreens -----------------------------
(***************************************************************************)
(* The screens of the config menu: source/utils/config/ConfigRenderer.cpp,   *)
(* ConfigRendererStates.cpp, CategoryRenderer.cpp and ConfigDisplayItem.cpp, *)
(* and what displayMenu does with their result.                             *)
(*                                                                         *)
(* A list of plugins in one of three states, and for the plugin that was    *)
(* entered last a chain of category renderers, each with the one it opened   *)
(* last, which are kept when they are left.  The configs do not change       *)
(* while they are shown (ConfigHandles, MenuTakesOver).                     *)
(***************************************************************************)
EXTENDS Integers, Sequences, FiniteSets

CONSTANTS
    Plugins,            \* the loaded plugins, sorted by name; each is the name
                        \* of its root category as well
    Categories,
    Items,
    Subs, ItemsOf,      \* what a category shows: sub categories, then items
    Unmovable,          \* items that may forbid to leave them
    MaxButtonsOnScreen,
    NoItem

Roots == {Plugins[k] : k \in DOMAIN Plugins}

\* No category is inside of itself, and an item is in one category: what is added to
\* a category moves there (ConfigHandles, OwnedOnce).
ASSUME ScreenAssumption ==
    /\ Plugins \in Seq(Categories)
    /\ Subs \in [Categories -> Seq(Categories)]
    /\ ItemsOf \in [Categories -> Seq(Items)]
    /\ Unmovable \subseteq Items
    /\ MaxButtonsOnScreen \in Nat /\ MaxButtonsOnScreen > 1
    /\ NoItem \notin Items
    /\ \A S \in SUBSET Categories :
           S # {} => \E c \in S : \A k \in DOMAIN Subs[c] : Subs[c][k] \notin S
    /\ \A c, d \in Categories : \A j \in DOMAIN ItemsOf[c], k \in DOMAIN ItemsOf[d] :
           ItemsOf[c][j] = ItemsOf[d][k] => c = d /\ j = k

VARIABLES
    initial,    \* the plugins that are active and tracked when the menu opens
    flags,      \* the same as chosen in the menu
    screen,     \* mListState: "default", "active" or "heap"
    filtered,   \* mFilteredConfigs
    cursor, offset,     \* mCursorPos, mRenderOffset of the list
    open,       \* mCurrentOpen of the list: the index of chain[1], or -1
    chain,      \* mCategoryRenderer and the mSubCategoryRenderer of each
    level,      \* the renderer of the chain that is shown, 0 is the list
    dirty,      \* mPluginListDirty
    result,     \* what displayMenu got from Update, then "closed"
    selected,   \* how often each item was selected but not deselected
    closed      \* how often each item's close callback was called

list == <<flags, screen, filtered, cursor, offset, open, dirty>>
vars == <<initial, list, chain, level, result, selected, closed>>

Buttons == {"A", "B", "Home", "X", "Plus", "Up", "Down", "Left", "Right"}
Moves == {"Up", "Down", "Left", "Right"}

\* What is new in a frame, or held and repeated by InputRepeater.
Frames == {f \in SUBSET Buttons : Cardinality(f) <= 2}

-----------------------------------------------------------------------------
(* Cursor and items                                                        *)

Size(c) == Len(Subs[c]) + Len(ItemsOf[c])

\* Mutant: the last row counts as visible.
ScrolledLate(off, pos) ==
    IF pos < off THEN pos
    ELSE IF pos > off + MaxButtonsOnScreen THEN pos - MaxButtonsOnScreen + 1 ELSE off

Scrolled(off, pos) ==
    IF pos < off THEN pos
    ELSE IF pos >= off + MaxButtonsOnScreen - 1 THEN pos - MaxButtonsOnScreen + 1 ELSE off

\* Mutant: the cursor does not go from the first row to the last.
WrappedForward(pos, size) == IF size = 0 THEN 0 ELSE IF pos >= size THEN 0 ELSE pos

Wrapped(pos, size) ==
    IF size = 0 THEN 0 ELSE IF pos < 0 THEN size - 1 ELSE IF pos >= size THEN 0 ELSE pos

\* Sub categories do not hear of it.
ItemAt(r) ==
    LET row == r.cursor - Len(Subs[r.cat]) + 1
    IN  IF row \in DOMAIN ItemsOf[r.cat] THEN ItemsOf[r.cat][row] ELSE NoItem

NewRenderer(c) ==
    [cat |-> c, cursor |-> 0, offset |-> 0, open |-> -1, movable |-> TRUE]

\* The counts after the renderers of gone were destroyed and those of new built.
Reselected(gone, new) ==
    [i \in Items |-> selected[i] - Cardinality({k \in DOMAIN gone : ItemAt(gone[k]) = i})
                                 + Cardinality({k \in DOMAIN new : ItemAt(new[k]) = i})]

\* What copy_if took from the first plugins, for each number of them.
Taken(active) ==
    LET taken[n \in 0..Len(Plugins)] ==
            IF n = 0 THEN <<>>
            ELSE IF Plugins[n] \in active THEN Append(taken[n - 1], Plugins[n]) ELSE taken[n - 1]
    IN  taken

Filter(sc, active) == IF sc = "active" THEN Plugins ELSE Taken(active)[Len(Plugins)]

Init ==
    /\ initial \in {f \in [active: SUBSET Roots, tracked: SUBSET Roots] : f.tracked \subseteq f.active}
    /\ flags = initial
    /\ screen = "default"
    /\ filtered = Filter("default", initial.active)
    /\ cursor = 0 /\ offset = 0 /\ open = -1
    /\ chain = <<>> /\ level = 0
    /\ dirty = FALSE
    /\ result = "running"
    /\ selected = [i \in Items |-> 0]
    /\ closed = [i \in Items |-> 0]

-----------------------------------------------------------------------------
(* The list                                                                *)

InList(sc) == result = "running" /\ level = 0 /\ screen = sc

\* The first of the buttons that is new in the frame decides.
Press(f, b, before) == b \in f /\ f \cap before = {}

SetListState(sc, active) ==
    /\ screen' = sc
    /\ filtered' = Filter(sc, active)
    /\ cursor' = 0 /\ offset' = 0

InDefault == InList("default")

\* L + R + Down
ShowHeap(f) ==
    /\ InDefault /\ Press(f, "Down", {})
    /\ Plugins # <<>>
    /\ SetListState("heap", flags.active)
    /\ UNCHANGED <<initial, flags, open, chain, level, dirty, result, selected, closed>>

ShowActive(f) ==
    /\ InDefault /\ Press(f, "X", {"Down", "A"})
    /\ Plugins # <<>>
    /\ SetListState("active", flags.active)
    /\ UNCHANGED <<initial, flags, open, chain, level, dirty, result, selected, closed>>

\* Mutant: the renderer that is there is taken whatever it shows.
EnterAnyCategory(f) ==
    /\ InDefault /\ Press(f, "A", {"Down"})
    /\ cursor < Len(filtered)
    /\ IF chain # <<>>
       THEN UNCHANGED <<chain, selected>>
       ELSE LET r == NewRenderer(filtered[cursor + 1])
            IN  chain' = <<r>> /\ selected' = Reselected(chain, <<r>>)
    /\ open' = cursor
    /\ level' = 1
    /\ UNCHANGED <<initial, flags, screen, filtered, cursor, offset, dirty, result, closed>>

EnterSelectedCategory(f) ==
    /\ InDefault /\ Press(f, "A", {"Down"})
    /\ cursor < Len(filtered)
    /\ IF cursor = open
       THEN UNCHANGED <<chain, selected>>
       ELSE LET r == NewRenderer(filtered[cursor + 1])
            IN  chain' = <<r>> /\ selected' = Reselected(chain, <<r>>)
    /\ open' = cursor
    /\ level' = 1
    /\ UNCHANGED <<initial, flags, screen, filtered, cursor, offset, dirty, result, closed>>

\* SavePendingConfigs
SavePending == closed' = [i \in Items |-> closed[i] + 1]

\* Exit, ExitWithReload
Leave(res) ==
    /\ chain' = <<>>
    /\ selected' = Reselected(chain, <<>>)
    /\ SavePending
    /\ result' = res
    /\ UNCHANGED <<initial, list, level>>

Exit(f) == InDefault /\ \E b \in {"B", "Home"} : Press(f, b, {"Down", "A", "X"}) /\ Leave("return")

Manages == InList("active") \/ InList("heap")

ExitWithReload(f) == Manages /\ Press(f, "Plus", {"A"}) /\ Leave("reload")

Flipped(set, p) == (set \ {p}) \cup ({p} \ set)

Flip(field, p) == [flags EXCEPT ![field] = Flipped(@, p)]

Field == IF screen = "active" THEN "active" ELSE "tracked"

Toggle(f) ==
    /\ Manages /\ Press(f, "A", {})
    /\ cursor < Len(filtered)
    /\ flags' = Flip(Field, filtered[cursor + 1])
    /\ dirty' = TRUE
    /\ UNCHANGED <<initial, screen, filtered, cursor, offset, open, chain, level, result,
                   selected, closed>>

Shown == {filtered[k] : k \in DOMAIN filtered}

Reset == [flags EXCEPT ![Field] = (@ \ Shown) \cup (initial[Field] \cap Shown)]

\* Mutant: what was toggled stays.
AbortOnly(f) ==
    /\ Manages /\ \E b \in {"B", "Home"} : Press(f, b, {"A", "Plus"})
    /\ dirty' = FALSE
    /\ SetListState("default", flags.active)
    /\ UNCHANGED <<initial, flags, open, chain, level, result, selected, closed>>

Abort(f) ==
    /\ Manages /\ \E b \in {"B", "Home"} : Press(f, b, {"A", "Plus"})
    /\ flags' = Reset
    /\ dirty' = FALSE
    /\ SetListState("default", flags'.active)
    /\ UNCHANGED <<initial, open, chain, level, result, selected, closed>>

Moved(m) ==
    CASE Press(m, "Down", {}) -> cursor + 1
      [] Press(m, "Left", {"Down"}) ->
            IF cursor < MaxButtonsOnScreen - 1 THEN 0 ELSE cursor - MaxButtonsOnScreen + 1
      [] Press(m, "Right", {"Down", "Left"}) ->
            IF cursor + MaxButtonsOnScreen > Len(filtered)
            THEN Len(filtered) - 1 ELSE cursor + MaxButtonsOnScreen - 1
      [] OTHER -> cursor - 1

\* The frame reached the end of UpdateStateMain.
Navigate(f) ==
    /\ result = "running" /\ level = 0
    /\ f \cap Moves # {}
    /\ IF InDefault THEN "Down" \in f \/ f \cap {"A", "X", "B", "Home"} = {}
                    ELSE f \cap {"A", "Plus", "B", "Home"} = {}
    /\ cursor' = Wrapped(Moved(f \cap Moves), Len(filtered))
    /\ offset' = Scrolled(offset, cursor')
    /\ UNCHANGED <<initial, flags, screen, filtered, open, dirty, chain, level, result,
                   selected, closed>>

-----------------------------------------------------------------------------
(* CategoryRenderer                                                        *)

Top == chain[level]

InCategory == result = "running" /\ level > 0

\* UpdateStateMain returns to the renderer, or to the list, that opened this one.
\* ConfigRenderer::Update takes the list of plugins for unchanged then.
Back(f) ==
    /\ InCategory
    /\ Top.movable /\ "B" \in f
    /\ level' = level - 1
    /\ dirty' = (dirty /\ level > 1)
    /\ UNCHANGED <<initial, flags, screen, filtered, cursor, offset, open, chain, result,
                   selected, closed>>

Directions(f) == f \cap {"Up", "Down"}

\* Mutant: what the renderer had opened before stays selected.
OpenSubLeak(f) ==
    /\ InCategory
    /\ Top.movable /\ "B" \notin f /\ Directions(f) = {} /\ "A" \in f
    /\ Top.cursor < Len(Subs[Top.cat])
    /\ LET seen == [chain EXCEPT ![level].open = Top.cursor]
           sub == NewRenderer(Subs[Top.cat][Top.cursor + 1])
       IN  IF Top.open = Top.cursor
           THEN chain' = seen /\ UNCHANGED selected
           ELSE /\ chain' = Append(SubSeq(seen, 1, level), sub)
                /\ selected' = Reselected(<<>>, <<sub>>)
    /\ level' = level + 1
    /\ UNCHANGED <<initial, list, result, closed>>

OpenSubCategory(f) ==
    /\ InCategory
    /\ Top.movable /\ "B" \notin f /\ Directions(f) = {} /\ "A" \in f
    /\ Top.cursor < Len(Subs[Top.cat])
    /\ LET seen == [chain EXCEPT ![level].open = Top.cursor]
           sub == NewRenderer(Subs[Top.cat][Top.cursor + 1])
       IN  IF Top.open = Top.cursor
           THEN chain' = seen /\ UNCHANGED selected
           ELSE /\ chain' = Append(SubSeq(seen, 1, level), sub)
                /\ selected' = Reselected(SubSeq(chain, level + 1, Len(chain)), <<sub>>)
    /\ level' = level + 1
    /\ UNCHANGED <<initial, list, result, closed>>

Direction(f) ==
    IF ~Top.movable \/ Directions(f) = {} THEN 0 ELSE IF "Down" \in f THEN 1 ELSE -1

\* The cursor moves, or the item under it gets the input; it says what is
\* allowed next.
Use(f) ==
    /\ InCategory
    /\ ~(Top.movable /\ "B" \in f)
    /\ Size(Top.cat) > 0
    /\ ~(Top.movable /\ Directions(f) = {} /\ "A" \in f /\ Top.cursor < Len(Subs[Top.cat]))
    /\ LET pos == Wrapped(Top.cursor + Direction(f), Size(Top.cat))
           moved == [Top EXCEPT !.cursor = pos, !.offset = Scrolled(@, pos)]
       IN  \E movable \in BOOLEAN :
             /\ movable \/ ItemAt(moved) \in Unmovable
             /\ chain' = [chain EXCEPT ![level] = [moved EXCEPT !.movable = movable]]
             /\ selected' = IF pos = Top.cursor THEN selected ELSE Reselected(<<Top>>, <<moved>>)
    /\ UNCHANGED <<initial, list, level, result, closed>>

-----------------------------------------------------------------------------
(* displayMenu                                                             *)

\* gConfigMenuShouldClose
LeaveLoop ==
    /\ result = "running"
    /\ result' = "released"
    /\ UNCHANGED <<initial, list, chain, level, selected, closed>>

\* The renderer and its configs go out of scope.
Close ==
    /\ result \in {"return", "reload", "released"}
    /\ result' = "closed"
    /\ chain' = <<>> /\ level' = 0
    /\ selected' = Reselected(chain, <<>>)
    /\ UNCHANGED <<initial, list, closed>>

Frame(f) ==
    \/ ShowHeap(f) \/ ShowActive(f) \/ EnterSelectedCategory(f) \/ Exit(f)
    \/ ExitWithReload(f) \/ Toggle(f) \/ Abort(f) \/ Navigate(f)
    \/ Back(f) \/ OpenSubCategory(f) \/ Use(f)

Next == (\E f \in Frames : Frame(f)) \/ LeaveLoop \/ Close

Spec == Init /\ [][Next]_vars

-----------------------------------------------------------------------------
(* Properties                                                              *)

Renderers ==
    [cat: Categories, cursor: Nat, offset: Nat, open: Nat \cup {-1},
     movable: BOOLEAN]

TypeOK ==
    /\ initial \in [active: SUBSET Roots, tracked: SUBSET Roots]
    /\ flags \in [active: SUBSET Roots, tracked: SUBSET Roots]
    /\ screen \in {"default", "active", "heap"}
    /\ filtered \in Seq(Roots)
    /\ cursor \in Nat /\ offset \in Nat /\ open \in Nat \cup {-1}
    /\ chain \in Seq(Renderers)
    /\ level \in 0..Len(chain) \/ result # "running"
    /\ dirty \in BOOLEAN
    /\ result \in {"running", "return", "reload", "released", "closed"}
    /\ selected \in [Items -> Nat]
    /\ closed \in [Items -> 0..1]

Visible(off, pos, size) ==
    /\ pos < size \/ (size = 0 /\ pos = 0)
    /\ off <= pos /\ pos < off + MaxButtonsOnScreen

\* The row of the cursor exists and is drawn, in the list and in every category
\* that was opened, also after the list was filtered anew.
CursorVisible ==
    /\ Visible(offset, cursor, Len(filtered))
    /\ \A k \in DOMAIN chain : Visible(chain[k].offset, chain[k].cursor, Size(chain[k].cat))

\* The list shows the plugins it is for, whatever was toggled since it was
\* filtered, and what is open is what the cursors above point at, although
\* renderers are kept when they are left and the list is filtered in between.
OpenShowsSelected ==
    /\ filtered = Filter(screen, flags.active)
    /\ result = "running" =>
        /\ level > 0 => filtered[cursor + 1] = chain[1].cat
        /\ \A k \in 1..level - 1 : Subs[chain[k].cat][chain[k].cursor + 1] = chain[k + 1].cat

\* Items hear of what happens to them in pairs.  One has been told that it is
\* selected exactly if a renderer's cursor is on it, never twice.  It is closed
\* once, after it was deselected, and only when the user left the menu: if the
\* system takes the foreground, changes are not reported.
ItemsHearOnce ==
    \A i \in Items :
        /\ selected[i] = IF \E k \in DOMAIN chain : ItemAt(chain[k]) = i THEN 1 ELSE 0
        /\ closed[i] = 1 => selected[i] = 0
        /\ result \in {"return", "reload"} => closed[i] = 1
        /\ result \in {"running", "released"} => closed[i] = 0

\* Leaving a list without applying it undoes what was changed there, and no list
\* is handed to the loader; what was changed and applied is handed over.
AppliedOrUndone ==
    /\ screen = "default" => flags = initial /\ ~dirty
    /\ result = "reload" /\ flags # initial => dirty
=============================================================================
