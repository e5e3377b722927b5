----------------------------- MODULE ConfigHandles -----------------------------
(***************************************************************************)
(* The objects behind the handles of the config API, and the menu that     *)
(* takes them over: source/config/WUPSConfigAPI.cpp, its deprecated         *)
(* variant, and displayMenu of source/utils/config/ConfigUtils.cpp.         *)
(*                                                                         *)
(* A handle is the address of its object.  Each object has one owner: the  *)
(* list of its kind, the category it was added to, or the menu.  Plugins    *)
(* pass any address they know, also those of objects that are gone.         *)
(***************************************************************************)
EXTENDS Naturals, Sequences, FiniteSets

CONSTANTS
    Configs,    \* addresses of root categories
    Categories,
    Items,
    Threads,
    Menu,       \* the thread of Threads that opens the menu
    Nobody      \* no object

Objects == Configs \cup Categories \cup Items

ASSUME HandleAssumption ==
    /\ Menu \in Threads
    /\ Configs \cap Categories = {} /\ Items \cap (Configs \cup Categories) = {}
    /\ Nobody \notin Objects
    /\ {"free", "listed", "shown"} \cap Objects = {}

VARIABLES
    place,    \* per object: "free"; "listed" in sConfigs, sConfigCategories or
              \* sConfigItems; "shown" by the menu; or the category it is in
    call,     \* per thread: the call it makes and how many mutexes it holds
    menu,     \* where displayMenu is
    current   \* the config whose opened callback runs

vars == <<place, call, menu, current>>

\* Mutant: the item list is taken before the lists of the parents.
OrderSwapped(op) ==
    CASE op \in {"AddCategory", "Idle"} -> <<"configs", "categories">>
      [] op \in {"AddItem", "CleanAll"} -> <<"categories", "configs", "items">>
      [] op = "GetName"     -> <<"categories", "configs">>

\* The mutexes a call takes, one after the other.
Order(op) ==
    CASE op \in {"AddCategory", "Idle"} -> <<"configs", "categories">>
      [] op \in {"AddItem", "CleanAll"} -> <<"configs", "categories", "items">>
      [] op = "GetName"     -> <<"categories", "configs">>

Idle == [op |-> "Idle", holds |-> 0, parent |-> Nobody, child |-> Nobody]

Held(t) == {Order(call[t].op)[i] : i \in 1..call[t].holds}
NextMutex(t) == Order(call[t].op)[call[t].holds + 1]
Free(m) == \A t \in Threads : m \notin Held(t)

TypeOK ==
    /\ place \in [Objects -> {"free", "listed", "shown"} \cup Configs \cup Categories]
    /\ \A c \in Configs : place[c] \in {"free", "listed", "shown"}
    /\ \A o \in Categories \cup Items : place[o] # "shown"
    /\ call \in [Threads -> [op: {"Idle", "AddCategory", "AddItem", "GetName", "CleanAll"},
                             holds: 0..2, parent: Objects \cup {Nobody},
                             child: Objects \cup {Nobody}]]
    /\ menu \in {"closed", "opening", "callback", "shown", "closing", "leaving"}
    /\ current \in Configs \cup {Nobody}
    /\ menu = "callback" => current # Nobody /\ place[current] = "listed"

Init ==
    /\ place = [o \in Objects |-> "free"]
    /\ call = [t \in Threads |-> Idle]
    /\ menu = "closed"
    /\ current = Nobody

-----------------------------------------------------------------------------
(* Trees                                                                   *)

\* The category that o was added to, or o itself.
Owner(o) == IF place[o] \in Objects THEN place[o] ELSE o

\* x is o, or was added to it, or to what it holds: a set with x and with the
\* owners of its elements has o.
Reaches(x, o) ==
    \A S \in SUBSET Objects : x \in S /\ (\A y \in S : Owner(y) \in S) => o \in S

\* What is destroyed with o.
Tree(o) == {x \in Objects : place[x] # "free" /\ Reaches(x, o)}

Without(gone) == [o \in Objects |-> IF o \in gone THEN "free" ELSE place[o]]

-----------------------------------------------------------------------------
(* The API                                                                 *)

\* Plugins call from threads of their own; on the thread of the menu while it
\* calls them back.
Calls(t) ==
    /\ call[t] = Idle
    /\ t = Menu => menu \in {"opening", "callback", "shown", "closing"}

Begins(t, op, parent, child) ==
    /\ Calls(t)
    /\ Free(Order(op)[1])
    /\ call' = [call EXCEPT ![t] = [op |-> op, holds |-> 1, parent |-> parent, child |-> child]]
    /\ UNCHANGED <<place, menu, current>>

Locks(t, op, n) == call[t].op = op /\ call[t].holds = n /\ Free(NextMutex(t))

GoesOn(t) == call' = [call EXCEPT ![t].holds = @ + 1] /\ UNCHANGED place
Ends(t) == call' = [call EXCEPT ![t] = Idle]

\* CreateConfig, WUPSConfig_Create; Category::Create; Item::Create
Create(t, o) ==
    /\ Calls(t)
    /\ place[o] = "free"
    /\ Free(CASE o \in Configs -> "configs" [] o \in Categories -> "categories"
              [] o \in Items -> "items")
    /\ place' = [place EXCEPT ![o] = "listed"]
    /\ UNCHANGED <<call, menu, current>>

\* Mutant: what a category holds is not destroyed with it.
DestroyAlone(t, o) ==
    /\ Calls(t)
    /\ o \in Categories \cup Items /\ place[o] = "listed"
    /\ Free(IF o \in Categories THEN "categories" ELSE "items")
    /\ place' = Without({o})
    /\ UNCHANGED <<call, menu, current>>

\* Mutant: the handle of a config is taken for that of a category.
DestroyAny(t, o) ==
    /\ Calls(t)
    /\ place[o] = "listed"
    /\ Free(IF o \in Items THEN "items" ELSE "categories")
    /\ place' = Without(Tree(o))
    /\ UNCHANGED <<call, menu, current>>

\* Category::Destroy, Item::Destroy; what is not on the list stays.
Destroy(t, o) ==
    /\ Calls(t)
    /\ o \in Categories \cup Items /\ place[o] = "listed"
    /\ Free(IF o \in Categories THEN "categories" ELSE "items")
    /\ place' = Without(Tree(o))
    /\ UNCHANGED <<call, menu, current>>

\* Category::AddCategory finds a parent on a list only.
AddCategory(t) ==
    LET parent == call[t].parent
        child == call[t].child
    IN  /\ Locks(t, "AddCategory", 1)
        /\ place' = IF place[parent] = "listed" /\ place[child] = "listed"
                    THEN [place EXCEPT ![child] = parent] ELSE place
        /\ Ends(t)
        /\ UNCHANGED <<menu, current>>

\* Mutant: the search does not stop at the configs of the list.
ParentsAnywhere ==
    {o \in Configs \cup Categories :
        \E r \in Objects : place[r] \in {"listed", "shown"} /\ Reaches(o, r)}

\* GetConfigByHandle, GetCategoryByHandle with checkRecursive
Parents ==
    {o \in Configs \cup Categories :
        \/ place[o] = "listed"
        \/ \E r \in Configs : place[r] = "listed" /\ Reaches(o, r)}

\* Category::AddItem
FindParent(t) ==
    /\ Locks(t, "AddItem", 1)
    /\ IF call[t].parent \in Parents THEN GoesOn(t) ELSE Ends(t) /\ UNCHANGED place
    /\ UNCHANGED <<menu, current>>

AddItem(t) ==
    /\ Locks(t, "AddItem", 2)
    /\ place' = IF place[call[t].child] = "listed"
                THEN [place EXCEPT ![call[t].child] = call[t].parent] ELSE place
    /\ Ends(t)
    /\ UNCHANGED <<menu, current>>

\* WUPSConfigCategory_GetName of a category that is not on the list.
GetName(t) ==
    /\ Locks(t, "GetName", 1)
    /\ Ends(t)
    /\ UNCHANGED <<place, menu, current>>

-----------------------------------------------------------------------------
(* displayMenu                                                             *)

Goes(from, to) == menu = from /\ call[Menu] = Idle /\ menu' = to

OpenMenu == Goes("closed", "opening") /\ UNCHANGED <<place, call, current>>

\* PluginConfigData::createConfig
CreateConfig(c) ==
    /\ Goes("opening", "callback")
    /\ place[c] = "free" /\ Free("configs")
    /\ place' = [place EXCEPT ![c] = "listed"]
    /\ current' = c
    /\ UNCHANGED call

\* Mutant: the config is shown, but stays on the list as well.
GetConfig ==
    /\ Goes("callback", "opening")
    /\ Free("configs")
    /\ current' = Nobody
    /\ UNCHANGED <<place, call>>

\* PopConfigByHandle after CallMenuOpenedCallback, which succeeded or failed.
PopConfig ==
    /\ Goes("callback", "opening")
    /\ Free("configs")
    /\ \/ place' = [place EXCEPT ![current] = "shown"]
       \/ place' = Without(Tree(current))
    /\ current' = Nobody
    /\ UNCHANGED call

\* The handle WUPS_LOADER_HOOK_GET_CONFIG_DEPRECATED returned.
PopDeprecated(c) ==
    /\ Goes("opening", "opening")
    /\ Free("configs")
    /\ place[c] = "listed"
    /\ place' = [place EXCEPT ![c] = "shown"]
    /\ UNCHANGED <<call, current>>

ShowMenu == Goes("opening", "shown") /\ UNCHANGED <<place, call, current>>
CloseMenu == Goes("shown", "closing") /\ UNCHANGED <<place, call, current>>

\* CleanAllHandles
BeginCleanAll == menu = "closing" /\ Begins(Menu, "CleanAll", Nobody, Nobody)

CleanAll ==
    \/ /\ Locks(Menu, "CleanAll", 1)
       /\ GoesOn(Menu)
       /\ UNCHANGED <<menu, current>>
    \/ /\ Locks(Menu, "CleanAll", 2)
       /\ place' = Without(UNION {Tree(o) : o \in {x \in Objects : place[x] = "listed"}})
       /\ Ends(Menu)
       /\ menu' = "leaving"
       /\ UNCHANGED current

\* The renderer goes, and with it the configs it showed.
LeaveMenu ==
    /\ Goes("leaving", "closed")
    /\ place' = Without(UNION {Tree(c) : c \in {x \in Configs : place[x] = "shown"}})
    /\ UNCHANGED <<call, current>>

-----------------------------------------------------------------------------
Api(t) ==
    \/ \E o \in Objects : Create(t, o) \/ Destroy(t, o)
    \/ \E p \in Configs \cup Categories :
          \/ \E c \in Categories : Begins(t, "AddCategory", p, c)
          \/ \E i \in Items : Begins(t, "AddItem", p, i)
    \/ \E c \in Categories : place[c] # "listed" /\ Begins(t, "GetName", c, Nobody)
    \/ AddCategory(t) \/ FindParent(t) \/ AddItem(t) \/ GetName(t)

DisplayMenu ==
    \/ OpenMenu \/ PopConfig \/ ShowMenu \/ CloseMenu
    \/ \E c \in Configs : CreateConfig(c) \/ PopDeprecated(c)
    \/ BeginCleanAll \/ CleanAll \/ LeaveMenu

Next == DisplayMenu \/ \E t \in Threads : Api(t)

Spec == Init /\ [][Next]_vars

-----------------------------------------------------------------------------
(* Properties                                                              *)

\* Every object can be reached from a list or from the menu, and its owners are
\* alive: nothing leaks and nothing dangles, but for a category that was added
\* to itself, and what is in it.
OwnedOnce ==
    \A o \in Objects : place[o] # "free" =>
        \E r \in Objects : Reaches(o, r) /\ place[r] \in {"listed", "shown", r}

\* The menu takes over what it shows: no call changes it, whatever handles it is
\* made with, and a config whose opened callback ran is shown or gone, not left on
\* the list, where plugins could go on changing it.
MenuTakesOver ==
    [][/\ \A c \in Configs : place[c] = "shown" /\ place'[c] = "shown" => Tree(c)' = Tree(c)
       /\ current # Nobody /\ current' = Nobody => place'[current] # "listed"]_vars

\* Threads that wait for each other for ever have one among them that asks for
\* the name of a category: it alone takes the mutexes in another order.
OnlyGetNameBlocks ==
    \A ts \in SUBSET Threads :
        /\ ts # {}
        /\ \A t \in ts : call[t] # Idle /\ \E u \in ts \ {t} : NextMutex(t) \in Held(u)
        => \E t \in ts : call[t].op = "GetName"
=============================================================================
