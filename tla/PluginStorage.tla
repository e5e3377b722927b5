----------------------------- MODULE PluginStorage -----------------------------
(***************************************************************************)
(* The storage of plugins, source/utils/storage and its deprecated         *)
(* variant: trees of items in memory, their JSON files, and the moments at  *)
(* which the loader opens, hands over and closes them.                     *)
(*                                                                         *)
(* Every call takes gStorageMutex from begin to end, so a call is a step.  *)
(* A tree is the set of paths that are sub items and a function from paths  *)
(* to values.  Above[q] are the sub items on the way to q: a call that names *)
(* a parent by its handle finds it while they exist.                       *)
(***************************************************************************)
EXTENDS Naturals, FiniteSets, Functions

CONSTANTS
    Users,      \* plugins; a plugin's storage id is its own
    Paths,      \* places in a tree
    Above,      \* Paths -> the sub items a path lies in
    Handles,    \* addresses root items can get
    NoRoot,     \* nullptr
    Closed,     \* a handle nobody has
    NoFile,     \* the file is missing or empty
    Garbled,    \* the file is not JSON
    NoItems,    \* a plugin of the old interface that opened nothing
    Legacy,     \* see StorageContract
    Kinds,      \* kinds of values plugins store, see Values
    Interfaces, \* "new": WUPS 0.8.0 and later; "old": up to 0.7.1
    IoFaults    \* what can go wrong: "open", "read", "refuse", "tear"

\* "text": a string that is no base64; "base64": one that is; "binary", "empty":
\* a binary item with or without bytes; "number"; "flag": a bool or a
\* floating point number; "null": an item whose type is None.
Values == {"text", "base64", "binary", "empty", "number", "flag", "null"}

ASSUME StorageAssumption ==
    /\ Above \in [Paths -> SUBSET Paths]
    /\ \A q \in Paths : q \notin Above[q] /\ \A r \in Above[q] : Above[r] \subseteq Above[q]
    /\ {NoRoot, Closed} \cap Handles = {}
    /\ NoRoot # Closed
    /\ Kinds \subseteq Values \ {"null"}
    /\ Interfaces \subseteq {"new", "old"}
    /\ IoFaults \subseteq {"open", "read", "refuse", "tear"}

Partial(S, T) == UNION {[D -> T] : D \in SUBSET S}

Tree == [subs: SUBSET Paths, items: Partial(Paths, Values)]
EmptyTree == [subs |-> {}, items |-> [q \in {} |-> "null"]]

ASSUME ClosedIsNoItem == Closed \notin [id: Users, tree: Tree]

\* "storageitems" of a file.
Json == Partial(Paths, Values \cup {"object"})

ASSUME FilesDiffer == NoFile \notin Json /\ Garbled \notin Json

VARIABLES
    phase,    \* where the application cycle is
    life,     \* per plugin: "absent"; "loaded", or "running" once mInitDone is
              \* set; "added" and "stub" the same for one that is not linked
    api,      \* per plugin: the interface its image was built for
    todo,     \* pluginsToDeinit, or those the loop in progress has to visit
    file,     \* per plugin: config/<id>.json
    root,     \* gStorage: per handle the open root item
    mStorageRootItem,  \* per container
    held,     \* per plugin: the root item it was handed in INIT_STORAGE
    mine,     \* per plugin of the old interface: the items in its own memory
    report,   \* (history) whether the last write was reported as a success
    outlived, \* (history) plugins that were running when an application started
    lost      \* (history) root items no container will close: it got another
              \* one, or was destroyed without being linked

loader == <<phase, life, api, todo>>
store  == <<file, root>>
vars == <<loader, store, mStorageRootItem, held, mine, report, outlived, lost>>

TypeOK ==
    /\ phase \in {"stopped", "deinit", "closing", "loading", "opening", "inithooks", "running"}
    /\ life \in [Users -> {"absent", "loaded", "running", "added", "stub"}]
    /\ api \in [Users -> Interfaces]
    /\ todo \subseteq Users
    /\ file \in [Users -> Json \cup {NoFile, Garbled}]
    /\ root \in [Handles -> [id: Users, tree: Tree] \cup {Closed}]
    /\ mStorageRootItem \in [Users -> Handles \cup {NoRoot}]
    /\ held \in [Users -> Handles \cup {NoRoot}]
    /\ mine \in [Users -> Tree \cup {NoItems}]
    /\ report \in BOOLEAN
    /\ outlived \subseteq Users
    /\ lost \subseteq Handles

Init ==
    /\ phase = "loading"
    /\ life = [p \in Users |-> "absent"]
    /\ api \in [Users -> Interfaces]
    /\ todo = {}
    /\ file = [p \in Users |-> NoFile]
    /\ root = [h \in Handles |-> Closed]
    /\ mStorageRootItem = [p \in Users |-> NoRoot]
    /\ held = [p \in Users |-> NoRoot]
    /\ mine = [p \in Users |-> NoItems]
    /\ report = TRUE
    /\ outlived = {} /\ lost = {}

-----------------------------------------------------------------------------
(* Trees: StorageSubItem                                                   *)

Reached(t, q) == Above[q] \subseteq t.subs
Below(q) == {r \in Paths : q \in Above[r]}

FreeForSub(t, q) == Reached(t, q) /\ q \notin t.subs \cup DOMAIN t.items

WithSub(t, q) == [t EXCEPT !.subs = @ \cup {q}]

FreeForItem(t, q) == Reached(t, q) /\ q \notin t.subs

WithItem(t, q, v) ==
    [t EXCEPT !.items = [r \in DOMAIN @ \cup {q} |-> IF r = q THEN v ELSE @[r]]]

\* A sub item goes with all that is in it.
Without(t, q) ==
    LET gone == {q} \cup Below(q)
    IN  IF q \in t.subs
        THEN [subs |-> t.subs \ gone, items |-> Restrict(t.items, DOMAIN t.items \ gone)]
        ELSE [t EXCEPT !.items = Restrict(@, DOMAIN @ \ {q})]

Deletable(t, q) == Reached(t, q) /\ q \in t.subs \cup DOMAIN t.items

\* attemptBinaryConversion: reading a string as binary changes it in memory.
AsBinary(t, q) == [t EXCEPT !.items[q] = IF @ = "base64" THEN "binary" ELSE @]

-----------------------------------------------------------------------------
(* Files                                                                   *)

Encoded(v) == IF v = "binary" THEN "base64" ELSE v

\* serializeToJson: b64_encode returns nothing for an empty item.
SerializeToJson(t) ==
    LET kept == {q \in DOMAIN t.items : t.items[q] \notin {"empty", "null"}}
    IN  [q \in t.subs \cup kept |-> IF q \in kept THEN Encoded(t.items[q]) ELSE "object"]

\* Mutant: objects become items, too.
DeserializeMixed(j) ==
    [subs |-> {q \in DOMAIN j : j[q] = "object"}, items |-> j]

DeserializeFromJson(j) ==
    LET subs == {q \in DOMAIN j : j[q] = "object"}
    IN  [subs |-> subs, items |-> Restrict(j, DOMAIN j \ subs)]

\* What LoadFromFile can find for a plugin.  A file that cannot be opened
\* counts as one that does not exist.
LoadErrors(p) ==
    (IF file[p] = NoFile \/ "open" \in IoFaults THEN {"not_found"} ELSE {})
    \cup (IF file[p] # NoFile /\ "read" \in IoFaults THEN {"error"} ELSE {})

Loads(p) ==
    IF file[p] = NoFile THEN {}
    ELSE {IF file[p] = Garbled THEN EmptyTree ELSE DeserializeFromJson(file[p])}

\* What a write leaves on the card, and what it reports.
Written(p, j) ==
    {[file |-> j, ok |-> TRUE]}
    \cup (IF "refuse" \in IoFaults THEN {[file |-> file[p], ok |-> FALSE]} ELSE {})
    \cup (IF "tear" \in IoFaults
          THEN {[file |-> NoFile, ok |-> FALSE], [file |-> Garbled, ok |-> FALSE]} ELSE {})

\* WriteStorageToSD
WriteStorageToSD(p, t, forceSave) ==
    LET j == SerializeToJson(t)
    IN  (IF ~forceSave /\ j = file[p] THEN {[file |-> j, ok |-> TRUE]} ELSE {})
        \cup (IF forceSave \/ j # file[p] \/ LoadErrors(p) # {} THEN Written(p, j) ELSE {})

Puts(p, w) ==
    /\ file' = [file EXCEPT ![p] = w.file]
    /\ report' = w.ok

-----------------------------------------------------------------------------
(* The calls of plugins                                                    *)

\* A plugin runs while the application does, and in its hooks.
Runs(p) ==
    /\ life[p] = "running"
    /\ phase \in {"inithooks", "running"} \/ (phase = "deinit" /\ p \in todo)

\* getRootItem finds what the plugin was handed.
Usable(p) == Runs(p) /\ held[p] # NoRoot /\ root[held[p]] # Closed

TreeOf(p) == root[held[p]].tree

Changes(p, t) ==
    /\ root' = [root EXCEPT ![held[p]].tree = t]
    /\ UNCHANGED <<loader, file, mStorageRootItem, held, mine, report, outlived, lost>>

CreateSubItem(p, q) == Usable(p) /\ FreeForSub(TreeOf(p), q) /\ Changes(p, WithSub(TreeOf(p), q))

StoreItem(p, q, v) ==
    Usable(p) /\ FreeForItem(TreeOf(p), q) /\ Changes(p, WithItem(TreeOf(p), q, v))

DeleteItem(p, q) == Usable(p) /\ Deletable(TreeOf(p), q) /\ Changes(p, Without(TreeOf(p), q))

WipeStorage(p) == Usable(p) /\ Changes(p, EmptyTree)

\* GetItem and GetItemSize as WUPS_STORAGE_ITEM_BINARY.
GetBinaryItem(p, q) ==
    Usable(p) /\ q \in DOMAIN TreeOf(p).items /\ Changes(p, AsBinary(TreeOf(p), q))

SaveStorage(p, force) ==
    /\ Usable(p)
    /\ \E w \in WriteStorageToSD(p, TreeOf(p), force) : Puts(p, w)
    /\ UNCHANGED <<loader, root, mStorageRootItem, held, mine, outlived, lost>>

ForceReloadStorage(p) == Usable(p) /\ \E t \in Loads(p) : Changes(p, t)

-----------------------------------------------------------------------------
(* StorageUtilsDeprecated: the items are in the plugin's own memory, which  *)
(* the plugin's library changes without a call.                            *)

OldKinds == {"text", "base64", "number"}

\* processJson: other items become invalid, sub items without content too.
OldProcessJson(j) ==
    [subs  |-> {q \in DOMAIN j : j[q] = "object" /\ Below(q) \cap DOMAIN j # {}},
     items |-> Restrict(j, {q \in DOMAIN j : j[q] \in OldKinds})]

\* Mutant: sub items are not descended into.
OldProcessFlat(t) ==
    [q \in DOMAIN t.items \ UNION {Below(r) : r \in t.subs} |-> t.items[q]]

\* processItems: a sub item in which nothing is left becomes null.
OldProcessItems(t) ==
    LET filled(q) == Below(q) \cap (t.subs \cup DOMAIN t.items) # {}
    IN  [q \in t.subs \cup DOMAIN t.items |->
            IF q \in DOMAIN t.items THEN t.items[q] ELSE IF filled(q) THEN "object" ELSE "null"]

\* A file that is not JSON is removed; one that cannot be opened or read
\* in full counts as empty or not JSON.
OldOpenStorage(p) ==
    /\ Runs(p) /\ api[p] = "old"
    /\ mine[p] = NoItems
    /\ \/ /\ file[p] \notin {NoFile, Garbled}
          /\ mine' = [mine EXCEPT ![p] = OldProcessJson(file[p])]
          /\ UNCHANGED file
       \/ /\ file[p] = NoFile \/ "open" \in IoFaults
          /\ mine' = [mine EXCEPT ![p] = EmptyTree]
          /\ UNCHANGED file
       \/ /\ file[p] = Garbled \/ (file[p] # NoFile /\ "read" \in IoFaults)
          /\ mine' = [mine EXCEPT ![p] = EmptyTree]
          /\ file' = [file EXCEPT ![p] = NoFile]
    /\ UNCHANGED <<loader, root, mStorageRootItem, held, report, outlived, lost>>

OldChange(p) ==
    /\ Runs(p) /\ mine[p] # NoItems
    /\ \E q \in Paths :
          LET t == mine[p]
          IN  \/ FreeForSub(t, q) /\ mine' = [mine EXCEPT ![p] = WithSub(t, q)]
              \/ /\ FreeForItem(t, q)
                 /\ \E v \in Kinds \cap OldKinds : mine' = [mine EXCEPT ![p] = WithItem(t, q, v)]
              \/ Deletable(t, q) /\ mine' = [mine EXCEPT ![p] = Without(t, q)]
    /\ UNCHANGED <<loader, store, mStorageRootItem, held, report, outlived, lost>>

OldCloseStorage(p) ==
    /\ Runs(p) /\ mine[p] # NoItems
    /\ \E w \in Written(p, OldProcessItems(mine[p])) : Puts(p, w)
    /\ mine' = [mine EXCEPT ![p] = NoItems]
    /\ UNCHANGED <<loader, root, mStorageRootItem, held, outlived, lost>>

-----------------------------------------------------------------------------
(* The loader                                                              *)

Goes(from, to) == phase = from /\ phase' = to

\* The hooks of the plugins that go run before any of them is closed.
Deinit(ps) ==
    /\ Goes("stopped", "deinit")
    /\ todo' = ps
    /\ UNCHANGED <<life, api, store, mStorageRootItem, held, mine, report, outlived, lost>>

RestorePatches ==
    /\ Goes("deinit", "closing")
    /\ UNCHANGED <<life, api, todo, store, mStorageRootItem, held, mine, report, outlived, lost>>

\* The container and the plugin's own memory go.
Destroyed(p) ==
    /\ life' = [life EXCEPT ![p] = "absent"]
    /\ mStorageRootItem' = [mStorageRootItem EXCEPT ![p] = NoRoot]
    /\ held' = [held EXCEPT ![p] = NoRoot]
    /\ mine' = [mine EXCEPT ![p] = NoItems]
    /\ UNCHANGED outlived

\* Mutant: the root item stays open.
CloseStorageOnly(p) ==
    LET h == mStorageRootItem[p]
    IN  /\ phase = "closing" /\ p \in todo /\ life[p] = "running"
        /\ todo' = todo \ {p}
        /\ \/ /\ api[p] = "new" /\ h # NoRoot
              /\ \E w \in WriteStorageToSD(p, root[h].tree, FALSE) : Puts(p, w)
              /\ UNCHANGED root
           \/ /\ api[p] = "old" \/ h = NoRoot
              /\ UNCHANGED <<store, report>>
        /\ Destroyed(p)
        /\ UNCHANGED <<phase, api, lost>>

\* PluginContainer::CloseStorage, StorageUtils::API::Internal::CloseStorage; the
\* root item is removed even when it could not be written.
CloseStorage(p) ==
    LET h == mStorageRootItem[p]
    IN  /\ phase = "closing" /\ p \in todo /\ life[p] = "running"
        /\ todo' = todo \ {p}
        /\ \/ /\ api[p] = "new" /\ h # NoRoot
              /\ \E w \in WriteStorageToSD(p, root[h].tree, FALSE) : Puts(p, w)
              /\ root' = [root EXCEPT ![h] = Closed]
           \/ /\ api[p] = "old" \/ h = NoRoot
              /\ UNCHANGED <<store, report>>
        /\ Destroyed(p)
        /\ UNCHANGED <<phase, api, lost>>

\* A container that is not linked is not closed, but has a root item.
DestroyStub(p) ==
    /\ phase = "closing" /\ p \in todo /\ life[p] = "stub"
    /\ todo' = todo \ {p}
    /\ lost' = lost \cup ({mStorageRootItem[p]} \ {NoRoot})
    /\ Destroyed(p)
    /\ UNCHANGED <<phase, api, store, report>>

CleanupDone ==
    /\ Goes("closing", "loading")
    /\ todo = {}
    /\ UNCHANGED <<life, api, todo, store, mStorageRootItem, held, mine, report, outlived, lost>>

Load(p) ==
    /\ phase = "loading"
    /\ life[p] = "absent"
    /\ \E l \in {"loaded", "added"} : life' = [life EXCEPT ![p] = l]
    /\ \E v \in Interfaces : api' = [api EXCEPT ![p] = v]
    /\ outlived' = outlived \ {p}
    /\ UNCHANGED <<phase, todo, store, mStorageRootItem, held, mine, report, lost>>

LoadDone ==
    /\ Goes("loading", "opening")
    /\ todo' = {p \in Users : life[p] \notin {"absent", "stub"}}
    /\ UNCHANGED <<life, api, store, mStorageRootItem, held, mine, report, outlived, lost>>

\* PluginContainer::OpenStorage for every container but the stubs of earlier
\* starts.  Plugins that are initialised already keep the root item they were
\* handed.
Opens(p) ==
    /\ phase = "opening" /\ p \in todo
    /\ todo' = todo \ {p}
    /\ IF life[p] = "running"
       THEN outlived' = outlived \cup {p} /\ lost' = lost \cup ({mStorageRootItem[p]} \ {NoRoot})
       ELSE UNCHANGED <<outlived, lost>>
    /\ UNCHANGED <<phase, life, api, file, held, mine, report>>

\* Mutant: after a read error the plugin works on a new, empty tree.
OpenStorageAnyway(p) ==
    /\ Opens(p)
    /\ api[p] = "new"
    /\ \E h \in Handles, t \in Loads(p) \cup (IF LoadErrors(p) # {} THEN {EmptyTree} ELSE {}) :
          /\ root[h] = Closed
          /\ root' = [root EXCEPT ![h] = [id |-> p, tree |-> t]]
          /\ mStorageRootItem' = [mStorageRootItem EXCEPT ![p] = h]

OpenStorage(p) ==
    /\ Opens(p)
    /\ api[p] = "new"
    /\ \/ \E h \in Handles, t \in Loads(p) \cup (IF "not_found" \in LoadErrors(p) THEN {EmptyTree} ELSE {}) :
             /\ root[h] = Closed
             /\ root' = [root EXCEPT ![h] = [id |-> p, tree |-> t]]
             /\ mStorageRootItem' = [mStorageRootItem EXCEPT ![p] = h]
       \/ /\ "error" \in LoadErrors(p)
          /\ mStorageRootItem' = [mStorageRootItem EXCEPT ![p] = NoRoot]
          /\ UNCHANGED root

OpenNothing(p) == Opens(p) /\ api[p] = "old" /\ UNCHANGED <<root, mStorageRootItem>>

OpenDone ==
    /\ Goes("opening", "inithooks")
    /\ todo = {}
    /\ UNCHANGED <<life, api, todo, store, mStorageRootItem, held, mine, report, outlived, lost>>

\* WUPS_LOADER_HOOK_INIT_STORAGE and the other hooks of new plugins.
InitHooks(p) ==
    /\ phase = "inithooks"
    /\ life[p] = "loaded"
    /\ life' = [life EXCEPT ![p] = "running"]
    /\ held' = [held EXCEPT ![p] = mStorageRootItem[p]]
    /\ UNCHANGED <<phase, api, todo, store, mStorageRootItem, mine, report, outlived, lost>>

StartApplication ==
    /\ Goes("inithooks", "running")
    /\ \A p \in Users : life[p] # "loaded"
    /\ life' = [p \in Users |-> IF life[p] = "added" THEN "stub" ELSE life[p]]
    /\ UNCHANGED <<api, todo, store, mStorageRootItem, held, mine, report, outlived, lost>>

ApplicationEnds ==
    /\ Goes("running", "stopped")
    /\ UNCHANGED <<life, api, todo, store, mStorageRootItem, held, mine, report, outlived, lost>>

Reboot ==
    /\ phase' = "loading"
    /\ life' = [p \in Users |-> "absent"]
    /\ todo' = {}
    /\ root' = [h \in Handles |-> Closed]
    /\ mStorageRootItem' = [p \in Users |-> NoRoot]
    /\ held' = [p \in Users |-> NoRoot]
    /\ mine' = [p \in Users |-> NoItems]
    /\ outlived' = {} /\ lost' = {}
    /\ UNCHANGED <<api, file, report>>

-----------------------------------------------------------------------------
Call(p) ==
    \/ \E q \in Paths :
          \/ CreateSubItem(p, q) \/ DeleteItem(p, q) \/ GetBinaryItem(p, q)
          \/ \E v \in Kinds : StoreItem(p, q, v)
    \/ WipeStorage(p) \/ ForceReloadStorage(p)
    \/ \E force \in BOOLEAN : SaveStorage(p, force)

OldCall(p) == OldOpenStorage(p) \/ OldChange(p) \/ OldCloseStorage(p)

Loader ==
    \/ \E ps \in SUBSET {p \in Users : life[p] # "absent"} : Deinit(ps)
    \/ RestorePatches \/ CleanupDone \/ LoadDone \/ OpenDone
    \/ StartApplication \/ ApplicationEnds \/ Reboot
    \/ \E p \in Users :
          Load(p) \/ OpenStorage(p) \/ OpenNothing(p) \/ InitHooks(p)
          \/ CloseStorage(p) \/ DestroyStub(p)

Next == Loader \/ \E p \in Users : Call(p) \/ OldCall(p)

Spec == Init /\ [][Next]_vars

-----------------------------------------------------------------------------
(* Properties                                                              *)

\* Every root item of gStorage is the one its container closes, and the one its
\* plugin writes to.  Not so for a plugin that outlives an application: nobody
\* closes the root items it had before, and the last of them is the one it uses.
OneRoot ==
    /\ \A h \in Handles \ lost : root[h] # Closed => mStorageRootItem[root[h].id] = h
    /\ \A p \in Users :
          /\ mStorageRootItem[p] # NoRoot =>
                root[mStorageRootItem[p]] # Closed /\ root[mStorageRootItem[p]].id = p
          /\ p \notin outlived => held[p] \in {NoRoot, mStorageRootItem[p]}

\* What calls can tell of an item: binary items without bytes are not kept.
AsMap(t) ==
    LET kept == {q \in DOMAIN t.items : t.items[q] \notin {"empty", "null"}}
    IN  [q \in t.subs \cup kept |-> IF q \in kept THEN Encoded(t.items[q]) ELSE "object"]

\* What a plugin of the old interface closes, it gets back when it opens it, and
\* so does its successor that was built for the new one.
UpgradeKeepsItems ==
    \A p \in Users : mine[p] # NoItems =>
        LET j == OldProcessItems(mine[p])
            kept(t) == Restrict(t.items, {q \in DOMAIN t.items : t.items[q] # "null"})
        IN  /\ OldProcessJson(j).items = mine[p].items
            /\ kept(DeserializeFromJson(j)) = mine[p].items

\* The storage of a plugin behaves like a map that is read from the card once
\* and written back as it is then, whatever fails in between.
FileMap(p) == IF file[p] \in {NoFile, Garbled} THEN AsMap(EmptyTree)
              ELSE AsMap(DeserializeFromJson(file[p]))

PluginMap(p) ==
    LET h == IF life[p] = "running" THEN held[p] ELSE mStorageRootItem[p]
    IN  IF life[p] \in {"added", "stub"} THEN Closed
        ELSE IF life[p] # "absent" /\ api[p] = "old" THEN Legacy
        ELSE IF h = NoRoot THEN Closed ELSE AsMap(root[h].tree)

Contract ==
    INSTANCE StorageContract WITH
        Maps     <- Json,
        EmptyMap <- AsMap(EmptyTree),
        mem      <- [p \in Users |-> PluginMap(p)],
        disk     <- [p \in Users |-> FileMap(p)]

KeepsStorageContract == Contract!Spec

\* StorageUtils.cpp:224, "Storage has no changes, avoid saving": a call, not
\* the loader, decides that a storage has changes.
UnchangedNotSaved ==
    [][\A p \in Users :
         phase = "closing" /\ file'[p] # file[p] /\ held[p] # NoRoot =>
             FileMap(p)' = AsMap(root[held[p]].tree)]_vars

=============================================================================
