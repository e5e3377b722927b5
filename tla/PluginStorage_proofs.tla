-------------------------- MODULE PluginStorage_proofs --------------------------
(***************************************************************************)
(* For all plugins, trees, handles and faults: the types of PluginStorage,  *)
(* that a container and its plugin share one root item, and, from that,     *)
(* that the storage keeps its contract with the plugins.                    *)
(***************************************************************************)
EXTENDS PluginStorage, TLAPS

\* What is known of a plugin's root item at each stage of its life: none before
\* it was opened, and none at all with the old interface.
Stages ==
    \A p \in Users :
        /\ api[p] = "old" => mStorageRootItem[p] = NoRoot
        /\ life[p] = "absent" => mStorageRootItem[p] = NoRoot /\ held[p] = NoRoot
        /\ life[p] \in {"loaded", "added"} =>
              /\ held[p] = NoRoot
              /\ phase \in {"loading", "opening", "inithooks"}
              /\ phase = "loading" \/ (phase = "opening" /\ p \in todo) =>
                    mStorageRootItem[p] = NoRoot
        /\ phase = "opening" /\ p \in todo => life[p] \notin {"absent", "stub"}

IInv == TypeOK /\ OneRoot /\ Stages

USE StorageAssumption

-----------------------------------------------------------------------------
(* Trees and files                                                         *)

LEMMA PartialFunction ==
    ASSUME NEW S, NEW T, NEW f \in Partial(S, T)
    PROVE  DOMAIN f \subseteq S /\ f \in [DOMAIN f -> T]
  BY DEF Partial

LEMMA IsPartial ==
    ASSUME NEW S, NEW T, NEW D \in SUBSET S, NEW f \in [D -> T]
    PROVE  f \in Partial(S, T)
  BY DEF Partial

LEMMA TreeParts ==
    ASSUME NEW t \in Tree
    PROVE  /\ t = [subs |-> t.subs, items |-> t.items]
           /\ t.subs \subseteq Paths
           /\ DOMAIN t.items \subseteq Paths
           /\ t.items \in [DOMAIN t.items -> Values]
  <1>1. t.subs \in SUBSET Paths /\ t.items \in Partial(Paths, Values)
    BY DEF Tree
  <1>2. QED
    BY <1>1, PartialFunction DEF Tree

LEMMA IsTree ==
    ASSUME NEW S \in SUBSET Paths, NEW D \in SUBSET Paths, NEW f \in [D -> Values]
    PROVE  [subs |-> S, items |-> f] \in Tree
  BY IsPartial DEF Tree

LEMMA EmptyIsTree == EmptyTree \in Tree
  <1>1. [q \in {} |-> "null"] \in [{} -> Values]
    OBVIOUS
  <1>2. QED
    BY <1>1, IsTree DEF EmptyTree

LEMMA WithSubIsTree == ASSUME NEW t \in Tree, NEW q \in Paths PROVE WithSub(t, q) \in Tree
  <1>1. t = [subs |-> t.subs, items |-> t.items]
    BY TreeParts
  <1>2. [[subs |-> t.subs, items |-> t.items] EXCEPT !.subs = @ \cup {q}]
            = [subs |-> t.subs \cup {q}, items |-> t.items]
    OBVIOUS
  <1>3. WithSub(t, q) = [subs |-> t.subs \cup {q}, items |-> t.items]
    BY <1>1, <1>2 DEF WithSub
  <1>4. QED
    BY <1>3, TreeParts, IsTree

LEMMA WithItemIsTree ==
    ASSUME NEW t \in Tree, NEW q \in Paths, NEW v \in Values PROVE WithItem(t, q, v) \in Tree
  <1> DEFINE f == [r \in DOMAIN t.items \cup {q} |-> IF r = q THEN v ELSE t.items[r]]
  <1>1. WithItem(t, q, v) = [subs |-> t.subs, items |-> f]
    BY TreeParts DEF WithItem
  <1>2. f \in [DOMAIN t.items \cup {q} -> Values]
    BY TreeParts
  <1>3. QED
    BY <1>1, <1>2, TreeParts, IsTree

LEMMA WithoutIsTree == ASSUME NEW t \in Tree, NEW q \in Paths PROVE Without(t, q) \in Tree
  <1> DEFINE gone == {q} \cup Below(q)
             f(S) == Restrict(t.items, DOMAIN t.items \ S)
  <1>1. Without(t, q) = IF q \in t.subs THEN [subs |-> t.subs \ gone, items |-> f(gone)]
                                        ELSE [subs |-> t.subs, items |-> f({q})]
    BY TreeParts DEF Without
  <1>2. ASSUME NEW S, NEW T \in SUBSET Paths PROVE [subs |-> T, items |-> f(S)] \in Tree
    <2>1. f(S) \in [DOMAIN t.items \ S -> Values]
      BY TreeParts DEF Restrict
    <2>2. DOMAIN t.items \ S \in SUBSET Paths
      BY TreeParts
    <2>3. QED
      BY <2>1, <2>2, IsTree
  <1>3. CASE q \in t.subs
    <2>1. t.subs \ gone \in SUBSET Paths
      BY TreeParts
    <2>2. [subs |-> t.subs \ gone, items |-> f(gone)] \in Tree
      BY <2>1, <1>2
    <2>3. QED
      BY <1>1, <1>3, <2>2
  <1>4. CASE q \notin t.subs
    <2>1. t.subs \in SUBSET Paths
      BY TreeParts
    <2>2. [subs |-> t.subs, items |-> f({q})] \in Tree
      BY <2>1, <1>2
    <2>3. QED
      BY <1>1, <1>4, <2>2
  <1>5. QED
    BY <1>3, <1>4

LEMMA AsBinaryIsTree ==
    ASSUME NEW t \in Tree, NEW q \in DOMAIN t.items PROVE AsBinary(t, q) \in Tree
  <1> DEFINE f == [t.items EXCEPT ![q] = IF @ = "base64" THEN "binary" ELSE @]
  <1>1. AsBinary(t, q) = [subs |-> t.subs, items |-> f]
    BY TreeParts DEF AsBinary
  <1>2. f \in [DOMAIN t.items -> Values]
    BY TreeParts DEF Values
  <1>3. QED
    BY <1>1, <1>2, TreeParts, IsTree

LEMMA SerializedIsJson == ASSUME NEW t \in Tree PROVE SerializeToJson(t) \in Json
  <1> DEFINE kept == {q \in DOMAIN t.items : t.items[q] \notin {"empty", "null"}}
  <1>1. SerializeToJson(t) \in [t.subs \cup kept -> Values \cup {"object"}]
    BY TreeParts DEF SerializeToJson, Encoded, Values
  <1>2. QED
    BY <1>1, TreeParts, IsPartial DEF Json

LEMMA DeserializedIsTree == ASSUME NEW j \in Json PROVE DeserializeFromJson(j) \in Tree
  <1> DEFINE subs == {q \in DOMAIN j : j[q] = "object"}
  <1>1. DOMAIN j \subseteq Paths /\ j \in [DOMAIN j -> Values \cup {"object"}]
    BY PartialFunction DEF Json
  <1>2. Restrict(j, DOMAIN j \ subs) \in [DOMAIN j \ subs -> Values]
    BY <1>1 DEF Restrict
  <1>3. QED
    BY <1>1, <1>2, IsTree DEF DeserializeFromJson

LEMMA OldProcessedIsTree == ASSUME NEW j \in Json PROVE OldProcessJson(j) \in Tree
  <1> DEFINE subs == {q \in DOMAIN j : j[q] = "object" /\ Below(q) \cap DOMAIN j # {}}
             kept == {q \in DOMAIN j : j[q] \in OldKinds}
  <1>1. DOMAIN j \subseteq Paths /\ j \in [DOMAIN j -> Values \cup {"object"}]
    BY PartialFunction DEF Json
  <1>2. Restrict(j, kept) \in [kept -> Values]
    BY <1>1 DEF Restrict, OldKinds, Values
  <1>3. QED
    BY <1>1, <1>2, IsTree DEF OldProcessJson

LEMMA OldProcessedIsJson == ASSUME NEW t \in Tree PROVE OldProcessItems(t) \in Json
  <1>1. OldProcessItems(t) \in [t.subs \cup DOMAIN t.items -> Values \cup {"object"}]
    BY TreeParts DEF OldProcessItems, Values
  <1>2. QED
    BY <1>1, TreeParts, IsPartial DEF Json

-----------------------------------------------------------------------------
(* What is read and written                                                *)

FileStates == Json \cup {NoFile, Garbled}

LEMMA WrittenTypes ==
    ASSUME TypeOK, NEW p \in Users, NEW j \in Json, NEW w \in Written(p, j)
    PROVE  w.file \in FileStates /\ w.ok \in BOOLEAN
  <1>1. file[p] \in FileStates
    BY DEF TypeOK, FileStates
  <1>2. PICK f \in FileStates, ok \in BOOLEAN : w = [file |-> f, ok |-> ok]
    <2>1. j \in FileStates /\ NoFile \in FileStates /\ Garbled \in FileStates
      BY DEF FileStates
    <2>2. \/ w = [file |-> j, ok |-> TRUE]
          \/ w = [file |-> file[p], ok |-> FALSE]
          \/ w = [file |-> NoFile, ok |-> FALSE]
          \/ w = [file |-> Garbled, ok |-> FALSE]
      BY DEF Written
    <2>3. QED
      BY <1>1, <2>1, <2>2
  <1>3. QED
    BY <1>2

LEMMA SavedTypes ==
    ASSUME TypeOK, NEW p \in Users, NEW t \in Tree, NEW force \in BOOLEAN,
           NEW w \in WriteStorageToSD(p, t, force)
    PROVE  w.file \in FileStates /\ w.ok \in BOOLEAN
  <1> DEFINE j == SerializeToJson(t)
  <1>1. j \in Json
    BY SerializedIsJson
  <1>2. w \in {[file |-> j, ok |-> TRUE]} \cup Written(p, j)
    BY DEF WriteStorageToSD
  <1>3. CASE w = [file |-> j, ok |-> TRUE]
    BY <1>1, <1>3 DEF FileStates
  <1>4. CASE w \in Written(p, j)
    BY <1>1, <1>4, WrittenTypes
  <1>5. QED
    BY <1>2, <1>3, <1>4

LEMMA PutsTypes ==
    ASSUME TypeOK, NEW p \in Users, NEW w, w.file \in FileStates, w.ok \in BOOLEAN, Puts(p, w)
    PROVE  file' \in [Users -> FileStates] /\ report' \in BOOLEAN
  BY DEF TypeOK, Puts, FileStates

LEMMA LoadsTrees ==
    ASSUME TypeOK, NEW p \in Users, NEW t \in Loads(p)
    PROVE  t \in Tree
  <1>1. file[p] \in Json \cup {NoFile, Garbled} /\ file[p] # NoFile
    BY DEF TypeOK, Loads
  <1>2. CASE file[p] = Garbled
    BY <1>1, <1>2, EmptyIsTree DEF Loads
  <1>3. CASE file[p] # Garbled
    BY <1>1, <1>3, DeserializedIsTree DEF Loads
  <1>4. QED
    BY <1>2, <1>3

LEMMA UsableTree ==
    ASSUME TypeOK, NEW p \in Users, Usable(p)
    PROVE  held[p] \in Handles /\ root[held[p]] \in [id: Users, tree: Tree] /\ TreeOf(p) \in Tree
  BY DEF TypeOK, Usable, TreeOf

-----------------------------------------------------------------------------
(* The calls of plugins                                                    *)

\* A call changes the items of a root item, never whose it is.
LEMMA ChangesKeeps ==
    ASSUME IInv, NEW p \in Users, Usable(p), NEW t \in Tree, Changes(p, t)
    PROVE  IInv'
  <1>1. /\ held[p] \in Handles
        /\ root[held[p]] \in [id: Users, tree: Tree]
        /\ root \in [Handles -> [id: Users, tree: Tree] \cup {Closed}]
    BY UsableTree DEF IInv, TypeOK
  <1>2. [root[held[p]] EXCEPT !.tree = t] \in [id: Users, tree: Tree]
    BY <1>1
  <1>3. root' = [root EXCEPT ![held[p]] = [root[held[p]] EXCEPT !.tree = t]]
    BY <1>1 DEF Changes
  <1>4. root' \in [Handles -> [id: Users, tree: Tree] \cup {Closed}]
    BY <1>1, <1>2, <1>3
  <1>5. \A h \in Handles : (root'[h] = Closed <=> root[h] = Closed)
                            /\ (root[h] # Closed => root'[h].id = root[h].id)
    BY <1>1, <1>2, <1>3, ClosedIsNoItem
  <1>6. UNCHANGED <<loader, file, mStorageRootItem, held, mine, report, outlived, lost>>
    BY DEF Changes
  <1>7. TypeOK'
    BY <1>4, <1>6 DEF IInv, TypeOK, loader
  <1>8. OneRoot'
    BY <1>5, <1>6 DEF IInv, OneRoot, TypeOK
  <1>9. Stages'
    BY <1>6 DEF IInv, Stages, loader
  <1>10. QED
    BY <1>7, <1>8, <1>9 DEF IInv

LEMMA CallKeeps == ASSUME IInv, NEW p \in Users, Call(p) PROVE IInv'
  <1>1. ASSUME NEW q \in Paths, CreateSubItem(p, q) PROVE IInv'
    BY <1>1, UsableTree, WithSubIsTree, ChangesKeeps DEF CreateSubItem, IInv
  <1>2. ASSUME NEW q \in Paths, DeleteItem(p, q) PROVE IInv'
    BY <1>2, UsableTree, WithoutIsTree, ChangesKeeps DEF DeleteItem, IInv
  <1>3. ASSUME NEW q \in Paths, GetBinaryItem(p, q) PROVE IInv'
    BY <1>3, UsableTree, AsBinaryIsTree, ChangesKeeps DEF GetBinaryItem, IInv
  <1>4. ASSUME NEW q \in Paths, NEW v \in Kinds, StoreItem(p, q, v) PROVE IInv'
    BY <1>4, UsableTree, WithItemIsTree, ChangesKeeps DEF StoreItem, IInv
  <1>5. CASE WipeStorage(p)
    BY <1>5, EmptyIsTree, ChangesKeeps DEF WipeStorage
  <1>6. CASE ForceReloadStorage(p)
    BY <1>6, LoadsTrees, ChangesKeeps DEF ForceReloadStorage, IInv
  <1>7. ASSUME NEW force \in BOOLEAN, SaveStorage(p, force) PROVE IInv'
    <2>1. TreeOf(p) \in Tree
      BY <1>7, UsableTree DEF SaveStorage, IInv
    <2>2. file' \in [Users -> FileStates] /\ report' \in BOOLEAN
      BY <1>7, <2>1, SavedTypes, PutsTypes DEF SaveStorage, IInv
    <2>3. UNCHANGED <<loader, root, mStorageRootItem, held, mine, outlived, lost>>
      BY <1>7 DEF SaveStorage
    <2>4. QED
      BY <2>2, <2>3 DEF IInv, TypeOK, OneRoot, Stages, loader, FileStates
  <1>8. QED
    BY <1>1, <1>2, <1>3, <1>4, <1>5, <1>6, <1>7 DEF Call

LEMMA OldCallKeeps == ASSUME IInv, NEW p \in Users, OldCall(p) PROVE IInv'
  <1>0. TypeOK /\ mine \in [Users -> Tree \cup {NoItems}] /\ file \in [Users -> FileStates]
    BY DEF IInv, TypeOK, FileStates
  <1>1. /\ file' \in [Users -> FileStates] /\ report' \in BOOLEAN
        /\ mine' \in [Users -> Tree \cup {NoItems}]
        /\ UNCHANGED <<loader, root, mStorageRootItem, held, outlived, lost>>
    <2>1. CASE OldOpenStorage(p)
      <3>1. report' \in BOOLEAN /\ UNCHANGED <<loader, root, mStorageRootItem, held, outlived, lost>>
        BY <1>0, <2>1 DEF OldOpenStorage, TypeOK
      <3>2. \/ file[p] \in Json /\ mine' = [mine EXCEPT ![p] = OldProcessJson(file[p])]
            \/ mine' = [mine EXCEPT ![p] = EmptyTree]
        BY <1>0, <2>1 DEF OldOpenStorage, FileStates
      <3>3. mine' \in [Users -> Tree \cup {NoItems}]
        BY <1>0, <3>2, EmptyIsTree, OldProcessedIsTree
      <3>4. file' = file \/ file' = [file EXCEPT ![p] = NoFile]
        BY <2>1 DEF OldOpenStorage
      <3>5. QED
        BY <1>0, <3>1, <3>3, <3>4 DEF FileStates
    <2>2. CASE OldChange(p)
      <3>1. UNCHANGED <<loader, file, root, mStorageRootItem, held, report, outlived, lost>>
        BY <2>2 DEF OldChange, store
      <3>2. mine[p] \in Tree
        BY <1>0, <2>2 DEF OldChange
      <3>3. \E t \in Tree : mine' = [mine EXCEPT ![p] = t]
        <4>1. PICK q \in Paths :
                 \/ mine' = [mine EXCEPT ![p] = WithSub(mine[p], q)]
                 \/ \E v \in Kinds \cap OldKinds : mine' = [mine EXCEPT ![p] = WithItem(mine[p], q, v)]
                 \/ mine' = [mine EXCEPT ![p] = Without(mine[p], q)]
          BY <2>2 DEF OldChange
        <4>2. QED
          BY <3>2, <4>1, WithSubIsTree, WithItemIsTree, WithoutIsTree
      <3>4. QED
        BY <1>0, <3>1, <3>3 DEF TypeOK
    <2>3. CASE OldCloseStorage(p)
      <3>1. mine[p] \in Tree
        BY <1>0, <2>3 DEF OldCloseStorage
      <3>2. file' \in [Users -> FileStates] /\ report' \in BOOLEAN
        BY <1>0, <2>3, <3>1, OldProcessedIsJson, WrittenTypes, PutsTypes DEF OldCloseStorage
      <3>3. QED
        BY <1>0, <2>3, <3>2 DEF OldCloseStorage
    <2>4. QED
      BY <2>1, <2>2, <2>3 DEF OldCall
  <1>2. QED
    BY <1>1 DEF IInv, TypeOK, OneRoot, Stages, loader, FileStates

-----------------------------------------------------------------------------
(* The steps of the loader                                                 *)

\* The steps that only go from one phase to the next.
PhaseStep ==
    \/ \E ps \in SUBSET {p \in Users : life[p] # "absent"} : Deinit(ps)
    \/ RestorePatches \/ CleanupDone \/ LoadDone \/ OpenDone
    \/ StartApplication \/ ApplicationEnds

LEMMA PhaseStepKeeps == ASSUME IInv, PhaseStep PROVE IInv'
  <1>1. UNCHANGED <<api, store, mStorageRootItem, held, mine, report, outlived, lost>>
    BY DEF PhaseStep, Deinit, RestorePatches, CleanupDone, LoadDone, OpenDone,
           StartApplication, ApplicationEnds
  <1>2. OneRoot'
    BY <1>1 DEF IInv, OneRoot, store
  <1>3. TypeOK'
    <2>1. /\ phase' \in {"stopped", "deinit", "closing", "loading", "opening", "inithooks", "running"}
          /\ todo' \subseteq Users
      BY DEF PhaseStep, Deinit, RestorePatches, CleanupDone, LoadDone, OpenDone,
             StartApplication, ApplicationEnds, Goes, IInv, TypeOK
    <2>2. life' \in [Users -> {"absent", "loaded", "running", "added", "stub"}]
      BY DEF PhaseStep, Deinit, RestorePatches, CleanupDone, LoadDone, OpenDone,
             StartApplication, ApplicationEnds, IInv, TypeOK
    <2>3. QED
      BY <1>1, <2>1, <2>2 DEF IInv, TypeOK, store
  <1>4. Stages'
    <2>1. CASE StartApplication
      BY <1>1, <2>1 DEF StartApplication, Goes, IInv, TypeOK, Stages
    <2>2. CASE LoadDone
      BY <1>1, <2>2 DEF LoadDone, Goes, IInv, TypeOK, Stages
    <2>3. CASE OpenDone
      BY <1>1, <2>3 DEF OpenDone, Goes, IInv, TypeOK, Stages
    <2>4. CASE RestorePatches \/ CleanupDone \/ ApplicationEnds
                  \/ \E ps \in SUBSET {p \in Users : life[p] # "absent"} : Deinit(ps)
      BY <1>1, <2>4 DEF RestorePatches, CleanupDone, ApplicationEnds, Deinit, Goes, IInv, TypeOK, Stages
    <2>5. QED
      BY <2>1, <2>2, <2>3, <2>4 DEF PhaseStep
  <1>5. QED
    BY <1>2, <1>3, <1>4 DEF IInv

LEMMA RebootKeeps == ASSUME IInv, Reboot PROVE IInv'
  <1>1. OneRoot'
    BY DEF IInv, TypeOK, OneRoot, Reboot
  <1>2. TypeOK' /\ Stages'
    BY DEF IInv, TypeOK, Stages, Reboot
  <1>3. QED
    BY <1>1, <1>2 DEF IInv

LEMMA LoadKeeps == ASSUME IInv, NEW p \in Users, Load(p) PROVE IInv'
  <1>1. TypeOK'
    BY DEF Load, IInv, TypeOK, store
  <1>2. OneRoot'
    BY DEF Load, IInv, TypeOK, OneRoot, Stages, store
  <1>3. Stages'
    BY DEF Load, IInv, TypeOK, Stages
  <1>4. QED
    BY <1>1, <1>2, <1>3 DEF IInv

LEMMA InitHooksKeeps == ASSUME IInv, NEW p \in Users, InitHooks(p) PROVE IInv'
  <1>1. TypeOK'
    BY DEF InitHooks, IInv, TypeOK, store
  <1>2. OneRoot'
    BY DEF InitHooks, IInv, TypeOK, OneRoot, store
  <1>3. Stages'
    BY DEF InitHooks, IInv, TypeOK, Stages
  <1>4. QED
    BY <1>1, <1>2, <1>3 DEF IInv

\* While a plugin's root item is opened, none that a container will close is its.
LEMMA NoneYet ==
    ASSUME IInv, NEW p \in Users, Opens(p), NEW g \in Handles, g \notin lost',
           root[g] # Closed
    PROVE  g \notin lost /\ root[g].id # p
  <1>1. g \notin lost
    BY DEF Opens
  <1>2. mStorageRootItem[root[g].id] = g
    BY <1>1 DEF IInv, OneRoot
  <1>3. CASE life[p] = "running"
    BY <1>2, <1>3 DEF Opens, IInv, TypeOK
  <1>4. CASE life[p] # "running"
    <2>1. mStorageRootItem[p] = NoRoot
      BY <1>4 DEF Opens, IInv, TypeOK, Stages
    <2>2. QED
      BY <1>1, <1>2, <2>1
  <1>5. QED
    BY <1>1, <1>3, <1>4

LEMMA OpensParts ==
    ASSUME IInv, NEW p \in Users, Opens(p)
    PROVE  /\ UNCHANGED <<phase, life, api, file, held, mine, report>>
           /\ phase = "opening" /\ p \in todo /\ todo' = todo \ {p}
           /\ outlived \subseteq outlived' /\ outlived' \subseteq outlived \cup {p}
           /\ lost \subseteq lost' /\ lost' \subseteq Handles
           /\ p \in outlived' \/ held[p] = NoRoot
  <1>1. life[p] \in {"loaded", "added", "running"}
    BY DEF Opens, IInv, TypeOK, Stages
  <1>2. QED
    BY <1>1 DEF Opens, IInv, TypeOK, Stages

LEMMA OpenStorageKeeps == ASSUME IInv, NEW p \in Users, OpenStorage(p) PROVE IInv'
  <1>1. Opens(p) /\ api[p] = "new"
    BY DEF OpenStorage
  <1>2. TypeOK /\ OneRoot /\ Stages
    BY DEF IInv
  <1> DEFINE m == mStorageRootItem
  <1>3. CASE \E h \in Handles, t \in Tree :
                /\ root[h] = Closed
                /\ root' = [root EXCEPT ![h] = [id |-> p, tree |-> t]]
                /\ m' = [m EXCEPT ![p] = h]
    <2>1. PICK h \in Handles, t \in Tree :
                /\ root[h] = Closed
                /\ root' = [root EXCEPT ![h] = [id |-> p, tree |-> t]]
                /\ m' = [m EXCEPT ![p] = h]
      BY <1>3
    <2>2. [id |-> p, tree |-> t] \in [id: Users, tree: Tree]
      BY <2>1
    <2>3. root'[h] # Closed /\ root'[h].id = p /\ m'[p] = h /\ h # NoRoot
      BY <1>2, <2>1, <2>2, ClosedIsNoItem DEF TypeOK
    <2>4. (\A g \in Handles \ {h} : root'[g] = root[g]) /\ (\A q \in Users \ {p} : m'[q] = m[q])
      BY <1>2, <2>1 DEF TypeOK
    <2>5. TypeOK'
      BY <1>1, <1>2, <2>1, <2>2, OpensParts DEF TypeOK
    <2>6. ASSUME NEW g \in Handles, g \notin lost', root'[g] # Closed
          PROVE  m'[root'[g].id] = g
      <3>1. CASE g = h
        BY <2>3, <3>1
      <3>2. CASE g # h
        <4>1. root'[g] = root[g] /\ g \notin lost /\ root[g].id # p
          BY <1>1, <2>4, <2>6, <3>2, NoneYet
        <4>2. root[g].id \in Users
          BY <1>2, <2>6, <4>1 DEF TypeOK
        <4>3. QED
          BY <1>2, <2>4, <2>6, <4>1, <4>2 DEF OneRoot
      <3>3. QED
        BY <3>1, <3>2
    <2>7. ASSUME NEW q \in Users, m'[q] # NoRoot
          PROVE  root'[m'[q]] # Closed /\ root'[m'[q]].id = q
      <3>1. CASE q = p
        BY <2>3, <3>1
      <3>2. CASE q # p
        <4>1. m'[q] = m[q] /\ m[q] \in Handles
          BY <1>2, <2>4, <2>7, <3>2 DEF TypeOK
        <4>2. root[m[q]] # Closed /\ root[m[q]].id = q
          BY <1>2, <2>7, <4>1 DEF OneRoot
        <4>3. QED
          BY <2>1, <2>4, <4>1, <4>2
      <3>3. QED
        BY <3>1, <3>2
    <2>8. ASSUME NEW q \in Users, q \notin outlived' PROVE held'[q] \in {NoRoot, m'[q]}
      BY <1>1, <1>2, <2>4, <2>8, OpensParts DEF OneRoot
    <2>9. OneRoot'
      BY <2>6, <2>7, <2>8 DEF OneRoot
    <2>10. Stages'
      BY <1>1, <1>2, <2>4, OpensParts DEF Stages
    <2>11. QED
      BY <2>5, <2>9, <2>10 DEF IInv
  <1>4. CASE m' = [m EXCEPT ![p] = NoRoot] /\ UNCHANGED root
    <2>1. m'[p] = NoRoot /\ (\A q \in Users \ {p} : m'[q] = m[q])
      BY <1>2, <1>4 DEF TypeOK
    <2>2. TypeOK'
      BY <1>1, <1>2, <1>4, OpensParts DEF TypeOK
    <2>3. ASSUME NEW g \in Handles, g \notin lost', root'[g] # Closed
          PROVE  m'[root'[g].id] = g
      <3>1. g \notin lost /\ root[g].id # p
        BY <1>1, <1>4, <2>3, NoneYet
      <3>2. root[g].id \in Users
        BY <1>2, <1>4, <2>3 DEF TypeOK
      <3>3. QED
        BY <1>2, <1>4, <2>1, <2>3, <3>1, <3>2 DEF OneRoot
    <2>4. ASSUME NEW q \in Users
          PROVE  /\ m'[q] # NoRoot => root'[m'[q]] # Closed /\ root'[m'[q]].id = q
                 /\ q \notin outlived' => held'[q] \in {NoRoot, m'[q]}
      BY <1>1, <1>2, <1>4, <2>1, OpensParts DEF OneRoot
    <2>5. OneRoot'
      BY <2>3, <2>4 DEF OneRoot
    <2>6. Stages'
      BY <1>1, <1>2, <2>1, OpensParts DEF Stages
    <2>7. QED
      BY <2>2, <2>5, <2>6 DEF IInv
  <1>5. QED
    BY <1>2, <1>3, <1>4, LoadsTrees, EmptyIsTree DEF OpenStorage

LEMMA OpenNothingKeeps == ASSUME IInv, NEW p \in Users, OpenNothing(p) PROVE IInv'
  <1>1. Opens(p) /\ UNCHANGED <<root, mStorageRootItem>>
    BY DEF OpenNothing
  <1>2. TypeOK'
    BY <1>1, OpensParts DEF IInv, TypeOK
  <1>3. OneRoot'
    BY <1>1, OpensParts DEF IInv, OneRoot
  <1>4. Stages'
    BY <1>1, OpensParts DEF IInv, Stages
  <1>5. QED
    BY <1>2, <1>3, <1>4 DEF IInv

\* A container goes: its root item is closed, given up, or there was none.
LEMMA DestroyedKeeps ==
    ASSUME IInv, NEW p \in Users, Destroyed(p), phase = "closing",
           todo' = todo \ {p}, UNCHANGED <<phase, api>>,
           file' \in [Users -> FileStates], report' \in BOOLEAN,
           \/ /\ mStorageRootItem[p] # NoRoot
              /\ root' = [root EXCEPT ![mStorageRootItem[p]] = Closed]
              /\ UNCHANGED lost
           \/ /\ UNCHANGED root
              /\ lost' = lost \cup ({mStorageRootItem[p]} \ {NoRoot})
    PROVE  IInv'
  <1> DEFINE m == mStorageRootItem
  <1>1. TypeOK /\ OneRoot /\ Stages
    BY DEF IInv
  <1>2. m'[p] = NoRoot /\ held'[p] = NoRoot /\ (\A q \in Users \ {p} : m'[q] = m[q] /\ held'[q] = held[q])
    BY <1>1 DEF Destroyed, TypeOK
  <1>3. \A g \in Handles : root'[g] # Closed => root'[g] = root[g]
    BY <1>1 DEF TypeOK
  <1>4. TypeOK'
    BY <1>1 DEF Destroyed, TypeOK, FileStates
  <1>5. ASSUME NEW g \in Handles, g \notin lost', root'[g] # Closed PROVE m'[root'[g].id] = g
    <2>1. root'[g] = root[g] /\ root[g].id \in Users /\ g \notin lost
      BY <1>1, <1>3, <1>5 DEF TypeOK
    <2>2. m[root[g].id] = g
      BY <1>1, <1>5, <2>1 DEF OneRoot
    <2>3. root[g].id # p
      BY <1>1, <1>5, <2>1, <2>2 DEF TypeOK
    <2>4. QED
      BY <1>2, <2>1, <2>2, <2>3
  <1>6. ASSUME NEW q \in Users, m'[q] # NoRoot PROVE root'[m'[q]] # Closed /\ root'[m'[q]].id = q
    <2>1. q # p /\ m'[q] = m[q] /\ m[q] \in Handles
      BY <1>1, <1>2, <1>6 DEF TypeOK
    <2>2. root[m[q]] # Closed /\ root[m[q]].id = q
      BY <1>1, <1>6, <2>1 DEF OneRoot
    <2>3. m[p] # NoRoot => m[p] \in Handles /\ root[m[p]].id = p
      BY <1>1 DEF TypeOK, OneRoot
    <2>4. root'[m[q]] = root[m[q]]
      BY <1>1, <2>1, <2>2, <2>3 DEF TypeOK
    <2>5. QED
      BY <2>1, <2>2, <2>4
  <1>7. ASSUME NEW q \in Users, q \notin outlived' PROVE held'[q] \in {NoRoot, m'[q]}
    BY <1>1, <1>2, <1>7 DEF Destroyed, OneRoot
  <1>8. OneRoot'
    BY <1>5, <1>6, <1>7 DEF OneRoot
  <1>9. Stages'
    BY <1>1, <1>2 DEF Destroyed, Stages, TypeOK
  <1>10. QED
    BY <1>4, <1>8, <1>9 DEF IInv

LEMMA CloseStorageKeeps == ASSUME IInv, NEW p \in Users, CloseStorage(p) PROVE IInv'
  <1> DEFINE h == mStorageRootItem[p]
  <1>1. /\ Destroyed(p) /\ phase = "closing" /\ todo' = todo \ {p}
        /\ UNCHANGED <<phase, api, lost>>
    BY DEF CloseStorage
  <1>2. TypeOK /\ OneRoot /\ Stages
    BY DEF IInv
  <1>3. CASE /\ h # NoRoot
             /\ \E w \in WriteStorageToSD(p, root[h].tree, FALSE) : Puts(p, w)
             /\ root' = [root EXCEPT ![h] = Closed]
    <2>1. root[h].tree \in Tree
      BY <1>2, <1>3 DEF TypeOK, OneRoot
    <2>2. file' \in [Users -> FileStates] /\ report' \in BOOLEAN
      BY <1>2, <1>3, <2>1, SavedTypes, PutsTypes
    <2>3. QED
      BY <1>1, <1>3, <2>2, DestroyedKeeps
  <1>4. CASE (api[p] = "old" \/ h = NoRoot) /\ UNCHANGED <<store, report>>
    <2>1. h = NoRoot
      BY <1>2, <1>4 DEF Stages
    <2>2. file' \in [Users -> FileStates] /\ report' \in BOOLEAN /\ UNCHANGED root
      BY <1>2, <1>4 DEF TypeOK, store, FileStates
    <2>3. lost' = lost \cup ({h} \ {NoRoot})
      BY <1>1, <2>1
    <2>4. QED
      BY <1>1, <2>2, <2>3, DestroyedKeeps
  <1>5. QED
    BY <1>3, <1>4 DEF CloseStorage

LEMMA DestroyStubKeeps == ASSUME IInv, NEW p \in Users, DestroyStub(p) PROVE IInv'
  <1>1. file' \in [Users -> FileStates] /\ report' \in BOOLEAN /\ UNCHANGED root
    BY DEF DestroyStub, store, IInv, TypeOK, FileStates
  <1>2. QED
    BY <1>1, DestroyedKeeps DEF DestroyStub

-----------------------------------------------------------------------------
(* The results                                                             *)

LEMMA InitIInv == Init => IInv
  <1> SUFFICES ASSUME Init PROVE IInv
    OBVIOUS
  <1>1. TypeOK
    BY DEF Init, TypeOK
  <1>2. OneRoot /\ Stages
    BY DEF Init, OneRoot, Stages
  <1>3. QED
    BY <1>1, <1>2 DEF IInv

LEMMA NextIInv == IInv /\ [Next]_vars => IInv'
  <1> SUFFICES ASSUME IInv, [Next]_vars PROVE IInv'
    OBVIOUS
  <1>1. ASSUME NEW p \in Users, Call(p) \/ OldCall(p) PROVE IInv'
    BY <1>1, CallKeeps, OldCallKeeps
  <1>2. CASE PhaseStep \/ Reboot
    BY <1>2, PhaseStepKeeps, RebootKeeps
  <1>3. ASSUME NEW p \in Users,
               Load(p) \/ OpenStorage(p) \/ OpenNothing(p) \/ InitHooks(p)
               \/ CloseStorage(p) \/ DestroyStub(p)
        PROVE  IInv'
    BY <1>3, LoadKeeps, OpenStorageKeeps, OpenNothingKeeps, InitHooksKeeps,
       CloseStorageKeeps, DestroyStubKeeps
  <1>4. CASE UNCHANGED vars
    BY <1>4 DEF vars, loader, store, IInv, TypeOK, OneRoot, Stages
  <1>5. QED
    BY <1>1, <1>2, <1>3, <1>4 DEF Next, Loader, PhaseStep

LEMMA StorageInvariant == Spec => []IInv
  BY InitIInv, NextIInv, PTL DEF Spec

\* The variables of the storage have their types in every behaviour.
THEOREM StorageTypes == Spec => []TypeOK
  <1>1. IInv => TypeOK
    BY DEF IInv
  <1>2. QED
    BY <1>1, StorageInvariant, PTL

\* Whatever is loaded, reloaded, opened with an error and closed, in any order: an
\* open root item is the one its container will close and the one its plugin
\* writes to, but for what a plugin that outlives an application leaves.
THEOREM OneRootEach == Spec => []OneRoot
  <1>1. IInv => OneRoot
    BY DEF IInv
  <1>2. QED
    BY <1>1, StorageInvariant, PTL

-----------------------------------------------------------------------------
(* The interface of WUPS 0.7.1 and its successor                           *)

\* A plugin of the old interface has only items the old interface knows.
OldItems ==
    \A p \in Users : mine[p] # NoItems =>
        \A q \in DOMAIN mine[p].items : mine[p].items[q] \in OldKinds

IsOld(t) == \A q \in DOMAIN t.items : t.items[q] \in OldKinds

LEMMA OldChangesOld ==
    ASSUME NEW t \in Tree, IsOld(t), NEW q \in Paths
    PROVE  /\ IsOld(WithSub(t, q))
           /\ IsOld(Without(t, q))
           /\ \A v \in OldKinds : IsOld(WithItem(t, q, v))
  <1>1. t = [subs |-> t.subs, items |-> t.items]
    BY TreeParts
  <1>2. WithSub(t, q).items = t.items
    BY <1>1 DEF WithSub
  <1>3. \A S : Restrict(t.items, DOMAIN t.items \ S) = [r \in DOMAIN t.items \ S |-> t.items[r]]
    BY DEF Restrict
  <1>4. \E S : Without(t, q).items = Restrict(t.items, DOMAIN t.items \ S)
    <2>1. CASE q \in t.subs
      BY <2>1 DEF Without
    <2>2. CASE q \notin t.subs
      BY <1>1, <2>2 DEF Without
    <2>3. QED
      BY <2>1, <2>2
  <1>5. IsOld(Without(t, q))
    <2>1. PICK S : Without(t, q).items = [r \in DOMAIN t.items \ S |-> t.items[r]]
      BY <1>3, <1>4
    <2>2. QED
      BY <2>1 DEF IsOld
  <1>6. ASSUME NEW v \in OldKinds PROVE IsOld(WithItem(t, q, v))
    <2>1. WithItem(t, q, v).items = [r \in DOMAIN t.items \cup {q} |-> IF r = q THEN v ELSE t.items[r]]
      BY <1>1 DEF WithItem
    <2>2. QED
      BY <2>1 DEF IsOld
  <1>7. QED
    BY <1>2, <1>5, <1>6 DEF IsOld

LEMMA OldProcessedIsOld == ASSUME NEW j \in Json PROVE IsOld(OldProcessJson(j))
  BY DEF IsOld, OldProcessJson, Restrict

LEMMA EmptyIsOld == IsOld(EmptyTree)
  BY DEF IsOld, EmptyTree

\* Only OldCall makes new items in a plugin's own memory.
LEMMA MineByOldCall ==
    ASSUME IInv, [Next]_vars, NEW p \in Users, mine'[p] # mine[p], mine'[p] # NoItems
    PROVE  OldOpenStorage(p) \/ OldChange(p)
  <1>1. mine \in [Users -> Tree \cup {NoItems}]
    BY DEF IInv, TypeOK
  <1>2. CASE UNCHANGED mine
    BY <1>2
  <1>3. ASSUME NEW q \in Users, Call(q) PROVE UNCHANGED mine
    BY <1>3 DEF Call, CreateSubItem, DeleteItem, GetBinaryItem, StoreItem, WipeStorage,
                ForceReloadStorage, SaveStorage, Changes
  <1>4. ASSUME NEW q \in Users, OldCall(q) PROVE OldOpenStorage(p) \/ OldChange(p)
    <2>1. q = p
      BY <1>1, <1>4 DEF OldCall, OldOpenStorage, OldChange, OldCloseStorage
    <2>2. ~OldCloseStorage(p)
      BY <1>1 DEF OldCloseStorage
    <2>3. QED
      BY <1>4, <2>1, <2>2 DEF OldCall
  <1>5. CASE PhaseStep
    BY <1>2, <1>5 DEF PhaseStep, Deinit, RestorePatches, CleanupDone, LoadDone, OpenDone,
                      StartApplication, ApplicationEnds
  <1>6. CASE Reboot
    BY <1>6 DEF Reboot
  <1>7. ASSUME NEW q \in Users, Load(q) \/ OpenStorage(q) \/ OpenNothing(q) \/ InitHooks(q)
        PROVE  UNCHANGED mine
    BY <1>7 DEF Load, OpenStorage, OpenNothing, Opens, InitHooks
  <1>8. ASSUME NEW q \in Users, CloseStorage(q) \/ DestroyStub(q) PROVE FALSE
    BY <1>1, <1>8 DEF CloseStorage, DestroyStub, Destroyed
  <1>9. CASE UNCHANGED vars
    BY <1>2, <1>9 DEF vars
  <1>10. QED
    BY <1>2, <1>3, <1>4, <1>5, <1>6, <1>7, <1>8, <1>9 DEF Next, Loader, PhaseStep

LEMMA OldItemsStep == IInv /\ OldItems /\ [Next]_vars => OldItems'
  <1> SUFFICES ASSUME IInv, OldItems, [Next]_vars, NEW p \in Users, mine'[p] # NoItems
               PROVE  IsOld(mine'[p])
    BY DEF OldItems, IsOld
  <1>1. TypeOK /\ mine \in [Users -> Tree \cup {NoItems}]
    BY DEF IInv, TypeOK
  <1>2. CASE mine'[p] = mine[p]
    BY <1>2 DEF OldItems, IsOld
  <1>3. CASE OldOpenStorage(p)
    <2>1. \/ file[p] \in Json /\ mine'[p] = OldProcessJson(file[p])
          \/ mine'[p] = EmptyTree
      BY <1>1, <1>3 DEF OldOpenStorage, TypeOK
    <2>2. QED
      BY <2>1, OldProcessedIsOld, EmptyIsOld
  <1>4. CASE OldChange(p)
    <2>1. mine[p] \in Tree /\ IsOld(mine[p])
      BY <1>1, <1>4 DEF OldChange, OldItems, IsOld
    <2>2. PICK q \in Paths :
             \/ mine' = [mine EXCEPT ![p] = WithSub(mine[p], q)]
             \/ \E v \in Kinds \cap OldKinds : mine' = [mine EXCEPT ![p] = WithItem(mine[p], q, v)]
             \/ mine' = [mine EXCEPT ![p] = Without(mine[p], q)]
      BY <1>4 DEF OldChange
    <2>3. QED
      BY <1>1, <2>1, <2>2, OldChangesOld
  <1>5. QED
    BY <1>2, <1>3, <1>4, MineByOldCall

\* What processItems writes, both readers read back.
LEMMA OldItemsSurvive ==
    ASSUME NEW t \in Tree, IsOld(t)
    PROVE  LET j == OldProcessItems(t)
               kept(u) == Restrict(u.items, {q \in DOMAIN u.items : u.items[q] # "null"})
           IN  OldProcessJson(j).items = t.items /\ kept(DeserializeFromJson(j)) = t.items
  <1> DEFINE j == OldProcessItems(t)
             D == DOMAIN t.items
             u == DeserializeFromJson(j)
  <1>1. /\ DOMAIN j = t.subs \cup D
        /\ \A q \in D : j[q] = t.items[q]
        /\ \A q \in t.subs \ D : j[q] \in {"object", "null"}
    BY DEF OldProcessItems
  <1>2. \A q \in DOMAIN j : q \in D <=> j[q] \in OldKinds
    BY <1>1 DEF OldKinds, IsOld
  <1>3. t.items = [q \in D |-> t.items[q]]
    BY TreeParts
  <1>4. OldProcessJson(j).items = [q \in {r \in DOMAIN j : j[r] \in OldKinds} |-> j[q]]
    BY DEF OldProcessJson, Restrict
  <1>5. {r \in DOMAIN j : j[r] \in OldKinds} = D
    BY <1>1, <1>2
  <1>6. u.items = [q \in {r \in DOMAIN j : j[r] # "object"} |-> j[q]]
    <2>1. DOMAIN j \ {q \in DOMAIN j : j[q] = "object"} = {r \in DOMAIN j : j[r] # "object"}
      OBVIOUS
    <2>2. QED
      BY <2>1 DEF DeserializeFromJson, Restrict
  <1>7. {q \in DOMAIN u.items : u.items[q] # "null"} = D
    BY <1>1, <1>2, <1>6 DEF OldKinds
  <1>8. \A q \in D : u.items[q] = t.items[q]
    BY <1>1, <1>2, <1>6 DEF OldKinds
  <1> HIDE DEF j, u, D
  <1>9. OldProcessJson(j).items = t.items
    BY <1>1, <1>3, <1>4, <1>5
  <1>10. Restrict(u.items, {q \in DOMAIN u.items : u.items[q] # "null"}) = t.items
    BY <1>3, <1>7, <1>8 DEF Restrict
  <1>11. QED
    BY <1>9, <1>10 DEF j, u

\* Whatever a plugin of the old interface has in memory comes back from what it
\* writes when it closes its storage, for itself and for a successor.
THEOREM UpgradesKeepItems == Spec => []UpgradeKeepsItems
  <1>1. Init => OldItems
    BY DEF Init, OldItems
  <1>2. IInv /\ OldItems => UpgradeKeepsItems
    BY OldItemsSurvive DEF IInv, TypeOK, OldItems, IsOld, UpgradeKeepsItems
  <1>3. QED
    BY <1>1, <1>2, InitIInv, NextIInv, OldItemsStep, PTL DEF Spec

-----------------------------------------------------------------------------
(* The storage implements StorageContract, for all plugins, trees, handles  *)
(* and failing reads and writes, as long as a file that exists can be       *)
(* opened: utils.cpp:126 takes one that cannot for one that is missing.     *)

\* What plugins and containers hold: a plugin has the root item of its
\* container until it outlives an application, and the one it has stays open.
Holdings ==
    \A p \in Users :
        /\ life[p] \in {"loaded", "added"} => p \notin outlived
        /\ life[p] = "running" /\ p \notin outlived => held[p] = mStorageRootItem[p]
        /\ held[p] # NoRoot => root[held[p]] # Closed /\ root[held[p]].id = p
        /\ mine[p] # NoItems => api[p] = "old" /\ life[p] = "running"

ContractInv == IInv /\ Holdings

-----------------------------------------------------------------------------
(* Maps                                                                    *)

LEMMA AsMapIsJson == ASSUME NEW t \in Tree PROVE AsMap(t) = SerializeToJson(t) /\ AsMap(t) \in Json
  BY SerializedIsJson DEF AsMap, SerializeToJson

\* What calls can tell of a tree survives the file.
LEMMA FileKeepsMap ==
    ASSUME NEW t \in Tree
    PROVE  AsMap(DeserializeFromJson(SerializeToJson(t))) = AsMap(t)
  <1> DEFINE kept == {q \in DOMAIN t.items : t.items[q] \notin {"empty", "null"}}
             j == SerializeToJson(t)
             subs == {q \in DOMAIN j : j[q] = "object"}
             items == Restrict(j, DOMAIN j \ subs)
             u == DeserializeFromJson(j)
             kept2 == {q \in DOMAIN u.items : u.items[q] \notin {"empty", "null"}}
  <1>1. j = [q \in t.subs \cup kept |-> IF q \in kept THEN Encoded(t.items[q]) ELSE "object"]
    BY DEF SerializeToJson
  <1>2. DOMAIN j = t.subs \cup kept
    BY <1>1
  <1>3. \A q \in kept : /\ j[q] = Encoded(t.items[q])
                        /\ j[q] \notin {"empty", "null", "object"}
                        /\ Encoded(j[q]) = j[q]
    <2>1. \A q \in kept : j[q] = Encoded(t.items[q]) /\ t.items[q] \in Values \ {"empty", "null"}
      BY <1>1, TreeParts
    <2>2. QED
      BY <2>1 DEF Encoded, Values
  <1>4. \A q \in (t.subs \cup kept) \ kept : j[q] = "object"
    BY <1>1
  <1>5. subs = (t.subs \cup kept) \ kept /\ DOMAIN j \ subs = kept
    BY <1>2, <1>3, <1>4
  <1>6. u.subs = subs /\ u.items = items
    BY DEF DeserializeFromJson
  <1>7. DOMAIN u.items = kept /\ \A q \in kept : u.items[q] = j[q]
    BY <1>5, <1>6 DEF Restrict
  <1>8. kept2 = kept
    BY <1>3, <1>7
  <1>9. u.subs \cup kept2 = t.subs \cup kept
    BY <1>5, <1>6, <1>8
  <1>10. AsMap(u) = [q \in t.subs \cup kept |-> IF q \in kept THEN Encoded(u.items[q]) ELSE "object"]
    BY <1>8, <1>9 DEF AsMap
  <1>11. \A q \in kept : Encoded(u.items[q]) = Encoded(t.items[q])
    BY <1>3, <1>7
  <1>12. AsMap(t) = [q \in t.subs \cup kept |-> IF q \in kept THEN Encoded(t.items[q]) ELSE "object"]
    BY DEF AsMap
  <1> HIDE DEF kept, u
  <1>13. QED
    BY <1>10, <1>11, <1>12 DEF u

\* What the variables of the contract stand for.
Mem  == [p \in Users |-> PluginMap(p)]
Disk == [p \in Users |-> FileMap(p)]

LEMMA EmptyMapIsJson == AsMap(EmptyTree) \in Json
  BY AsMapIsJson, EmptyIsTree

-----------------------------------------------------------------------------
(* Who holds what                                                          *)

\* Steps that leave every root item open and its owner's.
LEMMA HoldingsFrame ==
    ASSUME ContractInv,
           UNCHANGED <<life, api, mStorageRootItem, held, outlived>>,
           \A h \in Handles : root[h] # Closed => root'[h] # Closed /\ root'[h].id = root[h].id,
           \A p \in Users : mine'[p] # NoItems => mine[p] # NoItems \/ (Runs(p) /\ api[p] = "old")
    PROVE  Holdings'
  BY DEF ContractInv, IInv, TypeOK, Holdings, Runs

LEMMA ChangesHolds ==
    ASSUME ContractInv, NEW p \in Users, Usable(p), NEW t \in Tree, Changes(p, t)
    PROVE  Holdings'
  <1>1. /\ held[p] \in Handles
        /\ root[held[p]] \in [id: Users, tree: Tree]
        /\ root \in [Handles -> [id: Users, tree: Tree] \cup {Closed}]
    BY UsableTree DEF ContractInv, IInv, TypeOK
  <1>2. [root[held[p]] EXCEPT !.tree = t] \in [id: Users, tree: Tree]
    BY <1>1
  <1>3. root' = [root EXCEPT ![held[p]] = [root[held[p]] EXCEPT !.tree = t]]
    BY <1>1 DEF Changes
  <1>4. \A h \in Handles : root[h] # Closed => root'[h] # Closed /\ root'[h].id = root[h].id
    BY <1>1, <1>2, <1>3, ClosedIsNoItem
  <1>5. QED
    BY <1>4, HoldingsFrame DEF Changes, loader

\* The calls that change the tree in memory.
TreeCall(p) ==
    \/ \E q \in Paths :
          \/ CreateSubItem(p, q) \/ DeleteItem(p, q) \/ GetBinaryItem(p, q)
          \/ \E v \in Kinds : StoreItem(p, q, v)
    \/ WipeStorage(p) \/ ForceReloadStorage(p)

LEMMA TreeCallChanges ==
    ASSUME TypeOK, NEW p \in Users, TreeCall(p)
    PROVE  Usable(p) /\ \E t \in Tree : Changes(p, t)
  <1>1. Usable(p)
    BY DEF TreeCall, CreateSubItem, DeleteItem, GetBinaryItem, StoreItem, WipeStorage,
           ForceReloadStorage
  <1>2. TreeOf(p) \in Tree
    BY <1>1, UsableTree
  <1>3. ASSUME NEW q \in Paths,
               CreateSubItem(p, q) \/ DeleteItem(p, q) \/ GetBinaryItem(p, q)
        PROVE  \E t \in Tree : Changes(p, t)
    BY <1>2, <1>3, WithSubIsTree, WithoutIsTree, AsBinaryIsTree
       DEF CreateSubItem, DeleteItem, GetBinaryItem
  <1>4. ASSUME NEW q \in Paths, NEW v \in Kinds, StoreItem(p, q, v)
        PROVE  \E t \in Tree : Changes(p, t)
    BY <1>2, <1>4, WithItemIsTree, StorageAssumption DEF StoreItem
  <1>5. CASE WipeStorage(p) \/ ForceReloadStorage(p)
    BY <1>5, EmptyIsTree, LoadsTrees DEF WipeStorage, ForceReloadStorage
  <1>6. QED
    BY <1>1, <1>3, <1>4, <1>5 DEF TreeCall

LEMMA CallsHold ==
    ASSUME ContractInv, NEW p \in Users, Call(p) \/ OldCall(p)
    PROVE  Holdings'
  <1>1. CASE TreeCall(p)
    BY <1>1, TreeCallChanges, ChangesHolds DEF ContractInv, IInv
  <1>2. ASSUME NEW force \in BOOLEAN, SaveStorage(p, force) PROVE Holdings'
    BY <1>2, HoldingsFrame DEF SaveStorage, loader
  <1>3. CASE OldOpenStorage(p)
    <2>1. \A q \in Users : mine'[q] # NoItems => mine[q] # NoItems \/ (Runs(q) /\ api[q] = "old")
      BY <1>3 DEF OldOpenStorage, ContractInv, IInv, TypeOK
    <2>2. QED
      BY <1>3, <2>1, HoldingsFrame DEF OldOpenStorage, loader
  <1>4. CASE OldChange(p)
    <2>1. mine[p] # NoItems /\ \A q \in Users \ {p} : mine'[q] = mine[q]
      BY <1>4 DEF OldChange, ContractInv, IInv, TypeOK
    <2>2. QED
      BY <1>4, <2>1, HoldingsFrame DEF OldChange, loader, store
  <1>5. CASE OldCloseStorage(p)
    <2>1. mine[p] # NoItems /\ \A q \in Users \ {p} : mine'[q] = mine[q]
      BY <1>5 DEF OldCloseStorage, ContractInv, IInv, TypeOK
    <2>2. QED
      BY <1>5, <2>1, HoldingsFrame DEF OldCloseStorage, loader
  <1>6. QED
    BY <1>1, <1>2, <1>3, <1>4, <1>5 DEF Call, OldCall, TreeCall

LEMMA OpensHolds ==
    ASSUME ContractInv, NEW p \in Users, OpenStorage(p) \/ OpenNothing(p)
    PROVE  /\ Holdings'
           /\ \A h \in Handles : root[h] # Closed => root'[h] = root[h]
           /\ \A q \in Users \ {p} : mStorageRootItem'[q] = mStorageRootItem[q]
  <1>1. Opens(p)
    BY DEF OpenStorage, OpenNothing
  <1>2. TypeOK /\ Stages /\ Holdings
    BY DEF ContractInv, IInv
  <1>3. \A h \in Handles : root[h] # Closed => root'[h] = root[h]
    BY <1>2 DEF OpenStorage, OpenNothing, TypeOK
  <1>4. \A q \in Users \ {p} : mStorageRootItem'[q] = mStorageRootItem[q]
    BY <1>2 DEF OpenStorage, OpenNothing, TypeOK
  <1>5. UNCHANGED <<life, api, held, mine>>
    BY <1>1 DEF Opens
  <1>6. /\ life[p] = "running" => p \in outlived' /\ outlived' = outlived \cup {p}
        /\ life[p] # "running" => outlived' = outlived
    BY <1>1 DEF Opens
  <1>7. ASSUME NEW q \in Users, held[q] # NoRoot PROVE root'[held[q]] # Closed /\ root'[held[q]].id = q
    BY <1>2, <1>3, <1>7 DEF Holdings, TypeOK
  <1>8. Holdings'
    BY <1>2, <1>4, <1>5, <1>6, <1>7 DEF Holdings
  <1>9. QED
    BY <1>3, <1>4, <1>8

\* A container goes, and with it what it and its plugin held.
LEMMA DestroyedHolds ==
    ASSUME ContractInv, NEW p \in Users, Destroyed(p), UNCHANGED api,
           \/ /\ mStorageRootItem[p] # NoRoot
              /\ root' = [root EXCEPT ![mStorageRootItem[p]] = Closed]
           \/ UNCHANGED root
    PROVE  /\ Holdings'
           /\ \A q \in Users \ {p} :
                /\ life'[q] = life[q] /\ held'[q] = held[q]
                /\ mStorageRootItem'[q] = mStorageRootItem[q]
                /\ held[q] # NoRoot => root'[held[q]] = root[held[q]]
                /\ mStorageRootItem[q] # NoRoot =>
                      root'[mStorageRootItem[q]] = root[mStorageRootItem[q]]
  <1> DEFINE m == mStorageRootItem
  <1>1. TypeOK /\ OneRoot /\ Holdings
    BY DEF ContractInv, IInv
  <1>2. ASSUME NEW q \in Users \ {p}
        PROVE  life'[q] = life[q] /\ held'[q] = held[q] /\ m'[q] = m[q] /\ mine'[q] = mine[q]
    BY <1>1, <1>2 DEF Destroyed, TypeOK
  <1>3. m[p] # NoRoot => m[p] \in Handles /\ root[m[p]].id = p
    BY <1>1 DEF TypeOK, OneRoot
  <1>4. ASSUME NEW q \in Users \ {p}, NEW h \in Handles, root[h].id = q PROVE root'[h] = root[h]
    BY <1>1, <1>3, <1>4 DEF TypeOK
  <1>5. ASSUME NEW q \in Users \ {p}
        PROVE  /\ held[q] # NoRoot => root'[held[q]] = root[held[q]]
               /\ m[q] # NoRoot => root'[m[q]] = root[m[q]]
    BY <1>1, <1>4, <1>5 DEF TypeOK, OneRoot, Holdings
  <1>6. life'[p] = "absent" /\ held'[p] = NoRoot /\ mine'[p] = NoItems /\ UNCHANGED outlived
    BY <1>1 DEF Destroyed, TypeOK
  <1>7. Holdings'
    BY <1>1, <1>2, <1>5, <1>6 DEF Holdings
  <1>8. QED
    BY <1>2, <1>5, <1>7

LEMMA ClosedParts ==
    ASSUME ContractInv, NEW p \in Users, CloseStorage(p) \/ DestroyStub(p)
    PROVE  /\ Destroyed(p) /\ UNCHANGED api
           /\ \/ /\ mStorageRootItem[p] # NoRoot
                 /\ root' = [root EXCEPT ![mStorageRootItem[p]] = Closed]
              \/ UNCHANGED root
  BY DEF CloseStorage, DestroyStub, store

LEMMA HoldingsStep == ContractInv /\ [Next]_vars => Holdings'
  <1> SUFFICES ASSUME ContractInv, [Next]_vars PROVE Holdings'
    OBVIOUS
  <1>1. ASSUME NEW p \in Users, Call(p) \/ OldCall(p) PROVE Holdings'
    BY <1>1, CallsHold
  <1>2. CASE PhaseStep
    <2>1. UNCHANGED <<api, root, mStorageRootItem, held, mine, outlived>>
      BY <1>2 DEF PhaseStep, Deinit, RestorePatches, CleanupDone, LoadDone, OpenDone,
                  StartApplication, ApplicationEnds, store
    <2>2. \A p \in Users : life'[p] = life[p] \/ (life[p] = "added" /\ life'[p] = "stub")
      BY <1>2 DEF PhaseStep, Deinit, RestorePatches, CleanupDone, LoadDone, OpenDone,
                  StartApplication, ApplicationEnds, ContractInv, IInv, TypeOK
    <2>3. QED
      BY <2>1, <2>2 DEF ContractInv, Holdings
  <1>3. CASE Reboot
    BY <1>3 DEF Reboot, Holdings
  <1>4. ASSUME NEW p \in Users, Load(p) PROVE Holdings'
    BY <1>4 DEF Load, ContractInv, IInv, TypeOK, Stages, Holdings, store
  <1>5. ASSUME NEW p \in Users, OpenStorage(p) \/ OpenNothing(p) PROVE Holdings'
    BY <1>5, OpensHolds
  <1>6. ASSUME NEW p \in Users, InitHooks(p) PROVE Holdings'
    BY <1>6 DEF InitHooks, ContractInv, IInv, TypeOK, OneRoot, Holdings, store
  <1>7. ASSUME NEW p \in Users, CloseStorage(p) \/ DestroyStub(p) PROVE Holdings'
    BY <1>7, ClosedParts, DestroyedHolds
  <1>8. CASE UNCHANGED vars
    BY <1>8 DEF vars, loader, store, ContractInv, Holdings
  <1>9. QED
    BY <1>1, <1>2, <1>3, <1>4, <1>5, <1>6, <1>7, <1>8 DEF Next, Loader, PhaseStep

-----------------------------------------------------------------------------
(* The steps of the contract                                               *)

SameMap(p) == Mem'[p] = Mem[p]

LEMMA MapFrame ==
    ASSUME NEW p \in Users,
           \/ life'[p] = life[p]
           \/ life[p] = "added" /\ life'[p] = "stub",
           api'[p] = api[p], held'[p] = held[p], mStorageRootItem'[p] = mStorageRootItem[p],
           held[p] # NoRoot => root'[held[p]] = root[held[p]],
           mStorageRootItem[p] # NoRoot => root'[mStorageRootItem[p]] = root[mStorageRootItem[p]]
    PROVE  SameMap(p)
  <1>1. PluginMap(p)' = PluginMap(p)
    BY DEF PluginMap
  <1>2. QED
    BY <1>1 DEF SameMap, Mem

LEMMA FileFrame == ASSUME UNCHANGED file PROVE Disk' = Disk
  BY DEF Disk, FileMap

LEMMA MemOf ==
    ASSUME NEW p \in Users
    PROVE  /\ Mem[p] = PluginMap(p) /\ Mem'[p] = PluginMap(p)'
           /\ Disk[p] = FileMap(p) /\ Disk'[p] = FileMap(p)'
  BY DEF Mem, Disk

LEMMA Stutter ==
    ASSUME \A p \in Users : SameMap(p), UNCHANGED <<file, report, outlived>>
    PROVE  UNCHANGED Contract!vars
  <1>1. Mem' = Mem
    BY DEF SameMap, Mem
  <1>2. Disk' = Disk
    BY FileFrame
  <1>3. QED
    BY <1>1, <1>2 DEF Mem, Disk, Contract!vars

LEMMA AbstractOpen ==
    ASSUME NEW p \in Users, Mem[p] = Closed, Mem'[p] \in {Disk[p], Closed, Legacy},
           \A q \in Users \ {p} : SameMap(q), outlived' = outlived \ {p},
           UNCHANGED <<file, report>>
    PROVE  Contract!Next
  <1>1. Disk' = Disk
    BY FileFrame
  <1>2. Contract!Open(p)
    BY <1>1 DEF Contract!Open, Contract!Others, Mem, Disk, SameMap
  <1>3. QED
    BY <1>2 DEF Contract!Next

LEMMA AbstractChange ==
    ASSUME NEW p \in Users, Mem[p] \in Json, Mem'[p] \in Json,
           \A q \in Users \ {p} : SameMap(q), UNCHANGED <<file, report, outlived>>
    PROVE  Contract!Next
  <1>1. Disk' = Disk
    BY FileFrame
  <1>2. Contract!Change(p)
    BY <1>1 DEF Contract!Change, Contract!Others, Mem, Disk, SameMap
  <1>3. QED
    BY <1>2 DEF Contract!Next

LEMMA AbstractAnything ==
    ASSUME NEW p \in Users, p \in outlived \/ (Mem[p] = Legacy /\ SameMap(p)),
           \A q \in Users \ {p} : SameMap(q) /\ Disk'[q] = Disk[q], UNCHANGED outlived
    PROVE  Contract!Next
  <1>1. p \in outlived \/ (Mem[p] = Legacy /\ Mem' = Mem)
    BY DEF SameMap, Mem
  <1>2. Contract!Anything(p)
    BY <1>1 DEF Contract!Anything, Contract!Others, Mem, Disk, SameMap
  <1>3. QED
    BY <1>2 DEF Contract!Next

LEMMA AbstractOutlive ==
    ASSUME NEW p \in Users, \A q \in Users : SameMap(q), outlived' = outlived \cup {p},
           UNCHANGED <<file, report>>
    PROVE  Contract!Next
  <1>1. Mem' = Mem /\ Disk' = Disk
    BY FileFrame DEF SameMap, Mem
  <1>2. Contract!Outlive(p)
    BY <1>1 DEF Contract!Outlive, Mem, Disk
  <1>3. QED
    BY <1>2 DEF Contract!Next

\* What a write may leave, seen as maps.
LEMMA WritesMap ==
    ASSUME TypeOK, NEW p \in Users, NEW t \in Tree, NEW force \in BOOLEAN,
           NEW w \in WriteStorageToSD(p, t, force), Puts(p, w)
    PROVE  /\ \/ report' = TRUE /\ Disk'[p] = AsMap(t)
              \/ report' = FALSE /\ Disk'[p] \in {Disk[p], AsMap(EmptyTree)}
           /\ \A q \in Users \ {p} : Disk'[q] = Disk[q]
  <1> DEFINE j == SerializeToJson(t)
  <1>1. file'[p] = w.file /\ report' = w.ok /\ \A q \in Users \ {p} : file'[q] = file[q]
    BY DEF Puts, TypeOK
  <1>2. \A q \in Users \ {p} : Disk'[q] = Disk[q]
    BY <1>1 DEF Disk, FileMap
  <1>3. \/ w = [file |-> j, ok |-> TRUE]
        \/ w.ok = FALSE /\ w.file \in {file[p], NoFile, Garbled}
    BY DEF WriteStorageToSD, Written
  <1>4. CASE w = [file |-> j, ok |-> TRUE]
    <2>1. file'[p] = j /\ report' = TRUE
      BY <1>1, <1>4
    <2>2. Disk'[p] = AsMap(DeserializeFromJson(j))
      BY <2>1, MemOf, FilesDiffer, SerializedIsJson DEF FileMap
    <2>3. QED
      BY <1>2, <2>1, <2>2, FileKeepsMap
  <1>5. CASE w.ok = FALSE /\ w.file \in {file[p], NoFile, Garbled}
    <2>1. CASE file'[p] = file[p]
      BY <1>1, <1>2, <1>5, <2>1 DEF Disk, FileMap
    <2>2. CASE file'[p] \in {NoFile, Garbled}
      BY <1>1, <1>2, <1>5, <2>2 DEF Disk, FileMap
    <2>3. QED
      BY <1>1, <1>5, <2>1, <2>2
  <1>6. QED
    BY <1>3, <1>4, <1>5

-----------------------------------------------------------------------------
(* Each step is one of the contract                                        *)

\* A plugin that keeps the promise works on the root item of its container.
LEMMA MapOfRunning ==
    ASSUME ContractInv, NEW p \in Users, life[p] = "running", p \notin outlived
    PROVE  /\ api[p] = "old" => Mem[p] = Legacy
           /\ held[p] = mStorageRootItem[p]
           /\ held[p] # NoRoot => /\ api[p] = "new"
                                  /\ held[p] \in Handles
                                  /\ root[held[p]] \in [id: Users, tree: Tree]
                                  /\ Mem[p] = AsMap(TreeOf(p))
                                  /\ Mem[p] \in Json
           /\ held[p] = NoRoot => Mem[p] \in {Closed, Legacy}
  <1>1. TypeOK /\ Stages /\ Holdings
    BY DEF ContractInv, IInv
  <1>2. held[p] = mStorageRootItem[p] /\ (api[p] = "old" => held[p] = NoRoot) /\ api[p] \in {"new", "old"}
    <2>1. api[p] \in {"new", "old"}
      BY <1>1 DEF TypeOK
    <2>2. held[p] = mStorageRootItem[p]
      BY <1>1 DEF Holdings
    <2>3. api[p] = "old" => mStorageRootItem[p] = NoRoot
      BY <1>1 DEF Stages
    <2>4. QED
      BY <2>1, <2>2, <2>3
  <1>3. held[p] # NoRoot => held[p] \in Handles /\ root[held[p]] \in [id: Users, tree: Tree]
    BY <1>1 DEF TypeOK, Holdings
  <1>4. held[p] # NoRoot => TreeOf(p) \in Tree
    BY <1>3 DEF TreeOf
  <1>5. PluginMap(p) = IF api[p] = "old" THEN Legacy
                       ELSE IF held[p] = NoRoot THEN Closed ELSE AsMap(TreeOf(p))
    BY DEF PluginMap, TreeOf
  <1>6. QED
    BY <1>2, <1>3, <1>4, <1>5, AsMapIsJson, MemOf

\* A root item belongs to one plugin: the maps of the others do not change.
LEMMA OthersKeep ==
    ASSUME ContractInv, NEW p \in Users, NEW q \in Users \ {p},
           UNCHANGED <<life, api, held, mStorageRootItem>>,
           \A h \in Handles : root[h] # Closed /\ root[h].id = q => root'[h] = root[h]
    PROVE  SameMap(q)
  <1>1. TypeOK /\ OneRoot /\ Holdings
    BY DEF ContractInv, IInv
  <1>2. held[q] # NoRoot => root'[held[q]] = root[held[q]]
    BY <1>1 DEF TypeOK, Holdings
  <1>3. mStorageRootItem[q] # NoRoot => root'[mStorageRootItem[q]] = root[mStorageRootItem[q]]
    BY <1>1 DEF TypeOK, OneRoot
  <1>4. QED
    BY <1>2, <1>3, MapFrame

LEMMA TreeCallMaps ==
    ASSUME ContractInv, NEW p \in Users, TreeCall(p)
    PROVE  Contract!Next
  <1>1. PICK t \in Tree : Usable(p) /\ Changes(p, t)
    BY TreeCallChanges DEF ContractInv, IInv
  <1>2. /\ held[p] \in Handles /\ held[p] # NoRoot
        /\ root[held[p]] \in [id: Users, tree: Tree]
        /\ root[held[p]].id = p
        /\ root \in [Handles -> [id: Users, tree: Tree] \cup {Closed}]
    BY <1>1, UsableTree DEF ContractInv, IInv, TypeOK, Usable, Holdings
  <1>3. root' = [root EXCEPT ![held[p]] = [root[held[p]] EXCEPT !.tree = t]]
    BY <1>1, <1>2 DEF Changes
  <1>4. root'[held[p]].tree = t /\ \A h \in Handles \ {held[p]} : root'[h] = root[h]
    BY <1>2, <1>3
  <1>5. UNCHANGED <<phase, life, api, todo, file, mStorageRootItem, held, mine, report, outlived, lost>>
    BY <1>1 DEF Changes, loader
  <1>6. \A q \in Users \ {p} : SameMap(q)
    BY <1>2, <1>4, <1>5, OthersKeep
  <1>7. CASE p \in outlived
    BY <1>5, <1>6, <1>7, FileFrame, AbstractAnything
  <1>8. CASE p \notin outlived
    <2>1. life[p] = "running"
      BY <1>1 DEF Usable, Runs
    <2>2. Mem[p] \in Json /\ api[p] = "new"
      BY <1>2, <1>8, <2>1, MapOfRunning
    <2>3. PluginMap(p)' = AsMap(t)
      BY <1>2, <1>4, <1>5, <2>1, <2>2 DEF PluginMap
    <2>4. Mem'[p] \in Json
      BY <2>3, MemOf, AsMapIsJson
    <2>5. QED
      BY <1>5, <1>6, <2>2, <2>4, AbstractChange
  <1>9. QED
    BY <1>7, <1>8

LEMMA SaveMaps ==
    ASSUME ContractInv, NEW p \in Users, NEW force \in BOOLEAN, SaveStorage(p, force)
    PROVE  Contract!Next
  <1>1. Usable(p) /\ TypeOK
    BY DEF SaveStorage, ContractInv, IInv
  <1>2. TreeOf(p) \in Tree
    BY <1>1, UsableTree
  <1>3. PICK w \in WriteStorageToSD(p, TreeOf(p), force) : Puts(p, w)
    BY DEF SaveStorage
  <1>4. UNCHANGED <<phase, life, api, todo, root, mStorageRootItem, held, mine, outlived, lost>>
    BY DEF SaveStorage, loader
  <1>5. \A q \in Users : SameMap(q)
    BY <1>4, MapFrame
  <1>6. /\ \/ report' = TRUE /\ Disk'[p] = AsMap(TreeOf(p))
           \/ report' = FALSE /\ Disk'[p] \in {Disk[p], AsMap(EmptyTree)}
        /\ \A q \in Users \ {p} : Disk'[q] = Disk[q]
    BY <1>1, <1>2, <1>3, WritesMap
  <1>7. CASE p \in outlived
    BY <1>4, <1>5, <1>6, <1>7, AbstractAnything
  <1>8. CASE p \notin outlived
    <2>1. Mem[p] = AsMap(TreeOf(p)) /\ Mem[p] \in Json
      BY <1>1, <1>8, MapOfRunning DEF Usable, Runs
    <2>2. Mem' = Mem
      BY <1>5 DEF SameMap, Mem
    <2>3. Contract!Save(p)
      BY <1>4, <1>6, <2>1, <2>2 DEF Contract!Save, Contract!Write, Contract!Others, Mem, Disk
    <2>4. QED
      BY <2>3 DEF Contract!Next
  <1>9. QED
    BY <1>7, <1>8

LEMMA OldCallMaps ==
    ASSUME ContractInv, NEW p \in Users, OldCall(p)
    PROVE  Contract!Next \/ UNCHANGED Contract!vars
  <1>1. UNCHANGED <<phase, life, api, todo, root, mStorageRootItem, held, outlived, lost>>
    BY DEF OldCall, OldOpenStorage, OldChange, OldCloseStorage, loader, store
  <1>2. \A q \in Users : SameMap(q)
    BY <1>1, MapFrame
  <1>3. CASE OldChange(p)
    BY <1>1, <1>2, <1>3, Stutter DEF OldChange, store
  <1>4. CASE OldOpenStorage(p) \/ OldCloseStorage(p)
    <2>1. life[p] = "running" /\ api[p] = "old"
      BY <1>4 DEF OldOpenStorage, OldCloseStorage, Runs, ContractInv, Holdings
    <2>2. PluginMap(p) = Legacy
      BY <2>1 DEF PluginMap
    <2>3. \A q \in Users \ {p} : file'[q] = file[q]
      BY <1>4 DEF OldOpenStorage, OldCloseStorage, Puts, ContractInv, IInv, TypeOK
    <2>4. \A q \in Users \ {p} : Disk'[q] = Disk[q]
      BY <2>3 DEF Disk, FileMap
    <2>5. QED
      BY <1>1, <1>2, <2>2, <2>4, MemOf, AbstractAnything
  <1>5. QED
    BY <1>3, <1>4 DEF OldCall

LEMMA PhaseStepMaps == ASSUME ContractInv, PhaseStep PROVE UNCHANGED Contract!vars
  <1>1. UNCHANGED <<api, file, root, mStorageRootItem, held, mine, report, outlived>>
    BY DEF PhaseStep, Deinit, RestorePatches, CleanupDone, LoadDone, OpenDone,
           StartApplication, ApplicationEnds, store
  <1>2. \A p \in Users : life'[p] = life[p] \/ (life[p] = "added" /\ life'[p] = "stub")
    BY DEF PhaseStep, Deinit, RestorePatches, CleanupDone, LoadDone, OpenDone,
           StartApplication, ApplicationEnds, ContractInv, IInv, TypeOK
  <1>3. \A p \in Users : SameMap(p)
    BY <1>1, <1>2, MapFrame
  <1>4. QED
    BY <1>1, <1>3, Stutter

LEMMA RebootMaps == ASSUME ContractInv, Reboot PROVE Contract!Next
  <1>1. \A p \in Users : PluginMap(p)' = Closed
    BY DEF Reboot, PluginMap
  <1>2. Mem' = [p \in Users |-> Closed] /\ Disk' = Disk
    BY <1>1, FileFrame DEF Mem, Reboot
  <1>3. Contract!PowerOff
    BY <1>2 DEF Contract!PowerOff, Reboot, Mem, Disk
  <1>4. QED
    BY <1>3 DEF Contract!Next

LEMMA LoadMaps == ASSUME ContractInv, NEW p \in Users, Load(p) PROVE Contract!Next
  <1>1. TypeOK /\ Stages /\ life[p] = "absent"
    BY DEF Load, ContractInv, IInv
  <1>2. /\ UNCHANGED <<file, root, mStorageRootItem, held, report>>
        /\ outlived' = outlived \ {p}
        /\ \A q \in Users \ {p} : life'[q] = life[q] /\ api'[q] = api[q]
        /\ life'[p] \in {"loaded", "added"}
    BY <1>1 DEF Load, TypeOK, store
  <1>3. mStorageRootItem[p] = NoRoot /\ held[p] = NoRoot
    BY <1>1 DEF Stages
  <1>4. PluginMap(p) = Closed
    BY <1>1, <1>3 DEF PluginMap
  <1>5. PluginMap(p)' \in {Closed, Legacy}
    BY <1>2, <1>3 DEF PluginMap
  <1>6. \A q \in Users \ {p} : SameMap(q)
    BY <1>2, MapFrame
  <1>7. QED
    BY <1>2, <1>4, <1>5, <1>6, MemOf, AbstractOpen

LEMMA InitHooksMaps == ASSUME ContractInv, NEW p \in Users, InitHooks(p) PROVE UNCHANGED Contract!vars
  <1>1. TypeOK /\ life[p] = "loaded"
    BY DEF InitHooks, ContractInv, IInv
  <1>2. /\ UNCHANGED <<api, file, root, mStorageRootItem, report, outlived>>
        /\ life'[p] = "running" /\ held'[p] = mStorageRootItem[p]
        /\ \A q \in Users \ {p} : life'[q] = life[q] /\ held'[q] = held[q]
    BY <1>1 DEF InitHooks, TypeOK, store
  <1>3. PluginMap(p)' = PluginMap(p)
    BY <1>1, <1>2 DEF PluginMap
  <1>4. \A q \in Users : SameMap(q)
    BY <1>2, <1>3, MemOf, MapFrame DEF SameMap
  <1>5. QED
    BY <1>2, <1>4, Stutter

\* What OpenStorage finds is what is on the card, if that can be opened.
LEMMA FoundMap ==
    ASSUME TypeOK, "open" \notin IoFaults, NEW p \in Users,
           NEW t \in Loads(p) \cup (IF "not_found" \in LoadErrors(p) THEN {EmptyTree} ELSE {})
    PROVE  AsMap(t) = Disk[p]
  <1>1. Disk[p] = FileMap(p)
    BY MemOf
  <1>2. CASE t \in Loads(p)
    BY <1>1, <1>2 DEF Loads, FileMap
  <1>3. CASE "not_found" \in LoadErrors(p) /\ t = EmptyTree
    <2>1. file[p] = NoFile
      BY <1>3 DEF LoadErrors
    <2>2. QED
      BY <1>1, <1>3, <2>1 DEF FileMap
  <1>4. QED
    BY <1>2, <1>3

LEMMA OpenMaps ==
    ASSUME ContractInv, "open" \notin IoFaults, NEW p \in Users, OpenStorage(p) \/ OpenNothing(p)
    PROVE  Contract!Next \/ UNCHANGED Contract!vars
  <1>1. Opens(p)
    BY DEF OpenStorage, OpenNothing
  <1>2. TypeOK /\ OneRoot /\ Stages /\ Holdings
    BY DEF ContractInv, IInv
  <1>3. /\ \A h \in Handles : root[h] # Closed => root'[h] = root[h]
        /\ \A q \in Users \ {p} : mStorageRootItem'[q] = mStorageRootItem[q]
    BY OpensHolds
  <1>4. UNCHANGED <<life, api, held, file, report>>
    BY <1>1 DEF Opens
  <1>5. ASSUME NEW q \in Users
        PROVE  held[q] # NoRoot => root'[held[q]] = root[held[q]]
    BY <1>2, <1>3, <1>5 DEF Holdings, TypeOK
  <1>6. ASSUME NEW q \in Users \ {p} PROVE SameMap(q)
    <2>1. mStorageRootItem[q] # NoRoot => root'[mStorageRootItem[q]] = root[mStorageRootItem[q]]
      BY <1>2, <1>3, <1>6 DEF OneRoot, TypeOK
    <2>2. QED
      BY <1>3, <1>4, <1>5, <1>6, <2>1, MapFrame
  <1>7. CASE life[p] = "running"
    <2>1. PluginMap(p)' = PluginMap(p)
      BY <1>4, <1>5, <1>7 DEF PluginMap
    <2>2. outlived' = outlived \cup {p}
      BY <1>1, <1>7 DEF Opens
    <2>3. QED
      BY <1>4, <1>6, <2>1, <2>2, MemOf, AbstractOutlive DEF SameMap
  <1>8. CASE life[p] = "added"
    <2>1. PluginMap(p)' = PluginMap(p)
      BY <1>4, <1>8 DEF PluginMap
    <2>2. UNCHANGED outlived
      BY <1>1, <1>8 DEF Opens
    <2>3. QED
      BY <1>4, <1>6, <2>1, <2>2, MemOf, Stutter DEF SameMap
  <1>9. CASE life[p] = "loaded"
    <2>1. outlived' = outlived \ {p} /\ UNCHANGED outlived
      BY <1>1, <1>2, <1>9 DEF Opens, Holdings
    <2>2. CASE OpenNothing(p)
      <3>1. PluginMap(p)' = PluginMap(p)
        BY <1>4, <1>9, <2>2 DEF PluginMap, OpenNothing
      <3>2. QED
        BY <1>4, <1>6, <2>1, <3>1, MemOf, Stutter DEF SameMap
    <2>3. CASE OpenStorage(p)
      <3>1. mStorageRootItem[p] = NoRoot /\ api[p] = "new"
        BY <1>1, <1>2, <1>9, <2>3 DEF OpenStorage, Opens, Stages
      <3>2. PluginMap(p) = Closed
        BY <1>9, <3>1 DEF PluginMap
      <3>3. CASE mStorageRootItem' = [mStorageRootItem EXCEPT ![p] = NoRoot]
        <4>1. mStorageRootItem'[p] = NoRoot
          BY <1>2, <3>3 DEF TypeOK
        <4>2. PluginMap(p)' = Closed
          BY <1>4, <1>9, <3>1, <4>1 DEF PluginMap
        <4>3. QED
          BY <1>4, <1>6, <2>1, <3>2, <4>2, MemOf, AbstractOpen
      <3>4. ASSUME NEW h \in Handles,
                   NEW t \in Loads(p) \cup (IF "not_found" \in LoadErrors(p) THEN {EmptyTree} ELSE {}),
                   root' = [root EXCEPT ![h] = [id |-> p, tree |-> t]],
                   mStorageRootItem' = [mStorageRootItem EXCEPT ![p] = h]
            PROVE  Contract!Next
        <4>1. mStorageRootItem'[p] = h /\ root'[h].tree = t /\ h # NoRoot
          BY <1>2, <3>4, StorageAssumption DEF TypeOK
        <4>2. PluginMap(p)' = AsMap(t)
          BY <1>4, <1>9, <3>1, <4>1 DEF PluginMap
        <4>3. AsMap(t) = Disk[p]
          BY <1>2, <3>4, FoundMap
        <4>4. QED
          BY <1>4, <1>6, <2>1, <3>2, <4>2, <4>3, MemOf, AbstractOpen
      <3>5. QED
        BY <2>3, <3>3, <3>4 DEF OpenStorage
    <2>4. QED
      BY <2>2, <2>3
  <1>10. QED
    BY <1>1, <1>2, <1>7, <1>8, <1>9 DEF Opens, TypeOK, Stages

LEMMA CloseMaps ==
    ASSUME ContractInv, NEW p \in Users, CloseStorage(p) \/ DestroyStub(p)
    PROVE  Contract!Next \/ UNCHANGED Contract!vars
  <1> DEFINE h == mStorageRootItem[p]
  <1>1. TypeOK /\ OneRoot /\ Stages /\ Holdings
    BY DEF ContractInv, IInv
  <1>2. Destroyed(p) /\ UNCHANGED <<api, outlived>>
    BY DEF CloseStorage, DestroyStub, Destroyed
  <1>3. ASSUME NEW q \in Users \ {p} PROVE SameMap(q)
    BY <1>2, <1>3, ClosedParts, DestroyedHolds, MapFrame
  <1>4. life'[p] = "absent" /\ mStorageRootItem'[p] = NoRoot
    BY <1>1, <1>2 DEF Destroyed, TypeOK
  <1>5. PluginMap(p)' = Closed
    BY <1>4 DEF PluginMap
  <1>6. CASE DestroyStub(p)
    <2>1. PluginMap(p) = Closed
      BY <1>6 DEF DestroyStub, PluginMap
    <2>2. UNCHANGED <<file, report>>
      BY <1>6 DEF DestroyStub, store
    <2>3. QED
      BY <1>2, <1>3, <1>5, <2>1, <2>2, MemOf, Stutter DEF SameMap
  <1>7. CASE CloseStorage(p)
    <2>1. Mem' = [Mem EXCEPT ![p] = Closed]
      BY <1>3, <1>5, MemOf DEF Mem, SameMap
    <2>2. life[p] = "running"
      BY <1>7 DEF CloseStorage
    <2>3. CASE h # NoRoot /\ \E w \in WriteStorageToSD(p, root[h].tree, FALSE) : Puts(p, w)
      <3>1. root[h].tree \in Tree
        BY <1>1, <2>3 DEF TypeOK, OneRoot
      <3>2. /\ \/ report' = TRUE /\ Disk'[p] = AsMap(root[h].tree)
               \/ report' = FALSE /\ Disk'[p] \in {Disk[p], AsMap(EmptyTree)}
            /\ \A q \in Users \ {p} : Disk'[q] = Disk[q]
        BY <1>1, <2>3, <3>1, WritesMap
      <3>3. CASE p \in outlived
        BY <1>2, <1>3, <3>2, <3>3, AbstractAnything
      <3>4. CASE p \notin outlived
        <4>1. Mem[p] = AsMap(root[h].tree) /\ Mem[p] \in Json
          BY <2>2, <2>3, <3>4, MapOfRunning DEF TreeOf
        <4>2. Contract!Write(p)
          BY <1>2, <3>2, <4>1 DEF Contract!Write, Contract!Others, Mem, Disk
        <4>3. Contract!Close(p)
          BY <1>3, <1>5, <4>2, MemOf DEF Contract!Close, Contract!Others, Mem, SameMap
        <4>4. QED
          BY <4>3 DEF Contract!Next
      <3>5. QED
        BY <3>3, <3>4
    <2>4. CASE (api[p] = "old" \/ h = NoRoot) /\ UNCHANGED <<store, report>>
      <3>1. UNCHANGED <<file, report>> /\ Disk' = Disk
        BY <2>4, FileFrame DEF store
      <3>2. CASE p \in outlived
        BY <1>2, <1>3, <3>1, <3>2, AbstractAnything
      <3>3. CASE p \notin outlived
        <4>1. Mem[p] \in {Closed, Legacy}
          BY <2>2, <2>4, <3>3, MapOfRunning
        <4>2. Contract!Close(p)
          BY <1>2, <1>3, <1>5, <3>1, <4>1, MemOf DEF Contract!Close, Contract!Others, Mem, Disk, SameMap
        <4>3. QED
          BY <4>2 DEF Contract!Next
      <3>4. QED
        BY <3>2, <3>3
    <2>5. QED
      BY <1>7, <2>3, <2>4 DEF CloseStorage
  <1>8. QED
    BY <1>6, <1>7

-----------------------------------------------------------------------------
(* The result                                                              *)

LEMMA ContractInit == Init => ContractInv /\ Contract!Init
  <1> SUFFICES ASSUME Init PROVE ContractInv /\ Contract!Init
    OBVIOUS
  <1>1. Holdings
    BY DEF Init, Holdings
  <1>2. Mem = [p \in Users |-> Closed]
    BY DEF Init, Mem, PluginMap
  <1>3. Disk = [p \in Users |-> AsMap(EmptyTree)]
    BY DEF Init, Disk, FileMap
  <1>4. Contract!Init
    BY <1>2, <1>3 DEF Init, Contract!Init, Mem, Disk
  <1>5. QED
    BY <1>1, <1>4, InitIInv DEF ContractInv

LEMMA ContractStep == ContractInv /\ [Next]_vars => ContractInv'
  BY NextIInv, HoldingsStep DEF ContractInv

LEMMA ContractMap ==
    ASSUME "open" \notin IoFaults
    PROVE  ContractInv /\ [Next]_vars => [Contract!Next]_(Contract!vars)
  <1> SUFFICES ASSUME ContractInv, [Next]_vars
               PROVE  Contract!Next \/ UNCHANGED Contract!vars
    OBVIOUS
  <1>1. ASSUME NEW p \in Users, Call(p) PROVE Contract!Next
    BY <1>1, TreeCallMaps, SaveMaps DEF Call, TreeCall
  <1>2. ASSUME NEW p \in Users, OldCall(p) PROVE Contract!Next \/ UNCHANGED Contract!vars
    BY <1>2, OldCallMaps
  <1>3. CASE PhaseStep \/ Reboot
    BY <1>3, PhaseStepMaps, RebootMaps
  <1>4. ASSUME NEW p \in Users, Load(p) \/ InitHooks(p)
        PROVE  Contract!Next \/ UNCHANGED Contract!vars
    BY <1>4, LoadMaps, InitHooksMaps
  <1>5. ASSUME NEW p \in Users, OpenStorage(p) \/ OpenNothing(p)
        PROVE  Contract!Next \/ UNCHANGED Contract!vars
    BY <1>5, OpenMaps
  <1>6. ASSUME NEW p \in Users, CloseStorage(p) \/ DestroyStub(p)
        PROVE  Contract!Next \/ UNCHANGED Contract!vars
    BY <1>6, CloseMaps
  <1>7. CASE UNCHANGED vars
    <2>1. UNCHANGED <<life, api, file, root, mStorageRootItem, held, report, outlived>>
      BY <1>7 DEF vars, loader, store
    <2>2. \A p \in Users : SameMap(p)
      BY <2>1, MapFrame
    <2>3. QED
      BY <2>1, <2>2, Stutter
  <1>8. QED
    BY <1>1, <1>2, <1>3, <1>4, <1>5, <1>6, <1>7 DEF Next, Loader, PhaseStep

\* What a plugin stores behaves like a map of its own that is read once and written
\* as it is, through saving, closing, reloading, conversions, reads that fail,
\* writes that are refused or torn, and reboots, if files that exist can be opened.
THEOREM ImplementsStorageContract ==
    ASSUME "open" \notin IoFaults
    PROVE  Spec => KeepsStorageContract
  BY ContractInit, ContractStep, ContractMap, PTL DEF Spec, KeepsStorageContract, Contract!Spec
=============================================================================
