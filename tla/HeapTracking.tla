------------------------------ MODULE HeapTracking ------------------------------
(***************************************************************************)
(* The tracked heaps of plugins, source/plugin/*HeapMemoryAllocator.cpp:   *)
(* a fixed number of slots, each with a set of thunks that plugins are      *)
(* linked to.  A slot belongs to the container that holds its index in      *)
(* mTrackingHeapAllocatorOpt, and containers move from vector to vector in  *)
(* APPLICATION_STARTS, which releases and takes slots on the way.          *)
(*                                                                         *)
(* Threads call the thunks while the application runs and in hooks.        *)
(***************************************************************************)
EXTENDS Integers, FiniteSets, FiniteSetsExt, SequencesExt, Functions

CONSTANTS
    Plugins,
    AsksForTracking, \* plugins whose meta data asks for it
    Ids,             \* identities of container objects
    MaxSlots,        \* MAX_SLOTS
    Threads,
    Nobody,          \* no thread, no container, no address
    Ptrs,            \* addresses of the default heap
    Sizes,
    MaxRequests      \* bound on the list of a reload

ASSUME TrackingAssumption ==
    /\ IsFiniteSet(Plugins)
    /\ MaxSlots \in Nat
    /\ AsksForTracking \subseteq Plugins
    /\ Nobody \notin Threads \cup Ids \cup Ptrs
    /\ Sizes \subseteq Nat \ {0}
    /\ MaxRequests \in Nat

Slots == 0 .. MaxSlots - 1

\* mTrackingHeapAllocatorOpt: empty, with a slot, or moved from: the optional
\* still holds an allocator, whose index is -1.
None  == -2
Moved == -1

\* What MEMAllocFromDefaultHeap and the others were resolved to: nothing yet,
\* the allocator of the memory mapping module, or the thunks of a slot.
Unresolved == -2
Default    == -1

Container == [id: Ids, plugin: Plugins, opt: {None, Moved} \cup Slots,
              thunk: {Unresolved, Default} \cup Slots]

\* An entry of gLoadOnNextLaunch
Wrapper == [plugin: Plugins, track: BOOLEAN]

\* An element of sStatsTable; map: how many bytes each address got.
Slot == [inUse: BOOLEAN, map: UNION {[xs -> Sizes] : xs \in SUBSET Ptrs}, current: Nat]

\* "out", "record": AllocEx got memory, "freeing": Free erased the entry and
\* holds the mutex of the slot.
Call == [at: {"out", "record", "freeing"}, thunk: {Unresolved} \cup Slots,
         ptr: Ptrs \cup {Nobody}, size: Sizes \cup {0}]

Idle == [at |-> "out", thunk |-> Unresolved, ptr |-> Nobody, size |-> 0]

VARIABLES
    phase,
    gLoadedPlugins, pluginsToKeep, doomed,
    newLoadedPlugins,
    plugins,   \* the vector loadPlugins builds
    requests,  \* filteredLoadOnNextLaunch, then toBeLoaded
    toBeLoaded,
    stats,     \* sStatsTable
    mutex,     \* per slot: who holds it
    heap,      \* per address: how many bytes are allocated, 0 for none
    call,      \* per thread
    owner,     \* (history) per address: the container whose code allocated it
    cut        \* (history) addresses an exit took from a thread in Alloc

lists == <<gLoadedPlugins, pluginsToKeep, doomed, newLoadedPlugins, plugins>>
wishes == <<requests, toBeLoaded>>
memory == <<mutex, heap, call, owner, cut>>
vars == <<phase, lists, wishes, stats, memory>>

\* A slot as Create sets it up.
Blank == [inUse |-> TRUE, map |-> [x \in {} |-> 0], current |-> 0]
Unused(st) == [st EXCEPT !.inUse = FALSE]

Phases == {"stopped", "matching", "deinit", "loading", "replacing", "linking", "running"}

Vectors == {gLoadedPlugins, pluginsToKeep, doomed, newLoadedPlugins, plugins}
Containers == UNION {ToSet(v) : v \in Vectors}

TypeOK ==
    /\ phase \in Phases
    /\ \A v \in Vectors : v \in Seq(Container)
    /\ requests \in Seq(Wrapper) /\ toBeLoaded \in Seq(Wrapper)
    /\ stats \in [Slots -> Slot]
    /\ mutex \in [Slots -> Threads \cup {Nobody}]
    /\ heap \in [Ptrs -> Sizes \cup {0}]
    /\ call \in [Threads -> Call]
    /\ owner \in [Ptrs -> Ids \cup {Nobody}]
    /\ cut \subseteq Ptrs

Init ==
    /\ phase = "stopped"
    /\ gLoadedPlugins = <<>> /\ pluginsToKeep = <<>> /\ doomed = <<>>
    /\ newLoadedPlugins = <<>> /\ plugins = <<>>
    /\ requests = <<>> /\ toBeLoaded = <<>>
    /\ stats = [s \in Slots |-> Unused(Blank)]
    /\ mutex = [s \in Slots |-> Nobody]
    /\ heap = [x \in Ptrs |-> 0]
    /\ call = [t \in Threads |-> Idle]
    /\ owner = [x \in Ptrs |-> Nobody]
    /\ cut = {}

-----------------------------------------------------------------------------
(* Moving containers                                                       *)

\* Mutant: a moved allocator keeps its index.
MovedFromCopy(c) == c

\* What is left of a container that was moved from.
MovedFrom(c) == [c EXCEPT !.opt = IF @ \in Slots THEN Moved ELSE @]

\* The slots that objects give back when they are destroyed or assigned to.
Released(cs) == {c.opt : c \in cs} \cap Slots

\* The elements of a vector that move to another place, and are destroyed there.
Leftovers(v) == {MovedFrom(v[i]) : i \in DOMAIN v}

Release(ss) == [s \in Slots |-> IF s \in ss THEN Unused(stats[s]) ELSE stats[s]]

\* erase moves every later element one place forward.
Erased(v, i) == RemoveAt(v, i)
LeftoversOfErase(v, i) == {MovedFrom(v[j]) : j \in i..Len(v)}

\* What the containers in cs allocated and did not free stays allocated, and
\* belongs to nobody.
Orphaned(cs) ==
    [x \in Ptrs |-> IF owner[x] \in {c.id : c \in cs} THEN Nobody ELSE owner[x]]

-----------------------------------------------------------------------------
(* APPLICATION_STARTS                                                      *)

Quiet == \A t \in Threads : call[t].at = "out"

\* A first start, or one without a request, which loads nothing.
StartFromDirectory(ps) ==
    /\ phase = "stopped"
    /\ gLoadedPlugins = <<>>
    /\ phase' = "loading"
    /\ \E v \in SetToSeqs(ps) :
          toBeLoaded' = [i \in DOMAIN v |-> [plugin |-> v[i], track |-> FALSE]]
    /\ UNCHANGED <<lists, requests, stats, memory>>

StartUnchanged ==
    /\ phase = "stopped"
    /\ gLoadedPlugins # <<>>
    /\ phase' = "linking"
    /\ UNCHANGED <<lists, wishes, stats, memory>>

\* gLoadOnNextLaunch holds a request; each plugin is named once.
StartWithReload(ws) ==
    /\ phase \in {"stopped", "replacing"}
    /\ phase = "stopped" => gLoadedPlugins # <<>>
    /\ phase' = "matching"
    /\ \A w1, w2 \in ws : w1.plugin = w2.plugin => w1 = w2
    /\ requests' \in SetToSeqs(ws)
    /\ UNCHANGED <<lists, toBeLoaded, stats, memory>>

\* pluginNeedsNoReloadFn, for plugins that are linked and shall stay so.
NeedsNoReload(c, w) == c.plugin = w.plugin /\ (c.opt # None <=> w.track)

Match ==
    /\ phase = "matching" /\ requests # <<>>
    /\ requests' = Tail(requests)
    /\ LET w == Head(requests)
           fits == {i \in DOMAIN gLoadedPlugins : NeedsNoReload(gLoadedPlugins[i], w)}
       IN  \/ /\ fits = {}
              /\ toBeLoaded' = Append(toBeLoaded, w)
              /\ UNCHANGED <<lists, stats>>
           \/ /\ fits # {}
              /\ LET i == Min(fits)
                 IN  /\ pluginsToKeep' = Append(pluginsToKeep, gLoadedPlugins[i])
                     /\ gLoadedPlugins' = Erased(gLoadedPlugins, i)
                     /\ stats' = Release(Released(LeftoversOfErase(gLoadedPlugins, i)
                                                  \cup Leftovers(pluginsToKeep)))
              /\ UNCHANGED <<doomed, newLoadedPlugins, plugins, toBeLoaded>>
    /\ UNCHANGED <<phase, memory>>

\* The vectors are moved as a whole.
MatchDone ==
    /\ phase = "matching" /\ requests = <<>>
    /\ phase' = "deinit"
    /\ doomed' = gLoadedPlugins
    /\ gLoadedPlugins' = pluginsToKeep
    /\ pluginsToKeep' = <<>>
    /\ UNCHANGED <<newLoadedPlugins, plugins, wishes, stats, memory>>

\* The destructors of the containers that go.
DestroyDoomed ==
    /\ phase = "deinit" /\ Quiet
    /\ phase' = "loading"
    /\ doomed' = <<>>
    /\ stats' = Release(Released(ToSet(doomed)))
    /\ owner' = Orphaned(ToSet(doomed))
    /\ UNCHANGED <<gLoadedPlugins, pluginsToKeep, newLoadedPlugins, plugins, wishes,
                   mutex, heap, call, cut>>

\* Mutant: the index counted past the last slot is used.
CreatePast ==
    LET free == {s \in Slots : ~stats[s].inUse}
    IN  IF free = {} THEN MaxSlots ELSE Min(free)

\* TrackingPluginHeapMemoryAllocator::Create
Create ==
    LET free == {s \in Slots : ~stats[s].inUse}
    IN  IF free = {} THEN None ELSE Min(free)

\* PluginContainer::PluginContainer in the vector of loadPlugins; when the
\* pool is used up the plugin goes without tracking.
LoadPlugin(id) ==
    /\ phase = "loading" /\ toBeLoaded # <<>>
    /\ id \notin {c.id : c \in Containers}
    /\ toBeLoaded' = Tail(toBeLoaded)
    /\ LET w == Head(toBeLoaded)
           o == IF w.track \/ w.plugin \in AsksForTracking THEN Create ELSE None
           c == [id |-> id, plugin |-> w.plugin, opt |-> o, thunk |-> Unresolved]
       IN  /\ plugins' = Append(plugins, c)
           /\ stats' = [s \in Slots |->
                          IF s = o THEN Blank
                          ELSE Release(Released(Leftovers(plugins)))[s]]
    /\ UNCHANGED <<phase, gLoadedPlugins, pluginsToKeep, doomed, newLoadedPlugins, requests,
                   memory>>

\* newLoadedPlugins = loadPlugins(...): what it held before goes only now.
LoadDone ==
    /\ phase = "loading" /\ toBeLoaded = <<>>
    /\ phase' \in IF gLoadedPlugins = <<>> /\ newLoadedPlugins = <<>>
                  THEN {"linking", "replacing"} ELSE {"linking"}
    /\ newLoadedPlugins' = plugins
    /\ plugins' = <<>>
    /\ stats' = Release(Released(ToSet(newLoadedPlugins)))
    /\ UNCHANGED <<gLoadedPlugins, pluginsToKeep, doomed, wishes, memory>>

Resolved(c) == [c EXCEPT !.thunk = IF c.opt \in Slots THEN c.opt ELSE Default]

\* append_move_all_values and doRelocations.
StartApplication ==
    /\ phase = "linking"
    /\ phase' = "running"
    /\ LET all == gLoadedPlugins \o newLoadedPlugins
       IN  gLoadedPlugins' = [i \in DOMAIN all |-> Resolved(all[i])]
    /\ newLoadedPlugins' = <<>>
    /\ stats' = Release(Released(Leftovers(gLoadedPlugins) \cup Leftovers(newLoadedPlugins)))
    /\ UNCHANGED <<pluginsToKeep, doomed, plugins, wishes, memory>>

\* The threads of the application end with it; one that has just got memory
\* does not record it.  Those in Free hold a mutex and finish first.
ApplicationEnds ==
    /\ phase = "running"
    /\ \A t \in Threads : call[t].at # "freeing"
    /\ phase' = "stopped"
    /\ call' = [t \in Threads |-> Idle]
    /\ cut' = cut \cup {call[t].ptr : t \in {u \in Threads : call[u].at = "record"}}
    /\ UNCHANGED <<lists, wishes, stats, mutex, heap, owner>>

-----------------------------------------------------------------------------
(* The thunks                                                              *)

\* Code of a plugin runs in the application, and in its hooks when it goes.
Running == IF phase = "running" THEN ToSet(gLoadedPlugins)
           ELSE IF phase = "deinit" THEN ToSet(doomed) ELSE {}

\* The memory is taken before the mutex.
Alloc(t, c, x, n) ==
    /\ c \in Running /\ call[t].at = "out"
    /\ heap[x] = 0
    /\ heap' = [heap EXCEPT ![x] = n]
    /\ owner' = [owner EXCEPT ![x] = c.id]
    /\ cut' = cut \ {x}
    /\ call' = IF c.thunk = Default THEN call
               ELSE [call EXCEPT ![t] = [at |-> "record", thunk |-> c.thunk, ptr |-> x, size |-> n]]
    /\ UNCHANGED <<phase, lists, wishes, stats, mutex>>

\* Mutant: an allocation counts whether or not it could be entered.
RecordCountOnly(t) ==
    LET s == call[t].thunk
    IN  /\ call[t].at = "record"
        /\ mutex[s] = Nobody
        /\ stats' = [stats EXCEPT ![s].current = @ + call[t].size]
        /\ call' = [call EXCEPT ![t] = Idle]
        /\ UNCHANGED <<phase, lists, wishes, mutex, heap, owner, cut>>

Record(t) ==
    LET s == call[t].thunk
    IN  /\ call[t].at = "record"
        /\ mutex[s] = Nobody
        /\ stats' = IF stats[s].inUse
                    THEN [stats EXCEPT ![s].current = @ + call[t].size,
                                       ![s].map = [y \in DOMAIN @ \cup {call[t].ptr} |->
                                           IF y = call[t].ptr THEN call[t].size ELSE @[y]]]
                    ELSE stats
        /\ call' = [call EXCEPT ![t] = Idle]
        /\ UNCHANGED <<phase, lists, wishes, mutex, heap, owner, cut>>

\* What is not in the map is reported, and freed all the same.
FreeEntry(t, c, x) ==
    LET s == c.thunk
    IN  /\ c \in Running /\ call[t].at = "out"
        /\ s # Default
        /\ heap[x] # 0 /\ owner[x] = c.id
        /\ \A u \in Threads : call[u].at # "out" => call[u].ptr # x
        /\ mutex[s] = Nobody
        /\ mutex' = [mutex EXCEPT ![s] = t]
        /\ stats' = IF stats[s].inUse /\ x \in DOMAIN stats[s].map
                    THEN [stats EXCEPT ![s].current =
                                           IF @ >= stats[s].map[x] THEN @ - stats[s].map[x] ELSE 0,
                                       ![s].map = Restrict(@, DOMAIN @ \ {x})]
                    ELSE stats
        /\ call' = [call EXCEPT ![t] = [at |-> "freeing", thunk |-> s, ptr |-> x, size |-> 0]]
        /\ UNCHANGED <<phase, lists, wishes, heap, owner, cut>>

FreeMemory(t) ==
    /\ call[t].at = "freeing"
    /\ heap' = [heap EXCEPT ![call[t].ptr] = 0]
    /\ owner' = [owner EXCEPT ![call[t].ptr] = Nobody]
    /\ cut' = cut \ {call[t].ptr}
    /\ mutex' = [mutex EXCEPT ![call[t].thunk] = Nobody]
    /\ call' = [call EXCEPT ![t] = Idle]
    /\ UNCHANGED <<phase, lists, wishes, stats>>

\* MEMFreeToDefaultHeap of a plugin that is not tracked.
FreeDefault(t, c, x) ==
    /\ c \in Running /\ call[t].at = "out"
    /\ c.thunk = Default
    /\ heap[x] # 0 /\ owner[x] = c.id
    /\ heap' = [heap EXCEPT ![x] = 0]
    /\ owner' = [owner EXCEPT ![x] = Nobody]
    /\ cut' = cut \ {x}
    /\ UNCHANGED <<phase, lists, wishes, stats, mutex, call>>

-----------------------------------------------------------------------------
Wishes == {ws \in SUBSET Wrapper : Cardinality(ws) <= MaxRequests}

Loader ==
    \/ \E ps \in SUBSET Plugins : StartFromDirectory(ps)
    \/ \E ws \in Wishes : StartWithReload(ws)
    \/ StartUnchanged \/ Match \/ MatchDone \/ DestroyDoomed
    \/ \E id \in Ids : LoadPlugin(id)
    \/ LoadDone \/ StartApplication \/ ApplicationEnds

Thunk ==
    \E t \in Threads :
        \/ Record(t) \/ FreeMemory(t)
        \/ \E c \in Running, x \in Ptrs :
              \/ FreeEntry(t, c, x) \/ FreeDefault(t, c, x)
              \/ \E n \in Sizes : Alloc(t, c, x, n)

Next == Loader \/ Thunk

Spec == Init /\ [][Next]_vars

-----------------------------------------------------------------------------
(* Properties                                                              *)

\* A slot is in use exactly while one container holds its index, wherever the
\* vectors take the container: none is lost, none has two owners.
OneOwner ==
    /\ \A s \in Slots : stats[s].inUse <=> \E c \in Containers : c.opt = s
    /\ \A c, d \in Containers : c.opt = d.opt /\ c.opt \in Slots => c = d
    /\ \A c \in Containers : c.opt # Moved

\* What the map of c's slot holds is what c allocated and did not free, but for
\* memory a thread got just before its application ended.
EntriesLive(c) ==
    LET map == stats[c.opt].map
        unrecorded == {call[t].ptr : t \in {u \in Threads : call[u].at # "out"}}
    IN  /\ DOMAIN map = {x \in Ptrs : owner[x] = c.id} \ (unrecorded \cup cut)
        /\ \A x \in DOMAIN map : map[x] = heap[x]

\* The map of every running plugin is right, in every interleaving of its
\* threads,
MapsLive == \A c \in Running : c.opt \in Slots => EntriesLive(c)

\* and currentAllocated is the sum of it: a leak report names every leak and
\* nothing else.
MapIsLive ==
    /\ MapsLive
    /\ \A c \in Running : c.opt \in Slots =>
          LET st == stats[c.opt]
          IN  st.current = MapThenSumSet(LAMBDA x : st.map[x], DOMAIN st.map)
=============================================================================
