---------------------------- MODULE StorageContract ----------------------------
(***************************************************************************)
(* What a plugin relies on when it keeps its settings in the storage API:  *)
(* between INIT_STORAGE and the end of its unloading it works on a map of   *)
(* its own; the map starts as what is on the card, and what is on the card  *)
(* changes only by saving or closing the map, to what the map holds.  The   *)
(* storages of several plugins have nothing to do with each other.         *)
(*                                                                         *)
(* The promise ends when the plugin outlives the application it was loaded *)
(* for, and is made anew when it is loaded again.                          *)
(***************************************************************************)
CONSTANTS
    Users,       \* plugins, each with a storage id of its own
    Maps,        \* contents of a storage, as far as calls can tell them apart
    EmptyMap,
    Closed,      \* no map: not loaded, or its storage could not be opened
    Legacy       \* the plugin uses the interface of WUPS 0.7.1 and older

VARIABLES
    mem,       \* the map a plugin works on
    disk,      \* what is on the card
    report,    \* whether the last write was reported as a success
    outlived   \* plugins the promise does not hold for any more

vars == <<mem, disk, report, outlived>>

Init ==
    /\ mem = [p \in Users |-> Closed]
    /\ disk = [p \in Users |-> EmptyMap]
    /\ report = TRUE
    /\ outlived = {}

Others(p, f, g) == \A q \in Users \ {p} : g[q] = f[q]

\* The plugin is loaded: it sees what was on the card, or nothing at all.
Open(p) ==
    /\ mem[p] = Closed
    /\ mem'[p] \in {disk[p], Closed, Legacy}
    /\ Others(p, mem, mem')
    /\ outlived' = outlived \ {p}
    /\ UNCHANGED <<disk, report>>

\* Storing, deleting, wiping, creating sub items.
Change(p) ==
    /\ mem[p] \in Maps
    /\ mem'[p] \in Maps
    /\ Others(p, mem, mem')
    /\ UNCHANGED <<disk, report, outlived>>

\* A write succeeds, is refused, or is torn and leaves nothing.
Write(p) ==
    /\ mem[p] \in Maps
    /\ \/ report' = TRUE /\ disk'[p] = mem[p]
       \/ report' = FALSE /\ disk'[p] \in {disk[p], EmptyMap}
    /\ Others(p, disk, disk')
    /\ UNCHANGED outlived

Save(p) == Write(p) /\ mem' = mem

Reload(p) ==
    /\ mem[p] \in Maps
    /\ mem'[p] = disk[p]
    /\ Others(p, mem, mem')
    /\ UNCHANGED <<disk, report, outlived>>

Close(p) ==
    /\ mem'[p] = Closed
    /\ Others(p, mem, mem')
    /\ Write(p) \/ (mem[p] \in {Closed, Legacy} /\ UNCHANGED <<disk, report, outlived>>)

\* The plugin is still there when the next application starts.
Outlive(p) == outlived' = outlived \cup {p} /\ UNCHANGED <<mem, disk, report>>

\* From then on anything may happen to its storage.  A plugin of the old
\* interface brings its own rules.
Anything(p) ==
    /\ p \in outlived \/ (mem[p] = Legacy /\ mem' = mem)
    /\ Others(p, mem, mem')
    /\ Others(p, disk, disk')
    /\ UNCHANGED outlived

\* The console is switched off or crashes.
PowerOff ==
    /\ mem' = [p \in Users |-> Closed]
    /\ outlived' = {}
    /\ UNCHANGED <<disk, report>>

Next ==
    \/ PowerOff
    \/ \E p \in Users :
          \/ Open(p) \/ Change(p) \/ Save(p) \/ Reload(p) \/ Close(p)
          \/ Outlive(p) \/ Anything(p)

Spec == Init /\ [][Next]_vars
=============================================================================
