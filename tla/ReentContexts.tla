----------------------------- MODULE ReentContexts -----------------------------
(***************************************************************************)
(* The C library contexts of plugins, source/utils/reent.cpp.  A thread    *)
(* that runs code of a plugin gets a node with the plugin's context.  The  *)
(* nodes of a thread form a list; the first node holds the clean-up        *)
(* callback the thread had before, in whose place the loader's own is      *)
(* installed.  sGlobalNodes holds all nodes, because an application that    *)
(* exits takes its threads with it and calls no callback.                  *)
(*                                                                         *)
(* Threads run concurrently with each other and with the loader.  A step   *)
(* is what happens between two accesses to state that others use.          *)
(***************************************************************************)
EXTENDS Integers, FiniteSets, SequencesExt

CONSTANTS Threads,     \* OSThread objects; their memory is used again
          Loader,      \* the thread that runs APPLICATION_STARTS
          Plugins,     \* linked plugins built with WUPS later than 0.9.0
          NoPlugin,
          Nodes,       \* addresses of nodes on the default heap
          NoNode,
          MaxRestores  \* PENDING_RESTORES_SIZE

ASSUME ReentAssumption ==
    /\ Loader \in Threads
    /\ NoPlugin \notin Plugins
    /\ NoNode \notin Nodes
    /\ Nodes \cap Threads = {}
    /\ MaxRestores \in Nat

\* Clean-up callbacks of a thread: none, one of the application or the
\* system, __wups_thread_cleanup.
Callbacks == {"none", "own", "wups"}

\* cleaned: how often cleanupFn was called; a freed node keeps the count.
NodeState == [live: BOOLEAN, plugin: Plugins \cup {NoPlugin},
              saved: Callbacks, cleaned: 0..2]

FreeNode(count) ==
    [live |-> FALSE, plugin |-> NoPlugin, saved |-> "none", cleaned |-> count]

\* Where a thread is.  "no": it does not exist; "out": not in reent.cpp;
\* "callback", "link", "publish": in wups_backend_register_context; "walk",
\* "free": in __wups_thread_cleanup; "ended": past its clean-up callback.
Places == {"no", "out", "callback", "link", "publish", "walk", "free", "ended"}

\* node: the one being registered; rest: the nodes still to be cleaned up;
\* then: the callback that __wups_thread_cleanup chains to.
Call == [at: Places, node: Nodes \cup {NoNode}, rest: Seq(Nodes), then: Callbacks]

\* A thread in wups_backend_get_context, or between its return and the call of
\* wups_backend_register_context: for which plugin it looks, and the node it is
\* going to read, if there is one left.  Its place is still "out".
Look == [plugin: Plugins \cup {NoPlugin}, curr: Nodes \cup {NoNode}]

NotLooking == [plugin |-> NoPlugin, curr |-> NoNode]

Idle(at) == [at |-> at, node |-> NoNode, rest |-> <<>>, then |-> "none"]

\* "between": from the exit of an application to ClearDanglingReentPtr;
\* "hooks" and "unloading": in CleanupPlugins; "halted": OSFatal;
\* "undefined": the loader read or wrote freed memory, see ScanRaces.
Phases == {"between", "starting", "hooks", "unloading", "loading", "running",
           "halted", "undefined"}

VARIABLES
    phase,    \* where the application cycle is
    loaded,   \* plugins in memory
    doomed,   \* pluginsToDeinit
    left,     \* those the loop of ClearReentDataForPlugins has still to visit
    current,  \* the one it visits
    pending,  \* pendingRestores, "none" for threads that are not in it
    deferred, \* deferredFreeHead
    kept,     \* saved_cleanupCallback of CleanupPlugins
    node,     \* the heap
    list,     \* per thread: the nodes reachable from its specific value
    callback, \* per thread: its clean-up callback
    call,     \* per thread: what it is doing
    look,     \* per thread: the context it looks for
    globals,  \* sGlobalNodes
    copy,     \* sGlobalNodesCopy
    own,      \* (history) threads whose owner set a callback of its own
    called,   \* (history) threads on whose end it was called
    cut       \* (history) nodes and threads caught in the middle, see below

loaderVars == <<doomed, left, current, pending, deferred, kept>>
threadVars == <<list, callback, call, look>>
history    == <<own, called, cut>>
vars == <<phase, loaded, loaderVars, node, threadVars, globals, copy, history>>

Exists(t) == call[t].at \notin {"no", "ended"}
OnList(t) == ToSet(list[t])

\* The patches of plugins that are being unloaded are restored before their
\* contexts are removed: from then on only the hooks called their code.
Callable == IF phase = "unloading" THEN loaded \ doomed ELSE loaded

TypeOK ==
    /\ phase \in Phases
    /\ loaded \subseteq Plugins
    /\ doomed \subseteq loaded
    /\ left \subseteq doomed
    /\ current \in doomed \cup {NoPlugin}
    /\ pending \in [Threads -> Callbacks]
    /\ deferred \subseteq Nodes
    /\ kept \in Callbacks
    /\ node \in [Nodes -> NodeState]
    /\ list \in [Threads -> Seq(Nodes)]
    /\ callback \in [Threads -> Callbacks]
    /\ call \in [Threads -> Call]
    /\ look \in [Threads -> Look]
    /\ globals \subseteq Nodes
    /\ copy \subseteq Nodes
    /\ own \subseteq Threads
    /\ called \subseteq Threads
    /\ cut \subseteq Nodes \cup Threads

Init ==
    /\ phase = "starting"
    /\ loaded = {} /\ doomed = {} /\ left = {}
    /\ current = NoPlugin
    /\ pending = [t \in Threads |-> "none"]
    /\ deferred = {}
    /\ kept = "none"
    /\ node = [n \in Nodes |-> FreeNode(0)]
    /\ list = [t \in Threads |-> <<>>]
    /\ callback = [t \in Threads |-> "none"]
    /\ call = [t \in Threads |-> Idle(IF t = Loader THEN "out" ELSE "no")]
    /\ look = [t \in Threads |-> NotLooking]
    /\ globals = {} /\ copy = {}
    /\ own = {} /\ called = {} /\ cut = {}

-----------------------------------------------------------------------------
(* Threads and their owners: the system and the application                *)

CreateThread(t) ==
    /\ phase \notin {"halted", "undefined"}
    /\ ~Exists(t)
    /\ call' = [call EXCEPT ![t] = Idle("out")]
    /\ list' = [list EXCEPT ![t] = <<>>]
    /\ \E cb \in {"none", "own"} :
          /\ callback' = [callback EXCEPT ![t] = cb]
          /\ own' = IF cb = "own" THEN own \cup {t} ELSE own \ {t}
    /\ called' = called \ {t}
    /\ cut' = IF pending[t] = "none" THEN cut \ {t} ELSE cut \cup {t}
    /\ UNCHANGED <<phase, loaded, loaderVars, node, look, globals, copy>>

\* The application replaces the clean-up callback of a thread.
SetCallback(t) ==
    /\ phase = "running"
    /\ call[t].at = "out"
    /\ callback' = [callback EXCEPT ![t] = "own"]
    /\ own' = own \cup {t}
    /\ UNCHANGED <<phase, loaded, loaderVars, node, list, call, look, globals, copy, called, cut>>

\* The callback cb of a thread that ends is called.
Finish(t, cb) ==
    /\ call' = [call EXCEPT ![t] =
                  IF cb = "wups" /\ list'[t] # <<>>
                  THEN [at |-> "walk", node |-> NoNode, rest |-> list[t],
                        then |-> node[Head(list[t])].saved]
                  ELSE Idle("ended")]
    /\ called' = IF cb = "own" THEN called \cup {t} ELSE called

EndThread(t) ==
    /\ t # Loader
    /\ call[t].at = "out"
    /\ phase \notin {"halted", "undefined"}
    /\ look[t] = NotLooking
    /\ UNCHANGED list
    /\ Finish(t, callback[t])
    /\ cut' = IF pending[t] = "none" THEN cut ELSE cut \cup {t}
    /\ UNCHANGED <<phase, loaded, loaderVars, node, callback, look, globals, copy, own>>

-----------------------------------------------------------------------------
(* wups_backend_get_context: code of plugin p looks for its context on the *)
(* list of its thread, one node after the other and under no lock.  When   *)
(* it finds none the plugin makes one and registers it.                    *)

LookBegin(t, p) ==
    /\ phase \notin {"halted", "undefined"}
    /\ call[t].at = "out"
    /\ look[t] = NotLooking
    /\ t = Loader => phase # "unloading"
    /\ p \in Callable
    /\ look' = [look EXCEPT ![t] = [plugin |-> p,
                                   curr |-> IF list[t] = <<>> THEN NoNode ELSE Head(list[t])]]
    /\ UNCHANGED <<phase, loaded, loaderVars, node, list, callback, call, globals, copy, history>>

\* The node it reads is one of its plugin.
Meets(t) == look[t].curr # NoNode /\ node[look[t].curr].plugin = look[t].plugin

\* curr = curr->next
LookNext(t) ==
    /\ phase \notin {"halted", "undefined"}
    /\ look[t].curr # NoNode
    /\ ~Meets(t)
    /\ \E i \in DOMAIN list[t] :
          /\ list[t][i] = look[t].curr
          /\ look' = [look EXCEPT ![t].curr =
                        IF i < Len(list[t]) THEN list[t][i + 1] ELSE NoNode]
    /\ UNCHANGED <<phase, loaded, loaderVars, node, list, callback, call, globals, copy, history>>

\* Its context is found; or there is none, and the plugin or the allocation in
\* wups_backend_register_context fails to make one.
LookEnd(t) ==
    /\ phase \notin {"halted", "undefined"}
    /\ look[t] # NotLooking
    /\ look[t].curr = NoNode \/ Meets(t)
    /\ look' = [look EXCEPT ![t] = NotLooking]
    /\ UNCHANGED <<phase, loaded, loaderVars, node, list, callback, call, globals, copy, history>>

-----------------------------------------------------------------------------
(* wups_backend_register_context                                           *)

RegisterBegin(t, p) ==
    /\ phase \notin {"halted", "undefined"}
    /\ look[t] = [plugin |-> p, curr |-> NoNode]
    /\ look' = [look EXCEPT ![t] = NotLooking]
    /\ \E n \in Nodes :
          /\ ~node[n].live
          /\ node' = [node EXCEPT ![n] = [live |-> TRUE, plugin |-> p,
                                         saved |-> "none", cleaned |-> 0]]
          /\ call' = [call EXCEPT ![t] = [Idle("callback") EXCEPT !.node = n]]
          /\ cut' = cut \ {n}
    /\ UNCHANGED <<phase, loaded, loaderVars, list, callback, globals, copy, own, called>>

\* The first node of a thread installs the callback, a later one takes over
\* what the first one saved.
RegisterCallback(t) ==
    LET n == call[t].node
    IN  /\ call[t].at = "callback"
        /\ phase \notin {"halted", "undefined"}
        /\ call' = [call EXCEPT ![t].at = "link"]
        /\ \/ /\ list[t] = <<>>
              /\ node' = [node EXCEPT ![n].saved = callback[t]]
              /\ callback' = [callback EXCEPT ![t] = "wups"]
           \/ /\ list[t] # <<>>
              /\ node' = [node EXCEPT ![n].saved = node[Head(list[t])].saved,
                                     ![Head(list[t])].saved = "none"]
              /\ UNCHANGED callback
        /\ UNCHANGED <<phase, loaded, loaderVars, list, look, globals, copy, history>>

RegisterLink(t) ==
    /\ call[t].at = "link"
    /\ phase \notin {"halted", "undefined"}
    /\ call' = [call EXCEPT ![t].at = "publish"]
    /\ list' = [list EXCEPT ![t] = <<call[t].node>> \o @]
    /\ UNCHANGED <<phase, loaded, loaderVars, node, callback, look, globals, copy, history>>

\* Mutant: the node does not join sGlobalNodes.
RegisterUnpublished(t) ==
    /\ call[t].at = "publish"
    /\ phase \notin {"halted", "undefined"}
    /\ call' = [call EXCEPT ![t] = Idle("out")]
    /\ UNCHANGED <<phase, loaded, loaderVars, node, list, callback, look, globals, copy, history>>

RegisterPublish(t) ==
    /\ call[t].at = "publish"
    /\ phase \notin {"halted", "undefined"}
    /\ call' = [call EXCEPT ![t] = Idle("out")]
    /\ globals' = globals \cup {call[t].node}
    /\ UNCHANGED <<phase, loaded, loaderVars, node, list, callback, look, copy, history>>

-----------------------------------------------------------------------------
(* __wups_thread_cleanup: the nodes go one by one, then the thread's value  *)
(* is cleared and the saved callback is called.                            *)

\* One more call of cleanupFn; two is one too many already.
Count(n) == IF node[n].cleaned = 0 THEN 1 ELSE 2

CleanupCall(t) ==
    /\ call[t].at = "walk"
    /\ phase \notin {"halted", "undefined"}
    /\ call[t].rest # <<>>
    /\ node' = [node EXCEPT ![Head(call[t].rest)].cleaned = Count(Head(call[t].rest))]
    /\ call' = [call EXCEPT ![t].at = "free"]
    /\ UNCHANGED <<phase, loaded, loaderVars, list, callback, look, globals, copy, history>>

\* Mutant: the node stays in sGlobalNodes.
CleanupFreeOnly(t) ==
    LET n == Head(call[t].rest)
    IN  /\ call[t].at = "free"
        /\ phase \notin {"halted", "undefined"}
        /\ node' = [node EXCEPT ![n] = FreeNode(@.cleaned)]
        /\ call' = [call EXCEPT ![t].at = "walk", ![t].rest = Tail(@)]
        /\ UNCHANGED <<phase, loaded, loaderVars, list, callback, look, globals, copy, history>>

\* removeNodeFromListsSafe: from sGlobalNodes, not from its copy.
CleanupFree(t) ==
    LET n == Head(call[t].rest)
    IN  /\ call[t].at = "free"
        /\ phase \notin {"halted", "undefined"}
        /\ globals' = globals \ {n}
        /\ node' = [node EXCEPT ![n] = FreeNode(@.cleaned)]
        /\ call' = [call EXCEPT ![t].at = "walk", ![t].rest = Tail(@)]
        /\ UNCHANGED <<phase, loaded, loaderVars, list, callback, look, copy, history>>

CleanupEnd(t) ==
    /\ call[t].at = "walk"
    /\ phase \notin {"halted", "undefined"}
    /\ call[t].rest = <<>>
    /\ list' = [list EXCEPT ![t] = <<>>]
    /\ Finish(t, call[t].then)
    /\ UNCHANGED <<phase, loaded, loaderVars, node, callback, look, globals, copy, own, cut>>

-----------------------------------------------------------------------------
(* The exit of an application and the start of the next one                *)

\* MarkReentNodesForDeletion, the last thing the application runs.  Its
\* threads go with it, wherever they are: a node whose registration or clean-up
\* is cut in two is never freed, or cleaned up again.
Exit ==
    /\ phase = "running"
    /\ phase' = "between"
    /\ copy' = globals
    /\ globals' = {}
    /\ list' = [t \in Threads |-> <<>>]
    /\ call' = [t \in Threads |-> Idle(IF t = Loader THEN "out" ELSE "no")]
    /\ look' = [t \in Threads |-> NotLooking]
    /\ \E cb \in {"none", "own"} :
          /\ callback' = [t \in Threads |-> IF t = Loader THEN cb ELSE "none"]
          /\ own' = IF cb = "own" THEN {Loader} ELSE {}
    /\ called' = {}
    /\ cut' = (cut \cap Nodes) \cup
              {n \in Nodes : node[n].live /\ (n \notin globals \/ node[n].cleaned > 0)}
    /\ UNCHANGED <<loaded, loaderVars, node>>

LoaderAt(p) == phase = p /\ call[Loader].at = "out" /\ look[Loader] = NotLooking

\* ClearDanglingReentPtr, one node after the other.
ClearDangling(n) ==
    /\ LoaderAt("between")
    /\ n \in copy
    /\ copy' = copy \ {n}
    /\ node' = [node EXCEPT ![n] = FreeNode(Count(n))]
    /\ UNCHANGED <<phase, loaded, loaderVars, threadVars, globals, history>>

ClearDone ==
    /\ LoaderAt("between")
    /\ copy = {}
    /\ phase' = "starting"
    /\ UNCHANGED <<loaded, loaderVars, node, threadVars, globals, copy, history>>

\* The part of APPLICATION_STARTS that unloads plugins is skipped.
KeepPlugins ==
    /\ LoaderAt("starting")
    /\ phase' = "loading"
    /\ UNCHANGED <<loaded, loaderVars, node, threadVars, globals, copy, history>>

LoadPlugin(p) ==
    /\ LoaderAt("loading")
    /\ loaded' = loaded \cup {p}
    /\ UNCHANGED <<phase, loaderVars, node, threadVars, globals, copy, history>>

StartApplication ==
    /\ LoaderAt("loading")
    /\ phase' = "running"
    /\ UNCHANGED <<loaded, loaderVars, node, threadVars, globals, copy, history>>

-----------------------------------------------------------------------------
(* CleanupPlugins and, in it, ClearReentDataForPlugins                     *)

\* The hooks run on the loader's thread, whose callback is restored after
\* them, also when a context of a plugin that stays was registered meanwhile.
HooksBegin(ps) ==
    /\ LoaderAt("starting")
    /\ phase' = "hooks"
    /\ doomed' = ps
    /\ kept' = callback[Loader]
    /\ UNCHANGED <<loaded, left, current, pending, deferred, node, threadVars,
                   globals, copy, history>>

\* Mutant: ClearReentDataForPlugins is not called.
HooksEndOnly ==
    /\ LoaderAt("hooks")
    /\ phase' = "unloading"
    /\ callback' = [callback EXCEPT ![Loader] = kept]
    /\ kept' = "none"
    /\ UNCHANGED <<loaded, doomed, left, current, pending, deferred, node, list, call, look,
                   globals, copy, history>>

HooksEnd ==
    /\ LoaderAt("hooks")
    /\ phase' = "unloading"
    /\ callback' = [callback EXCEPT ![Loader] = kept]
    /\ kept' = "none"
    /\ left' = doomed
    /\ UNCHANGED <<loaded, doomed, current, pending, deferred, node, list, call, look,
                   globals, copy, history>>

Of(p) == {n \in Nodes : node[n].plugin = p}

\* What stays on the list of a thread, and the saved callback of its first
\* node if that goes; a thread never has two nodes of one plugin.
Staying(t, p) == RemoveAt(list[t], CHOOSE i \in DOMAIN list[t] : list[t][i] \in Of(p))
Carried(t, p) ==
    IF list[t] # <<>> /\ Head(list[t]) \in Of(p) THEN node[Head(list[t])].saved ELSE "none"

Scanned(p) == {t \in Threads : Exists(t) /\ OnList(t) \cap Of(p) # {}}
Restores(p) == {t \in Scanned(p) : Carried(t, p) # "none" /\ Staying(t, p) = <<>>}
\* Mutant: the next node does not inherit the saved callback.
NoHeirs(p) == {}

Heirs(p) == {t \in Scanned(p) : Carried(t, p) # "none" /\ Staying(t, p) # <<>>}

\* Threads whose list the scheduler lock does not protect.  They look for a
\* context of p, and are going to register one or to use the one that goes away;
\* they are at a node that goes away; they registered (or were about to put a
\* node in front of) one; or they are about to free nodes the scan reads or
\* unlinks.  Or they look for a context of another plugin that is unloaded, and
\* could register it before their callback is restored over it.
Racing(p) ==
    {t \in Threads :
        \/ look[t].plugin = p
        \/ look[t].curr \in Of(p)
        \/ look[t].plugin \in doomed /\ t \in Restores(p)
        \/ /\ call[t].at \in {"callback", "link", "publish"}
           /\ node[call[t].node].plugin = p
        \/ /\ call[t].at \in {"callback", "link"}
           /\ list[t] # <<>> /\ Head(list[t]) \in Of(p)
        \/ /\ call[t].at \in {"walk", "free"}
           /\ OnList(t) \cap Of(p) # {} \/ call[t].rest # list[t]}

Visit(p) ==
    /\ LoaderAt("unloading")
    /\ current = NoPlugin
    /\ p \in left

\* Under the scheduler lock: every thread that exists loses its nodes of p.
Scan(p) ==
    /\ Visit(p)
    /\ Racing(p) = {}
    /\ Cardinality(Restores(p)) <= MaxRestores
    /\ current' = p
    /\ left' = left \ {p}
    /\ list' = [t \in Threads |-> IF t \in Scanned(p) THEN Staying(t, p) ELSE list[t]]
    /\ node' = [n \in Nodes |->
                  IF \E t \in Heirs(p) : n = Head(Staying(t, p))
                  THEN [node[n] EXCEPT !.saved =
                          Carried(CHOOSE t \in Heirs(p) : n = Head(Staying(t, p)), p)]
                  ELSE node[n]]
    /\ pending' = [t \in Threads |-> IF t \in Restores(p) THEN Carried(t, p) ELSE "none"]
    /\ deferred' = UNION {OnList(t) \cap Of(p) : t \in Scanned(p)}
    /\ UNCHANGED <<phase, loaded, doomed, kept, callback, call, look, globals, copy, history>>

\* OSFatal("WUPSBackend pendingRestores size limit hit")
ScanTooMany(p) ==
    /\ Visit(p)
    /\ Racing(p) = {}
    /\ Cardinality(Restores(p)) > MaxRestores
    /\ phase' = "halted"
    /\ UNCHANGED <<loaded, loaderVars, node, threadVars, globals, copy, history>>

\* The scan meets a thread in the middle of reent.cpp: freed memory is read, a
\* freed node stays reachable, a plugin without code is registered, or a context
\* whose thread does not clean it up.  What follows is not defined.
ScanRaces(p) ==
    /\ Visit(p)
    /\ Racing(p) # {}
    /\ phase' = "undefined"
    /\ UNCHANGED <<loaded, loaderVars, node, threadVars, globals, copy, history>>

\* OSSetThreadCleanupCallback, after the lock was given back.
RestoreCallback(t) ==
    /\ phase = "unloading"
    /\ pending[t] # "none"
    /\ callback' = [callback EXCEPT ![t] = pending[t]]
    /\ pending' = [pending EXCEPT ![t] = "none"]
    /\ UNCHANGED <<phase, loaded, doomed, left, current, deferred, kept, node, list,
                   call, look, globals, copy, history>>

NothingPending == \A t \in Threads : pending[t] = "none"

\* Mutant: the node is freed without its cleanupFn.
FreeDeferredOnly(n) ==
    /\ LoaderAt("unloading")
    /\ NothingPending
    /\ n \in deferred
    /\ deferred' = deferred \ {n}
    /\ globals' = globals \ {n}
    /\ node' = [node EXCEPT ![n] = FreeNode(@.cleaned)]
    /\ UNCHANGED <<phase, loaded, doomed, left, current, pending, kept, threadVars,
                   copy, history>>

FreeDeferred(n) ==
    /\ LoaderAt("unloading")
    /\ NothingPending
    /\ n \in deferred
    /\ deferred' = deferred \ {n}
    /\ globals' = globals \ {n}
    /\ node' = [node EXCEPT ![n] = FreeNode(Count(n))]
    /\ UNCHANGED <<phase, loaded, doomed, left, current, pending, kept, threadVars,
                   copy, history>>

NextPlugin ==
    /\ LoaderAt("unloading")
    /\ current # NoPlugin
    /\ NothingPending
    /\ deferred = {}
    /\ current' = NoPlugin
    /\ UNCHANGED <<phase, loaded, doomed, left, pending, deferred, kept, node, threadVars,
                   globals, copy, history>>

\* The containers are destroyed.
Unloaded ==
    /\ LoaderAt("unloading")
    /\ left = {}
    /\ current = NoPlugin
    /\ phase' = "loading"
    /\ loaded' = loaded \ doomed
    /\ doomed' = {}
    /\ UNCHANGED <<left, current, pending, deferred, kept, node, threadVars,
                   globals, copy, history>>

\* The console is restarted.
Reboot ==
    /\ phase \in {"halted", "undefined"}
    /\ phase' = "starting"
    /\ loaded' = {} /\ doomed' = {} /\ left' = {}
    /\ current' = NoPlugin
    /\ pending' = [t \in Threads |-> "none"]
    /\ deferred' = {}
    /\ kept' = "none"
    /\ node' = [n \in Nodes |-> FreeNode(0)]
    /\ list' = [t \in Threads |-> <<>>]
    /\ callback' = [t \in Threads |-> "none"]
    /\ call' = [t \in Threads |-> Idle(IF t = Loader THEN "out" ELSE "no")]
    /\ look' = [t \in Threads |-> NotLooking]
    /\ globals' = {} /\ copy' = {}
    /\ own' = {} /\ called' = {} /\ cut' = {}

-----------------------------------------------------------------------------
Owner == \E t \in Threads : CreateThread(t) \/ SetCallback(t) \/ EndThread(t)

Looking == \E t \in Threads :
    \/ \E p \in Plugins : LookBegin(t, p)
    \/ LookNext(t) \/ LookEnd(t)

Register == \E t \in Threads :
    \/ \E p \in Plugins : RegisterBegin(t, p)
    \/ RegisterCallback(t) \/ RegisterLink(t) \/ RegisterPublish(t)

ThreadCleanup == \E t \in Threads : CleanupCall(t) \/ CleanupFree(t) \/ CleanupEnd(t)

ApplicationCycle ==
    \/ Exit \/ ClearDone \/ KeepPlugins \/ StartApplication \/ Reboot
    \/ \E n \in Nodes : ClearDangling(n)
    \/ \E p \in Plugins : LoadPlugin(p)

Unload ==
    \/ \E ps \in SUBSET loaded : HooksBegin(ps)
    \/ HooksEnd
    \/ \E p \in Plugins : Scan(p) \/ ScanTooMany(p) \/ ScanRaces(p)
    \/ \E t \in Threads : RestoreCallback(t)
    \/ \E n \in Nodes : FreeDeferred(n)
    \/ NextPlugin \/ Unloaded

Next == Owner \/ Looking \/ Register \/ ThreadCleanup \/ ApplicationCycle \/ Unload

Spec == Init /\ [][Next]_vars

-----------------------------------------------------------------------------
(* Properties                                                              *)

\* Whatever pointer to a node the loader or a thread still follows points to
\* a node that was not freed, so none is freed twice either.
PointersLive ==
    /\ \A n \in globals \cup copy \cup deferred : node[n].live
    /\ \A t \in Threads :
          /\ call[t].at \in {"out", "callback", "link", "publish"} =>
                \A n \in OnList(t) : node[n].live
          /\ \A i \in 1..Len(call[t].rest) : node[call[t].rest[i]].live
          /\ look[t].curr # NoNode => node[look[t].curr].live

\* A node that no global list knows is being registered right now, or was when
\* its application exited: every other is freed in the end.
NothingLeaks ==
    \A n \in Nodes :
        node[n].live /\ n \notin globals \cup copy \cup cut =>
            \E t \in Threads : call[t].node = n

\* Once a plugin is unloaded no context of it is left that
\* wups_backend_get_context could return to its next incarnation, or whose
\* cleanupFn somebody would call.
UnloadedLeavesNothing ==
    \A n \in Nodes :
        /\ node[n].live /\ node[n].plugin \notin loaded => n \in cut
        /\ n \in globals \cup copy => node[n].plugin \in loaded

\* A node is freed after exactly one call of cleanupFn, unless the exit of its
\* application cut its clean-up in two.
CleanedOnce ==
    [][\A n \in Nodes :
         node[n].live /\ ~node'[n].live /\ phase' # "starting" =>
             node'[n].cleaned = 1 \/ n \in cut]_vars

\* The callback a thread had, or got from its owner, is called when it ends,
\* and no other is; unless it ended while its callback waited to be restored.
OwnCallbackCalled ==
    \A t \in Threads \ cut : call[t].at = "ended" => (t \in called <=> t \in own)

=============================================================================
