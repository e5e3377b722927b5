-------------------------- MODULE ReentContexts_proofs --------------------------
(***************************************************************************)
(* Proofs about ReentContexts, for all threads, plugins and nodes: the     *)
(* variables keep their types, no node is forgotten, no pointer that is    *)
(* still followed leads to one that was freed, nothing is left of a plugin *)
(* that was unloaded, a node is cleaned up once, and a thread keeps its    *)
(* own clean-up callback.                                                  *)
(***************************************************************************)
EXTENDS ReentContexts, SequenceTheorems, TLAPS

\* A thread carries the node it registers exactly while it does, and frees a
\* node only while nodes are left.
CallsMakeSense ==
    \A t \in Threads :
        /\ call[t].at \in {"callback", "link", "publish"} <=> call[t].node # NoNode
        /\ call[t].at = "free" => call[t].rest # <<>>

\* The loop over the doomed plugins runs in one phase only.
CursorFollowsPhase ==
    phase \notin {"unloading", "halted", "undefined"} => left = {} /\ current = NoPlugin

LeakInv == TypeOK /\ CallsMakeSense /\ CursorFollowsPhase /\ NothingLeaks

\* A thread that looks for a context is not in the rest of reent.cpp.
LooksOut ==
    \A t \in Threads :
        /\ look[t].plugin # NoPlugin => call[t].at = "out"
        /\ look[t].plugin = NoPlugin => look[t].curr = NoNode

USE DEF Phases, Places, Callbacks

LEMMA IdleCall ==
    ASSUME NEW at \in Places
    PROVE  /\ Idle(at) \in Call
           /\ Idle(at).at = at /\ Idle(at).node = NoNode /\ Idle(at).rest = <<>>
  BY DEF Idle, Call

LEMMA FreedNode ==
    ASSUME NEW count \in 0..2
    PROVE  FreeNode(count) \in NodeState /\ ~FreeNode(count).live
  BY DEF FreeNode, NodeState

\* Records that change in one field.
LEMMA CallMoved ==
    ASSUME NEW c \in Call, NEW p \in Places
    PROVE  [c EXCEPT !.at = p] \in Call
  BY DEF Call

LEMMA CallShortened ==
    ASSUME NEW c \in Call, NEW p \in Places, NEW r \in Seq(Nodes)
    PROVE  [c EXCEPT !.at = p, !.rest = r] \in Call
  BY DEF Call

LEMMA NodeSaved ==
    ASSUME NEW m \in NodeState, NEW cb \in Callbacks
    PROVE  [m EXCEPT !.saved = cb] \in NodeState /\ [m EXCEPT !.saved = cb].live = m.live
  BY DEF NodeState

LEMMA NodeCleaned ==
    ASSUME NEW m \in NodeState, NEW count \in 0..2
    PROVE  [m EXCEPT !.cleaned = count] \in NodeState
           /\ [m EXCEPT !.cleaned = count].live = m.live
  BY DEF NodeState

LEMMA Counted ==
    ASSUME TypeOK, NEW n \in Nodes
    PROVE  Count(n) \in 0..2
  BY DEF TypeOK, Count, NodeState

\* Taking a node out of a list leaves a list of nodes.
LEMMA StayingIsList ==
    ASSUME TypeOK, NEW t \in Threads, NEW p, OnList(t) \cap Of(p) # {}
    PROVE  Staying(t, p) \in Seq(Nodes)
  <1>1. list[t] \in Seq(Nodes)
    BY DEF TypeOK
  <1> DEFINE i == CHOOSE j \in DOMAIN list[t] : list[t][j] \in Of(p)
  <1>2. i \in 1..Len(list[t])
    BY <1>1 DEF OnList, ToSet
  <1>3. /\ i \in Int /\ Len(list[t]) \in Nat
        /\ \A j \in 1..Len(list[t]) : list[t][j] \in Nodes
    BY <1>1, <1>2
  <1>4. SubSeq(list[t], 1, i - 1) \in Seq(Nodes)
    <2>1. \A j \in 1..(i - 1) : list[t][j] \in Nodes
      BY <1>2, <1>3
    <2> HIDE DEF i
    <2> QED BY <2>1, <1>3, SubSeqProperties
  <1>5. SubSeq(list[t], i + 1, Len(list[t])) \in Seq(Nodes)
    <2>1. \A j \in (i + 1)..Len(list[t]) : list[t][j] \in Nodes
      BY <1>2, <1>3
    <2> HIDE DEF i
    <2> QED BY <2>1, <1>3, SubSeqProperties
  <1> QED BY <1>4, <1>5, ConcatProperties DEF Staying, RemoveAt

\* What a call of a clean-up callback makes of the thread.
LEMMA Finished ==
    ASSUME TypeOK, NEW t \in Threads, NEW cb \in Callbacks, Finish(t, cb),
           list' \in [Threads -> Seq(Nodes)], list'[t] # <<>> => list'[t] = list[t]
    PROVE  /\ \E c \in Call :
                /\ call' = [call EXCEPT ![t] = c]
                /\ c.at \in {"walk", "ended"} /\ c.node = NoNode
           /\ called' \subseteq Threads
  <1> DEFINE c == IF cb = "wups" /\ list'[t] # <<>>
                  THEN [at |-> "walk", node |-> NoNode, rest |-> list[t],
                        then |-> node[Head(list[t])].saved]
                  ELSE Idle("ended")
  <1>1. c \in Call /\ c.at \in {"walk", "ended"} /\ c.node = NoNode
    <2>1. CASE cb = "wups" /\ list'[t] # <<>>
      <3>1. list[t] \in Seq(Nodes) /\ list[t] # <<>>
        BY <2>1 DEF TypeOK
      <3>2. Head(list[t]) \in Nodes
        BY <3>1
      <3>3. node[Head(list[t])].saved \in Callbacks
        BY <3>2 DEF TypeOK, NodeState
      <3> QED BY <2>1, <3>1, <3>3 DEF Call
    <2>2. CASE ~(cb = "wups" /\ list'[t] # <<>>)
      BY <2>2, IdleCall
    <2> QED BY <2>1, <2>2
  <1>2. call' = [call EXCEPT ![t] = c]
    BY DEF Finish
  <1>3. called' \subseteq Threads
    BY DEF Finish, TypeOK
  <1> QED BY <1>1, <1>2, <1>3

-----------------------------------------------------------------------------
(* One lemma per group of actions.                                         *)

LEMMA InitLeak == Init => LeakInv
  <1> SUFFICES ASSUME Init PROVE LeakInv
    OBVIOUS
  <1>1. \A t \in Threads : call[t] \in Call /\ call[t].node = NoNode
                           /\ call[t].at \in {"out", "no"} /\ call[t].rest = <<>>
    BY IdleCall DEF Init
  <1>2. \A n \in Nodes : node[n] \in NodeState /\ ~node[n].live
    BY FreedNode DEF Init
  <1>3. call \in [Threads -> Call] /\ node \in [Nodes -> NodeState]
    BY <1>1, <1>2 DEF Init
  <1>4. TypeOK
    BY <1>3 DEF Init, TypeOK, NotLooking, Look
  <1>5. CallsMakeSense
    BY <1>1 DEF CallsMakeSense
  <1> QED BY <1>2, <1>4, <1>5 DEF Init, LeakInv, CursorFollowsPhase, NothingLeaks

\* A thread that looks for its context changes nothing that others see.
LEMMA LookFrame ==
    ASSUME TypeOK, Looking
    PROVE  /\ UNCHANGED <<phase, loaded, loaderVars, node, list, callback, call, globals, copy, history>>
           /\ look' \in [Threads -> Look]
  <1>1. \A t \in Threads : list[t] \in Seq(Nodes) /\ look[t] \in Look
    BY DEF TypeOK
  <1>2. ASSUME NEW t \in Threads, NEW p \in Plugins, LookBegin(t, p)
        PROVE  look' \in [Threads -> Look]
    <2>1. (IF list[t] = <<>> THEN NoNode ELSE Head(list[t])) \in Nodes \cup {NoNode}
      BY <1>1
    <2>2. [plugin |-> p, curr |-> IF list[t] = <<>> THEN NoNode ELSE Head(list[t])] \in Look
      BY <2>1 DEF Look
    <2> QED BY <1>2, <2>2 DEF LookBegin, TypeOK
  <1>3. ASSUME NEW t \in Threads, LookNext(t) PROVE look' \in [Threads -> Look]
    <2>1. PICK i \in DOMAIN list[t] :
            look' = [look EXCEPT ![t].curr = IF i < Len(list[t]) THEN list[t][i + 1] ELSE NoNode]
      BY <1>3 DEF LookNext
    <2> DEFINE n == IF i < Len(list[t]) THEN list[t][i + 1] ELSE NoNode
    <2>2. n \in Nodes \cup {NoNode}
      BY <1>1
    <2> HIDE DEF n
    <2>3. [look[t] EXCEPT !.curr = n] \in Look
      BY <1>1, <2>2 DEF Look
    <2> QED BY <2>1, <2>3 DEF TypeOK, n
  <1>4. ASSUME NEW t \in Threads, LookEnd(t) PROVE look' \in [Threads -> Look]
    BY <1>4 DEF LookEnd, NotLooking, Look, TypeOK
  <1>5. look' \in [Threads -> Look]
    BY <1>2, <1>3, <1>4 DEF Looking
  <1> QED BY <1>5 DEF Looking, LookBegin, LookNext, LookEnd

LEMMA OwnerLeak ==
    ASSUME LeakInv, NEW t \in Threads, CreateThread(t) \/ SetCallback(t) \/ EndThread(t)
    PROVE  LeakInv'
  <1> USE DEF LeakInv
  <1>1. CASE CreateThread(t)
    <2>1. Idle("out") \in Call /\ Idle("out").node = NoNode /\ Idle("out").at = "out"
      BY IdleCall
    <2>2. TypeOK'
      BY <1>1, <2>1 DEF CreateThread, TypeOK, loaderVars
    <2>3. CallsMakeSense'
      BY <1>1, <2>1 DEF CreateThread, CallsMakeSense, TypeOK
    <2>4. NothingLeaks'
      <3>1. call[t].node = NoNode
        BY <1>1 DEF CreateThread, Exists, CallsMakeSense
      <3>2. \A u \in Threads \ {t} : call'[u] = call[u]
        BY <1>1 DEF CreateThread, TypeOK
      <3>3. \A n \in Nodes : n \notin cut' => n \notin cut
        BY <1>1, ReentAssumption DEF CreateThread
      <3> QED BY <1>1, <3>1, <3>2, <3>3, ReentAssumption DEF CreateThread, NothingLeaks
    <2> QED BY <1>1, <2>2, <2>3, <2>4 DEF CreateThread, CursorFollowsPhase, loaderVars
  <1>2. CASE SetCallback(t)
    BY <1>2 DEF SetCallback, TypeOK, CallsMakeSense, CursorFollowsPhase, NothingLeaks, loaderVars
  <1>3. CASE EndThread(t)
    <2>1. PICK c \in Call : /\ call' = [call EXCEPT ![t] = c]
                            /\ c.at \in {"walk", "ended"} /\ c.node = NoNode
      BY <1>3, Finished DEF EndThread, TypeOK
    <2>2. called' \subseteq Threads
      BY <1>3, Finished DEF EndThread, TypeOK
    <2>3. TypeOK'
      BY <1>3, <2>1, <2>2 DEF EndThread, TypeOK, loaderVars
    <2>4. CallsMakeSense'
      BY <2>1 DEF CallsMakeSense, TypeOK
    <2>5. NothingLeaks'
      BY <1>3, <2>1, ReentAssumption DEF EndThread, NothingLeaks, CallsMakeSense, TypeOK
    <2> QED BY <1>3, <2>3, <2>4, <2>5 DEF EndThread, CursorFollowsPhase, loaderVars
  <1> QED BY <1>1, <1>2, <1>3

LEMMA RegisterLeak ==
    ASSUME LeakInv, LooksOut, NEW t \in Threads,
           \/ \E p \in Plugins : RegisterBegin(t, p)
           \/ RegisterCallback(t) \/ RegisterLink(t) \/ RegisterPublish(t)
    PROVE  LeakInv'
  <1> USE DEF LeakInv
  <1>1. ASSUME NEW p \in Plugins, RegisterBegin(t, p) PROVE LeakInv'
    <2>1. PICK n \in Nodes :
            /\ ~node[n].live
            /\ node' = [node EXCEPT ![n] = [live |-> TRUE, plugin |-> p,
                                            saved |-> "none", cleaned |-> 0]]
            /\ call' = [call EXCEPT ![t] = [Idle("callback") EXCEPT !.node = n]]
            /\ cut' = cut \ {n}
      BY <1>1 DEF RegisterBegin
    <2> DEFINE c == [Idle("callback") EXCEPT !.node = n]
    <2>2. c \in Call /\ c.at = "callback" /\ c.node = n
      BY IdleCall DEF Idle, Call
    <2>3. [live |-> TRUE, plugin |-> p, saved |-> "none", cleaned |-> 0] \in NodeState
      BY DEF NodeState
    <2>4. TypeOK'
      BY <1>1, <2>1, <2>2, <2>3 DEF RegisterBegin, TypeOK, NotLooking, Look, loaderVars
    <2>5. CallsMakeSense'
      BY <2>1, <2>2, ReentAssumption DEF CallsMakeSense, TypeOK
    <2>6. NothingLeaks'
      <3>1. call[t].node = NoNode
        BY <1>1, ReentAssumption DEF RegisterBegin, CallsMakeSense, LooksOut
      <3>2. call'[t].node = n /\ \A u \in Threads \ {t} : call'[u] = call[u]
        BY <2>1, <2>2 DEF TypeOK
      <3>3. \A m \in Nodes \ {n} : node'[m] = node[m]
        BY <2>1 DEF TypeOK
      <3>4. UNCHANGED <<globals, copy>>
        BY <1>1 DEF RegisterBegin
      <3> QED BY <2>1, <3>1, <3>2, <3>3, <3>4, ReentAssumption DEF NothingLeaks
    <2> QED BY <1>1, <2>4, <2>5, <2>6 DEF RegisterBegin, CursorFollowsPhase, loaderVars
  <1>2. CASE RegisterCallback(t)
    <2> DEFINE n == call[t].node
               h == Head(list[t])
    <2>1. n \in Nodes /\ call[t].at = "callback"
      BY <1>2 DEF RegisterCallback, CallsMakeSense, TypeOK, Call
    <2>2. node' \in [Nodes -> NodeState] /\ \A m \in Nodes : node'[m].live = node[m].live
      <3>1. CASE list[t] = <<>>
        <4>1. node' = [node EXCEPT ![n].saved = callback[t]]
          BY <1>2, <3>1 DEF RegisterCallback
        <4>2. node[n] \in NodeState /\ callback[t] \in Callbacks
          BY <2>1 DEF TypeOK
        <4>3. node'[n] = [node[n] EXCEPT !.saved = callback[t]]
              /\ \A m \in Nodes \ {n} : node'[m] = node[m]
          BY <2>1, <4>1 DEF TypeOK
        <4>4. DOMAIN node' = Nodes /\ node' = [m \in Nodes |-> node'[m]]
          BY <4>1 DEF TypeOK
        <4>7. [node[n] EXCEPT !.saved = callback[t]] \in NodeState
              /\ [node[n] EXCEPT !.saved = callback[t]].live = node[n].live
          BY <4>2, NodeSaved
        <4>5. node'[n] \in NodeState /\ node'[n].live = node[n].live
          BY <4>3, <4>7
        <4>6. \A m \in Nodes : node'[m] \in NodeState /\ node'[m].live = node[m].live
          BY <4>3, <4>5 DEF TypeOK
        <4> QED BY <4>4, <4>6
      <3>2. CASE list[t] # <<>>
        <4>1. h \in Nodes
          BY <3>2 DEF TypeOK
        <4>2. node' = [node EXCEPT ![n].saved = node[h].saved, ![h].saved = "none"]
          BY <1>2, <3>2 DEF RegisterCallback
        <4> DEFINE mid == [node EXCEPT ![n].saved = node[h].saved]
        <4>3. node[n] \in NodeState /\ node[h].saved \in Callbacks
          BY <2>1, <4>1 DEF TypeOK, NodeState
        <4>4. mid[n] = [node[n] EXCEPT !.saved = node[h].saved]
              /\ \A m \in Nodes \ {n} : mid[m] = node[m]
          BY <2>1 DEF TypeOK
        <4>5. \A m \in Nodes : mid[m] \in NodeState /\ mid[m].live = node[m].live
          BY <4>3, <4>4, NodeSaved DEF TypeOK
        <4>6. node' = [mid EXCEPT ![h].saved = "none"] /\ mid = [m \in Nodes |-> mid[m]]
          BY <4>2 DEF TypeOK
        <4> HIDE DEF mid
        <4>7. node'[h] = [mid[h] EXCEPT !.saved = "none"]
              /\ \A m \in Nodes \ {h} : node'[m] = mid[m]
          BY <4>1, <4>6
        <4>10. node'[h] \in NodeState /\ node'[h].live = mid[h].live
          BY <4>1, <4>5, <4>7, NodeSaved
        <4>8. \A m \in Nodes : node'[m] \in NodeState /\ node'[m].live = node[m].live
          BY <4>1, <4>5, <4>7, <4>10
        <4>9. node' = [m \in Nodes |-> node'[m]]
          BY <4>6
        <4> QED BY <4>8, <4>9
      <3> QED BY <3>1, <3>2
    <2>3. callback' \in [Threads -> Callbacks]
      BY <1>2 DEF RegisterCallback, TypeOK
    <2>4. call' = [call EXCEPT ![t].at = "link"]
      BY <1>2 DEF RegisterCallback
    <2>5. TypeOK'
      <3>1. call' \in [Threads -> Call]
        BY <2>4, CallMoved DEF TypeOK
      <3> QED BY <1>2, <2>2, <2>3, <3>1 DEF RegisterCallback, TypeOK, loaderVars, history
    <2>6. CallsMakeSense'
      BY <2>1, <2>4 DEF CallsMakeSense, TypeOK, Call
    <2>7. \A u \in Threads : call'[u].node = call[u].node
      BY <2>4 DEF TypeOK, Call
    <2>8. NothingLeaks'
      BY <1>2, <2>2, <2>7 DEF RegisterCallback, NothingLeaks, history
    <2> QED BY <1>2, <2>5, <2>6, <2>8 DEF RegisterCallback, CursorFollowsPhase, loaderVars
  <1>3. CASE RegisterLink(t)
    <2>1. call[t].node \in Nodes /\ call[t].at = "link"
      BY <1>3 DEF RegisterLink, CallsMakeSense, TypeOK, Call
    <2>2. <<call[t].node>> \o list[t] \in Seq(Nodes)
      BY <2>1 DEF TypeOK
    <2>3. call' = [call EXCEPT ![t].at = "publish"]
      BY <1>3 DEF RegisterLink
    <2>4. TypeOK'
      <3>1. call' \in [Threads -> Call]
        BY <2>3, CallMoved DEF TypeOK
      <3> QED BY <1>3, <2>2, <3>1 DEF RegisterLink, TypeOK, loaderVars, history
    <2>5. CallsMakeSense'
      BY <2>1, <2>3 DEF CallsMakeSense, TypeOK, Call
    <2>6. \A u \in Threads : call'[u].node = call[u].node
      BY <2>3 DEF TypeOK, Call
    <2>7. NothingLeaks'
      BY <1>3, <2>6 DEF RegisterLink, NothingLeaks, history
    <2> QED BY <1>3, <2>4, <2>5, <2>7 DEF RegisterLink, CursorFollowsPhase, loaderVars
  <1>4. CASE RegisterPublish(t)
    <2>1. call[t].node \in Nodes
      BY <1>4 DEF RegisterPublish, CallsMakeSense, TypeOK, Call
    <2>2. Idle("out") \in Call /\ Idle("out").node = NoNode /\ Idle("out").at = "out"
      BY IdleCall
    <2>3. TypeOK'
      BY <1>4, <2>1, <2>2 DEF RegisterPublish, TypeOK, loaderVars, history
    <2>4. CallsMakeSense'
      BY <1>4, <2>2 DEF RegisterPublish, CallsMakeSense, TypeOK
    <2>5. \A u \in Threads \ {t} : call'[u] = call[u]
      BY <1>4 DEF RegisterPublish, TypeOK
    <2>6. NothingLeaks'
      BY <1>4, <2>5 DEF RegisterPublish, NothingLeaks, history
    <2> QED BY <1>4, <2>3, <2>4, <2>6 DEF RegisterPublish, CursorFollowsPhase, loaderVars
  <1> QED BY <1>1, <1>2, <1>3, <1>4

LEMMA ThreadCleanupLeak ==
    ASSUME LeakInv, NEW t \in Threads, CleanupCall(t) \/ CleanupFree(t) \/ CleanupEnd(t)
    PROVE  LeakInv'
  <1> USE DEF LeakInv
  <1> DEFINE n == Head(call[t].rest)
  <1>1. call[t].rest \in Seq(Nodes) /\ call[t].then \in Callbacks
    BY DEF TypeOK, Call
  <1>2. CASE CleanupCall(t)
    <2>1. n \in Nodes /\ call[t].rest # <<>> /\ call[t].at = "walk"
      BY <1>1, <1>2 DEF CleanupCall
    <2>2. node' = [node EXCEPT ![n].cleaned = Count(n)]
      BY <1>2 DEF CleanupCall
    <2>3. node' \in [Nodes -> NodeState] /\ \A m \in Nodes : node'[m].live = node[m].live
      BY <2>1, <2>2, Counted DEF TypeOK, NodeState
    <2>4. call' = [call EXCEPT ![t].at = "free"]
      BY <1>2 DEF CleanupCall
    <2>5. TypeOK'
      <3>1. call' \in [Threads -> Call]
        BY <2>4, CallMoved DEF TypeOK
      <3> QED BY <1>2, <2>3, <3>1 DEF CleanupCall, TypeOK, loaderVars, history
    <2>6. CallsMakeSense'
      BY <2>1, <2>4 DEF CallsMakeSense, TypeOK, Call
    <2>7. \A u \in Threads : call'[u].node = call[u].node
      BY <2>4 DEF TypeOK, Call
    <2>8. NothingLeaks'
      BY <1>2, <2>3, <2>7 DEF CleanupCall, NothingLeaks, history
    <2> QED BY <1>2, <2>5, <2>6, <2>8 DEF CleanupCall, CursorFollowsPhase, loaderVars
  <1>3. CASE CleanupFree(t)
    <2>1. n \in Nodes /\ call[t].rest # <<>> /\ call[t].at = "free"
      BY <1>1, <1>3 DEF CleanupFree, CallsMakeSense
    <2>2. Tail(call[t].rest) \in Seq(Nodes)
      BY <1>1, <2>1
    <2>3. node' = [node EXCEPT ![n] = FreeNode(node[n].cleaned)]
      BY <1>3 DEF CleanupFree
    <2>4. FreeNode(node[n].cleaned) \in NodeState /\ ~FreeNode(node[n].cleaned).live
      BY <2>1, FreedNode DEF TypeOK, NodeState
    <2>5. call' = [call EXCEPT ![t].at = "walk", ![t].rest = Tail(call[t].rest)]
      BY <1>3 DEF CleanupFree
    <2>6. TypeOK'
      <3>1. call' \in [Threads -> Call]
        BY <2>2, <2>5, CallShortened DEF TypeOK
      <3>2. node' \in [Nodes -> NodeState]
        BY <2>3, <2>4 DEF TypeOK
      <3> QED BY <1>3, <3>1, <3>2 DEF CleanupFree, TypeOK, loaderVars, history
    <2>7. CallsMakeSense'
      BY <2>1, <2>5 DEF CallsMakeSense, TypeOK, Call
    <2>8. \A u \in Threads : call'[u].node = call[u].node
      BY <2>5 DEF TypeOK, Call
    <2>9. NothingLeaks'
      <3>1. ~node'[n].live /\ \A m \in Nodes \ {n} : node'[m] = node[m]
        BY <2>1, <2>3, <2>4 DEF TypeOK
      <3>2. globals' = globals \ {n} /\ copy' = copy /\ cut' = cut
        BY <1>3 DEF CleanupFree, history
      <3> HIDE DEF n
      <3> QED BY <3>1, <3>2, <2>8 DEF NothingLeaks
    <2> QED BY <1>3, <2>6, <2>7, <2>9 DEF CleanupFree, CursorFollowsPhase, loaderVars
  <1>4. CASE CleanupEnd(t)
    <2>1. list' = [list EXCEPT ![t] = <<>>] /\ Finish(t, call[t].then) /\ call[t].at = "walk"
      BY <1>4 DEF CleanupEnd
    <2>2. list' \in [Threads -> Seq(Nodes)] /\ list'[t] = <<>>
      BY <2>1 DEF TypeOK
    <2>3. PICK c \in Call : /\ call' = [call EXCEPT ![t] = c]
                            /\ c.at \in {"walk", "ended"} /\ c.node = NoNode
      BY <1>1, <2>1, <2>2, Finished
    <2>4. called' \subseteq Threads
      BY <1>1, <2>1, <2>2, Finished
    <2>5. TypeOK'
      BY <1>4, <2>2, <2>3, <2>4 DEF CleanupEnd, TypeOK, loaderVars
    <2>6. CallsMakeSense'
      BY <2>3 DEF CallsMakeSense, TypeOK
    <2>7. call[t].node = NoNode
      BY <2>1 DEF CallsMakeSense
    <2>8. NothingLeaks'
      BY <1>4, <2>3, <2>7, ReentAssumption DEF CleanupEnd, NothingLeaks, TypeOK
    <2> QED BY <1>4, <2>5, <2>6, <2>8 DEF CleanupEnd, CursorFollowsPhase, loaderVars
  <1> QED BY <1>2, <1>3, <1>4

LEMMA FreedOne ==
    ASSUME LeakInv, NEW n \in Nodes, NEW count \in 0..2,
           node' = [node EXCEPT ![n] = FreeNode(count)],
           globals \ {n} \subseteq globals', copy \ {n} \subseteq copy',
           UNCHANGED <<call, cut>>
    PROVE  node' \in [Nodes -> NodeState] /\ NothingLeaks'
  <1>1. FreeNode(count) \in NodeState /\ ~FreeNode(count).live
    BY FreedNode
  <1>2. node' \in [Nodes -> NodeState]
    BY <1>1 DEF LeakInv, TypeOK
  <1>3. ~node'[n].live /\ \A m \in Nodes \ {n} : node'[m] = node[m]
    BY <1>1 DEF LeakInv, TypeOK
  <1>4. NothingLeaks'
    BY <1>3 DEF LeakInv, NothingLeaks
  <1> QED BY <1>2, <1>4

\* All threads are gone, and nobody is registering anything.
LEMMA CallsCleared ==
    ASSUME call' = [t \in Threads |-> Idle(IF t = Loader THEN "out" ELSE "no")]
    PROVE  call' \in [Threads -> Call] /\ CallsMakeSense'
  <1>1. \A t \in Threads :
          call'[t] \in Call /\ call'[t].at \in {"out", "no"} /\ call'[t].node = NoNode
    BY IdleCall
  <1> QED BY <1>1 DEF CallsMakeSense

LEMMA CycleLeak ==
    ASSUME LeakInv, ApplicationCycle
    PROVE  LeakInv'
  <1> USE DEF LeakInv
  <1>1. CASE Exit
    <2>1. call' \in [Threads -> Call] /\ CallsMakeSense'
      BY <1>1, CallsCleared DEF Exit
    <2>2. list' \in [Threads -> Seq(Nodes)] /\ callback' \in [Threads -> Callbacks]
      BY <1>1 DEF Exit
    <2>3. cut' \subseteq Nodes \cup Threads /\ own' \subseteq Threads /\ called' \subseteq Threads
      BY <1>1, ReentAssumption DEF Exit, TypeOK
    <2>4. TypeOK'
      BY <1>1, <2>1, <2>2, <2>3 DEF Exit, TypeOK, NotLooking, Look, loaderVars
    <2>5. \A n \in Nodes : node'[n].live /\ n \notin globals => n \in cut'
      BY <1>1 DEF Exit
    <2>6. NothingLeaks'
      BY <1>1, <2>5 DEF Exit, NothingLeaks
    <2> QED BY <1>1, <2>1, <2>4, <2>6 DEF Exit, CursorFollowsPhase, loaderVars
  <1>2. CASE ClearDone \/ KeepPlugins \/ StartApplication
    BY <1>2 DEF ClearDone, KeepPlugins, StartApplication, LoaderAt, TypeOK, CallsMakeSense,
                CursorFollowsPhase, NothingLeaks, loaderVars, threadVars, history
  <1>3. CASE Reboot
    <2>1. call' \in [Threads -> Call] /\ CallsMakeSense'
      BY <1>3, CallsCleared DEF Reboot
    <2>2. \A n \in Nodes : node'[n] \in NodeState /\ ~node'[n].live
      BY <1>3, FreedNode DEF Reboot
    <2>3. node' \in [Nodes -> NodeState]
      BY <1>3, <2>2 DEF Reboot
    <2>4. TypeOK'
      BY <1>3, <2>1, <2>3 DEF Reboot, TypeOK, NotLooking, Look
    <2> QED BY <1>3, <2>1, <2>2, <2>4 DEF Reboot, CursorFollowsPhase, NothingLeaks
  <1>4. ASSUME NEW n \in Nodes, ClearDangling(n) PROVE LeakInv'
    <2>1. node' \in [Nodes -> NodeState] /\ NothingLeaks'
      BY <1>4, Counted, FreedOne DEF ClearDangling, threadVars, history
    <2> QED BY <1>4, <2>1 DEF ClearDangling, LoaderAt, TypeOK, CallsMakeSense,
                              CursorFollowsPhase, loaderVars, threadVars, history
  <1>5. ASSUME NEW p \in Plugins, LoadPlugin(p) PROVE LeakInv'
    BY <1>5 DEF LoadPlugin, LoaderAt, TypeOK, CallsMakeSense,
                CursorFollowsPhase, NothingLeaks, loaderVars, threadVars, history
  <1> QED BY <1>1, <1>2, <1>3, <1>4, <1>5 DEF ApplicationCycle

LEMMA UnloadLeak ==
    ASSUME LeakInv, Unload
    PROVE  LeakInv'
  <1> USE DEF LeakInv
  <1>1. ASSUME NEW ps \in SUBSET loaded, HooksBegin(ps) PROVE LeakInv'
    BY <1>1, ReentAssumption
    DEF HooksBegin, LoaderAt, TypeOK, CallsMakeSense, CursorFollowsPhase, NothingLeaks,
        threadVars, history
  <1>2. CASE HooksEnd
    <2>1. callback' \in [Threads -> Callbacks] /\ UNCHANGED call
      BY <1>2 DEF HooksEnd, TypeOK
    <2> QED BY <1>2, <2>1 DEF HooksEnd, LoaderAt, TypeOK, CallsMakeSense,
                              CursorFollowsPhase, NothingLeaks, history
  <1>3. ASSUME NEW p \in Plugins, Scan(p) PROVE LeakInv'
    <2>1. list' \in [Threads -> Seq(Nodes)]
      <3>1. \A t \in Scanned(p) : t \in Threads /\ Staying(t, p) \in Seq(Nodes)
        BY StayingIsList DEF Scanned
      <3>2. list' = [t \in Threads |-> IF t \in Scanned(p) THEN Staying(t, p) ELSE list[t]]
        BY <1>3 DEF Scan
      <3> QED BY <3>1, <3>2 DEF TypeOK
    <2>2. \A t \in Threads : Carried(t, p) \in Callbacks
      <3> SUFFICES ASSUME NEW t \in Threads PROVE Carried(t, p) \in Callbacks
        OBVIOUS
      <3>1. CASE list[t] # <<>>
        <4>1. Head(list[t]) \in Nodes
          BY <3>1 DEF TypeOK
        <4> QED BY <4>1 DEF Carried, TypeOK, NodeState
      <3> QED BY <3>1 DEF Carried
    <2>3. node' \in [Nodes -> NodeState] /\ \A n \in Nodes : node'[n].live = node[n].live
      <3> DEFINE heir(n) == CHOOSE t \in Heirs(p) : n = Head(Staying(t, p))
                 f(n) == IF \E t \in Heirs(p) : n = Head(Staying(t, p))
                         THEN [node[n] EXCEPT !.saved = Carried(heir(n), p)]
                         ELSE node[n]
      <3>1. node' = [n \in Nodes |-> f(n)]
        BY <1>3 DEF Scan
      <3>2. ASSUME NEW n \in Nodes PROVE f(n) \in NodeState /\ f(n).live = node[n].live
        <4>1. node[n] \in NodeState
          BY DEF TypeOK
        <4>2. CASE \E t \in Heirs(p) : n = Head(Staying(t, p))
          <5>1. heir(n) \in Threads
            BY <4>2 DEF Heirs, Scanned
          <5>2. Carried(heir(n), p) \in Callbacks
            BY <5>1, <2>2
          <5> HIDE DEF heir
          <5>3. /\ [node[n] EXCEPT !.saved = Carried(heir(n), p)] \in NodeState
                /\ [node[n] EXCEPT !.saved = Carried(heir(n), p)].live = node[n].live
            BY <4>1, <5>2, NodeSaved
          <5> QED BY <4>2, <5>3
        <4> QED BY <4>1, <4>2
      <3> HIDE DEF f
      <3> QED BY <3>1, <3>2
    <2>4. pending' \in [Threads -> Callbacks]
      BY <1>3, <2>2 DEF Scan
    <2>5. deferred' \subseteq Nodes
      BY <1>3 DEF Scan, Of
    <2>6. p \in doomed /\ phase = "unloading"
      BY <1>3 DEF Scan, Visit, LoaderAt, TypeOK
    <2>7. TypeOK'
      BY <1>3, <2>1, <2>3, <2>4, <2>5, <2>6 DEF Scan, TypeOK, history
    <2>8. CallsMakeSense' /\ CursorFollowsPhase'
      BY <1>3, <2>6 DEF Scan, CallsMakeSense, CursorFollowsPhase
    <2>9. NothingLeaks'
      BY <1>3, <2>3 DEF Scan, NothingLeaks, history
    <2> QED BY <2>7, <2>8, <2>9
  <1>4. ASSUME NEW p \in Plugins, ScanTooMany(p) \/ ScanRaces(p) PROVE LeakInv'
    BY <1>4 DEF ScanTooMany, ScanRaces, TypeOK, CallsMakeSense, CursorFollowsPhase,
                NothingLeaks, loaderVars, threadVars, history
  <1>5. ASSUME NEW t \in Threads, RestoreCallback(t) PROVE LeakInv'
    BY <1>5 DEF RestoreCallback, TypeOK, CallsMakeSense, CursorFollowsPhase,
                NothingLeaks, history
  <1>6. ASSUME NEW n \in Nodes, FreeDeferred(n) PROVE LeakInv'
    <2>1. node' \in [Nodes -> NodeState] /\ NothingLeaks'
      BY <1>6, Counted, FreedOne DEF FreeDeferred, threadVars, history
    <2> QED BY <1>6, <2>1 DEF FreeDeferred, LoaderAt, TypeOK, CallsMakeSense,
                              CursorFollowsPhase, threadVars, history
  <1>7. CASE NextPlugin
    BY <1>7 DEF NextPlugin, LoaderAt, TypeOK, CallsMakeSense, CursorFollowsPhase,
                NothingLeaks, threadVars, history
  <1>8. CASE Unloaded
    BY <1>8 DEF Unloaded, LoaderAt, TypeOK, CallsMakeSense, CursorFollowsPhase,
                NothingLeaks, threadVars, history
  <1> QED BY <1>1, <1>2, <1>3, <1>4, <1>5, <1>6, <1>7, <1>8 DEF Unload

LEMMA StepLeak == LeakInv /\ LooksOut /\ [Next]_vars => LeakInv'
  <1> SUFFICES ASSUME LeakInv, LooksOut, [Next]_vars PROVE LeakInv'
    OBVIOUS
  <1>1. CASE Owner
    BY <1>1, OwnerLeak DEF Owner
  <1>2. CASE Register
    BY <1>2, RegisterLeak DEF Register
  <1>3. CASE ThreadCleanup
    BY <1>3, ThreadCleanupLeak DEF ThreadCleanup
  <1>4. CASE ApplicationCycle
    BY <1>4, CycleLeak
  <1>5. CASE Unload
    BY <1>5, UnloadLeak
  <1>6. CASE UNCHANGED vars
    BY <1>6 DEF vars, loaderVars, threadVars, history, LeakInv, TypeOK, CallsMakeSense,
                CursorFollowsPhase, NothingLeaks
  <1>7. CASE Looking
    BY <1>7, LookFrame DEF loaderVars, history, LeakInv, TypeOK, CallsMakeSense,
                           CursorFollowsPhase, NothingLeaks
  <1> QED BY <1>1, <1>2, <1>3, <1>4, <1>5, <1>6, <1>7 DEF Next

LEMMA InitOut == Init => LooksOut
  BY DEF Init, LooksOut, NotLooking

\* A step of one thread that does not look changes none that does.
LEMMA OutStays ==
    ASSUME LooksOut, NEW t \in Threads, look[t].plugin = NoPlugin, UNCHANGED look,
           \A u \in Threads \ {t} : call'[u] = call[u]
    PROVE  LooksOut'
  BY DEF LooksOut

LEMMA StepOut == LeakInv /\ LooksOut /\ [Next]_vars => LooksOut'
  <1> SUFFICES ASSUME LeakInv, LooksOut, [Next]_vars PROVE LooksOut'
    OBVIOUS
  <1>1. TypeOK
    BY DEF LeakInv
  <1>2. \A t \in Threads : call[t].at # "out" => look[t].plugin = NoPlugin
    BY DEF LooksOut
  <1>3. ASSUME NEW t \in Threads, CreateThread(t) \/ SetCallback(t) \/ EndThread(t)
        PROVE  LooksOut'
    <2>1. CASE CreateThread(t)
      BY <1>1, <1>2, <2>1, OutStays DEF CreateThread, Exists, TypeOK
    <2>2. CASE SetCallback(t)
      BY <2>2 DEF SetCallback, LooksOut
    <2>3. CASE EndThread(t)
      <3>1. look[t].plugin = NoPlugin /\ UNCHANGED look
        BY <2>3 DEF EndThread, NotLooking
      <3>2. \A u \in Threads \ {t} : call'[u] = call[u]
        BY <1>1, <2>3 DEF EndThread, Finish, TypeOK
      <3> QED BY <3>1, <3>2, OutStays
    <2> QED BY <1>3, <2>1, <2>2, <2>3
  <1>4. CASE Looking
    <2>1. UNCHANGED call
      BY <1>1, <1>4, LookFrame
    <2>2. ASSUME NEW t \in Threads, NEW p \in Plugins, LookBegin(t, p) PROVE LooksOut'
      <3>1. /\ look'[t].plugin = p /\ p # NoPlugin /\ call[t].at = "out"
            /\ \A u \in Threads \ {t} : look'[u] = look[u]
        BY <1>1, <2>2, ReentAssumption DEF LookBegin, TypeOK
      <3> QED BY <2>1, <3>1 DEF LooksOut
    <2>3. ASSUME NEW t \in Threads, LookNext(t) PROVE LooksOut'
      <3>1. /\ look[t].plugin # NoPlugin /\ look'[t].plugin = look[t].plugin
            /\ \A u \in Threads \ {t} : look'[u] = look[u]
        BY <1>1, <2>3 DEF LookNext, TypeOK, Look, LooksOut
      <3> QED BY <2>1, <3>1 DEF LooksOut
    <2>4. ASSUME NEW t \in Threads, LookEnd(t) PROVE LooksOut'
      BY <1>1, <2>1, <2>4 DEF LookEnd, LooksOut, NotLooking, TypeOK
    <2> QED BY <1>4, <2>2, <2>3, <2>4 DEF Looking
  <1>5. ASSUME NEW t \in Threads, NEW p \in Plugins, RegisterBegin(t, p) PROVE LooksOut'
    <2>1. /\ look'[t] = NotLooking /\ \A u \in Threads \ {t} : look'[u] = look[u]
          /\ \A u \in Threads \ {t} : call'[u] = call[u]
      BY <1>1, <1>5 DEF RegisterBegin, TypeOK
    <2> QED BY <2>1 DEF LooksOut, NotLooking
  <1>6. ASSUME NEW t \in Threads, RegisterCallback(t) \/ RegisterLink(t) \/ RegisterPublish(t)
        PROVE  LooksOut'
    BY <1>1, <1>2, <1>6, OutStays DEF RegisterCallback, RegisterLink, RegisterPublish, TypeOK
  <1>7. ASSUME NEW t \in Threads, CleanupCall(t) \/ CleanupFree(t) \/ CleanupEnd(t)
        PROVE  LooksOut'
    <2>1. look[t].plugin = NoPlugin /\ UNCHANGED look
      BY <1>2, <1>7 DEF CleanupCall, CleanupFree, CleanupEnd
    <2>2. \A u \in Threads \ {t} : call'[u] = call[u]
      BY <1>1, <1>7 DEF CleanupCall, CleanupFree, CleanupEnd, Finish, TypeOK
    <2> QED BY <2>1, <2>2, OutStays
  <1>8. CASE ApplicationCycle
    <2>1. CASE Exit \/ Reboot
      BY <2>1 DEF Exit, Reboot, LooksOut, NotLooking
    <2>2. CASE ~(Exit \/ Reboot)
      <3>1. UNCHANGED <<look, call>>
        BY <1>8, <2>2 DEF ApplicationCycle, ClearDone, KeepPlugins, StartApplication,
                          ClearDangling, LoadPlugin, threadVars
      <3> QED BY <3>1 DEF LooksOut
    <2> QED BY <2>1, <2>2
  <1>9. CASE Unload
    <2>1. UNCHANGED <<look, call>>
      BY <1>9 DEF Unload, HooksBegin, HooksEnd, Scan, ScanTooMany, ScanRaces, RestoreCallback,
                  FreeDeferred, NextPlugin, Unloaded, threadVars
    <2> QED BY <2>1 DEF LooksOut
  <1>10. CASE UNCHANGED vars
    BY <1>10 DEF vars, threadVars, LooksOut
  <1> QED BY <1>3, <1>4, <1>5, <1>6, <1>7, <1>8, <1>9, <1>10
          DEF Next, Owner, Register, ThreadCleanup

-----------------------------------------------------------------------------
\* The variables of reent.cpp and of the threads keep their types.
THEOREM ReentTypeCorrect == Spec => []TypeOK
  BY InitLeak, InitOut, StepLeak, StepOut, PTL DEF Spec, LeakInv

\* A node that no global list knows is being registered, or was when its
\* application exited: the loader forgets no other.
THEOREM LeaksNothing == Spec => []NothingLeaks
  BY InitLeak, InitOut, StepLeak, StepOut, PTL DEF Spec, LeakInv

-----------------------------------------------------------------------------
(* No pointer of ReentContexts dangles, for all threads, plugins, nodes    *)
(* and interleavings.  A node is reached by one thread at most; a node     *)
(* that waits to be freed is reached by none.                              *)

Holding == {"out", "callback", "link", "publish"}

\* The nodes that thread t still follows a pointer to.
Held(t) ==
    (IF call[t].at \in Holding THEN OnList(t) ELSE {})
        \cup ToSet(call[t].rest) \cup ({call[t].node} \ {NoNode})

OneHolder ==
    \A t \in Threads :
        /\ \A n \in Held(t) : node[n].live /\ n \notin copy \cup deferred
        /\ \A u \in Threads \ {t} : Held(t) \cap Held(u) = {}

\* A thread has one node per plugin; the one it registers is not on its list
\* yet; it visits no node twice.
Fits(t) ==
    /\ call[t].at \in Holding =>
          \A i, j \in 1..Len(list[t]) :
              node[list[t][i]].plugin = node[list[t][j]].plugin => i = j
    /\ call[t].at \in {"callback", "link"} =>
          \A i \in 1..Len(list[t]) :
              node[list[t][i]].plugin # node[call[t].node].plugin
    /\ \A i, j \in 1..Len(call[t].rest) : call[t].rest[i] = call[t].rest[j] => i = j
    /\ call[t].at \notin {"walk", "free"} => call[t].rest = <<>>

ListedOnce == \A t \in Threads : Fits(t)

\* The global lists share no node, and two of them are in use in one phase only.
GlobalsApart ==
    /\ \A n \in globals \cup copy \cup deferred : node[n].live
    /\ globals \cap copy = {}
    /\ copy # {} => phase = "between"
    /\ deferred # {} => phase = "unloading" /\ current # NoPlugin

OwnInv == LeakInv /\ OneHolder /\ ListedOnce /\ GlobalsApart

\* A thread that looks for a context is on its list, or past the end of it, and
\* has met none of its plugin.
Follows(t) ==
    look[t].plugin # NoPlugin =>
        \/ /\ look[t].curr = NoNode
           /\ \A j \in 1..Len(list[t]) : node[list[t][j]].plugin # look[t].plugin
        \/ \E i \in 1..Len(list[t]) :
              /\ list[t][i] = look[t].curr
              /\ \A j \in 1..(i - 1) : node[list[t][j]].plugin # look[t].plugin

LookInv == LooksOut /\ \A t \in Threads : Follows(t)

USE DEF Phases, Places, Callbacks, Holding

-----------------------------------------------------------------------------
(* What a thread holds                                                     *)

LEMMA InSeq ==
    ASSUME NEW s \in Seq(Nodes)
    PROVE  /\ \A n : n \in ToSet(s) <=> \E i \in 1..Len(s) : s[i] = n
           /\ ToSet(s) \subseteq Nodes
  BY DEF ToSet

LEMMA ThreadTypes ==
    ASSUME TypeOK, NEW t \in Threads
    PROVE  /\ list[t] \in Seq(Nodes) /\ call[t].rest \in Seq(Nodes)
           /\ call[t].node \in Nodes \cup {NoNode}
           /\ Held(t) \subseteq Nodes
  <1>1. /\ list[t] \in Seq(Nodes) /\ call[t].rest \in Seq(Nodes)
        /\ call[t].node \in Nodes \cup {NoNode}
    BY DEF TypeOK, Call
  <1> QED BY <1>1, InSeq DEF Held, OnList

\* A thread that a step does not touch, and whose nodes keep their plugins.
LEMMA FitsStay ==
    ASSUME TypeOK, CallsMakeSense, NEW t \in Threads, Fits(t),
           call'[t] = call[t], list'[t] = list[t],
           \A n \in Held(t) : node'[n].plugin = node[n].plugin
    PROVE  Fits(t)' /\ Held(t)' = Held(t)
  <1>1. Held(t)' = Held(t)
    BY DEF Held, OnList
  <1>2. call[t].at \in Holding => \A i \in 1..Len(list[t]) : list[t][i] \in Held(t)
    BY ThreadTypes, InSeq DEF Held, OnList
  <1>3. call[t].node # NoNode => call[t].node \in Held(t)
    BY DEF Held
  <1>4. call[t].at \in Holding =>
          \A i \in 1..Len(list[t]) : node'[list[t][i]].plugin = node[list[t][i]].plugin
    BY <1>2
  <1>5. call[t].node # NoNode => node'[call[t].node].plugin = node[call[t].node].plugin
    BY <1>3
  <1>6. call[t].at \in {"callback", "link"} => call[t].node # NoNode
    BY DEF CallsMakeSense
  <1>7. Fits(t)'
    BY <1>4, <1>5, <1>6 DEF Fits
  <1> QED BY <1>1, <1>7

\* A step of one thread t: what t holds afterwards it held before, or is new.
LEMMA OneThread ==
    ASSUME OwnInv, NEW t \in Threads,
           \A u \in Threads \ {t} : call'[u] = call[u] /\ list'[u] = list[u],
           \A u \in Threads \ {t} : \A n \in Held(u) :
               node'[n].live = node[n].live /\ node'[n].plugin = node[n].plugin,
           Held(t)' \subseteq Nodes,
           \A n \in Held(t)' : node'[n].live /\ (n \in Held(t) \/ ~node[n].live),
           UNCHANGED <<copy, deferred>>,
           Fits(t)'
    PROVE  OneHolder' /\ ListedOnce'
  <1>1. \A u \in Threads \ {t} : Fits(u)' /\ Held(u)' = Held(u)
    BY FitsStay DEF OwnInv, LeakInv, ListedOnce
  <1>2. ListedOnce'
    BY <1>1 DEF ListedOnce
  <1>3. \A n \in copy \cup deferred : node[n].live
    BY DEF OwnInv, GlobalsApart
  <1>4. \A u \in Threads \ {t} : Held(t)' \cap Held(u)' = {}
    BY <1>1 DEF OwnInv, OneHolder
  <1>5. \A n \in Held(t)' : node'[n].live /\ n \notin copy' \cup deferred'
    BY <1>3 DEF OwnInv, OneHolder
  <1>6. \A u \in Threads \ {t} : \A n \in Held(u)' : node'[n].live /\ n \notin copy' \cup deferred'
    BY <1>1 DEF OwnInv, OneHolder
  <1>7. \A u, v \in Threads \ {t} : u # v => Held(u)' \cap Held(v)' = {}
    BY <1>1 DEF OwnInv, OneHolder
  <1>8. OneHolder'
    BY <1>4, <1>5, <1>6, <1>7 DEF OneHolder
  <1> QED BY <1>2, <1>8

\* A step of the loader that touches no thread and no node held by one.
LEMMA NoThread ==
    ASSUME OwnInv, UNCHANGED <<list, call>>,
           \A t \in Threads : \A n \in Held(t) :
               node'[n].live = node[n].live /\ node'[n].plugin = node[n].plugin,
           copy' \subseteq copy, deferred' \subseteq deferred
    PROVE  OneHolder' /\ ListedOnce'
  <1>1. \A t \in Threads : Fits(t)' /\ Held(t)' = Held(t)
    BY FitsStay DEF OwnInv, LeakInv, ListedOnce
  <1> QED BY <1>1 DEF OwnInv, OneHolder, ListedOnce

\* All threads but the loader's are gone, and that one holds nothing.
LEMMA NothingHeld ==
    ASSUME list' = [t \in Threads |-> <<>>],
           call' = [t \in Threads |-> Idle(IF t = Loader THEN "out" ELSE "no")]
    PROVE  OneHolder' /\ ListedOnce'
  <1>1. \A t \in Threads :
          /\ call'[t].rest = <<>> /\ call'[t].node = NoNode /\ call'[t].at \in {"out", "no"}
          /\ list'[t] = <<>>
    BY IdleCall
  <1>2. ToSet(<<>>) = {}
    BY DEF ToSet
  <1>3. \A t \in Threads : Held(t)' = {}
    BY <1>1, <1>2 DEF Held, OnList
  <1>4. \A t \in Threads : Fits(t)'
    BY <1>1 DEF Fits
  <1> QED BY <1>3, <1>4 DEF OneHolder, ListedOnce

LEMMA GlobalsStay ==
    ASSUME OwnInv, \A n \in Nodes : node'[n].live = node[n].live,
           UNCHANGED <<phase, current, globals, copy, deferred>>
    PROVE  GlobalsApart'
  BY DEF OwnInv, LeakInv, TypeOK, GlobalsApart

-----------------------------------------------------------------------------
(* One lemma per group of actions.                                         *)

LEMMA FinishHolds ==
    ASSUME OwnInv, NEW t \in Threads, NEW cb, Finish(t, cb),
           \/ call[t].at = "out" /\ list' = list
           \/ list' = [list EXCEPT ![t] = <<>>]
    PROVE  /\ \A u \in Threads \ {t} : call'[u] = call[u] /\ list'[u] = list[u]
           /\ Held(t)' \subseteq Held(t) /\ Fits(t)'
  <1>1. /\ call \in [Threads -> Call] /\ list \in [Threads -> Seq(Nodes)]
    BY DEF OwnInv, LeakInv, TypeOK
  <1>2. CASE cb = "wups" /\ list'[t] # <<>>
    <2>1. call[t].at = "out" /\ list' = list
      BY <1>1, <1>2
    <2>2. call' = [call EXCEPT ![t] = [at |-> "walk", node |-> NoNode, rest |-> list[t],
                                       then |-> node[Head(list[t])].saved]]
      BY <1>2, <2>1 DEF Finish
    <2>3. call'[t].at = "walk" /\ call'[t].node = NoNode /\ call'[t].rest = list[t]
      BY <1>1, <2>2
    <2>4. Held(t)' \subseteq Held(t)
      BY <2>1, <2>3 DEF Held, OnList
    <2>5. \A i, j \in 1..Len(list[t]) : list[t][i] = list[t][j] => i = j
      BY <2>1 DEF OwnInv, ListedOnce, Fits
    <2> QED BY <1>1, <2>1, <2>2, <2>3, <2>4, <2>5 DEF Fits
  <1>3. CASE ~(cb = "wups" /\ list'[t] # <<>>)
    <2>1. call' = [call EXCEPT ![t] = Idle("ended")]
      BY <1>3 DEF Finish
    <2>2. call'[t].at = "ended" /\ call'[t].node = NoNode /\ call'[t].rest = <<>>
      BY <1>1, <2>1, IdleCall
    <2>3. ToSet(<<>>) = {}
      BY DEF ToSet
    <2> QED BY <1>1, <2>1, <2>2, <2>3 DEF Held, Fits
  <1> QED BY <1>2, <1>3

LEMMA OwnerOwn ==
    ASSUME OwnInv, NEW t \in Threads, CreateThread(t) \/ SetCallback(t) \/ EndThread(t)
    PROVE  OneHolder' /\ ListedOnce' /\ GlobalsApart'
  <1>1. \A n \in Held(t) : node[n].live
    BY DEF OwnInv, OneHolder
  <1>2. Held(t) \subseteq Nodes
    BY ThreadTypes DEF OwnInv, LeakInv
  <1>3. GlobalsApart'
    BY GlobalsStay DEF CreateThread, SetCallback, EndThread, loaderVars
  <1>4. UNCHANGED <<node, copy, deferred>>
    BY DEF CreateThread, SetCallback, EndThread, loaderVars
  <1>5. CASE CreateThread(t)
    <2>1. /\ \A u \in Threads \ {t} : call'[u] = call[u] /\ list'[u] = list[u]
          /\ call'[t] = Idle("out") /\ list'[t] = <<>>
      BY <1>5 DEF CreateThread, OwnInv, LeakInv, TypeOK
    <2>2. ToSet(<<>>) = {}
      BY DEF ToSet
    <2>3. Held(t)' = {} /\ Fits(t)'
      BY <2>1, <2>2, IdleCall DEF Held, OnList, Fits
    <2> QED BY <1>3, <1>4, <2>1, <2>3, OneThread
  <1>6. CASE SetCallback(t)
    <2>1. UNCHANGED <<list, call>>
      BY <1>6 DEF SetCallback
    <2> QED BY <1>3, <1>4, <2>1, NoThread
  <1>7. CASE EndThread(t)
    <2>1. /\ \A u \in Threads \ {t} : call'[u] = call[u] /\ list'[u] = list[u]
          /\ Held(t)' \subseteq Held(t) /\ Fits(t)'
      BY <1>7, FinishHolds DEF EndThread
    <2> QED BY <1>1, <1>2, <1>3, <1>4, <2>1, OneThread
  <1> QED BY <1>5, <1>6, <1>7

\* A thread that registers a context looked through its list for one.
LEMMA LookedFor ==
    ASSUME OwnInv, LookInv, NEW t \in Threads, NEW p \in Plugins, RegisterBegin(t, p)
    PROVE  call[t].at = "out" /\ \A n \in OnList(t) : node[n].plugin # p
  <1>1. look[t].plugin = p /\ p # NoPlugin /\ look[t].curr = NoNode
    BY ReentAssumption DEF RegisterBegin
  <1>2. list[t] \in Seq(Nodes) /\ \A j \in 1..Len(list[t]) : list[t][j] \in Nodes
    BY ThreadTypes DEF OwnInv, LeakInv
  <1>3. \A j \in 1..Len(list[t]) : node[list[t][j]].plugin # p
    BY <1>1, <1>2, ReentAssumption DEF LookInv, Follows
  <1>4. \A n \in OnList(t) : node[n].plugin # p
    BY <1>2, <1>3, InSeq DEF OnList
  <1> QED BY <1>1, <1>4 DEF LookInv, LooksOut

LEMMA RegisterOwn ==
    ASSUME OwnInv, LookInv, NEW t \in Threads,
           \/ \E p \in Plugins : RegisterBegin(t, p)
           \/ RegisterCallback(t) \/ RegisterLink(t) \/ RegisterPublish(t)
    PROVE  OneHolder' /\ ListedOnce' /\ GlobalsApart'
  <1> DEFINE s == list[t]
             m == call[t].node
  <1>1. /\ call \in [Threads -> Call] /\ list \in [Threads -> Seq(Nodes)]
        /\ node \in [Nodes -> NodeState] /\ s \in Seq(Nodes)
        /\ m \in Nodes \cup {NoNode} /\ Held(t) \subseteq Nodes
    BY ThreadTypes DEF OwnInv, LeakInv, TypeOK
  <1>2. /\ \A n \in Held(t) : node[n].live /\ n \notin copy
        /\ Fits(t)
    BY DEF OwnInv, OneHolder, ListedOnce
  <1>3. \A n \in ToSet(s) : \E i \in 1..Len(s) : s[i] = n
    BY <1>1, InSeq
  <1>4. \A i \in 1..Len(s) : s[i] \in ToSet(s) /\ s[i] \in Nodes
    BY <1>1, InSeq
  <1>5. ASSUME NEW p \in Plugins, RegisterBegin(t, p)
        PROVE  OneHolder' /\ ListedOnce' /\ GlobalsApart'
    <2>1. PICK n \in Nodes :
            /\ ~node[n].live
            /\ node' = [node EXCEPT ![n] = [live |-> TRUE, plugin |-> p,
                                            saved |-> "none", cleaned |-> 0]]
            /\ call' = [call EXCEPT ![t] = [Idle("callback") EXCEPT !.node = n]]
      BY <1>5 DEF RegisterBegin
    <2>2. /\ call'[t].at = "callback" /\ call'[t].node = n /\ call'[t].rest = <<>>
          /\ \A u \in Threads \ {t} : call'[u] = call[u]
      BY <1>1, <2>1 DEF Idle
    <2>3. /\ node'[n].live /\ node'[n].plugin = p
          /\ \A k \in Nodes \ {n} : node'[k] = node[k]
      BY <1>1, <2>1
    <2>4. UNCHANGED <<phase, list, current, deferred, copy, globals>>
      BY <1>5 DEF RegisterBegin, loaderVars
    <2>5. call[t].at = "out"
      BY <1>5, LookedFor
    <2>6. ToSet(s) \subseteq Held(t) /\ n \notin ToSet(s)
      BY <1>2, <2>1, <2>5 DEF Held, OnList
    <2>7. Held(t)' \subseteq Held(t) \cup {n}
      <3>1. ToSet(<<>>) = {}
        BY DEF ToSet
      <3> QED BY <2>2, <2>4, <2>5, <3>1 DEF Held, OnList
    <2>8. \A u \in Threads : \A k \in Held(u) : k \in Nodes /\ k # n
      BY <2>1, ThreadTypes DEF OwnInv, OneHolder, LeakInv
    <2>9. Fits(t)'
      <3>1. \A k \in OnList(t) : node[k].plugin # p
        BY <1>5, LookedFor
      <3>2. \A i \in 1..Len(s) : node[s[i]].plugin # p /\ node'[s[i]] = node[s[i]]
        BY <1>4, <2>3, <2>6, <3>1 DEF OnList
      <3> QED BY <1>2, <2>2, <2>3, <2>4, <2>5, <3>2 DEF Fits
    <2>10. OneHolder' /\ ListedOnce'
      <3>1. Held(t)' \subseteq Nodes
        BY <1>1, <2>7
      <3>2. \A u \in Threads \ {t} : \A k \in Held(u) :
               node'[k].live = node[k].live /\ node'[k].plugin = node[k].plugin
        BY <2>3, <2>8
      <3>3. \A k \in Held(t)' : node'[k].live /\ (k \in Held(t) \/ ~node[k].live)
        BY <1>1, <1>2, <2>1, <2>3, <2>7
      <3> QED BY <2>2, <2>4, <2>9, <3>1, <3>2, <3>3, OneThread
    <2>11. GlobalsApart'
      <3>1. \A k \in Nodes : node[k].live => node'[k].live
        BY <2>3
      <3> QED BY <2>4, <3>1 DEF OwnInv, LeakInv, TypeOK, GlobalsApart
    <2> QED BY <2>10, <2>11
  <1>6. CASE RegisterCallback(t)
    <2>1. /\ call[t].at = "callback" /\ m \in Nodes
          /\ call' = [call EXCEPT ![t].at = "link"]
          /\ UNCHANGED <<phase, list, current, deferred, copy, globals>>
      BY <1>1, <1>6 DEF RegisterCallback, loaderVars, OwnInv, LeakInv, CallsMakeSense
    <2>2. /\ call'[t].at = "link" /\ call'[t].node = m /\ call'[t].rest = call[t].rest
          /\ \A u \in Threads \ {t} : call'[u] = call[u]
      BY <1>1, <2>1 DEF Call
    <2>3. \A k \in Nodes : node'[k].live = node[k].live /\ node'[k].plugin = node[k].plugin
      <3>1. CASE s = <<>>
        <4>1. node' = [node EXCEPT ![m].saved = callback[t]]
          BY <1>6, <3>1 DEF RegisterCallback
        <4> QED BY <1>1, <2>1, <4>1 DEF NodeState
      <3>2. CASE s # <<>>
        <4>1. Head(s) \in Nodes
          BY <1>1, <3>2
        <4> DEFINE mid == [node EXCEPT ![m].saved = node[Head(s)].saved]
        <4>2. node' = [mid EXCEPT ![Head(s)].saved = "none"]
          BY <1>6, <3>2 DEF RegisterCallback
        <4>3. mid \in [Nodes -> NodeState]
              /\ \A k \in Nodes : mid[k].live = node[k].live /\ mid[k].plugin = node[k].plugin
          BY <1>1, <2>1, <4>1 DEF NodeState
        <4> HIDE DEF mid
        <4> QED BY <4>1, <4>2, <4>3 DEF NodeState
      <3> QED BY <3>1, <3>2
    <2>4. Held(t)' = Held(t)
      BY <2>1, <2>2 DEF Held, OnList
    <2>5. Fits(t)'
      BY <1>2, <1>4, <2>1, <2>2, <2>3 DEF Fits
    <2>6. OneHolder' /\ ListedOnce'
      <3>1. \A u \in Threads : Held(u) \subseteq Nodes
        BY ThreadTypes DEF OwnInv, LeakInv
      <3> QED BY <1>1, <1>2, <2>1, <2>2, <2>3, <2>4, <2>5, <3>1, OneThread
    <2> QED BY <2>1, <2>3, <2>6, GlobalsStay
  <1>7. CASE RegisterLink(t)
    <2>1. /\ call[t].at = "link" /\ m \in Nodes
          /\ call' = [call EXCEPT ![t].at = "publish"]
          /\ list' = [list EXCEPT ![t] = <<m>> \o s]
          /\ UNCHANGED <<phase, node, current, deferred, copy, globals>>
      BY <1>1, <1>7 DEF RegisterLink, loaderVars, OwnInv, LeakInv, CallsMakeSense
    <2>2. /\ call'[t].at = "publish" /\ call'[t].node = m /\ call'[t].rest = call[t].rest
          /\ \A u \in Threads \ {t} : call'[u] = call[u] /\ list'[u] = list[u]
          /\ list'[t] = <<m>> \o s
      BY <1>1, <2>1 DEF Call
    <2>3. /\ <<m>> \o s \in Seq(Nodes) /\ Len(<<m>> \o s) = Len(s) + 1
          /\ \A i \in 1..(Len(s) + 1) : (<<m>> \o s)[i] = IF i = 1 THEN m ELSE s[i - 1]
      BY <1>1, <2>1
    <2>4. Held(t)' \subseteq Held(t)
      <3>1. ToSet(<<m>> \o s) \subseteq ToSet(s) \cup {m}
        <4>1. \A k \in ToSet(<<m>> \o s) : \E i \in 1..(Len(s) + 1) : (<<m>> \o s)[i] = k
          <5> DEFINE q == <<m>> \o s
          <5>1. q \in Seq(Nodes) /\ Len(q) = Len(s) + 1
            BY <2>3
          <5> HIDE DEF q
          <5>2. \A k \in ToSet(q) : \E i \in 1..Len(q) : q[i] = k
            BY <5>1, InSeq
          <5> QED BY <5>1, <5>2 DEF q
        <4> QED BY <1>4, <2>3, <4>1
      <3> QED BY <2>1, <2>2, <3>1, ReentAssumption DEF Held, OnList
    <2>5. Fits(t)'
      <3> DEFINE r == <<m>> \o s
      <3>1. ASSUME NEW i \in 1..Len(r), NEW j \in 1..Len(r), node[r[i]].plugin = node[r[j]].plugin
            PROVE  i = j
        <4>1. i = 1 \/ (i - 1 \in 1..Len(s) /\ r[i] = s[i - 1])
          BY <2>3
        <4>2. j = 1 \/ (j - 1 \in 1..Len(s) /\ r[j] = s[j - 1])
          BY <2>3
        <4>3. r[1] = m
          BY <2>3
        <4> HIDE DEF r
        <4>4. /\ \A k \in 1..Len(s) : node[s[k]].plugin # node[m].plugin
              /\ \A k, l \in 1..Len(s) : node[s[k]].plugin = node[s[l]].plugin => k = l
          BY <1>2, <2>1 DEF Fits
        <4>5. CASE i = 1
          BY <3>1, <4>2, <4>3, <4>4, <4>5
        <4>6. CASE j = 1
          BY <3>1, <4>1, <4>3, <4>4, <4>6
        <4>7. CASE i # 1 /\ j # 1
          <5>1. i - 1 = j - 1
            BY <3>1, <4>1, <4>2, <4>4, <4>7
          <5>2. i \in Int /\ j \in Int
            BY <2>3, <4>7, <4>1, <4>2
          <5> QED BY <5>1, <5>2
        <4> QED BY <4>5, <4>6, <4>7
      <3> HIDE DEF r
      <3> QED BY <1>2, <2>1, <2>2, <3>1 DEF Fits, r
    <2>6. OneHolder' /\ ListedOnce'
      BY <1>1, <1>2, <2>1, <2>2, <2>4, <2>5, OneThread
    <2> QED BY <2>1, <2>6, GlobalsStay
  <1>8. CASE RegisterPublish(t)
    <2>1. /\ call[t].at = "publish" /\ m \in Nodes
          /\ call' = [call EXCEPT ![t] = Idle("out")]
          /\ globals' = globals \cup {m}
          /\ UNCHANGED <<phase, list, node, current, deferred, copy>>
      BY <1>1, <1>8 DEF RegisterPublish, loaderVars, OwnInv, LeakInv, CallsMakeSense
    <2>2. /\ call'[t].at = "out" /\ call'[t].node = NoNode /\ call'[t].rest = <<>>
          /\ \A u \in Threads \ {t} : call'[u] = call[u]
      BY <1>1, <2>1, IdleCall
    <2>3. Held(t)' \subseteq Held(t)
      <3>1. ToSet(<<>>) = {}
        BY DEF ToSet
      <3> QED BY <2>1, <2>2, <3>1 DEF Held, OnList
    <2>4. Fits(t)'
      BY <1>2, <2>1, <2>2 DEF Fits
    <2>5. OneHolder' /\ ListedOnce'
      BY <1>1, <1>2, <2>1, <2>2, <2>3, <2>4, OneThread
    <2>6. m \in Held(t)
      BY <2>1, ReentAssumption DEF Held
    <2>7. GlobalsApart'
      BY <1>2, <2>1, <2>6 DEF OwnInv, GlobalsApart
    <2> QED BY <2>5, <2>7
  <1> QED BY <1>5, <1>6, <1>7, <1>8

\* A node nobody holds, and that no other list knows, may be freed.
LEMMA FreeUnheld ==
    ASSUME OwnInv, NEW n \in Nodes, NEW count,
           node' = [node EXCEPT ![n] = FreeNode(count)],
           globals' = globals \ {n}, copy' \subseteq copy \ {n}, deferred' \subseteq deferred \ {n},
           UNCHANGED <<phase, current>>
    PROVE  GlobalsApart'
  <1>1. \A k \in Nodes \ {n} : node'[k] = node[k]
    BY DEF OwnInv, LeakInv, TypeOK
  <1>2. globals \cup copy \cup deferred \subseteq Nodes
    BY DEF OwnInv, LeakInv, TypeOK
  <1> QED BY <1>1, <1>2 DEF OwnInv, GlobalsApart

LEMMA ThreadCleanupOwn ==
    ASSUME OwnInv, NEW t \in Threads, CleanupCall(t) \/ CleanupFree(t) \/ CleanupEnd(t)
    PROVE  OneHolder' /\ ListedOnce' /\ GlobalsApart'
  <1> DEFINE r == call[t].rest
             n == Head(r)
  <1>1. /\ call \in [Threads -> Call] /\ node \in [Nodes -> NodeState] /\ r \in Seq(Nodes)
        /\ \A u \in Threads : Held(u) \subseteq Nodes
    BY ThreadTypes DEF OwnInv, LeakInv, TypeOK
  <1>2. /\ \A k \in Held(t) : node[k].live /\ k \notin copy \cup deferred
        /\ \A u \in Threads \ {t} : Held(t) \cap Held(u) = {}
        /\ Fits(t)
    BY DEF OwnInv, OneHolder, ListedOnce
  <1>3. call[t].at \in {"walk", "free"} => Held(t) = ToSet(r)
    BY DEF Held, OwnInv, LeakInv, CallsMakeSense
  <1>4. CASE CleanupCall(t)
    <2>1. /\ call[t].at = "walk" /\ n \in Nodes
          /\ node' = [node EXCEPT ![n].cleaned = Count(n)]
          /\ call' = [call EXCEPT ![t].at = "free"]
          /\ UNCHANGED <<phase, list, globals, copy, current, deferred>>
      BY <1>1, <1>4 DEF CleanupCall, loaderVars
    <2> HIDE DEF n
    <2>2. /\ call'[t].at = "free" /\ call'[t].node = call[t].node /\ call'[t].rest = r
          /\ \A u \in Threads \ {t} : call'[u] = call[u]
      BY <1>1, <2>1 DEF Call
    <2>3. \A k \in Nodes : node'[k].live = node[k].live /\ node'[k].plugin = node[k].plugin
      BY <1>1, <2>1 DEF NodeState
    <2>4. Held(t)' = Held(t) /\ Fits(t)'
      BY <1>2, <2>1, <2>2 DEF Held, Fits
    <2>5. OneHolder' /\ ListedOnce'
      BY <1>1, <1>2, <2>1, <2>2, <2>3, <2>4, OneThread
    <2> QED BY <2>1, <2>3, <2>5, GlobalsStay
  <1>5. CASE CleanupFree(t)
    <2>1. /\ call[t].at = "free" /\ r # <<>> /\ n \in Nodes
          /\ node' = [node EXCEPT ![n] = FreeNode(node[n].cleaned)]
          /\ call' = [call EXCEPT ![t].at = "walk", ![t].rest = Tail(r)]
          /\ globals' = globals \ {n}
          /\ UNCHANGED <<phase, list, copy, current, deferred>>
      BY <1>1, <1>5 DEF CleanupFree, loaderVars, OwnInv, LeakInv, CallsMakeSense
    <2>2. /\ call'[t].at = "walk" /\ call'[t].node = call[t].node /\ call'[t].rest = Tail(r)
          /\ \A u \in Threads \ {t} : call'[u] = call[u]
      BY <1>1, <2>1 DEF Call
    <2>3. /\ Tail(r) \in Seq(Nodes) /\ Len(Tail(r)) = Len(r) - 1 /\ Len(r) \in Nat \ {0}
          /\ \A i \in 1..Len(Tail(r)) : Tail(r)[i] = r[i + 1] /\ i + 1 \in 1..Len(r)
          /\ r[1] = n
      BY <1>1, <2>1
    <2>4. /\ \A i, j \in 1..Len(r) : r[i] = r[j] => i = j
          /\ \A i \in 1..Len(r) : r[i] \in ToSet(r)
      BY <1>1, <1>2, InSeq DEF Fits
    <2> HIDE DEF n, r
    <2>5. \A i \in 1..Len(Tail(r)) : Tail(r)[i] \in ToSet(r) \ {n}
      BY <2>3, <2>4
    <2>6. Held(t)' \subseteq Held(t) \ {n}
      <3>1. ToSet(Tail(r)) \subseteq ToSet(r) \ {n}
        <4> DEFINE q == Tail(r)
        <4>1. q \in Seq(Nodes)
          BY <2>3
        <4> HIDE DEF q
        <4>2. \A k \in ToSet(q) : \E i \in 1..Len(q) : q[i] = k
          BY <4>1, InSeq
        <4> QED BY <2>5, <4>2 DEF q
      <3>2. call[t].node = NoNode
        BY <2>1 DEF OwnInv, LeakInv, CallsMakeSense
      <3> QED BY <1>3, <2>1, <2>2, <3>1, <3>2 DEF Held
    <2>7. Fits(t)'
      <3>1. \A i, j \in 1..Len(Tail(r)) : Tail(r)[i] = Tail(r)[j] => i = j
        BY <2>3, <2>4
      <3> QED BY <2>2, <3>1 DEF Fits
    <2>8. n \in Held(t)
      BY <1>3, <2>1, <2>3, <2>4
    <2>9. \A k \in Nodes \ {n} : node'[k] = node[k]
      BY <1>1, <2>1
    <2>10. OneHolder' /\ ListedOnce'
      <3>1. \A u \in Threads \ {t} : \A k \in Held(u) : node'[k] = node[k]
        BY <1>1, <1>2, <2>8, <2>9
      <3>2. \A k \in Held(t)' : node'[k].live /\ k \in Held(t)
        BY <1>1, <1>2, <2>6, <2>9
      <3>3. Held(t)' \subseteq Nodes
        BY <1>1, <2>6
      <3>4. \A u \in Threads \ {t} : call'[u] = call[u] /\ list'[u] = list[u]
        BY <2>1, <2>2
      <3> QED BY <2>1, <2>7, <3>1, <3>2, <3>3, <3>4, OneThread
    <2>11. n \notin copy \cup deferred
      BY <1>2, <2>8
    <2> QED BY <2>1, <2>10, <2>11, FreeUnheld
  <1>6. CASE CleanupEnd(t)
    <2>1. /\ list' = [list EXCEPT ![t] = <<>>]
          /\ Finish(t, call[t].then)
          /\ UNCHANGED <<phase, node, globals, copy, current, deferred>>
      BY <1>6 DEF CleanupEnd, loaderVars
    <2>2. /\ \A u \in Threads \ {t} : call'[u] = call[u] /\ list'[u] = list[u]
          /\ Held(t)' \subseteq Held(t) /\ Fits(t)'
      BY <2>1, FinishHolds
    <2>3. OneHolder' /\ ListedOnce'
      BY <1>1, <1>2, <2>1, <2>2, OneThread
    <2> QED BY <2>1, <2>3, GlobalsStay
  <1> QED BY <1>4, <1>5, <1>6

LEMMA CycleOwn ==
    ASSUME OwnInv, ApplicationCycle
    PROVE  OneHolder' /\ ListedOnce' /\ GlobalsApart'
  <1>1. CASE Exit
    <2>1. OneHolder' /\ ListedOnce'
      BY <1>1, NothingHeld DEF Exit
    <2>2. deferred = {}
      BY <1>1 DEF Exit, OwnInv, GlobalsApart
    <2> QED BY <1>1, <2>1, <2>2 DEF Exit, loaderVars, OwnInv, GlobalsApart
  <1>2. CASE ClearDone \/ KeepPlugins \/ StartApplication \/ \E p \in Plugins : LoadPlugin(p)
    <2>1. UNCHANGED <<list, call, node, globals, copy, deferred, current>>
      BY <1>2 DEF ClearDone, KeepPlugins, StartApplication, LoadPlugin, loaderVars, threadVars
    <2>2. OneHolder' /\ ListedOnce'
      BY <2>1, NoThread
    <2> QED BY <1>2, <2>1, <2>2 DEF ClearDone, KeepPlugins, StartApplication, LoadPlugin,
                                    LoaderAt, OwnInv, GlobalsApart
  <1>3. CASE Reboot
    <2>1. OneHolder' /\ ListedOnce'
      BY <1>3, NothingHeld DEF Reboot
    <2> QED BY <1>3, <2>1 DEF Reboot, GlobalsApart
  <1>4. ASSUME NEW n \in Nodes, ClearDangling(n)
        PROVE  OneHolder' /\ ListedOnce' /\ GlobalsApart'
    <2>1. /\ phase = "between" /\ n \in copy /\ copy' = copy \ {n}
          /\ node' = [node EXCEPT ![n] = FreeNode(Count(n))]
          /\ UNCHANGED <<phase, list, call, globals, current, deferred>>
      BY <1>4 DEF ClearDangling, LoaderAt, loaderVars, threadVars
    <2>2. \A k \in Nodes \ {n} : node'[k] = node[k]
      BY <2>1 DEF OwnInv, LeakInv, TypeOK
    <2>3. \A t \in Threads : \A k \in Held(t) : k \in Nodes \ {n}
      BY <2>1, ThreadTypes DEF OwnInv, LeakInv, OneHolder
    <2>4. OneHolder' /\ ListedOnce'
      BY <2>1, <2>2, <2>3, NoThread
    <2>5. n \notin globals /\ deferred = {}
      BY <2>1 DEF OwnInv, GlobalsApart
    <2> QED BY <2>1, <2>4, <2>5, FreeUnheld
  <1> QED BY <1>1, <1>2, <1>3, <1>4 DEF ApplicationCycle

-----------------------------------------------------------------------------
(* Scan: nothing a thread holds afterwards is a node of the plugin.        *)

LEMMA StayingElements ==
    ASSUME TypeOK, NEW t \in Threads, NEW p, OnList(t) \cap Of(p) # {}
    PROVE  /\ Staying(t, p) \in Seq(Nodes)
           /\ \E d \in 1..Len(list[t]) :
                 /\ list[t][d] \in Of(p)
                 /\ Len(Staying(t, p)) = Len(list[t]) - 1
                 /\ \A i \in 1..Len(Staying(t, p)) :
                       Staying(t, p)[i] = IF i < d THEN list[t][i] ELSE list[t][i + 1]
  <1> DEFINE s == list[t]
             d == CHOOSE i \in DOMAIN s : s[i] \in Of(p)
             r == Staying(t, p)
  <1>1. s \in Seq(Nodes) /\ \A i \in 1..Len(s) : s[i] \in Nodes /\ s[i] \in OnList(t)
    BY ThreadTypes, InSeq DEF OnList
  <1>2. d \in 1..Len(s) /\ s[d] \in Of(p)
    BY <1>1 DEF OnList, ToSet
  <1>3. r = SubSeq(s, 1, d - 1) \o SubSeq(s, d + 1, Len(s))
    BY DEF Staying, RemoveAt
  <1>4. r \in Seq(Nodes)
    BY StayingIsList
  <1> HIDE DEF d
  <1>5. /\ SubSeq(s, 1, d - 1) \in Seq(Nodes) /\ Len(SubSeq(s, 1, d - 1)) = d - 1
        /\ \A i \in 1..(d - 1) : SubSeq(s, 1, d - 1)[i] = s[i]
    <2>1. d - 1 \in 0..Len(s) /\ \A i \in 1..(d - 1) : s[i] \in Nodes
      BY <1>1, <1>2
    <2> QED BY <1>1, <2>1, SubSeqProperties
  <1>6. /\ SubSeq(s, d + 1, Len(s)) \in Seq(Nodes) /\ Len(SubSeq(s, d + 1, Len(s))) = Len(s) - d
        /\ \A i \in 1..(Len(s) - d) : SubSeq(s, d + 1, Len(s))[i] = s[d + i]
    <2>1. \A i \in (d + 1)..Len(s) : s[i] \in Nodes
      BY <1>1, <1>2
    <2> QED BY <1>1, <1>2, <2>1, SubSeqProperties
  <1>7. /\ Len(r) = Len(s) - 1
        /\ \A i \in 1..Len(r) : r[i] = IF i < d THEN s[i] ELSE s[i + 1]
    <2> HIDE DEF r, s
    <2>1. Len(r) = (d - 1) + (Len(s) - d)
      BY <1>3, <1>5, <1>6, ConcatProperties
    <2>2. Len(s) \in Nat /\ d \in 1..Len(s)
      BY <1>1, <1>2
    <2>3. ASSUME NEW i \in 1..Len(r) PROVE r[i] = IF i < d THEN s[i] ELSE s[i + 1]
      <3>1. CASE i < d
        BY <1>3, <1>5, <1>6, <2>1, <2>2, <3>1, ConcatProperties
      <3>2. CASE ~(i < d)
        <4>1. i - (d - 1) \in 1..(Len(s) - d) /\ d + (i - (d - 1)) = i + 1
          BY <2>1, <2>2, <2>3, <3>2
        <4>2. r[i] = SubSeq(s, d + 1, Len(s))[i - (d - 1)]
          BY <1>3, <1>5, <1>6, <2>1, <2>2, <3>2, <4>1, ConcatProperties
        <4> QED BY <1>6, <3>2, <4>1, <4>2
      <3> QED BY <3>1, <3>2
    <2> QED BY <2>1, <2>2, <2>3
  <1> QED BY <1>2, <1>4, <1>7

LEMMA StayingHolds ==
    ASSUME TypeOK, NEW t \in Threads, NEW p, OnList(t) \cap Of(p) # {},
           \A i, j \in 1..Len(list[t]) :
               node[list[t][i]].plugin = node[list[t][j]].plugin => i = j
    PROVE  /\ Staying(t, p) \in Seq(Nodes)
           /\ ToSet(Staying(t, p)) \subseteq OnList(t) \ Of(p)
           /\ \A i, j \in 1..Len(Staying(t, p)) :
                  node[Staying(t, p)[i]].plugin = node[Staying(t, p)[j]].plugin => i = j
  <1> DEFINE s == list[t]
             r == Staying(t, p)
  <1>1. s \in Seq(Nodes) /\ \A i \in 1..Len(s) : s[i] \in Nodes /\ s[i] \in OnList(t)
    BY ThreadTypes, InSeq DEF OnList
  <1>2. PICK d \in 1..Len(s) :
            /\ s[d] \in Of(p)
            /\ Len(r) = Len(s) - 1
            /\ \A i \in 1..Len(r) : r[i] = IF i < d THEN s[i] ELSE s[i + 1]
    BY StayingElements
  <1>4. r \in Seq(Nodes)
    BY StayingElements
  <1>8. \A i \in 1..Len(r) :
          \E k \in 1..Len(s) : k # d /\ r[i] = s[k] /\ k = (IF i < d THEN i ELSE i + 1)
    BY <1>1, <1>2
  <1>9. \A k \in 1..Len(s) : k # d => s[k] \notin Of(p)
    BY <1>1, <1>2 DEF Of
  <1>10. \A i \in 1..Len(r) : r[i] \in OnList(t) \ Of(p)
    BY <1>1, <1>8, <1>9
  <1>11. ToSet(r) \subseteq OnList(t) \ Of(p)
    BY <1>4, <1>10, InSeq
  <1>12. ASSUME NEW i \in 1..Len(r), NEW j \in 1..Len(r), node[r[i]].plugin = node[r[j]].plugin
         PROVE  i = j
    <2>1. (IF i < d THEN i ELSE i + 1) = (IF j < d THEN j ELSE j + 1)
      BY <1>8, <1>12
    <2>2. i \in Int /\ j \in Int /\ d \in Int
      BY <1>2, <1>4
    <2> QED BY <2>1, <2>2
  <1> QED BY <1>4, <1>11, <1>12

LEMMA ScanOwn ==
    ASSUME OwnInv, NEW p \in Plugins, Scan(p)
    PROVE  OneHolder' /\ ListedOnce' /\ GlobalsApart'
  <1>1. /\ phase = "unloading" /\ Racing(p) = {} /\ current' = p
        /\ list' = [t \in Threads |-> IF t \in Scanned(p) THEN Staying(t, p) ELSE list[t]]
        /\ deferred' = UNION {OnList(t) \cap Of(p) : t \in Scanned(p)}
        /\ UNCHANGED <<phase, call, globals, copy>>
    BY DEF Scan, Visit, LoaderAt
  <1>2. \A n \in Nodes : node'[n].live = node[n].live /\ node'[n].plugin = node[n].plugin
    BY DEF Scan, OwnInv, LeakInv, TypeOK, NodeState
  <1>3. ASSUME NEW t \in Threads
        PROVE  /\ t \in Scanned(p) => call[t].at \in Holding
               /\ Held(t)' \subseteq Held(t) \ Of(p)
               /\ Fits(t)'
    <2>1. Fits(t) /\ Held(t) \subseteq Nodes /\ list[t] \in Seq(Nodes)
      BY ThreadTypes DEF OwnInv, LeakInv, ListedOnce
    <2>2. /\ call[t].at \in {"callback", "link", "publish"} => node[call[t].node].plugin # p
          /\ call[t].at \in {"walk", "free"} => OnList(t) \cap Of(p) = {} /\ call[t].rest = list[t]
      BY <1>1 DEF Racing
    <2>3. call[t].at \in Places
      BY DEF OwnInv, LeakInv, TypeOK, Call
    <2>4. t \in Scanned(p) => call[t].at \in Holding
      BY <2>2, <2>3 DEF Scanned, Exists
    <2>5. t \notin Scanned(p) /\ call[t].at \in Holding => OnList(t) \cap Of(p) = {}
      BY DEF Scanned, Exists
    <2>6. ({call[t].node} \ {NoNode}) \cap Of(p) = {}
      BY <2>2 DEF OwnInv, LeakInv, CallsMakeSense, Of
    <2>7. ToSet(call[t].rest) \cap Of(p) = {}
      <3>1. ToSet(<<>>) = {}
        BY DEF ToSet
      <3> QED BY <2>1, <2>2, <3>1 DEF Fits, OnList
    <2>8. CASE t \in Scanned(p)
      <3>1. /\ list'[t] = Staying(t, p)
            /\ ToSet(Staying(t, p)) \subseteq OnList(t) \ Of(p)
            /\ Staying(t, p) \in Seq(Nodes)
            /\ \A i, j \in 1..Len(Staying(t, p)) :
                  node[Staying(t, p)[i]].plugin = node[Staying(t, p)[j]].plugin => i = j
        BY <1>1, <2>1, <2>4, <2>8, StayingHolds DEF Scanned, Fits, OwnInv, LeakInv
      <3>2. Held(t)' \subseteq Held(t) \ Of(p)
        BY <1>1, <2>4, <2>6, <2>7, <2>8, <3>1 DEF Held, OnList
      <3>3. Fits(t)'
        <4> DEFINE r == Staying(t, p)
        <4>1. \A i \in 1..Len(r) : r[i] \in ToSet(r) /\ r[i] \in Nodes
          BY <3>1, InSeq
        <4>2. \A i \in 1..Len(r) : node'[r[i]].plugin = node[r[i]].plugin
          BY <1>2, <4>1
        <4>3. call[t].at \in {"callback", "link"} =>
                \A i \in 1..Len(r) : node[r[i]].plugin # node[call[t].node].plugin
          <5>1. call[t].at \in {"callback", "link"} =>
                  \A k \in OnList(t) : node[k].plugin # node[call[t].node].plugin
            BY <2>1, InSeq DEF Fits, OnList
          <5> QED BY <3>1, <4>1, <5>1
        <4>4. call[t].at \in {"callback", "link"} =>
                node'[call[t].node].plugin = node[call[t].node].plugin
          BY <1>2 DEF OwnInv, LeakInv, CallsMakeSense, TypeOK, Call
        <4> HIDE DEF r
        <4>5. list'[t] = r /\ call'[t] = call[t]
          BY <1>1, <3>1 DEF r
        <4>6. \A i, j \in 1..Len(r) : node[r[i]].plugin = node[r[j]].plugin => i = j
          BY <3>1 DEF r
        <4> QED BY <2>1, <4>2, <4>3, <4>4, <4>5, <4>6 DEF Fits
      <3> QED BY <2>4, <3>2, <3>3
    <2>9. CASE t \notin Scanned(p)
      <3>1. list'[t] = list[t] /\ call'[t] = call[t]
        BY <1>1, <2>9
      <3>2. Fits(t)' /\ Held(t)' = Held(t)
        BY <1>2, <2>1, <3>1, FitsStay DEF OwnInv, LeakInv
      <3>3. Held(t) \cap Of(p) = {}
        BY <2>5, <2>6, <2>7, <2>9 DEF Held
      <3> QED BY <2>9, <3>2, <3>3
    <2> QED BY <2>8, <2>9
  <1>4. deferred' \subseteq Of(p)
    BY <1>1
  <1>5. \A n \in deferred' : \E t \in Threads : n \in Held(t)
    BY <1>1, <1>3 DEF Scanned, Held
  <1>6. OneHolder'
    <2>1. ASSUME NEW t \in Threads, NEW n \in Held(t)'
          PROVE  node'[n].live /\ n \notin copy' \cup deferred'
      BY <1>1, <1>2, <1>3, <1>4, <2>1, ThreadTypes DEF OwnInv, LeakInv, OneHolder
    <2>2. \A t, u \in Threads : t # u => Held(t)' \cap Held(u)' = {}
      BY <1>3 DEF OwnInv, OneHolder
    <2> QED BY <2>1, <2>2 DEF OneHolder
  <1>7. ListedOnce'
    BY <1>3 DEF ListedOnce
  <1>8. GlobalsApart'
    <2>1. \A n \in deferred' : n \in Nodes /\ node[n].live
      BY <1>5, ThreadTypes DEF OwnInv, LeakInv, OneHolder
    <2> QED BY <1>1, <1>2, <2>1, ReentAssumption DEF OwnInv, LeakInv, TypeOK, GlobalsApart
  <1> QED BY <1>6, <1>7, <1>8

LEMMA UnloadOwn ==
    ASSUME OwnInv, Unload
    PROVE  OneHolder' /\ ListedOnce' /\ GlobalsApart'
  <1>1. ASSUME NEW p \in Plugins, Scan(p) PROVE OneHolder' /\ ListedOnce' /\ GlobalsApart'
    BY <1>1, ScanOwn
  <1>2. ASSUME NEW n \in Nodes, FreeDeferred(n)
        PROVE  OneHolder' /\ ListedOnce' /\ GlobalsApart'
    <2>1. /\ phase = "unloading" /\ n \in deferred /\ deferred' = deferred \ {n}
          /\ globals' = globals \ {n}
          /\ node' = [node EXCEPT ![n] = FreeNode(Count(n))]
          /\ UNCHANGED <<phase, list, call, copy, current>>
      BY <1>2 DEF FreeDeferred, LoaderAt, threadVars
    <2>2. \A k \in Nodes \ {n} : node'[k] = node[k]
      BY <2>1 DEF OwnInv, LeakInv, TypeOK
    <2>3. \A t \in Threads : \A k \in Held(t) : k \in Nodes \ {n}
      BY <2>1, ThreadTypes DEF OwnInv, LeakInv, OneHolder
    <2>4. OneHolder' /\ ListedOnce'
      BY <2>1, <2>2, <2>3, NoThread
    <2>5. copy = {}
      BY <2>1 DEF OwnInv, GlobalsApart
    <2> QED BY <2>1, <2>4, <2>5, FreeUnheld
  <1>3. CASE \/ \E ps \in SUBSET loaded : HooksBegin(ps)
             \/ HooksEnd \/ NextPlugin \/ Unloaded
             \/ \E p \in Plugins : ScanTooMany(p) \/ ScanRaces(p)
             \/ \E t \in Threads : RestoreCallback(t)
    <2>1. /\ UNCHANGED <<list, call, node, globals, copy, deferred>>
          /\ phase # "between" /\ phase' # "between"
          /\ \/ UNCHANGED <<phase, current>>
             \/ deferred = {}
      BY <1>3 DEF HooksBegin, HooksEnd, NextPlugin, Unloaded, ScanTooMany, ScanRaces,
                  RestoreCallback, Visit, LoaderAt, loaderVars, threadVars, OwnInv, GlobalsApart
    <2>2. OneHolder' /\ ListedOnce'
      BY <2>1, NoThread
    <2> QED BY <2>1, <2>2 DEF OwnInv, GlobalsApart
  <1> QED BY <1>1, <1>2, <1>3 DEF Unload

LEMMA InitOwn == Init => OwnInv
  <1> SUFFICES ASSUME Init PROVE OwnInv
    OBVIOUS
  <1>1. LeakInv
    BY InitLeak
  <1>2. \A t \in Threads :
          /\ call[t].rest = <<>> /\ call[t].node = NoNode /\ call[t].at \in {"out", "no"}
          /\ list[t] = <<>>
    BY IdleCall DEF Init
  <1>3. ToSet(<<>>) = {}
    BY DEF ToSet
  <1>4. \A t \in Threads : Held(t) = {}
    BY <1>2, <1>3 DEF Held, OnList
  <1>5. \A t \in Threads : Fits(t)
    BY <1>2 DEF Fits
  <1>6. GlobalsApart
    BY DEF Init, GlobalsApart
  <1> QED BY <1>1, <1>4, <1>5, <1>6 DEF OwnInv, OneHolder, ListedOnce

LEMMA StepOwn == OwnInv /\ LookInv /\ [Next]_vars => OwnInv'
  <1> SUFFICES ASSUME OwnInv, LookInv, [Next]_vars PROVE OwnInv'
    OBVIOUS
  <1>1. LeakInv'
    BY StepLeak DEF OwnInv, LookInv
  <1>2. CASE Owner
    BY <1>1, <1>2, OwnerOwn DEF Owner, OwnInv
  <1>3. CASE Register
    BY <1>1, <1>3, RegisterOwn DEF Register, OwnInv
  <1>4. CASE ThreadCleanup
    BY <1>1, <1>4, ThreadCleanupOwn DEF ThreadCleanup, OwnInv
  <1>5. CASE ApplicationCycle
    BY <1>1, <1>5, CycleOwn DEF OwnInv
  <1>6. CASE Unload
    BY <1>1, <1>6, UnloadOwn DEF OwnInv
  <1>7. CASE UNCHANGED vars
    <2>1. UNCHANGED <<phase, current, list, call, node, globals, copy, deferred>>
      BY <1>7 DEF vars, loaderVars, threadVars
    <2>2. OneHolder' /\ ListedOnce'
      BY <2>1, NoThread
    <2> QED BY <1>1, <2>1, <2>2, GlobalsStay DEF OwnInv
  <1>8. CASE Looking
    <2>1. UNCHANGED <<phase, current, list, call, node, globals, copy, deferred>>
      BY <1>8, LookFrame DEF loaderVars, OwnInv, LeakInv
    <2>2. OneHolder' /\ ListedOnce'
      BY <2>1, NoThread
    <2> QED BY <1>1, <2>1, <2>2, GlobalsStay DEF OwnInv
  <1> QED BY <1>2, <1>3, <1>4, <1>5, <1>6, <1>7, <1>8 DEF Next

-----------------------------------------------------------------------------
(* The walk of wups_backend_get_context                                    *)

LEMMA InitLook == Init => LookInv
  BY InitOut DEF LookInv, Init, NotLooking, Follows

\* A thread whose list the step leaves alone.
LEMMA FollowsStay ==
    ASSUME OwnInv, LookInv, NEW t \in Threads,
           look'[t] = look[t], list'[t] = list[t],
           \A n \in Held(t) : node'[n].plugin = node[n].plugin
    PROVE  Follows(t)'
  <1> SUFFICES ASSUME look[t].plugin # NoPlugin PROVE Follows(t)'
    BY DEF Follows
  <1>1. call[t].at = "out" /\ Follows(t)
    BY DEF LookInv, LooksOut
  <1>2. \A j \in 1..Len(list[t]) : list[t][j] \in Held(t)
    BY <1>1, ThreadTypes, InSeq DEF Held, OnList, OwnInv, LeakInv
  <1>3. Len(list[t]) \in Nat
    BY ThreadTypes DEF OwnInv, LeakInv
  <1>4. \A j \in 1..Len(list[t]) : node'[list[t][j]].plugin = node[list[t][j]].plugin
    BY <1>2
  <1> QED BY <1>1, <1>3, <1>4 DEF Follows

\* A step of one thread, after which it does not look.
LEMMA OthersFollow ==
    ASSUME OwnInv, LookInv, NEW t \in Threads, look'[t].plugin = NoPlugin,
           \A u \in Threads \ {t} : look'[u] = look[u] /\ list'[u] = list[u],
           \A u \in Threads \ {t} : \A n \in Held(u) : node'[n].plugin = node[n].plugin
    PROVE  \A u \in Threads : Follows(u)'
  <1>1. Follows(t)'
    BY DEF Follows
  <1>2. \A u \in Threads \ {t} : Follows(u)'
    BY FollowsStay
  <1> QED BY <1>1, <1>2

\* A step of the loader that touches no list.
LEMMA AllFollow ==
    ASSUME OwnInv, LookInv, UNCHANGED <<look, list>>,
           \A t \in Threads : \A n \in Held(t) : node'[n].plugin = node[n].plugin
    PROVE  \A t \in Threads : Follows(t)'
  BY FollowsStay

LEMMA LookingFollows ==
    ASSUME OwnInv, LookInv, Looking
    PROVE  \A t \in Threads : Follows(t)'
  <1>1. UNCHANGED <<list, node>> /\ look \in [Threads -> Look]
    BY LookFrame DEF OwnInv, LeakInv, TypeOK
  <1>2. \A t \in Threads : list[t] \in Seq(Nodes)
    BY ThreadTypes DEF OwnInv, LeakInv
  <1>3. PICK t \in Threads : \/ \E p \in Plugins : LookBegin(t, p)
                             \/ LookNext(t) \/ LookEnd(t)
    BY DEF Looking
  <1>4. \A u \in Threads \ {t} : look'[u] = look[u]
    BY <1>1, <1>3 DEF LookBegin, LookNext, LookEnd
  <1>5. \A u \in Threads \ {t} : Follows(u)'
    BY <1>1, <1>4, FollowsStay
  <1>6. ASSUME NEW p \in Plugins, LookBegin(t, p) PROVE Follows(t)'
    <2>1. look'[t].plugin = p /\ look'[t].curr = IF list[t] = <<>> THEN NoNode ELSE Head(list[t])
      BY <1>1, <1>6 DEF LookBegin
    <2>2. CASE list[t] = <<>>
      BY <1>1, <2>1, <2>2 DEF Follows
    <2>3. CASE list[t] # <<>>
      <3>1. 1 \in 1..Len(list[t]) /\ list[t][1] = look'[t].curr
        BY <1>2, <2>1, <2>3
      <3> QED BY <1>1, <3>1 DEF Follows
    <2> QED BY <2>2, <2>3
  <1>7. ASSUME LookNext(t) PROVE Follows(t)'
    <2>1. look[t].plugin # NoPlugin /\ look[t].curr # NoNode /\ Follows(t)
      BY <1>7 DEF LookNext, LookInv, LooksOut
    <2>2. PICK k \in 1..Len(list[t]) :
            /\ list[t][k] = look[t].curr
            /\ \A j \in 1..(k - 1) : node[list[t][j]].plugin # look[t].plugin
      BY <2>1 DEF Follows
    <2>31. DOMAIN list[t] = 1..Len(list[t])
      BY <1>2
    <2>3. PICK i \in DOMAIN list[t] :
            /\ list[t][i] = look[t].curr
            /\ look' = [look EXCEPT ![t].curr =
                          IF i < Len(list[t]) THEN list[t][i + 1] ELSE NoNode]
      BY <1>7 DEF LookNext
    <2>4. i = k
      <3>1. call[t].at = "out" /\ Fits(t)
        BY <2>1 DEF LookInv, LooksOut, OwnInv, ListedOnce
      <3> QED BY <2>2, <2>3, <3>1 DEF Fits
    <2>5. node[list[t][i]].plugin # look[t].plugin
      BY <1>7, <2>3 DEF LookNext, Meets
    <2>6. \A j \in 1..i : node[list[t][j]].plugin # look[t].plugin
      <3>1. \A j \in 1..i : j = i \/ j \in 1..(i - 1)
        BY <1>2
      <3> QED BY <2>2, <2>4, <2>5, <3>1
    <2>7. /\ look'[t].plugin = look[t].plugin
          /\ look'[t].curr = IF i < Len(list[t]) THEN list[t][i + 1] ELSE NoNode
      BY <1>1, <2>3 DEF Look
    <2>8. CASE i < Len(list[t])
      <3>1. i + 1 \in 1..Len(list[t]) /\ (i + 1) - 1 = i
        BY <1>2, <2>8, <2>31
      <3>2. /\ list'[t][i + 1] = look'[t].curr
            /\ \A j \in 1..((i + 1) - 1) : node'[list'[t][j]].plugin # look'[t].plugin
        BY <1>1, <2>6, <2>7, <2>8, <3>1
      <3> QED BY <1>1, <3>1, <3>2 DEF Follows
    <2>9. CASE ~(i < Len(list[t]))
      <3>1. i = Len(list[t])
        BY <1>2, <2>9, <2>31
      <3>2. look'[t].curr = NoNode
        BY <2>7, <2>9
      <3>3. \A j \in 1..Len(list'[t]) : node'[list'[t][j]].plugin # look'[t].plugin
        BY <1>1, <2>6, <2>7, <3>1
      <3> QED BY <3>2, <3>3 DEF Follows
    <2> QED BY <2>8, <2>9
  <1>8. ASSUME LookEnd(t) PROVE Follows(t)'
    <2>1. look'[t].plugin = NoPlugin
      BY <1>1, <1>8 DEF LookEnd, NotLooking
    <2> QED BY <2>1 DEF Follows
  <1> QED BY <1>3, <1>5, <1>6, <1>7, <1>8

\* The scan takes no node away from a thread that is at one of its plugin.
LEMMA ScanFollows ==
    ASSUME OwnInv, LookInv, NEW p \in Plugins, Scan(p)
    PROVE  \A t \in Threads : Follows(t)'
  <1>1. /\ Racing(p) = {} /\ UNCHANGED look
        /\ list' = [t \in Threads |-> IF t \in Scanned(p) THEN Staying(t, p) ELSE list[t]]
    BY DEF Scan
  <1>2. \A n \in Nodes : node'[n].plugin = node[n].plugin
    BY DEF Scan, OwnInv, LeakInv, TypeOK, NodeState
  <1>3. ASSUME NEW t \in Threads, t \notin Scanned(p) PROVE Follows(t)'
    <2>1. list'[t] = list[t] /\ look'[t] = look[t] /\ Held(t) \subseteq Nodes
      BY <1>1, <1>3, ThreadTypes DEF OwnInv, LeakInv
    <2> QED BY <1>2, <2>1, FollowsStay
  <1>4. ASSUME NEW t \in Scanned(p) PROVE Follows(t)'
    <2> SUFFICES ASSUME look[t].plugin # NoPlugin PROVE Follows(t)'
      BY <1>1 DEF Follows
    <2>1. t \in Threads /\ OnList(t) \cap Of(p) # {} /\ list[t] \in Seq(Nodes)
      BY ThreadTypes DEF Scanned, OwnInv, LeakInv
    <2>2. look[t].curr \notin Of(p) /\ Follows(t)
      BY <1>1, <2>1 DEF Racing, LookInv
    <2> DEFINE s == list[t]
               r == Staying(t, p)
               q == look[t].plugin
    <2>3. PICK d \in 1..Len(s) :
            /\ s[d] \in Of(p)
            /\ Len(r) = Len(s) - 1
            /\ \A i \in 1..Len(r) : r[i] = IF i < d THEN s[i] ELSE s[i + 1]
      BY <2>1, StayingElements DEF OwnInv, LeakInv
    <2>4. list'[t] = r /\ look'[t] = look[t] /\ r \in Seq(Nodes)
      BY <1>1, <2>1, StayingIsList DEF OwnInv, LeakInv
    <2>5. Len(s) \in Nat /\ \A i \in 1..Len(r) : r[i] \in Nodes
      BY <2>1, <2>4
    <2> HIDE DEF r, s
    <2>6. CASE look[t].curr = NoNode /\ \A j \in 1..Len(s) : node[s[j]].plugin # q
      <3>1. \A i \in 1..Len(r) : node[r[i]].plugin # q
        BY <2>3, <2>5, <2>6
      <3>2. \A i \in 1..Len(r) : node'[r[i]].plugin # q
        BY <1>2, <2>5, <3>1
      <3> QED BY <2>4, <2>6, <3>2 DEF Follows
    <2>7. ASSUME NEW i \in 1..Len(s), s[i] = look[t].curr,
                 \A j \in 1..(i - 1) : node[s[j]].plugin # q
          PROVE  Follows(t)'
      <3> DEFINE k == IF i < d THEN i ELSE i - 1
      <3>1. i # d
        BY <2>2, <2>3, <2>7
      <3>2. k \in 1..Len(r) /\ r[k] = s[i]
        BY <2>3, <2>5, <3>1
      <3>3. \A j \in 1..(k - 1) : j \in 1..Len(r) /\ node[r[j]].plugin # q
        <4> SUFFICES ASSUME NEW j \in 1..(k - 1)
                     PROVE  j \in 1..Len(r) /\ node[r[j]].plugin # q
          OBVIOUS
        <4>1. j \in 1..Len(r)
          BY <2>5, <3>2
        <4>2. CASE j < d
          <5>1. r[j] = s[j] /\ j \in 1..(i - 1)
            BY <2>3, <2>5, <4>1, <4>2
          <5> QED BY <2>7, <4>1, <5>1
        <4>3. CASE ~(j < d)
          <5>1. r[j] = s[j + 1] /\ j + 1 \in 1..(i - 1)
            BY <2>3, <2>5, <4>1, <4>3
          <5> QED BY <2>7, <4>1, <5>1
        <4> QED BY <4>2, <4>3
      <3>4. \A j \in 1..(k - 1) : node'[r[j]].plugin # q
        BY <1>2, <2>5, <3>3
      <3> HIDE DEF k
      <3> QED BY <2>4, <2>7, <3>2, <3>4 DEF Follows
    <2> QED BY <2>2, <2>6, <2>7 DEF Follows, s
  <1> QED BY <1>3, <1>4

LEMMA StepLook == OwnInv /\ LookInv /\ [Next]_vars => LookInv'
  <1> SUFFICES ASSUME OwnInv, LookInv, [Next]_vars PROVE LookInv'
    OBVIOUS
  <1>1. LooksOut'
    BY StepOut DEF OwnInv, LookInv
  <1>2. TypeOK /\ \A t \in Threads : Held(t) \subseteq Nodes
    BY ThreadTypes DEF OwnInv, LeakInv
  <1>3. \A t \in Threads : call[t].at # "out" => look[t].plugin = NoPlugin
    BY DEF LookInv, LooksOut
  <1>4. \A t \in Threads : \A n \in Held(t) : node[n].live /\ n \notin copy \cup deferred
    BY DEF OwnInv, OneHolder
  <1>5. \A t, u \in Threads : t # u => Held(t) \cap Held(u) = {}
    BY DEF OwnInv, OneHolder
  <1>6. ASSUME NEW t \in Threads, CreateThread(t) \/ SetCallback(t) \/ EndThread(t)
        PROVE  \A u \in Threads : Follows(u)'
    <2>1. UNCHANGED <<look, node>>
      BY <1>6 DEF CreateThread, SetCallback, EndThread
    <2>2. CASE CreateThread(t)
      <3>1. look[t].plugin = NoPlugin /\ \A u \in Threads \ {t} : list'[u] = list[u]
        BY <1>2, <1>3, <2>2 DEF CreateThread, Exists, TypeOK
      <3> QED BY <2>1, <3>1, OthersFollow
    <2>3. CASE SetCallback(t) \/ EndThread(t)
      BY <2>1, <2>3, AllFollow DEF SetCallback, EndThread
    <2> QED BY <1>6, <2>2, <2>3
  <1>7. ASSUME NEW t \in Threads, NEW p \in Plugins, RegisterBegin(t, p)
        PROVE  \A u \in Threads : Follows(u)'
    <2>1. /\ look'[t].plugin = NoPlugin /\ UNCHANGED list
          /\ \A u \in Threads \ {t} : look'[u] = look[u]
      BY <1>2, <1>7 DEF RegisterBegin, NotLooking, TypeOK
    <2>2. PICK n \in Nodes : ~node[n].live /\ \A k \in Nodes \ {n} : node'[k] = node[k]
      BY <1>2, <1>7 DEF RegisterBegin, TypeOK
    <2>3. \A u \in Threads : \A k \in Held(u) : node'[k] = node[k]
      BY <1>2, <1>4, <2>2
    <2> QED BY <2>1, <2>3, OthersFollow
  <1>8. ASSUME NEW t \in Threads, RegisterCallback(t) \/ RegisterLink(t) \/ RegisterPublish(t)
        PROVE  \A u \in Threads : Follows(u)'
    <2>1. /\ look[t].plugin = NoPlugin /\ UNCHANGED look
          /\ \A u \in Threads \ {t} : list'[u] = list[u]
      BY <1>2, <1>3, <1>8 DEF RegisterCallback, RegisterLink, RegisterPublish, TypeOK
    <2>2. \A k \in Nodes \ Held(t) : node'[k] = node[k]
      <3>1. CASE RegisterCallback(t)
        <4>1. call[t].at = "callback" /\ call[t].node \in Held(t)
          BY <3>1 DEF RegisterCallback, Held, OwnInv, LeakInv, CallsMakeSense
        <4>2. CASE list[t] = <<>>
          BY <1>2, <3>1, <4>1, <4>2 DEF RegisterCallback, TypeOK
        <4>3. CASE list[t] # <<>>
          <5>1. Head(list[t]) \in Held(t)
            BY <1>2, <4>1, <4>3, ThreadTypes, InSeq DEF Held, OnList
          <5> QED BY <1>2, <3>1, <4>1, <4>3, <5>1 DEF RegisterCallback, TypeOK
        <4> QED BY <4>2, <4>3
      <3> QED BY <1>8, <3>1 DEF RegisterLink, RegisterPublish
    <2>3. \A u \in Threads \ {t} : \A k \in Held(u) : node'[k] = node[k]
      BY <1>2, <1>5, <2>2
    <2> QED BY <2>1, <2>3, OthersFollow
  <1>9. ASSUME NEW t \in Threads, CleanupCall(t) \/ CleanupFree(t) \/ CleanupEnd(t)
        PROVE  \A u \in Threads : Follows(u)'
    <2>1. /\ look[t].plugin = NoPlugin /\ UNCHANGED look
          /\ \A u \in Threads \ {t} : list'[u] = list[u]
      BY <1>2, <1>3, <1>9 DEF CleanupCall, CleanupFree, CleanupEnd, TypeOK
    <2>2. \A k \in Nodes \ Held(t) : node'[k] = node[k]
      <3>1. CASE CleanupCall(t) \/ CleanupFree(t)
        <4>1. call[t].rest # <<>>
          BY <3>1 DEF CleanupCall, CleanupFree, OwnInv, LeakInv, CallsMakeSense
        <4>2. Head(call[t].rest) \in Held(t)
          BY <1>2, <4>1, ThreadTypes, InSeq DEF Held
        <4> QED BY <1>2, <3>1, <4>2 DEF CleanupCall, CleanupFree, TypeOK
      <3> QED BY <1>9, <3>1 DEF CleanupEnd
    <2>3. \A u \in Threads \ {t} : \A k \in Held(u) : node'[k] = node[k]
      BY <1>2, <1>5, <2>2
    <2> QED BY <2>1, <2>3, OthersFollow
  <1>10. ASSUME Exit \/ Reboot PROVE \A u \in Threads : Follows(u)'
    <2>1. \A u \in Threads : look'[u].plugin = NoPlugin
      BY <1>10 DEF Exit, Reboot, NotLooking
    <2> QED BY <2>1 DEF Follows
  <1>11. ASSUME NEW n \in Nodes, ClearDangling(n) \/ FreeDeferred(n)
         PROVE  \A u \in Threads : Follows(u)'
    <2>1. n \in copy \cup deferred /\ UNCHANGED <<look, list>>
          /\ \A k \in Nodes \ {n} : node'[k] = node[k]
      BY <1>2, <1>11 DEF ClearDangling, FreeDeferred, threadVars, TypeOK
    <2>2. \A u \in Threads : \A k \in Held(u) : node'[k] = node[k]
      BY <1>2, <1>4, <2>1
    <2> QED BY <2>1, <2>2, AllFollow
  <1>12. ASSUME NEW p \in Plugins, Scan(p) PROVE \A u \in Threads : Follows(u)'
    BY <1>12, ScanFollows
  <1>13. ASSUME \/ ClearDone \/ KeepPlugins \/ StartApplication \/ HooksEnd \/ NextPlugin \/ Unloaded
                \/ \E ps \in SUBSET loaded : HooksBegin(ps)
                \/ \E p \in Plugins : LoadPlugin(p) \/ ScanTooMany(p) \/ ScanRaces(p)
                \/ \E t \in Threads : RestoreCallback(t)
                \/ UNCHANGED vars
         PROVE  \A u \in Threads : Follows(u)'
    <2>1. UNCHANGED <<look, list, node>>
      BY <1>13 DEF ClearDone, KeepPlugins, StartApplication, HooksEnd, NextPlugin, Unloaded,
                   HooksBegin, LoadPlugin, ScanTooMany, ScanRaces, RestoreCallback, vars, threadVars
    <2>2. \A t \in Threads : \A n \in Held(t) : node'[n].plugin = node[n].plugin
      BY <2>1
    <2> QED BY <2>1, <2>2, AllFollow
  <1>14. ASSUME Looking PROVE \A u \in Threads : Follows(u)'
    BY <1>14, LookingFollows
  <1>15. \A u \in Threads : Follows(u)'
    BY <1>6, <1>7, <1>8, <1>9, <1>10, <1>11, <1>12, <1>13, <1>14
    DEF Next, Owner, Register, ThreadCleanup, ApplicationCycle, Unload
  <1> QED BY <1>1, <1>15 DEF LookInv

LEMMA OwnMeansLive == OwnInv /\ LookInv => PointersLive
  <1> SUFFICES ASSUME OwnInv, LookInv PROVE PointersLive
    OBVIOUS
  <1>1. \A t \in Threads : \A n \in Held(t) : node[n].live
    BY DEF OwnInv, OneHolder
  <1>2. \A t \in Threads : call[t].at \in Holding => OnList(t) \subseteq Held(t)
    BY DEF Held
  <1>3. \A t \in Threads : \A i \in 1..Len(call[t].rest) : call[t].rest[i] \in Held(t)
    BY ThreadTypes, InSeq DEF OwnInv, LeakInv, Held
  <1>4. \A n \in globals \cup copy \cup deferred : node[n].live
    BY DEF OwnInv, GlobalsApart
  <1>5. ASSUME NEW t \in Threads, look[t].curr # NoNode PROVE node[look[t].curr].live
    <2>1. look[t].plugin # NoPlugin /\ call[t].at = "out" /\ Follows(t)
      BY <1>5 DEF LookInv, LooksOut
    <2>2. PICK i \in 1..Len(list[t]) : list[t][i] = look[t].curr
      BY <1>5, <2>1 DEF Follows
    <2>3. look[t].curr \in OnList(t)
      BY <2>2, ThreadTypes, InSeq DEF OnList, OwnInv, LeakInv
    <2> QED BY <1>1, <1>2, <2>1, <2>3
  <1> QED BY <1>1, <1>2, <1>3, <1>4, <1>5 DEF PointersLive

-----------------------------------------------------------------------------
\* Whatever pointer to a node the loader or a thread still follows points to a
\* node that was not freed: no use after free and no double free in reent.cpp,
\* as long as no thread is in it while ClearReentDataForPlugins scans.
THEOREM PointersSafe == Spec => []PointersLive
  BY InitOwn, StepOwn, InitLook, StepLook, OwnMeansLive, PTL DEF Spec

-----------------------------------------------------------------------------
(* What an unloaded plugin leaves, and whose callback is called.  The node  *)
(* of a plugin that is going to be unloaded is found by the scan, because    *)
(* the thread that has it cannot end without cleaning up: nobody but the     *)
(* loader's restores replaces its callback from the end of one application   *)
(* to the start of the next one.                                            *)

\* Nodes the loader has to find if their plugin is to be unloaded.
Due(n) ==
    \/ phase \in {"between", "starting", "hooks"}
    \/ phase = "unloading" /\ node[n].plugin \in left

\* The node a thread publishes is the first of its list.
FirstPublished ==
    \A t \in Threads : call[t].at = "publish" => list[t] # <<>> /\ Head(list[t]) = call[t].node

\* The loader's thread does not end.
LoaderStays == call[Loader].at \in Holding

\* A node that was cut in two is in no list that is still in use.
Uncut ==
    /\ \A t \in Threads : Held(t) \cap cut = {}
    /\ (globals \cup deferred) \cap cut = {}

\* A thread that has a node to be found has the loader's callback.
Installed ==
    \A t \in Threads \ {Loader} :
        /\ call[t].at \in Holding
        /\ ~(call[t].at = "callback" /\ list[t] = <<>>)
        /\ \E n \in Held(t) : Due(n)
        => callback[t] = "wups"

\* Callbacks are restored to threads without such nodes.
PendingHoldNothing ==
    \A t \in Threads : pending[t] # "none" =>
        /\ phase = "unloading" /\ current # NoPlugin
        /\ \A n \in Held(t) : node[n].plugin \notin left

GlobalsHeld == \A n \in globals : Due(n) => \E t \in Threads : n \in Held(t)

\* What is left of a plugin once the loop over the doomed ones has visited it.
Visited ==
    phase = "unloading" =>
        \A n \in Nodes : node[n].live /\ node[n].plugin \in doomed \ left =>
            n \in cut \/ (node[n].plugin = current /\ n \in deferred)

\* For a plugin that is being unloaded only those still look that did when the
\* hooks ended, and their context, if they register one, is found.
Late(t) ==
    look[t].plugin # NoPlugin =>
        /\ look[t].plugin \in loaded
        /\ phase = "unloading" /\ look[t].plugin \in doomed =>
              /\ look[t].plugin \in left
              /\ pending[t] = "none"
              /\ list[t] # <<>> => callback[t] = "wups"

LateInv == LookInv /\ \A t \in Threads : Late(t)

\* A plugin of which thread t may register a context.
Registrable(t, p) ==
    /\ p \in loaded
    /\ phase = "unloading" => p \notin doomed \/ (p \in left /\ pending[t] = "none")

UnloadInv ==
    /\ OwnInv /\ FirstPublished /\ LoaderStays /\ Uncut /\ Installed /\ PendingHoldNothing
    /\ GlobalsHeld /\ Visited /\ UnloadedLeavesNothing

\* cleanupFn was called for those nodes only that a thread is about to free.
Cleaning(n) == \E t \in Threads : call[t].at = "free" /\ Head(call[t].rest) = n

CleanedBeforeFreed ==
    \A n \in Nodes : node[n].live /\ n \notin cut => node[n].cleaned = IF Cleaning(n) THEN 1 ELSE 0

CleanInv == UnloadInv /\ CleanedBeforeFreed

\* Only the first node of a thread has saved a callback.
FirstSaved(t) ==
    call[t].at \in Holding =>
        \A i \in 1..Len(list[t]) : i > 1 \/ call[t].at = "link" => node[list[t][i]].saved = "none"

\* The callback that the end of a thread comes to, if it has not come to it.
Answer(t) ==
    IF call[t].at \in {"walk", "free"} THEN call[t].then
    ELSE IF callback[t] # "wups" THEN callback[t]
    ELSE IF call[t].at = "link" THEN node[call[t].node].saved
    ELSE IF list[t] = <<>> THEN "wups" ELSE node[Head(list[t])].saved

\* It is the callback the thread had or got, or that one waits to be restored.
Answered(t) ==
    t \notin cut \cup {Loader} =>
        /\ Exists(t) => t \notin called
        /\ Exists(t) /\ pending[t] = "none" => (Answer(t) = "own" <=> t \in own)
        /\ Exists(t) /\ pending[t] # "none" =>
              /\ call[t].at \in Holding /\ callback[t] = "wups" /\ Answer(t) # "own"
              /\ pending[t] = "own" <=> t \in own
        /\ call[t].at = "ended" => (t \in called <=> t \in own)

CallbackInv == UnloadInv /\ \A t \in Threads : FirstSaved(t) /\ Answered(t)

LEMMA HeldNodes == TypeOK => \A t \in Threads : Held(t) \subseteq Nodes
  BY ThreadTypes

LEMMA HeldNodesNext == (TypeOK => \A t \in Threads : Held(t) \subseteq Nodes)'
  BY HeldNodes, PTL

\* A step of one thread keeps all that if the nodes it adds are of plugins that
\* stay or are visited later, and if it lets go of no node that the loader has
\* to find.
LEMMA AThreadMoves ==
    ASSUME UnloadInv, OwnInv', NEW t \in Threads,
           UNCHANGED <<phase, loaded, loaderVars, copy>>,
           \A u \in Threads \ {t} :
               call'[u] = call[u] /\ list'[u] = list[u] /\ callback'[u] = callback[u],
           \A n \in Nodes : node[n].live /\ node'[n].live => node'[n].plugin = node[n].plugin,
           \A n \in Nodes : ~node[n].live /\ node'[n].live =>
               /\ n \in Held(t)' /\ n \notin cut'
               /\ Registrable(t, node'[n].plugin),
           \A n \in Held(t)' : n \in Held(t) \/ ~node[n].live,
           \A n \in Held(t) \ Held(t)' : n \notin globals' \/ ~Due(n),
           globals' \subseteq globals \cup (Held(t) \cap Held(t)'),
           \A n \in Nodes : (n \in cut' => n \in cut) /\ (n \in cut => n \in cut' \/ ~node[n].live),
           t = Loader => call'[t].at \in Holding,
           call'[t].at = "publish" => list'[t] # <<>> /\ Head(list'[t]) = call'[t].node,
           /\ t # Loader /\ call'[t].at \in Holding
           /\ ~(call'[t].at = "callback" /\ list'[t] = <<>>)
           /\ \E n \in Held(t)' : Due(n)'
           => callback'[t] = "wups"
    PROVE  UnloadInv'
  <1>1. \A u \in Threads \ {t} : Held(u)' = Held(u)
    BY DEF Held, OnList
  <1>2. \A u \in Threads : Held(u) \subseteq Nodes
    BY ThreadTypes DEF UnloadInv, OwnInv, LeakInv
  <1>3. TypeOK'
    BY DEF OwnInv, LeakInv
  <1>4. (\A u \in Threads : Held(u) \subseteq Nodes)'
    BY <1>3, HeldNodesNext
  <1>5. /\ \A u \in Threads : \A n \in Held(u) : node[n].live
        /\ \A u \in Threads : \A n \in Held(u)' : node'[n].live
    BY DEF UnloadInv, OwnInv, OneHolder
  <1>6. \A n \in globals \cup copy \cup deferred : n \in Nodes /\ node[n].live
    BY DEF UnloadInv, OwnInv, LeakInv, TypeOK, GlobalsApart
  <1>7. \A n \in globals' \cup copy' \cup deferred' : n \in Nodes /\ node'[n].live
    BY DEF OwnInv, LeakInv, TypeOK, GlobalsApart
  <1>8. UNCHANGED <<phase, left, doomed, current, pending, deferred, loaded, copy>>
    BY DEF loaderVars
  <1>9. \A n \in Nodes : node[n].live /\ node'[n].live => (Due(n)' <=> Due(n))
    BY <1>8 DEF Due
  <1>10. FirstPublished' /\ LoaderStays'
    BY ReentAssumption DEF UnloadInv, FirstPublished, LoaderStays
  <1>11. Uncut'
    <2>1. \A u \in Threads : Held(u)' \cap cut' = {}
      BY <1>1, <1>2, <1>4, <1>5 DEF UnloadInv, Uncut
    <2>2. \A n \in globals' \cup deferred' : n \notin cut'
      BY <1>2, <1>6, <1>8 DEF UnloadInv, Uncut
    <2> QED BY <2>1, <2>2 DEF Uncut
  <1>12. Installed'
    <2>1. ASSUME NEW u \in Threads \ {Loader}, u # t,
                 call'[u].at \in Holding, ~(call'[u].at = "callback" /\ list'[u] = <<>>),
                 \E n \in Held(u)' : Due(n)'
          PROVE  callback'[u] = "wups"
      <3>1. PICK n \in Held(u)' : Due(n)'
        BY <2>1
      <3>2. n \in Held(u) /\ n \in Nodes /\ node[n].live /\ node'[n].live
        BY <1>1, <1>2, <1>5, <2>1, <3>1
      <3>3. Due(n)
        BY <1>9, <3>1, <3>2
      <3> QED BY <2>1, <3>2, <3>3 DEF UnloadInv, Installed
    <2> QED BY <2>1 DEF Installed
  <1>13. PendingHoldNothing'
    <2>1. ASSUME NEW u \in Threads, pending'[u] # "none", NEW n \in Held(u)'
          PROVE  node'[n].plugin \notin left'
      <3>1. phase = "unloading" /\ \A k \in Held(u) : node[k].plugin \notin left
        BY <1>8, <2>1 DEF UnloadInv, PendingHoldNothing
      <3>2. CASE n \in Held(u)
        BY <1>2, <1>5, <1>8, <2>1, <3>1, <3>2
      <3>3. CASE n \notin Held(u)
        <4>1. u = t /\ n \in Nodes /\ ~node[n].live /\ node'[n].live
          BY <1>1, <1>4, <1>5, <2>1, <3>3
        <4> QED BY <1>8, <2>1, <3>1, <4>1 DEF Registrable, UnloadInv, OwnInv, LeakInv, TypeOK
      <3> QED BY <3>2, <3>3
    <2>2. \A u \in Threads : pending'[u] # "none" => phase' = "unloading" /\ current' # NoPlugin
      BY <1>8 DEF UnloadInv, PendingHoldNothing
    <2> QED BY <2>1, <2>2 DEF PendingHoldNothing
  <1>14. GlobalsHeld'
    <2>1. ASSUME NEW n \in globals', Due(n)'
          PROVE  \E u \in Threads : n \in Held(u)'
      <3>1. CASE n \in globals
        <4>1. n \in Nodes /\ node[n].live /\ node'[n].live
          BY <1>6, <1>7, <2>1, <3>1
        <4>2. Due(n)
          BY <1>9, <2>1, <4>1
        <4>3. PICK u \in Threads : n \in Held(u)
          BY <3>1, <4>2 DEF UnloadInv, GlobalsHeld
        <4>4. n \in Held(u)'
          BY <1>1, <2>1, <4>2, <4>3
        <4> QED BY <4>4
      <3>2. CASE n \notin globals
        BY <2>1, <3>2
      <3> QED BY <3>1, <3>2
    <2> QED BY <2>1 DEF GlobalsHeld
  <1>15. Visited'
    <2>1. ASSUME phase = "unloading", NEW n \in Nodes, node'[n].live,
                 node'[n].plugin \in doomed \ left
          PROVE  n \in cut' \/ (node'[n].plugin = current /\ n \in deferred)
      <3>1. node[n].live
        BY <2>1 DEF Registrable
      <3> QED BY <2>1, <3>1 DEF UnloadInv, Visited
    <2> QED BY <1>8, <2>1 DEF Visited
  <1>16. UnloadedLeavesNothing'
    <2>1. ASSUME NEW n \in Nodes, node'[n].live, node'[n].plugin \notin loaded'
          PROVE  n \in cut'
      <3>1. node[n].live
        BY <1>8, <2>1 DEF Registrable
      <3> QED BY <1>8, <2>1, <3>1 DEF UnloadInv, UnloadedLeavesNothing
    <2>2. ASSUME NEW n \in Nodes, n \in globals' \cup copy'
          PROVE  node'[n].plugin \in loaded'
      <3>1. node'[n].live /\ node[n].live
        BY <1>5, <1>6, <1>7, <1>8, <2>2
      <3>2. n \in globals \cup copy \/ n \in Held(t)
        BY <1>8, <2>2
      <3>3. node[n].plugin \in loaded
        BY <3>1, <3>2 DEF UnloadInv, UnloadedLeavesNothing, Uncut
      <3> QED BY <1>8, <3>1, <3>3
    <2> QED BY <2>1, <2>2 DEF UnloadedLeavesNothing
  <1> QED BY <1>10, <1>11, <1>12, <1>13, <1>14, <1>15, <1>16 DEF UnloadInv

\* A step of the loader that leaves the threads alone.
LEMMA TheLoaderMoves ==
    ASSUME UnloadInv, OwnInv', UNCHANGED <<list, call, cut>>,
           \A n \in Nodes : node'[n].live =>
               node[n].live /\ node'[n].plugin = node[n].plugin,
           globals' \subseteq globals, deferred' \subseteq deferred,
           \A n \in Nodes : node'[n].live /\ Due(n)' => Due(n),
           \A t \in Threads \ {Loader} :
               callback'[t] = callback[t] \/ \A n \in Held(t) : ~Due(n)'
    PROVE  /\ FirstPublished' /\ LoaderStays' /\ Uncut' /\ Installed' /\ GlobalsHeld'
           /\ \A t \in Threads : Held(t)' = Held(t)
  <1>1. \A t \in Threads : Held(t)' = Held(t)
    BY DEF Held, OnList
  <1>2. \A t \in Threads : Held(t) \subseteq Nodes
    BY HeldNodes DEF UnloadInv, OwnInv, LeakInv
  <1>3. \A t \in Threads : \A n \in Held(t) : node'[n].live
    BY <1>1 DEF OwnInv, OneHolder
  <1>4. FirstPublished' /\ LoaderStays'
    BY ReentAssumption DEF UnloadInv, FirstPublished, LoaderStays
  <1>5. Uncut'
    BY <1>1 DEF UnloadInv, Uncut
  <1>6. Installed'
    <2>1. ASSUME NEW t \in Threads \ {Loader},
                 call'[t].at \in Holding, ~(call'[t].at = "callback" /\ list'[t] = <<>>),
                 NEW n \in Held(t)', Due(n)'
          PROVE  callback'[t] = "wups"
      <3>1. n \in Held(t) /\ n \in Nodes /\ node'[n].live
        BY <1>1, <1>2, <1>3, <2>1
      <3>2. callback[t] = "wups"
        BY <2>1, <3>1 DEF UnloadInv, Installed
      <3> QED BY <2>1, <3>1, <3>2
    <2> QED BY <2>1 DEF Installed
  <1>7. GlobalsHeld'
    <2>1. ASSUME NEW n \in globals', Due(n)'
          PROVE  \E t \in Threads : n \in Held(t)'
      <3>1. n \in globals /\ n \in Nodes /\ node'[n].live
        BY DEF OwnInv, LeakInv, TypeOK, GlobalsApart
      <3>2. Due(n)
        BY <2>1, <3>1
      <3> QED BY <1>1, <3>1, <3>2 DEF UnloadInv, GlobalsHeld
    <2> QED BY <2>1 DEF GlobalsHeld
  <1> QED BY <1>1, <1>4, <1>5, <1>6, <1>7

LEMMA HoldsNothing ==
    ASSUME OwnInv, NEW t \in Threads, call[t].at \notin Holding, call[t].rest = <<>>
    PROVE  Held(t) = {}
  <1>1. ToSet(<<>>) = {}
    BY DEF ToSet
  <1> QED BY <1>1 DEF Held, OwnInv, LeakInv, CallsMakeSense

LEMMA OwnerUnload ==
    ASSUME UnloadInv, OwnInv', NEW t \in Threads,
           CreateThread(t) \/ SetCallback(t) \/ EndThread(t)
    PROVE  UnloadInv'
  <1>1. OwnInv /\ TypeOK /\ Fits(t) /\ CallsMakeSense
    BY DEF UnloadInv, OwnInv, LeakInv, ListedOnce
  <1>2. UNCHANGED <<phase, loaded, loaderVars, copy, node, globals>>
    BY DEF CreateThread, SetCallback, EndThread
  <1>3. \A n \in Nodes : (n \in cut' => n \in cut) /\ (n \in cut => n \in cut' \/ ~node[n].live)
    BY ReentAssumption DEF CreateThread, SetCallback, EndThread, TypeOK
  <1>4. UNCHANGED <<left, phase>>
    BY <1>2 DEF loaderVars
  <1>5. CASE CreateThread(t)
    <2>1. /\ \A u \in Threads \ {t} :
                call'[u] = call[u] /\ list'[u] = list[u] /\ callback'[u] = callback[u]
          /\ call'[t] = Idle("out") /\ list'[t] = <<>>
      BY <1>1, <1>5 DEF CreateThread, TypeOK
    <2>2. Held(t)' = {} /\ call'[t].at = "out"
      <3>1. ToSet(<<>>) = {}
        BY DEF ToSet
      <3> QED BY <2>1, <3>1, IdleCall DEF Held, OnList
    <2>3. Held(t) = {}
      BY <1>1, <1>5, HoldsNothing DEF CreateThread, Exists, Fits
    <2> QED BY <1>2, <1>3, <2>1, <2>2, <2>3, AThreadMoves
  <1>6. CASE SetCallback(t)
    <2>1. /\ \A u \in Threads \ {t} :
                call'[u] = call[u] /\ list'[u] = list[u] /\ callback'[u] = callback[u]
          /\ call'[t] = call[t] /\ list'[t] = list[t] /\ call[t].at = "out"
      BY <1>1, <1>6 DEF SetCallback, TypeOK
    <2>2. Held(t)' = Held(t)
      BY <2>1 DEF Held, OnList
    <2>3. \A n : ~Due(n)'
      BY <1>4, <1>6 DEF SetCallback, Due
    <2> QED BY <1>2, <1>3, <2>1, <2>2, <2>3, AThreadMoves
  <1>7. CASE EndThread(t)
    <2>1. /\ t # Loader /\ call[t].at = "out" /\ Finish(t, callback[t])
          /\ UNCHANGED <<list, callback>>
      BY <1>7 DEF EndThread
    <2>2. /\ \A u \in Threads \ {t} : call'[u] = call[u] /\ list'[u] = list[u]
          /\ Held(t)' \subseteq Held(t)
      BY <1>1, <2>1, FinishHolds
    <2>3. call'[t].at \in {"walk", "ended"}
      BY <1>1, <2>1 DEF Finish, Idle, TypeOK
    <2>4. ASSUME NEW n \in Held(t), Due(n)
          PROVE  n \in Held(t)'
      <3>1. callback[t] = "wups"
        BY <2>1, <2>4 DEF UnloadInv, Installed
      <3>2. n \in OnList(t)
        <4>1. ToSet(<<>>) = {}
          BY DEF ToSet
        <4> QED BY <1>1, <2>1, <2>4, <4>1 DEF Held, Fits, CallsMakeSense
      <3>3. list[t] # <<>>
        BY <3>2 DEF OnList, ToSet
      <3>4. call'[t].rest = list[t]
        BY <1>1, <2>1, <3>1, <3>3 DEF Finish, TypeOK
      <3> QED BY <3>2, <3>4 DEF Held, OnList
    <2> QED BY <1>1, <1>2, <1>3, <2>1, <2>2, <2>3, <2>4, AThreadMoves
  <1> QED BY <1>5, <1>6, <1>7

\* What the steps of a registration change.
LEMMA OthersStay ==
    ASSUME OwnInv, NEW t \in Threads,
           \/ \E p \in Plugins : RegisterBegin(t, p)
           \/ RegisterCallback(t) \/ RegisterLink(t) \/ RegisterPublish(t)
           \/ CleanupCall(t) \/ CleanupFree(t) \/ CleanupEnd(t)
    PROVE  /\ UNCHANGED <<phase, loaded, loaderVars, copy, own>>
           /\ \A u \in Threads \ {t} :
                call'[u] = call[u] /\ list'[u] = list[u] /\ callback'[u] = callback[u]
  <1>1. /\ call \in [Threads -> Call] /\ list \in [Threads -> Seq(Nodes)]
        /\ callback \in [Threads -> Callbacks]
    BY DEF OwnInv, LeakInv, TypeOK
  <1> QED BY <1>1 DEF RegisterBegin, RegisterCallback, RegisterLink, RegisterPublish,
                      CleanupCall, CleanupFree, CleanupEnd, Finish, history

LEMMA BeginMoves ==
    ASSUME OwnInv, LookInv, NEW t \in Threads, NEW p \in Plugins, RegisterBegin(t, p)
    PROVE  \E n \in Nodes :
              /\ ~node[n].live /\ cut' = cut \ {n}
              /\ node'[n] = [live |-> TRUE, plugin |-> p, saved |-> "none", cleaned |-> 0]
              /\ \A k \in Nodes \ {n} : node'[k] = node[k]
              /\ call[t].at = "out"
              /\ call'[t].at = "callback" /\ call'[t].node = n /\ call'[t].rest = <<>>
              /\ UNCHANGED <<list, callback, globals, called>>
              /\ Held(t) = OnList(t) /\ Held(t)' = Held(t) \cup {n}
  <1>1. /\ call \in [Threads -> Call] /\ node \in [Nodes -> NodeState] /\ Fits(t)
    BY DEF OwnInv, LeakInv, TypeOK, ListedOnce
  <1>2. PICK n \in Nodes :
            /\ ~node[n].live /\ cut' = cut \ {n}
            /\ node' = [node EXCEPT ![n] = [live |-> TRUE, plugin |-> p,
                                            saved |-> "none", cleaned |-> 0]]
            /\ call' = [call EXCEPT ![t] = [Idle("callback") EXCEPT !.node = n]]
    BY DEF RegisterBegin
  <1>3. call'[t].at = "callback" /\ call'[t].node = n /\ call'[t].rest = <<>>
    BY <1>1, <1>2 DEF Idle
  <1>4. call[t].at = "out" /\ UNCHANGED <<list, callback, globals, called>>
    BY LookedFor DEF RegisterBegin
  <1>5. ToSet(<<>>) = {}
    BY DEF ToSet
  <1>6. Held(t) = OnList(t)
    BY <1>1, <1>4, <1>5 DEF Held, Fits, OwnInv, LeakInv, CallsMakeSense
  <1>7. Held(t)' = Held(t) \cup {n}
    BY <1>3, <1>4, <1>5, <1>6, ReentAssumption DEF Held, OnList
  <1> QED BY <1>1, <1>2, <1>3, <1>4, <1>6, <1>7

LEMMA CallbackMoves ==
    ASSUME OwnInv, NEW t \in Threads, RegisterCallback(t)
    PROVE  LET m == call[t].node
           IN  /\ m \in Nodes /\ call[t].at = "callback" /\ call'[t].at = "link"
               /\ call'[t].node = m /\ call'[t].rest = call[t].rest
               /\ UNCHANGED <<list, globals, called, cut>>
               /\ Held(t)' = Held(t) /\ m \notin OnList(t)
               /\ \A n \in Nodes : node'[n].live = node[n].live
                      /\ node'[n].plugin = node[n].plugin /\ node'[n].cleaned = node[n].cleaned
               /\ \/ /\ list[t] = <<>>
                     /\ node'[m].saved = callback[t] /\ callback'[t] = "wups"
                     /\ \A n \in Nodes \ {m} : node'[n].saved = node[n].saved
                  \/ /\ list[t] # <<>> /\ Head(list[t]) \in Nodes \ {m}
                     /\ node'[m].saved = node[Head(list[t])].saved
                     /\ node'[Head(list[t])].saved = "none"
                     /\ callback'[t] = callback[t]
                     /\ \A n \in Nodes \ {m, Head(list[t])} : node'[n].saved = node[n].saved
  <1> DEFINE m == call[t].node
             s == list[t]
  <1>1. /\ call \in [Threads -> Call] /\ node \in [Nodes -> NodeState] /\ Fits(t)
        /\ s \in Seq(Nodes) /\ callback \in [Threads -> Callbacks]
    BY DEF OwnInv, LeakInv, TypeOK, ListedOnce
  <1>2. /\ call[t].at = "callback" /\ m \in Nodes
        /\ call' = [call EXCEPT ![t].at = "link"]
        /\ UNCHANGED <<list, globals, called, cut>>
    BY <1>1 DEF RegisterCallback, OwnInv, LeakInv, CallsMakeSense, Call, history
  <1>3. call'[t].at = "link" /\ call'[t].node = m /\ call'[t].rest = call[t].rest
    BY <1>1, <1>2 DEF Call
  <1>4. Held(t)' = Held(t)
    BY <1>2, <1>3 DEF Held, OnList
  <1>5. m \notin OnList(t)
    <2>1. \A i \in 1..Len(s) : s[i] # m
      BY <1>1, <1>2 DEF Fits
    <2>2. \A n : n \in ToSet(s) <=> \E i \in 1..Len(s) : s[i] = n
      BY <1>1, InSeq
    <2> QED BY <2>1, <2>2 DEF OnList
  <1>6. CASE s = <<>>
    <2>1. /\ node' = [node EXCEPT ![m].saved = callback[t]]
          /\ callback' = [callback EXCEPT ![t] = "wups"]
      BY <1>6 DEF RegisterCallback
    <2>2. \A n \in Nodes : node'[n].live = node[n].live
             /\ node'[n].plugin = node[n].plugin /\ node'[n].cleaned = node[n].cleaned
      BY <1>1, <1>2, <2>1 DEF NodeState
    <2>3. /\ node'[m].saved = callback[t] /\ callback'[t] = "wups"
          /\ \A n \in Nodes \ {m} : node'[n].saved = node[n].saved
      BY <1>1, <1>2, <2>1 DEF NodeState
    <2> QED BY <1>2, <1>3, <1>4, <1>5, <1>6, <2>2, <2>3
  <1>7. CASE s # <<>>
    <2> DEFINE h == Head(s)
    <2>1. h \in Nodes /\ h # m
      BY <1>1, <1>5, <1>7, InSeq DEF OnList
    <2> DEFINE mid == [node EXCEPT ![m].saved = node[h].saved]
    <2>2. /\ node' = [mid EXCEPT ![h].saved = "none"] /\ callback' = callback
      BY <1>7 DEF RegisterCallback
    <2>3. /\ mid \in [Nodes -> NodeState] /\ mid[m].saved = node[h].saved
          /\ \A n \in Nodes : mid[n].live = node[n].live
                /\ mid[n].plugin = node[n].plugin /\ mid[n].cleaned = node[n].cleaned
          /\ \A n \in Nodes \ {m} : mid[n].saved = node[n].saved
      BY <1>1, <1>2, <2>1 DEF NodeState
    <2> HIDE DEF mid, h
    <2>4. \A n \in Nodes : node'[n].live = node[n].live
             /\ node'[n].plugin = node[n].plugin /\ node'[n].cleaned = node[n].cleaned
      BY <2>1, <2>2, <2>3 DEF NodeState
    <2>5. /\ node'[h].saved = "none" /\ node'[m].saved = node[h].saved
          /\ \A n \in Nodes \ {m, h} : node'[n].saved = node[n].saved
      BY <1>2, <2>1, <2>2, <2>3 DEF NodeState
    <2> QED BY <1>2, <1>3, <1>4, <1>5, <1>7, <2>1, <2>2, <2>4, <2>5 DEF h
  <1> QED BY <1>6, <1>7

LEMMA LinkMoves ==
    ASSUME OwnInv, NEW t \in Threads, RegisterLink(t)
    PROVE  LET m == call[t].node
           IN  /\ m \in Nodes /\ call[t].at = "link" /\ call'[t].at = "publish"
               /\ call'[t].node = m /\ call'[t].rest = call[t].rest
               /\ UNCHANGED <<node, callback, globals, called, cut>>
               /\ list'[t] = <<m>> \o list[t]
               /\ list'[t] # <<>> /\ Head(list'[t]) = m
               /\ Len(list'[t]) = Len(list[t]) + 1 /\ Len(list[t]) \in Nat
               /\ \A i \in 1..Len(list'[t]) : i > 1 => list'[t][i] = list[t][i - 1]
               /\ Held(t)' = Held(t)
  <1> DEFINE m == call[t].node
             s == list[t]
  <1>1. /\ call \in [Threads -> Call] /\ list \in [Threads -> Seq(Nodes)] /\ s \in Seq(Nodes)
    BY DEF OwnInv, LeakInv, TypeOK
  <1>2. /\ call[t].at = "link" /\ m \in Nodes
        /\ call' = [call EXCEPT ![t].at = "publish"]
        /\ list' = [list EXCEPT ![t] = <<m>> \o s]
        /\ UNCHANGED <<node, callback, globals, called, cut>>
    BY <1>1 DEF RegisterLink, OwnInv, LeakInv, CallsMakeSense, Call, history
  <1>3. call'[t].at = "publish" /\ call'[t].node = m /\ call'[t].rest = call[t].rest
    BY <1>1, <1>2 DEF Call
  <1>4. list'[t] = <<m>> \o s
    BY <1>1, <1>2
  <1> DEFINE r == <<m>> \o s
  <1>5. /\ r \in Seq(Nodes) /\ Len(r) = Len(s) + 1 /\ Len(s) \in Nat /\ r # <<>>
        /\ \A i \in 1..Len(r) : r[i] = IF i = 1 THEN m ELSE s[i - 1]
    BY <1>1, <1>2
  <1>6. Head(r) = m /\ \A i \in 1..Len(r) : i > 1 => r[i] = s[i - 1]
    BY <1>5
  <1>7. ToSet(r) = ToSet(s) \cup {m}
    <2> HIDE DEF r
    <2>1. /\ \A k : k \in ToSet(r) <=> \E i \in 1..Len(r) : r[i] = k
          /\ \A k : k \in ToSet(s) <=> \E i \in 1..Len(s) : s[i] = k
      BY <1>1, <1>5, InSeq
    <2>2. ToSet(r) \subseteq ToSet(s) \cup {m}
      BY <1>5, <2>1
    <2>3. ASSUME NEW k \in ToSet(s) PROVE k \in ToSet(r)
      <3>1. PICK i \in 1..Len(s) : s[i] = k
        BY <2>1, <2>3
      <3>2. i + 1 \in 1..Len(r) /\ (i + 1) - 1 = i /\ i + 1 # 1
        BY <1>5, <3>1
      <3>3. r[i + 1] = k
        BY <1>5, <3>1, <3>2
      <3> QED BY <2>1, <3>2, <3>3
    <2>4. 1 \in 1..Len(r) /\ r[1] = m
      BY <1>5
    <2> QED BY <2>1, <2>2, <2>3, <2>4
  <1>8. Held(t)' = Held(t)
    BY <1>2, <1>3, <1>4, <1>7, ReentAssumption DEF Held, OnList
  <1> HIDE DEF r
  <1>9. list'[t] = r
    BY <1>4 DEF r
  <1> QED BY <1>2, <1>3, <1>4, <1>5, <1>6, <1>8, <1>9

LEMMA PublishMoves ==
    ASSUME OwnInv, FirstPublished, NEW t \in Threads, RegisterPublish(t)
    PROVE  LET m == call[t].node
           IN  /\ m \in Held(t) /\ call[t].at = "publish" /\ call'[t].at = "out"
               /\ globals' = globals \cup {m}
               /\ UNCHANGED <<node, list, callback, called, cut>>
               /\ Held(t)' = Held(t)
  <1> DEFINE m == call[t].node
  <1>1. /\ call \in [Threads -> Call] /\ list[t] \in Seq(Nodes) /\ Fits(t)
    BY DEF OwnInv, LeakInv, TypeOK, ListedOnce
  <1>2. /\ call[t].at = "publish" /\ m \in Nodes /\ globals' = globals \cup {m}
        /\ call' = [call EXCEPT ![t] = Idle("out")]
        /\ UNCHANGED <<node, list, callback, called, cut>>
    BY <1>1 DEF RegisterPublish, OwnInv, LeakInv, CallsMakeSense, Call, history
  <1>3. call'[t].at = "out" /\ call'[t].node = NoNode /\ call'[t].rest = <<>>
    BY <1>1, <1>2, IdleCall
  <1>4. m \in OnList(t)
    <2>1. list[t] # <<>> /\ Head(list[t]) = m
      BY <1>2 DEF FirstPublished
    <2>2. 1 \in 1..Len(list[t]) /\ list[t][1] = m
      BY <1>1, <2>1
    <2> QED BY <1>1, <2>2, InSeq DEF OnList
  <1>5. Held(t)' = Held(t) /\ m \in Held(t)
    <2>1. ToSet(<<>>) = {}
      BY DEF ToSet
    <2> QED BY <1>1, <1>2, <1>3, <1>4, <2>1 DEF Held, OnList, Fits
  <1> QED BY <1>2, <1>3, <1>5

\* What the steps of __wups_thread_cleanup change.
LEMMA WalkHolds ==
    ASSUME OwnInv, NEW t \in Threads, call[t].at \in {"walk", "free"}
    PROVE  Held(t) = ToSet(call[t].rest) /\ call[t].node = NoNode
  BY DEF Held, OwnInv, LeakInv, CallsMakeSense

LEMMA CleanupCallMoves ==
    ASSUME OwnInv, NEW t \in Threads, CleanupCall(t)
    PROVE  LET n == Head(call[t].rest)
           IN  /\ n \in Held(t) /\ call[t].at = "walk" /\ call'[t].at = "free"
               /\ call'[t].node = NoNode /\ call'[t].rest = call[t].rest
               /\ call'[t].then = call[t].then
               /\ UNCHANGED <<list, callback, globals, called, cut>>
               /\ node'[n].cleaned = Count(n)
               /\ \A k \in Nodes : node'[k].live = node[k].live
                      /\ node'[k].plugin = node[k].plugin /\ node'[k].saved = node[k].saved
               /\ \A k \in Nodes \ {n} : node'[k] = node[k]
               /\ Held(t)' = Held(t)
  <1> DEFINE r == call[t].rest
             n == Head(r)
  <1>1. /\ call \in [Threads -> Call] /\ node \in [Nodes -> NodeState] /\ r \in Seq(Nodes)
    BY ThreadTypes DEF OwnInv, LeakInv, TypeOK
  <1>2. /\ call[t].at = "walk" /\ r # <<>> /\ n \in Nodes
        /\ node' = [node EXCEPT ![n].cleaned = Count(n)]
        /\ call' = [call EXCEPT ![t].at = "free"]
        /\ UNCHANGED <<list, callback, globals, called, cut>>
    BY <1>1 DEF CleanupCall, history
  <1>3. Held(t) = ToSet(r) /\ call[t].node = NoNode
    BY <1>2, WalkHolds
  <1>4. n \in Held(t)
    <2>1. 1 \in 1..Len(r) /\ r[1] = n
      BY <1>1, <1>2
    <2> QED BY <1>1, <1>3, <2>1, InSeq
  <1>5. call'[t].at = "free" /\ call'[t].node = NoNode /\ call'[t].rest = r
        /\ call'[t].then = call[t].then
    BY <1>1, <1>2, <1>3 DEF Call
  <1>6. Held(t)' = Held(t)
    BY <1>2, <1>3, <1>5 DEF Held
  <1> HIDE DEF n
  <1>7. /\ node'[n].cleaned = Count(n)
        /\ \A k \in Nodes : node'[k].live = node[k].live
               /\ node'[k].plugin = node[k].plugin /\ node'[k].saved = node[k].saved
        /\ \A k \in Nodes \ {n} : node'[k] = node[k]
    BY <1>1, <1>2 DEF NodeState
  <1> QED BY <1>2, <1>4, <1>5, <1>6, <1>7 DEF n

LEMMA CleanupFreeMoves ==
    ASSUME OwnInv, NEW t \in Threads, CleanupFree(t)
    PROVE  LET n == Head(call[t].rest)
           IN  /\ n \in Held(t) /\ call[t].at = "free" /\ call'[t].at = "walk"
               /\ call'[t].rest = Tail(call[t].rest)
               /\ call'[t].then = call[t].then
               /\ globals' = globals \ {n}
               /\ UNCHANGED <<list, callback, called, cut>>
               /\ node'[n] = FreeNode(node[n].cleaned)
               /\ \A k \in Nodes \ {n} : node'[k] = node[k]
               /\ Held(t)' = Held(t) \ {n}
  <1> DEFINE r == call[t].rest
             n == Head(r)
  <1>1. /\ call \in [Threads -> Call] /\ node \in [Nodes -> NodeState] /\ r \in Seq(Nodes)
        /\ Fits(t)
    BY ThreadTypes DEF OwnInv, LeakInv, TypeOK, ListedOnce
  <1>2. /\ call[t].at = "free" /\ r # <<>> /\ n \in Nodes
        /\ node' = [node EXCEPT ![n] = FreeNode(node[n].cleaned)]
        /\ call' = [call EXCEPT ![t].at = "walk", ![t].rest = Tail(r)]
        /\ globals' = globals \ {n}
        /\ UNCHANGED <<list, callback, called, cut>>
    BY <1>1 DEF CleanupFree, history, OwnInv, LeakInv, CallsMakeSense
  <1>3. Held(t) = ToSet(r) /\ call[t].node = NoNode
    BY <1>2, WalkHolds
  <1>4. /\ call'[t].at = "walk" /\ call'[t].node = NoNode /\ call'[t].rest = Tail(r)
        /\ call'[t].then = call[t].then
    BY <1>1, <1>2, <1>3 DEF Call
  <1> DEFINE q == Tail(r)
  <1>5. /\ q \in Seq(Nodes) /\ Len(q) = Len(r) - 1 /\ Len(r) \in Nat \ {0}
        /\ \A i \in 1..Len(q) : q[i] = r[i + 1]
        /\ r[1] = n
    BY <1>1, <1>2
  <1>6. \A i, j \in 1..Len(r) : r[i] = r[j] => i = j
    BY <1>1 DEF Fits
  <1> HIDE DEF q, n
  <1>7. ToSet(q) = ToSet(r) \ {n}
    <2>1. /\ \A k : k \in ToSet(r) <=> \E i \in 1..Len(r) : r[i] = k
          /\ \A k : k \in ToSet(q) <=> \E i \in 1..Len(q) : q[i] = k
      BY <1>1, <1>5, InSeq
    <2>2. \A i \in 1..Len(q) : i + 1 \in 1..Len(r) /\ i + 1 # 1 /\ r[i + 1] # n /\ 1 \in 1..Len(r)
      BY <1>5, <1>6
    <2>3. ToSet(q) \subseteq ToSet(r) \ {n}
      BY <1>5, <2>1, <2>2
    <2>4. ASSUME NEW k \in ToSet(r), k # n PROVE k \in ToSet(q)
      <3>1. PICK i \in 1..Len(r) : r[i] = k
        BY <2>1, <2>4
      <3>2. i - 1 \in 1..Len(q) /\ (i - 1) + 1 = i
        BY <1>5, <2>4, <3>1
      <3>3. q[i - 1] = k
        BY <1>5, <3>1, <3>2
      <3> QED BY <2>1, <3>2, <3>3
    <2> QED BY <2>3, <2>4
  <1>8. Held(t)' = Held(t) \ {n}
    <2>1. call'[t].rest = q
      BY <1>4 DEF q
    <2> QED BY <1>3, <1>4, <1>7, <2>1 DEF Held
  <1>9. n \in Held(t)
    <2>1. 1 \in 1..Len(r)
      BY <1>5
    <2> QED BY <1>1, <1>3, <1>5, <2>1, InSeq
  <1>10. /\ node'[n] = FreeNode(node[n].cleaned)
         /\ \A k \in Nodes \ {n} : node'[k] = node[k]
    BY <1>1, <1>2
  <1> QED BY <1>2, <1>4, <1>8, <1>9, <1>10 DEF n

LEMMA CleanupEndMoves ==
    ASSUME OwnInv, NEW t \in Threads, CleanupEnd(t)
    PROVE  /\ call[t].at = "walk" /\ call'[t].at = "ended"
           /\ called' = IF call[t].then = "own" THEN called \cup {t} ELSE called
           /\ UNCHANGED <<node, callback, globals, cut>>
           /\ Held(t) = {} /\ Held(t)' = {}
  <1>1. /\ call \in [Threads -> Call] /\ list \in [Threads -> Seq(Nodes)]
    BY DEF OwnInv, LeakInv, TypeOK
  <1>2. /\ call[t].at = "walk" /\ call[t].rest = <<>> /\ list' = [list EXCEPT ![t] = <<>>]
        /\ Finish(t, call[t].then)
        /\ UNCHANGED <<node, callback, globals, cut>>
    BY DEF CleanupEnd
  <1>3. call' = [call EXCEPT ![t] = Idle("ended")]
    BY <1>1, <1>2 DEF Finish
  <1>4. call'[t].at = "ended"
    BY <1>1, <1>3, IdleCall
  <1>5. Held(t) = {}
    BY <1>2, HoldsNothing
  <1>6. Held(t)' \subseteq Held(t)
    BY <1>2, FinishHolds
  <1> QED BY <1>2, <1>4, <1>5, <1>6 DEF Finish

LEMMA RegisterUnload ==
    ASSUME UnloadInv, LateInv, OwnInv', NEW t \in Threads,
           \/ \E p \in Plugins : RegisterBegin(t, p)
           \/ RegisterCallback(t) \/ RegisterLink(t) \/ RegisterPublish(t)
    PROVE  UnloadInv'
  <1>1. OwnInv /\ TypeOK /\ FirstPublished
    BY DEF UnloadInv, OwnInv, LeakInv
  <1>2. /\ UNCHANGED <<phase, loaded, loaderVars, copy>>
        /\ \A u \in Threads \ {t} :
             call'[u] = call[u] /\ list'[u] = list[u] /\ callback'[u] = callback[u]
    BY <1>1, OthersStay
  <1>3. Held(t) \subseteq Nodes /\ \A k \in Held(t) : node[k].live
    BY <1>1, HeldNodes DEF OwnInv, OneHolder
  <1>4. ASSUME NEW p \in Plugins, RegisterBegin(t, p) PROVE UnloadInv'
    <2>1. PICK n \in Nodes :
              /\ ~node[n].live /\ cut' = cut \ {n}
              /\ node'[n] = [live |-> TRUE, plugin |-> p, saved |-> "none", cleaned |-> 0]
              /\ \A k \in Nodes \ {n} : node'[k] = node[k]
              /\ call[t].at = "out"
              /\ call'[t].at = "callback" /\ call'[t].node = n /\ call'[t].rest = <<>>
              /\ UNCHANGED <<list, callback, globals, called>>
              /\ Held(t) = OnList(t) /\ Held(t)' = Held(t) \cup {n}
      BY <1>1, <1>4, BeginMoves DEF LateInv
    <2>2. /\ Registrable(t, p) /\ node'[n].plugin = p
          /\ phase = "unloading" /\ p \in left /\ list[t] # <<>> => callback[t] = "wups"
      <3>1. look[t].plugin = p /\ p # NoPlugin /\ Late(t)
        BY <1>4, ReentAssumption DEF RegisterBegin, LateInv
      <3> QED BY <1>1, <2>1, <3>1 DEF Late, Registrable, TypeOK
    <2>3. UNCHANGED <<phase, left>>
      BY <1>2 DEF loaderVars
    <2>4. ASSUME t # Loader, list'[t] # <<>>, NEW k \in Held(t)', Due(k)'
          PROVE  callback'[t] = "wups"
      <3>2. CASE phase = "unloading" /\ k = n
        <4>1. p \in left
          BY <2>2, <2>3, <2>4, <3>2 DEF Due
        <4> QED BY <2>1, <2>2, <2>4, <3>2, <4>1
      <3>1. ASSUME ~(phase = "unloading" /\ k = n) PROVE \E h \in Held(t) : Due(h)
        <4>1. CASE k \in Held(t)
          BY <1>3, <2>1, <2>3, <2>4, <4>1 DEF Due
        <4>2. CASE k = n
          <5>1. phase \in {"between", "starting", "hooks"}
            BY <1>1, <2>3, <2>4, <3>1, <4>2 DEF Due
          <5>2. 1 \in 1..Len(list[t]) /\ list[t] \in Seq(Nodes)
            BY <1>1, <2>1, <2>4 DEF TypeOK
          <5>3. list[t][1] \in Held(t)
            BY <2>1, <5>2, InSeq DEF OnList
          <5> QED BY <5>1, <5>3 DEF Due
        <4> QED BY <2>1, <2>4, <4>1, <4>2
      <3> QED BY <2>1, <2>4, <3>1, <3>2 DEF UnloadInv, Installed
    <2>5. \A k \in Nodes : (k \in cut' => k \in cut) /\ (k \in cut => k \in cut' \/ ~node[k].live)
      BY <2>1
    <2>6. \A k \in Nodes : ~node[k].live /\ node'[k].live =>
              k \in Held(t)' /\ k \notin cut' /\ Registrable(t, node'[k].plugin)
      BY <2>1, <2>2
    <2>7. \A k \in Nodes : node[k].live /\ node'[k].live => node'[k].plugin = node[k].plugin
      BY <2>1
    <2> QED BY <1>1, <1>2, <2>1, <2>4, <2>5, <2>6, <2>7, AThreadMoves
  <1>5. CASE RegisterCallback(t)
    <2>1. /\ call[t].at = "callback" /\ call'[t].at = "link"
          /\ UNCHANGED <<list, globals, cut>>
          /\ Held(t)' = Held(t)
          /\ \A n \in Nodes : node'[n].live = node[n].live /\ node'[n].plugin = node[n].plugin
          /\ callback'[t] = "wups" \/ (list[t] # <<>> /\ callback'[t] = callback[t])
      BY <1>1, <1>5, CallbackMoves
    <2>2. \A k \in Held(t) : Due(k)' => Due(k)
      BY <1>2, <1>3, <2>1 DEF Due, loaderVars
    <2>3. t # Loader /\ (\E k \in Held(t)' : Due(k)') => callback'[t] = "wups"
      BY <2>1, <2>2 DEF UnloadInv, Installed
    <2> QED BY <1>1, <1>2, <2>1, <2>3, AThreadMoves
  <1>6. CASE RegisterLink(t)
    <2>1. /\ call[t].at = "link" /\ call'[t].at = "publish"
          /\ call'[t].node = call[t].node
          /\ list'[t] # <<>> /\ Head(list'[t]) = call[t].node
          /\ UNCHANGED <<node, callback, globals, cut>>
          /\ Held(t)' = Held(t)
      BY <1>1, <1>6, LinkMoves
    <2>2. \A k : Due(k)' => Due(k)
      BY <1>2, <2>1 DEF Due, loaderVars
    <2>3. t # Loader /\ (\E k \in Held(t)' : Due(k)') => callback'[t] = "wups"
      BY <2>1, <2>2 DEF UnloadInv, Installed
    <2> QED BY <1>1, <1>2, <2>1, <2>3, AThreadMoves
  <1>7. CASE RegisterPublish(t)
    <2>1. /\ call[t].node \in Held(t) /\ call[t].at = "publish" /\ call'[t].at = "out"
          /\ globals' = globals \cup {call[t].node}
          /\ UNCHANGED <<node, list, callback, cut>>
          /\ Held(t)' = Held(t)
      BY <1>1, <1>7, PublishMoves
    <2>2. \A k : Due(k)' => Due(k)
      BY <1>2, <2>1 DEF Due, loaderVars
    <2>3. t # Loader /\ (\E k \in Held(t)' : Due(k)') => callback'[t] = "wups"
      BY <2>1, <2>2 DEF UnloadInv, Installed
    <2> QED BY <1>1, <1>2, <2>1, <2>3, AThreadMoves
  <1> QED BY <1>4, <1>5, <1>6, <1>7

LEMMA ThreadCleanupUnload ==
    ASSUME UnloadInv, OwnInv', NEW t \in Threads,
           CleanupCall(t) \/ CleanupFree(t) \/ CleanupEnd(t)
    PROVE  UnloadInv'
  <1>1. OwnInv /\ TypeOK
    BY DEF UnloadInv, OwnInv, LeakInv
  <1>2. /\ UNCHANGED <<phase, loaded, loaderVars, copy>>
        /\ \A u \in Threads \ {t} :
             call'[u] = call[u] /\ list'[u] = list[u] /\ callback'[u] = callback[u]
    BY <1>1, OthersStay
  <1>3. t # Loader
    BY DEF CleanupCall, CleanupFree, CleanupEnd, UnloadInv, LoaderStays
  <1>4. CASE CleanupCall(t)
    <2>1. /\ call'[t].at = "free"
          /\ UNCHANGED <<globals, cut>>
          /\ \A k \in Nodes : node'[k].live = node[k].live /\ node'[k].plugin = node[k].plugin
          /\ Held(t)' = Held(t)
      BY <1>1, <1>4, CleanupCallMoves
    <2> QED BY <1>1, <1>2, <1>3, <2>1, AThreadMoves
  <1>5. CASE CleanupFree(t)
    <2> DEFINE n == Head(call[t].rest)
    <2>1. /\ call'[t].at = "walk" /\ n \in Held(t)
          /\ globals' = globals \ {n}
          /\ UNCHANGED cut
          /\ node'[n] = FreeNode(node[n].cleaned)
          /\ \A k \in Nodes \ {n} : node'[k] = node[k]
          /\ Held(t)' = Held(t) \ {n}
      BY <1>1, <1>5, CleanupFreeMoves
    <2> HIDE DEF n
    <2>2. ~node'[n].live
      BY <2>1 DEF FreeNode
    <2> QED BY <1>1, <1>2, <1>3, <2>1, <2>2, AThreadMoves
  <1>6. CASE CleanupEnd(t)
    <2>1. /\ call'[t].at = "ended"
          /\ UNCHANGED <<node, globals, cut>>
          /\ Held(t) = {} /\ Held(t)' = {}
      BY <1>1, <1>6, CleanupEndMoves
    <2> QED BY <1>1, <1>2, <1>3, <2>1, AThreadMoves
  <1> QED BY <1>4, <1>5, <1>6

\* What stays on a list stays in its order, and all that is not of p stays.
LEMMA StayingKeeps ==
    ASSUME TypeOK, NEW t \in Threads, NEW p, OnList(t) \cap Of(p) # {},
           \A i, j \in 1..Len(list[t]) :
               node[list[t][i]].plugin = node[list[t][j]].plugin => i = j
    PROVE  /\ OnList(t) \ Of(p) \subseteq ToSet(Staying(t, p))
           /\ \A i \in 1..Len(Staying(t, p)) : \E k \in 1..Len(list[t]) :
                  /\ Staying(t, p)[i] = list[t][k] /\ k >= i
                  /\ Head(list[t]) \in Of(p) => k > 1
           /\ list[t] # <<>>
           /\ Head(list[t]) \notin Of(p) =>
                  Staying(t, p) # <<>> /\ Head(Staying(t, p)) = Head(list[t])
  <1> DEFINE s == list[t]
             r == Staying(t, p)
  <1>1. s \in Seq(Nodes) /\ \A i \in 1..Len(s) : s[i] \in Nodes /\ s[i] \in OnList(t)
    BY ThreadTypes, InSeq DEF OnList
  <1>2. PICK d \in 1..Len(s) :
            /\ s[d] \in Of(p)
            /\ Len(r) = Len(s) - 1
            /\ \A i \in 1..Len(r) : r[i] = IF i < d THEN s[i] ELSE s[i + 1]
    BY StayingElements
  <1>4. r \in Seq(Nodes)
    BY StayingElements
  <1>8. Len(s) \in Nat /\ Len(s) > 0 /\ s # <<>> /\ Head(s) = s[1]
    BY <1>1, <1>2
  <1>9. \A k \in 1..Len(s) : k # d => s[k] \notin Of(p)
    BY <1>1, <1>2 DEF Of
  <1> HIDE DEF r, s
  <1>10. ASSUME NEW n \in OnList(t), n \notin Of(p) PROVE n \in ToSet(r)
    <2>1. PICK k \in 1..Len(s) : s[k] = n
      BY <1>1, <1>10, InSeq DEF OnList, s
    <2>2. k # d
      BY <1>2, <1>10, <2>1
    <2>3. CASE k < d
      <3>1. k \in 1..Len(r)
        BY <1>2, <1>4, <1>8, <2>3
      <3> QED BY <1>2, <1>4, <2>1, <2>3, <3>1, InSeq
    <2>4. CASE k > d
      <3>1. k - 1 \in 1..Len(r) /\ (k - 1) + 1 = k /\ ~(k - 1 < d)
        BY <1>2, <1>4, <1>8, <2>4
      <3>2. r[k - 1] = n
        BY <1>2, <2>1, <3>1
      <3> QED BY <1>4, <3>1, <3>2, InSeq
    <2> QED BY <1>2, <2>2, <2>3, <2>4
  <1>11. ASSUME NEW i \in 1..Len(r)
         PROVE  \E k \in 1..Len(s) : r[i] = s[k] /\ k >= i /\ (Head(s) \in Of(p) => k > 1)
    <2>1. CASE i < d
      <3>1. i \in 1..Len(s) /\ r[i] = s[i] /\ i >= i
        BY <1>2, <1>8, <1>11, <2>1
      <3>2. Head(s) \notin Of(p)
        <4>1. 1 \in 1..Len(s) /\ d # 1
          BY <1>2, <1>8, <1>11, <2>1
        <4> QED BY <1>8, <1>9, <4>1
      <3> QED BY <3>1, <3>2
    <2>2. CASE ~(i < d)
      <3>1. i + 1 \in 1..Len(s) /\ r[i] = s[i + 1] /\ i + 1 >= i /\ i + 1 > 1
        BY <1>2, <1>8, <1>11, <2>2
      <3> QED BY <3>1
    <2> QED BY <2>1, <2>2
  <1>12. ASSUME Head(s) \notin Of(p) PROVE r # <<>> /\ Head(r) = Head(s)
    <2>1. d # 1 /\ 1 < d
      BY <1>2, <1>8, <1>12
    <2>2. 1 \in 1..Len(r)
      BY <1>2, <1>4, <1>8, <2>1
    <2> QED BY <1>2, <1>4, <1>8, <2>1, <2>2
  <1>13. OnList(t) \ Of(p) \subseteq ToSet(r)
    BY <1>10
  <1> QED BY <1>8, <1>11, <1>12, <1>13 DEF r, s

\* Threads that go away, or a heap that starts empty.
LEMMA AllGone ==
    ASSUME list' = [t \in Threads |-> <<>>],
           call' = [t \in Threads |-> Idle(IF t = Loader THEN "out" ELSE "no")]
    PROVE  \A t \in Threads : Held(t)' = {} /\ call'[t].at = IF t = Loader THEN "out" ELSE "no"
  <1>1. \A t \in Threads :
          /\ call'[t].rest = <<>> /\ call'[t].node = NoNode
          /\ call'[t].at = IF t = Loader THEN "out" ELSE "no"
          /\ list'[t] = <<>>
    BY IdleCall
  <1>2. ToSet(<<>>) = {}
    BY DEF ToSet
  <1> QED BY <1>1, <1>2 DEF Held, OnList

LEMMA ExitUnload ==
    ASSUME UnloadInv, OwnInv', Exit
    PROVE  UnloadInv'
  <1>1. /\ phase = "running" /\ phase' = "between" /\ copy' = globals /\ globals' = {}
        /\ UNCHANGED <<loaded, loaderVars, node>>
        /\ \A n \in Nodes : n \in cut => n \in cut'
    BY DEF Exit
  <1>2. \A t \in Threads : Held(t)' = {} /\ call'[t].at = IF t = Loader THEN "out" ELSE "no"
    BY AllGone DEF Exit
  <1>3. deferred' = {} /\ \A t \in Threads : pending'[t] = "none"
    BY <1>1 DEF UnloadInv, OwnInv, GlobalsApart, PendingHoldNothing, loaderVars
  <1>4. FirstPublished' /\ LoaderStays' /\ Uncut' /\ Installed' /\ PendingHoldNothing' /\ GlobalsHeld'
    BY <1>1, <1>2, <1>3, ReentAssumption
    DEF FirstPublished, LoaderStays, Uncut, Installed, PendingHoldNothing, GlobalsHeld
  <1>5. Visited'
    BY <1>1 DEF Visited
  <1>6. UnloadedLeavesNothing'
    BY <1>1 DEF UnloadInv, UnloadedLeavesNothing
  <1> QED BY <1>4, <1>5, <1>6 DEF UnloadInv

LEMMA RebootUnload ==
    ASSUME OwnInv', Reboot
    PROVE  UnloadInv'
  <1>1. /\ phase' = "starting" /\ globals' = {} /\ copy' = {} /\ deferred' = {} /\ cut' = {}
        /\ pending' = [t \in Threads |-> "none"]
        /\ \A n \in Nodes : node'[n] = FreeNode(0)
    BY DEF Reboot
  <1>2. \A t \in Threads : Held(t)' = {} /\ call'[t].at = IF t = Loader THEN "out" ELSE "no"
    BY AllGone DEF Reboot
  <1>3. \A n \in Nodes : ~node'[n].live
    BY <1>1 DEF FreeNode
  <1> QED BY <1>1, <1>2, <1>3, ReentAssumption
          DEF UnloadInv, FirstPublished, LoaderStays, Uncut, Installed, PendingHoldNothing,
              GlobalsHeld, Visited, UnloadedLeavesNothing

LEMMA CycleUnload ==
    ASSUME UnloadInv, OwnInv', ApplicationCycle
    PROVE  UnloadInv'
  <1>1. CASE Exit
    BY <1>1, ExitUnload
  <1>2. CASE Reboot
    BY <1>2, RebootUnload
  <1>3. ASSUME \/ ClearDone \/ KeepPlugins \/ StartApplication
               \/ \E n \in Nodes : ClearDangling(n)
               \/ \E p \in Plugins : LoadPlugin(p)
        PROVE  UnloadInv'
    <2>1. /\ phase \in {"between", "starting", "loading"}
          /\ phase' \in {"between", "starting", "loading", "running"}
          /\ phase' \in {"between", "starting"} => phase \in {"between", "starting"}
          /\ UNCHANGED <<list, call, callback, cut, globals, deferred, pending>>
          /\ loaded \subseteq loaded'
      BY <1>3 DEF ClearDone, KeepPlugins, StartApplication, ClearDangling, LoadPlugin,
                  LoaderAt, loaderVars, threadVars, history
    <2>2. copy' \subseteq copy /\ \A n \in Nodes : node'[n].live => node'[n] = node[n]
      <3>1. ASSUME NEW n \in Nodes, ClearDangling(n)
            PROVE  copy' \subseteq copy /\ \A k \in Nodes : node'[k].live => node'[k] = node[k]
        <4>1. /\ copy' = copy \ {n} /\ ~node'[n].live
              /\ \A k \in Nodes \ {n} : node'[k] = node[k]
          BY <3>1 DEF ClearDangling, FreeNode, UnloadInv, OwnInv, LeakInv, TypeOK
        <4> QED BY <4>1
      <3> QED BY <1>3, <3>1 DEF ClearDone, KeepPlugins, StartApplication, LoadPlugin
    <2>3. \A n : Due(n)' => Due(n)
      BY <2>1 DEF Due
    <2>4. FirstPublished' /\ LoaderStays' /\ Uncut' /\ Installed' /\ GlobalsHeld'
      BY <2>1, <2>2, <2>3, TheLoaderMoves
    <2>5. PendingHoldNothing'
      BY <2>1 DEF UnloadInv, PendingHoldNothing
    <2>6. Visited'
      BY <2>1 DEF Visited
    <2>7. UnloadedLeavesNothing'
      <3>1. \A n \in Nodes : n \in globals' \cup copy' => node'[n].live
        BY DEF OwnInv, GlobalsApart
      <3> QED BY <2>1, <2>2, <3>1 DEF UnloadInv, UnloadedLeavesNothing
    <2> QED BY <2>4, <2>5, <2>6, <2>7 DEF UnloadInv
  <1> QED BY <1>1, <1>2, <1>3 DEF ApplicationCycle

\* What the scan changes, given that it races with no thread.
LEMMA ScanMoves ==
    ASSUME OwnInv, FirstPublished, NEW p \in Plugins, Scan(p), NEW t \in Threads
    PROVE  /\ t \in Scanned(p) => call[t].at \in Holding /\ list'[t] = Staying(t, p)
           /\ t \notin Scanned(p) => list'[t] = list[t]
           /\ Held(t)' = Held(t) \ Of(p)
           /\ Held(t) \cap Of(p) \subseteq deferred'
           /\ call[t].at \in {"callback", "link", "publish"} => call[t].node \notin Of(p)
           /\ t \in Scanned(p) => OnList(t) \ Of(p) \subseteq OnList(t)'
           /\ t \in Restores(p) => call[t].at = "out" /\ Held(t)' = {}
           /\ t \in Heirs(p) => call[t].at = "out"
  <1>1. /\ phase = "unloading" /\ Racing(p) = {}
        /\ list' = [u \in Threads |-> IF u \in Scanned(p) THEN Staying(u, p) ELSE list[u]]
        /\ deferred' = UNION {OnList(u) \cap Of(p) : u \in Scanned(p)}
        /\ UNCHANGED call
    BY DEF Scan, Visit, LoaderAt
  <1>2. /\ Fits(t) /\ list[t] \in Seq(Nodes) /\ TypeOK /\ call[t].at \in Places
        /\ Held(t) \subseteq Nodes
    BY ThreadTypes DEF OwnInv, LeakInv, ListedOnce, TypeOK, Call
  <1>3. /\ call[t].at \in {"callback", "link", "publish"} => node[call[t].node].plugin # p
        /\ call[t].at \in {"walk", "free"} => OnList(t) \cap Of(p) = {} /\ call[t].rest = list[t]
        /\ call[t].at \in {"callback", "link"} => list[t] = <<>> \/ Head(list[t]) \notin Of(p)
    BY <1>1 DEF Racing
  <1>4. t \in Scanned(p) => call[t].at \in Holding
    BY <1>2, <1>3 DEF Scanned, Exists
  <1>5. call[t].at \in {"callback", "link", "publish"} => call[t].node \notin Of(p)
    BY <1>3 DEF Of
  <1>6. ({call[t].node} \ {NoNode}) \cap Of(p) = {}
    BY <1>5 DEF OwnInv, LeakInv, CallsMakeSense
  <1>7. ToSet(call[t].rest) \cap Of(p) = {}
    <2>1. ToSet(<<>>) = {}
      BY DEF ToSet
    <2> QED BY <1>2, <1>3, <2>1 DEF Fits, OnList
  <1>8. t \notin Scanned(p) /\ call[t].at \in Holding => OnList(t) \cap Of(p) = {}
    BY DEF Scanned, Exists
  <1>9. /\ t \in Scanned(p) => list'[t] = Staying(t, p)
        /\ t \notin Scanned(p) => list'[t] = list[t]
    BY <1>1
  <1>10. ASSUME t \in Scanned(p)
         PROVE  /\ ToSet(Staying(t, p)) = OnList(t) \ Of(p)
                /\ Head(list[t]) \notin Of(p) =>
                     Staying(t, p) # <<>> /\ Head(Staying(t, p)) = Head(list[t])
    <2>1. /\ OnList(t) \cap Of(p) # {}
          /\ \A i, j \in 1..Len(list[t]) :
                 node[list[t][i]].plugin = node[list[t][j]].plugin => i = j
      BY <1>2, <1>4, <1>10 DEF Fits, Scanned
    <2> QED BY <1>2, <2>1, StayingHolds, StayingKeeps
  <1>11. t \in Scanned(p) => OnList(t)' = OnList(t) \ Of(p)
    BY <1>9, <1>10 DEF OnList
  <1>12. Held(t)' = Held(t) \ Of(p)
    <2>1. call'[t] = call[t]
      BY <1>1
    <2>2. CASE t \in Scanned(p)
      BY <1>4, <1>6, <1>7, <1>11, <2>1, <2>2 DEF Held
    <2>3. CASE t \notin Scanned(p)
      BY <1>6, <1>7, <1>8, <1>9, <2>1, <2>3 DEF Held, OnList
    <2> QED BY <2>2, <2>3
  <1>13. Held(t) \cap Of(p) \subseteq deferred'
    <2>1. ASSUME NEW n \in Held(t), n \in Of(p) PROVE n \in deferred'
      <3>1. call[t].at \in Holding /\ n \in OnList(t)
        BY <1>6, <1>7, <2>1 DEF Held
      <3>2. t \in Scanned(p)
        BY <1>8, <2>1, <3>1
      <3> QED BY <1>1, <2>1, <3>1, <3>2
    <2> QED BY <2>1
  <1>14. ASSUME t \in Scanned(p), Carried(t, p) # "none" PROVE call[t].at = "out"
    <2>1. list[t] # <<>> /\ Head(list[t]) \in Of(p)
      BY <1>14 DEF Carried
    <2> QED BY <1>3, <1>4, <1>5, <1>14, <2>1 DEF FirstPublished
  <1>15. ASSUME t \in Restores(p) PROVE Held(t)' = {}
    <2>1. t \in Scanned(p) /\ call[t].at = "out" /\ Staying(t, p) = <<>>
      BY <1>14, <1>15 DEF Restores
    <2>2. ToSet(<<>>) = {}
      BY DEF ToSet
    <2> QED BY <1>1, <1>2, <1>9, <2>1, <2>2
            DEF Held, OnList, Fits, OwnInv, LeakInv, CallsMakeSense
  <1> QED BY <1>4, <1>5, <1>9, <1>11, <1>12, <1>13, <1>14, <1>15 DEF Restores, Heirs

LEMMA ScanUnload ==
    ASSUME UnloadInv, OwnInv', NEW p \in Plugins, Scan(p)
    PROVE  UnloadInv'
  <1>1. /\ phase = "unloading" /\ current = NoPlugin /\ p \in left /\ Racing(p) = {}
        /\ current' = p /\ left' = left \ {p}
        /\ pending' = [t \in Threads |-> IF t \in Restores(p) THEN Carried(t, p) ELSE "none"]
        /\ deferred' = UNION {OnList(t) \cap Of(p) : t \in Scanned(p)}
        /\ UNCHANGED <<phase, loaded, doomed, callback, call, globals, copy, cut>>
    BY DEF Scan, Visit, LoaderAt, history
  <1>2. OwnInv /\ FirstPublished /\ TypeOK /\ GlobalsApart
    BY DEF UnloadInv, OwnInv, LeakInv
  <1>3. \A n \in Nodes : node'[n].live = node[n].live /\ node'[n].plugin = node[n].plugin
    BY <1>2 DEF Scan, TypeOK, NodeState
  <1>4. \A t \in Threads :
           /\ t \in Scanned(p) => call[t].at \in Holding /\ list'[t] = Staying(t, p)
           /\ t \notin Scanned(p) => list'[t] = list[t]
           /\ Held(t)' = Held(t) \ Of(p)
           /\ Held(t) \cap Of(p) \subseteq deferred'
           /\ call[t].at \in {"callback", "link", "publish"} => call[t].node \notin Of(p)
           /\ t \in Restores(p) => call[t].at = "out" /\ Held(t)' = {}
    BY <1>2, ScanMoves
  <1>5. \A t \in Threads : Held(t) \subseteq Nodes
    BY <1>2, HeldNodes
  <1>6. copy = {} /\ globals \subseteq Nodes
    BY <1>1, <1>2 DEF GlobalsApart, TypeOK
  <1>7. \A n \in Nodes : Due(n)' => Due(n) /\ n \notin Of(p)
    BY <1>1, <1>3 DEF Due, Of
  <1>8. FirstPublished'
    <2>1. ASSUME NEW t \in Threads, call'[t].at = "publish"
          PROVE  list'[t] # <<>> /\ Head(list'[t]) = call'[t].node
      <3>1. list[t] # <<>> /\ Head(list[t]) = call[t].node /\ Head(list[t]) \notin Of(p)
        BY <1>1, <1>2, <1>4, <2>1 DEF FirstPublished
      <3>2. CASE t \in Scanned(p)
        <4>1. /\ OnList(t) \cap Of(p) # {}
              /\ \A i, j \in 1..Len(list[t]) :
                     node[list[t][i]].plugin = node[list[t][j]].plugin => i = j
          BY <1>2, <1>4, <3>2 DEF Scanned, OwnInv, ListedOnce, Fits
        <4>2. Staying(t, p) # <<>> /\ Head(Staying(t, p)) = Head(list[t])
          BY <1>2, <3>1, <4>1, StayingKeeps
        <4> QED BY <1>1, <1>4, <3>1, <3>2, <4>2
      <3>3. CASE t \notin Scanned(p)
        BY <1>1, <1>4, <3>1, <3>3
      <3> QED BY <3>2, <3>3
    <2> QED BY <2>1 DEF FirstPublished
  <1>9. LoaderStays'
    BY <1>1 DEF UnloadInv, LoaderStays
  <1>10. deferred' \subseteq UNION {Held(t) : t \in Threads}
    <2>1. ASSUME NEW n \in deferred' PROVE \E t \in Threads : n \in Held(t)
      <3>1. PICK t \in Scanned(p) : n \in OnList(t)
        BY <1>1, <2>1
      <3>2. t \in Threads /\ call[t].at \in Holding
        BY <1>4, <3>1 DEF Scanned
      <3> QED BY <3>1, <3>2 DEF Held
    <2> QED BY <2>1
  <1>11. Uncut'
    BY <1>1, <1>4, <1>10 DEF UnloadInv, Uncut
  <1>12. Installed'
    <2>1. ASSUME NEW t \in Threads \ {Loader}, call'[t].at \in Holding,
                 ~(call'[t].at = "callback" /\ list'[t] = <<>>),
                 NEW n \in Held(t)', Due(n)'
          PROVE  callback'[t] = "wups"
      <3>1. n \in Held(t) /\ Due(n)
        BY <1>4, <1>5, <1>7, <2>1
      <3>2. ~(call[t].at = "callback" /\ list[t] = <<>>)
        <4>1. ToSet(<<>>) = {}
          BY DEF ToSet
        <4> QED BY <1>1, <1>4, <2>1, <4>1 DEF Scanned, OnList
      <3> QED BY <1>1, <2>1, <3>1, <3>2 DEF UnloadInv, Installed
    <2> QED BY <2>1 DEF Installed
  <1>13. PendingHoldNothing'
    <2>1. p # NoPlugin
      BY ReentAssumption
    <2> QED BY <1>1, <1>4, <2>1 DEF PendingHoldNothing
  <1>14. GlobalsHeld'
    <2>1. ASSUME NEW n \in globals', Due(n)' PROVE \E t \in Threads : n \in Held(t)'
      <3>1. n \in globals /\ Due(n) /\ n \notin Of(p)
        BY <1>1, <1>6, <1>7, <2>1
      <3> QED BY <1>4, <3>1 DEF UnloadInv, GlobalsHeld
    <2> QED BY <2>1 DEF GlobalsHeld
  <1>15. Visited'
    <2>1. ASSUME NEW n \in Nodes, node'[n].live, node'[n].plugin \in doomed' \ left', n \notin cut'
          PROVE  node'[n].plugin = current' /\ n \in deferred'
      <3>1. node[n].live /\ node[n].plugin \in doomed /\ n \notin cut
        BY <1>1, <1>3, <2>1
      <3>2. node[n].plugin # NoPlugin
        BY <1>2, <3>1, ReentAssumption DEF TypeOK
      <3>3. node[n].plugin = p
        BY <1>1, <1>3, <2>1, <3>1, <3>2 DEF UnloadInv, Visited
      <3>4. n \in Of(p) /\ Due(n)
        BY <1>1, <3>3 DEF Of, Due
      <3>5. n \in globals
        <4>1. \A t \in Threads : call[t].node # n
          <5>1. \A t \in Threads : call[t].node = n => call[t].at \in {"callback", "link", "publish"}
            BY <1>2, ReentAssumption DEF OwnInv, LeakInv, CallsMakeSense
          <5> QED BY <1>4, <3>4, <5>1
        <4> QED BY <1>2, <1>6, <3>1, <4>1 DEF OwnInv, LeakInv, NothingLeaks
      <3>6. PICK t \in Threads : n \in Held(t)
        BY <3>4, <3>5 DEF UnloadInv, GlobalsHeld
      <3>7. n \in deferred'
        BY <1>4, <3>4, <3>6
      <3> QED BY <1>1, <1>3, <3>3, <3>7
    <2> QED BY <2>1 DEF Visited
  <1>16. UnloadedLeavesNothing'
    BY <1>1, <1>3 DEF UnloadInv, UnloadedLeavesNothing
  <1> QED BY <1>8, <1>9, <1>11, <1>12, <1>13, <1>14, <1>15, <1>16 DEF UnloadInv

LEMMA UnloadUnload ==
    ASSUME UnloadInv, OwnInv', Unload
    PROVE  UnloadInv'
  <1>1. ASSUME NEW p \in Plugins, Scan(p) PROVE UnloadInv'
    BY <1>1, ScanUnload
  <1>2. OwnInv /\ TypeOK /\ GlobalsApart
    BY DEF UnloadInv, OwnInv, LeakInv
  <1>3. CASE HooksEnd \/ \E ps \in SUBSET loaded : HooksBegin(ps)
    <2>1. /\ phase \in {"starting", "hooks"} /\ phase' \in {"hooks", "unloading"}
          /\ phase' = "unloading" => left' = doomed'
          /\ UNCHANGED <<loaded, pending, deferred, node, list, call, globals, copy, cut>>
          /\ \A t \in Threads \ {Loader} : callback'[t] = callback[t]
      BY <1>2, <1>3 DEF HooksBegin, HooksEnd, LoaderAt, threadVars, history, TypeOK
    <2>2. FirstPublished' /\ LoaderStays' /\ Uncut' /\ Installed' /\ GlobalsHeld'
      <3>1. \A n : Due(n)' => Due(n)
        BY <2>1 DEF Due
      <3> QED BY <2>1, <3>1, TheLoaderMoves
    <2>3. PendingHoldNothing' /\ Visited' /\ UnloadedLeavesNothing'
      BY <2>1 DEF UnloadInv, PendingHoldNothing, Visited, UnloadedLeavesNothing
    <2> QED BY <2>2, <2>3 DEF UnloadInv
  <1>4. ASSUME NEW p \in Plugins, ScanTooMany(p) \/ ScanRaces(p) PROVE UnloadInv'
    <2>1. /\ phase = "unloading" /\ phase' \in {"halted", "undefined"} /\ current = NoPlugin
          /\ UNCHANGED <<loaded, left, doomed, current, pending, deferred, node, list, call,
                         callback, globals, copy, cut>>
      BY <1>4 DEF ScanTooMany, ScanRaces, Visit, LoaderAt, loaderVars, threadVars, history
    <2>2. FirstPublished' /\ LoaderStays' /\ Uncut' /\ Installed' /\ GlobalsHeld'
      <3>1. \A n : Due(n)' => Due(n)
        BY <2>1 DEF Due
      <3> QED BY <2>1, <3>1, TheLoaderMoves
    <2>3. PendingHoldNothing' /\ Visited' /\ UnloadedLeavesNothing'
      BY <2>1 DEF UnloadInv, PendingHoldNothing, Visited, UnloadedLeavesNothing
    <2> QED BY <2>2, <2>3 DEF UnloadInv
  <1>5. ASSUME NEW t \in Threads, RestoreCallback(t) PROVE UnloadInv'
    <2>1. /\ phase = "unloading" /\ pending[t] # "none"
          /\ pending' = [pending EXCEPT ![t] = "none"]
          /\ \A u \in Threads \ {t} : callback'[u] = callback[u]
          /\ UNCHANGED <<phase, loaded, left, doomed, current, deferred, node, list, call,
                         globals, copy, cut>>
      BY <1>2, <1>5 DEF RestoreCallback, history, TypeOK
    <2>2. \A n : Due(n)' <=> Due(n)
      BY <2>1 DEF Due
    <2>3. \A n \in Held(t) : ~Due(n)
      BY <2>1 DEF UnloadInv, PendingHoldNothing, Due
    <2>4. /\ FirstPublished' /\ LoaderStays' /\ Uncut' /\ Installed' /\ GlobalsHeld'
          /\ \A u \in Threads : Held(u)' = Held(u)
      BY <2>1, <2>2, <2>3, TheLoaderMoves
    <2>5. PendingHoldNothing'
      BY <1>2, <2>1, <2>4 DEF UnloadInv, PendingHoldNothing, TypeOK
    <2>6. Visited' /\ UnloadedLeavesNothing'
      BY <2>1 DEF UnloadInv, Visited, UnloadedLeavesNothing
    <2> QED BY <2>4, <2>5, <2>6 DEF UnloadInv
  <1>6. ASSUME NEW n \in Nodes, FreeDeferred(n) PROVE UnloadInv'
    <2>1. /\ n \in deferred /\ deferred' = deferred \ {n} /\ globals' = globals \ {n}
          /\ ~node'[n].live /\ \A k \in Nodes \ {n} : node'[k] = node[k]
          /\ UNCHANGED <<phase, loaded, left, doomed, current, pending, list, call, callback,
                         copy, cut>>
      BY <1>2, <1>6 DEF FreeDeferred, threadVars, history, FreeNode, TypeOK
    <2>2. \A k \in Nodes : node'[k].live => node'[k] = node[k]
      BY <2>1
    <2>3. \A k \in Nodes : node'[k].live /\ Due(k)' => Due(k)
      BY <2>1, <2>2 DEF Due
    <2>4. /\ FirstPublished' /\ LoaderStays' /\ Uncut' /\ Installed' /\ GlobalsHeld'
          /\ \A u \in Threads : Held(u)' = Held(u)
      <3>1. \A k \in Nodes : node'[k].live => node[k].live /\ node'[k].plugin = node[k].plugin
        BY <2>1, <2>2
      <3> QED BY <2>1, <2>3, <3>1, TheLoaderMoves
    <2>5. PendingHoldNothing'
      <3>1. \A t \in Threads : \A k \in Held(t)' : k \in Nodes /\ node'[k].live
        BY <1>2, <2>4, HeldNodes DEF OwnInv, OneHolder
      <3> QED BY <2>1, <2>2, <2>4, <3>1 DEF UnloadInv, PendingHoldNothing
    <2>6. Visited'
      BY <2>1, <2>2 DEF UnloadInv, Visited
    <2>7. UnloadedLeavesNothing'
      <3>1. \A k \in Nodes : k \in globals' \cup copy' => node'[k].live
        BY DEF OwnInv, GlobalsApart
      <3> QED BY <2>1, <2>2, <3>1 DEF UnloadInv, UnloadedLeavesNothing
    <2> QED BY <2>4, <2>5, <2>6, <2>7 DEF UnloadInv
  <1>7. CASE NextPlugin
    <2>1. /\ phase = "unloading" /\ deferred = {} /\ \A t \in Threads : pending[t] = "none"
          /\ UNCHANGED <<phase, loaded, left, doomed, pending, deferred, node, list, call,
                         callback, globals, copy, cut>>
      BY <1>7 DEF NextPlugin, LoaderAt, NothingPending, threadVars, history
    <2>2. FirstPublished' /\ LoaderStays' /\ Uncut' /\ Installed' /\ GlobalsHeld'
      <3>1. \A n : Due(n)' => Due(n)
        BY <2>1 DEF Due
      <3> QED BY <2>1, <3>1, TheLoaderMoves
    <2>3. PendingHoldNothing' /\ Visited' /\ UnloadedLeavesNothing'
      BY <2>1 DEF UnloadInv, PendingHoldNothing, Visited, UnloadedLeavesNothing
    <2> QED BY <2>2, <2>3 DEF UnloadInv
  <1>8. CASE Unloaded
    <2>1. /\ phase = "unloading" /\ left = {} /\ current = NoPlugin /\ phase' = "loading"
          /\ loaded' = loaded \ doomed
          /\ UNCHANGED <<pending, deferred, node, list, call, callback, globals, copy, cut>>
      BY <1>8 DEF Unloaded, LoaderAt, threadVars, history
    <2>2. FirstPublished' /\ LoaderStays' /\ Uncut' /\ Installed' /\ GlobalsHeld'
      <3>1. \A n : ~Due(n)'
        BY <2>1 DEF Due
      <3> QED BY <2>1, <3>1, TheLoaderMoves
    <2>3. PendingHoldNothing' /\ Visited'
      BY <2>1 DEF UnloadInv, PendingHoldNothing, Visited
    <2>4. deferred = {} /\ copy = {} /\ \A n \in globals : node[n].live
      BY <1>2, <2>1 DEF GlobalsApart
    <2>5. \A n \in Nodes : node[n].live /\ node[n].plugin \in doomed => n \in cut
      BY <2>1, <2>4 DEF UnloadInv, Visited
    <2>6. UnloadedLeavesNothing'
      BY <2>1, <2>4, <2>5 DEF UnloadInv, UnloadedLeavesNothing, Uncut
    <2> QED BY <2>2, <2>3, <2>6 DEF UnloadInv
  <1> QED BY <1>1, <1>3, <1>4, <1>5, <1>6, <1>7, <1>8 DEF Unload

LEMMA InitUnload == Init => UnloadInv
  <1> SUFFICES ASSUME Init PROVE UnloadInv
    OBVIOUS
  <1>1. OwnInv
    BY InitOwn
  <1>2. \A t \in Threads :
          /\ call[t].rest = <<>> /\ call[t].node = NoNode /\ list[t] = <<>>
          /\ call[t].at = IF t = Loader THEN "out" ELSE "no"
    BY IdleCall DEF Init
  <1>3. ToSet(<<>>) = {}
    BY DEF ToSet
  <1>4. \A t \in Threads : Held(t) = {}
    BY <1>2, <1>3 DEF Held, OnList
  <1>5. \A n \in Nodes : ~node[n].live
    BY DEF Init, FreeNode
  <1> QED BY <1>1, <1>2, <1>4, <1>5, ReentAssumption
          DEF Init, UnloadInv, FirstPublished, LoaderStays, Uncut, Installed, PendingHoldNothing,
              GlobalsHeld, Visited, UnloadedLeavesNothing

LEMMA InitLate == Init => LateInv
  BY InitLook DEF LateInv, Late, Init, NotLooking

LEMMA LateStays ==
    ASSUME NEW t \in Threads, Late(t),
           look'[t].plugin = look[t].plugin, list'[t] = list[t], callback'[t] = callback[t],
           pending'[t] = pending[t], UNCHANGED <<left, doomed>>, loaded \subseteq loaded',
           phase' = "unloading" => phase = "unloading"
    PROVE  Late(t)'
  BY DEF Late

LEMMA StepLate == UnloadInv /\ LateInv /\ [Next]_vars => LateInv'
  <1> SUFFICES ASSUME UnloadInv, LateInv, [Next]_vars PROVE LateInv'
    OBVIOUS
  <1>1. OwnInv /\ LookInv /\ TypeOK /\ \A t \in Threads : Late(t)
    BY DEF UnloadInv, LateInv, OwnInv, LeakInv
  <1>2. LookInv'
    BY <1>1, StepLook
  <1>3. \A t \in Threads : call[t].at # "out" => look[t].plugin = NoPlugin
    BY <1>1 DEF LookInv, LooksOut
  <1>4. \A t \in Threads : look'[t].plugin = NoPlugin => Late(t)'
    BY DEF Late
  <1>5. ASSUME NEW t \in Threads, CreateThread(t) \/ SetCallback(t) \/ EndThread(t)
        PROVE  \A u \in Threads : Late(u)'
    <2>1. UNCHANGED <<look, phase, loaded, left, doomed, pending>>
      BY <1>5 DEF CreateThread, SetCallback, EndThread, loaderVars
    <2>2. \A u \in Threads \ {t} : list'[u] = list[u] /\ callback'[u] = callback[u]
      BY <1>1, <1>5 DEF CreateThread, SetCallback, EndThread, TypeOK
    <2>3. \A u \in Threads \ {t} : Late(u)'
      BY <1>1, <2>1, <2>2, LateStays
    <2>4. Late(t)'
      <3>1. CASE CreateThread(t)
        BY <1>3, <1>4, <2>1, <3>1 DEF CreateThread, Exists
      <3>2. CASE SetCallback(t)
        BY <1>1, <2>1, <3>2 DEF SetCallback, Late
      <3>3. CASE EndThread(t)
        BY <1>4, <2>1, <3>3 DEF EndThread, NotLooking
      <3> QED BY <1>5, <3>1, <3>2, <3>3
    <2> QED BY <2>3, <2>4
  <1>6. ASSUME Looking PROVE \A u \in Threads : Late(u)'
    <2>1. UNCHANGED <<list, callback, phase, loaded, left, doomed, pending>>
      BY <1>1, <1>6, LookFrame DEF loaderVars
    <2>2. PICK t \in Threads : \/ \E p \in Plugins : LookBegin(t, p)
                               \/ LookNext(t) \/ LookEnd(t)
      BY <1>6 DEF Looking
    <2>3. \A u \in Threads \ {t} : look'[u] = look[u]
      BY <1>1, <2>2 DEF LookBegin, LookNext, LookEnd, TypeOK
    <2>4. \A u \in Threads \ {t} : Late(u)'
      BY <1>1, <2>1, <2>3, LateStays
    <2>5. ASSUME NEW p \in Plugins, LookBegin(t, p) PROVE Late(t)'
      <3>1. look'[t].plugin = p /\ p \in Callable
        BY <1>1, <2>5 DEF LookBegin, TypeOK
      <3> QED BY <2>1, <3>1 DEF Callable, Late
    <2>6. ASSUME LookNext(t) PROVE Late(t)'
      <3>1. look'[t].plugin = look[t].plugin
        BY <1>1, <2>6 DEF LookNext, TypeOK, Look
      <3> QED BY <1>1, <2>1, <3>1, LateStays
    <2>7. ASSUME LookEnd(t) PROVE Late(t)'
      <3>1. look'[t].plugin = NoPlugin
        BY <1>1, <2>7 DEF LookEnd, NotLooking, TypeOK
      <3> QED BY <1>4, <3>1
    <2> QED BY <2>2, <2>4, <2>5, <2>6, <2>7
  <1>7. ASSUME NEW t \in Threads,
               \/ \E p \in Plugins : RegisterBegin(t, p)
               \/ RegisterCallback(t) \/ RegisterLink(t) \/ RegisterPublish(t)
               \/ CleanupCall(t) \/ CleanupFree(t) \/ CleanupEnd(t)
        PROVE  \A u \in Threads : Late(u)'
    <2>1. /\ UNCHANGED <<phase, loaded, loaderVars>>
          /\ \A u \in Threads \ {t} : list'[u] = list[u] /\ callback'[u] = callback[u]
      BY <1>1, <1>7, OthersStay
    <2>2. look'[t].plugin = NoPlugin /\ \A u \in Threads \ {t} : look'[u] = look[u]
      <3>1. CASE \E p \in Plugins : RegisterBegin(t, p)
        BY <1>1, <3>1 DEF RegisterBegin, NotLooking, TypeOK
      <3>2. CASE ~\E p \in Plugins : RegisterBegin(t, p)
        <4>1. UNCHANGED look /\ call[t].at # "out"
          BY <1>7, <3>2 DEF RegisterCallback, RegisterLink, RegisterPublish, CleanupCall,
                            CleanupFree, CleanupEnd
        <4> QED BY <1>3, <4>1
      <3> QED BY <3>1, <3>2
    <2>3. UNCHANGED <<left, doomed, pending>>
      BY <2>1 DEF loaderVars
    <2> QED BY <1>1, <1>4, <2>1, <2>2, <2>3, LateStays
  <1>8. ASSUME Exit \/ Reboot PROVE \A u \in Threads : Late(u)'
    <2>1. \A u \in Threads : look'[u].plugin = NoPlugin
      BY <1>8 DEF Exit, Reboot, NotLooking
    <2> QED BY <1>4, <2>1
  <1>9. ASSUME \/ ClearDone \/ KeepPlugins \/ StartApplication
               \/ \E n \in Nodes : ClearDangling(n)
               \/ \E p \in Plugins : LoadPlugin(p) \/ ScanTooMany(p) \/ ScanRaces(p)
               \/ \E ps \in SUBSET loaded : HooksBegin(ps)
        PROVE  \A u \in Threads : Late(u)'
    <2>1. UNCHANGED look /\ phase' # "unloading" /\ loaded \subseteq loaded'
      BY <1>9 DEF ClearDone, KeepPlugins, StartApplication, ClearDangling, LoadPlugin,
                  ScanTooMany, ScanRaces, HooksBegin, LoaderAt, threadVars
    <2> QED BY <1>1, <2>1 DEF Late
  <1>10. ASSUME HooksEnd PROVE \A u \in Threads : Late(u)'
    <2>1. /\ phase = "hooks" /\ look[Loader] = NotLooking /\ left' = doomed
          /\ UNCHANGED <<look, list, loaded, doomed, pending>>
          /\ \A u \in Threads \ {Loader} : callback'[u] = callback[u]
      BY <1>1, <1>10 DEF HooksEnd, LoaderAt, TypeOK
    <2>2. Late(Loader)'
      BY <1>4, <2>1, ReentAssumption DEF NotLooking
    <2>3. ASSUME NEW u \in Threads \ {Loader}, look[u].plugin # NoPlugin PROVE Late(u)'
      <3>1. pending[u] = "none"
        BY <2>1 DEF UnloadInv, PendingHoldNothing
      <3>2. ASSUME list[u] # <<>> PROVE callback[u] = "wups"
        <4>1. call[u].at = "out"
          BY <1>3, <2>3
        <4>2. list[u] \in Seq(Nodes) /\ 1 \in 1..Len(list[u])
          BY <1>1, <3>2 DEF TypeOK
        <4>3. list[u][1] \in Held(u) /\ Due(list[u][1])
          BY <2>1, <4>1, <4>2, InSeq DEF Held, OnList, Due
        <4> QED BY <4>1, <4>3 DEF UnloadInv, Installed
      <3> QED BY <1>1, <2>1, <3>1, <3>2 DEF Late
    <2> QED BY <1>4, <2>1, <2>2, <2>3
  <1>11. ASSUME NEW p \in Plugins, Scan(p) PROVE \A u \in Threads : Late(u)'
    <2>1. /\ phase = "unloading" /\ Racing(p) = {} /\ left' = left \ {p}
          /\ pending' = [t \in Threads |-> IF t \in Restores(p) THEN Carried(t, p) ELSE "none"]
          /\ list' = [t \in Threads |-> IF t \in Scanned(p) THEN Staying(t, p) ELSE list[t]]
          /\ UNCHANGED <<phase, look, loaded, doomed, callback>>
      BY <1>11 DEF Scan, Visit, LoaderAt
    <2>2. ASSUME NEW u \in Threads, look[u].plugin # NoPlugin PROVE Late(u)'
      <3>1. /\ look[u].plugin # p
            /\ look[u].plugin \in doomed => u \notin Restores(p)
        BY <2>1 DEF Racing
      <3>2. u \in Scanned(p) => list[u] # <<>>
        BY DEF Scanned, OnList, ToSet
      <3>3. list'[u] # <<>> => list[u] # <<>>
        BY <2>1, <3>2
      <3> QED BY <1>1, <2>1, <2>2, <3>1, <3>3 DEF Late
    <2> QED BY <1>4, <2>1, <2>2
  <1>12. ASSUME NEW t \in Threads, RestoreCallback(t) PROVE \A u \in Threads : Late(u)'
    <2>1. /\ phase = "unloading" /\ pending[t] # "none"
          /\ UNCHANGED <<phase, look, list, loaded, doomed, left>>
          /\ \A u \in Threads \ {t} : callback'[u] = callback[u] /\ pending'[u] = pending[u]
      BY <1>1, <1>12 DEF RestoreCallback, TypeOK
    <2>2. \A u \in Threads \ {t} : Late(u)'
      BY <1>1, <2>1, LateStays
    <2>3. Late(t)'
      BY <1>1, <2>1 DEF Late
    <2> QED BY <2>2, <2>3
  <1>13. ASSUME NextPlugin \/ (\E n \in Nodes : FreeDeferred(n)) \/ UNCHANGED vars
         PROVE  \A u \in Threads : Late(u)'
    <2>1. UNCHANGED <<look, list, callback, phase, loaded, doomed, left, pending>>
      BY <1>13 DEF NextPlugin, FreeDeferred, vars, loaderVars, threadVars
    <2> QED BY <1>1, <2>1, LateStays
  <1>14. ASSUME Unloaded PROVE \A u \in Threads : Late(u)'
    <2>1. /\ phase = "unloading" /\ phase' = "loading" /\ left = {}
          /\ loaded' = loaded \ doomed /\ UNCHANGED look
      BY <1>14 DEF Unloaded, LoaderAt, threadVars
    <2> QED BY <1>1, <2>1 DEF Late
  <1>15. \A u \in Threads : Late(u)'
    BY <1>5, <1>6, <1>7, <1>8, <1>9, <1>10, <1>11, <1>12, <1>13, <1>14
    DEF Next, Owner, Register, ThreadCleanup, ApplicationCycle, Unload
  <1> QED BY <1>2, <1>15 DEF LateInv

LEMMA StepUnload == UnloadInv /\ LateInv /\ [Next]_vars => UnloadInv'
  <1> SUFFICES ASSUME UnloadInv, LateInv, [Next]_vars PROVE UnloadInv'
    OBVIOUS
  <1>1. OwnInv'
    BY StepOwn DEF UnloadInv, LateInv
  <1>2. CASE Owner
    BY <1>1, <1>2, OwnerUnload DEF Owner
  <1>3. CASE Register
    BY <1>1, <1>3, RegisterUnload DEF Register
  <1>4. CASE ThreadCleanup
    BY <1>1, <1>4, ThreadCleanupUnload DEF ThreadCleanup
  <1>5. CASE ApplicationCycle
    BY <1>1, <1>5, CycleUnload
  <1>6. CASE Unload
    BY <1>1, <1>6, UnloadUnload
  <1>7. CASE UNCHANGED vars
    BY <1>1, <1>7 DEF vars, loaderVars, threadVars, history, UnloadInv, FirstPublished, LoaderStays,
              Uncut, Installed, PendingHoldNothing, GlobalsHeld, Visited, UnloadedLeavesNothing,
              Due, Held, OnList
  <1>8. CASE Looking
    <2>1. UNCHANGED <<phase, loaded, doomed, left, current, pending, deferred, node, list,
                      callback, call, globals, copy, cut>>
      BY <1>8, LookFrame DEF UnloadInv, OwnInv, LeakInv, loaderVars, history
    <2> QED BY <1>1, <2>1 DEF UnloadInv, FirstPublished, LoaderStays, Uncut, Installed,
              PendingHoldNothing, GlobalsHeld, Visited, UnloadedLeavesNothing, Due, Held, OnList
  <1> QED BY <1>2, <1>3, <1>4, <1>5, <1>6, <1>7, <1>8 DEF Next

\* After ClearReentDataForPlugins no node of an unloaded plugin is left on the
\* heap but those that an exit cut in two, and none in the loader's lists: no
\* context could be found by the plugin's next incarnation.
THEOREM UnloadCleansUp == Spec => []UnloadedLeavesNothing
  <1>1. UnloadInv => UnloadedLeavesNothing
    BY DEF UnloadInv
  <1> QED BY <1>1, InitUnload, StepUnload, InitLate, StepLate, PTL DEF Spec

-----------------------------------------------------------------------------
(* cleanupFn is called once.                                               *)

\* A step that neither calls cleanupFn nor frees the node a thread cleans up.
LEMMA CleanStays ==
    ASSUME CleanInv, UnloadInv',
           \A n \in Nodes : node'[n].live /\ n \notin cut' =>
               /\ node[n].live /\ n \notin cut
               /\ node'[n].cleaned = node[n].cleaned
               /\ Cleaning(n)' <=> Cleaning(n)
    PROVE  CleanInv'
  BY DEF CleanInv, CleanedBeforeFreed

\* Who cleans up a node holds it.
LEMMA CleanersHold ==
    ASSUME OwnInv, NEW t \in Threads, call[t].at = "free"
    PROVE  Head(call[t].rest) \in Held(t) /\ Head(call[t].rest) \in Nodes
  <1>1. call[t].rest \in Seq(Nodes) /\ call[t].rest # <<>>
    BY ThreadTypes DEF OwnInv, LeakInv, CallsMakeSense
  <1>2. 1 \in 1..Len(call[t].rest) /\ call[t].rest[1] = Head(call[t].rest)
    BY <1>1
  <1>3. Head(call[t].rest) \in ToSet(call[t].rest)
    BY <1>1, <1>2, InSeq
  <1> QED BY <1>1, <1>3 DEF Held

\* A thread that neither begins nor ends to clean up a node.
LEMMA CleaningStays ==
    ASSUME NEW t \in Threads, \A u \in Threads \ {t} : call'[u] = call[u],
           call[t].at # "free", call'[t].at # "free"
    PROVE  \A n : Cleaning(n)' <=> Cleaning(n)
  BY DEF Cleaning

LEMMA StepClean == CleanInv /\ LateInv /\ [Next]_vars => CleanInv'
  <1> SUFFICES ASSUME CleanInv, LateInv, [Next]_vars PROVE CleanInv'
    OBVIOUS
  <1>1. UnloadInv'
    BY StepUnload DEF CleanInv
  <1>2. OwnInv /\ TypeOK /\ FirstPublished
    BY DEF CleanInv, UnloadInv, OwnInv, LeakInv
  <1>3. ASSUME NEW t \in Threads, CreateThread(t) \/ SetCallback(t) \/ EndThread(t)
        PROVE  CleanInv'
    <2>1. UNCHANGED node /\ \A n \in Nodes : n \in cut' <=> n \in cut
      BY <1>2, <1>3, ReentAssumption DEF CreateThread, SetCallback, EndThread, TypeOK
    <2>2. \A n : Cleaning(n)' <=> Cleaning(n)
      <3>1. CASE CreateThread(t)
        BY <1>2, <3>1, IdleCall, CleaningStays DEF CreateThread, Exists, TypeOK
      <3>2. CASE SetCallback(t)
        BY <3>2 DEF SetCallback, Cleaning
      <3>3. CASE EndThread(t)
        <4>1. /\ call[t].at = "out" /\ call'[t].at \in {"walk", "ended"}
              /\ \A u \in Threads \ {t} : call'[u] = call[u]
          BY <1>2, <3>3, IdleCall DEF EndThread, Finish, TypeOK
        <4> QED BY <4>1, CleaningStays
      <3> QED BY <1>3, <3>1, <3>2, <3>3
    <2> QED BY <1>1, <2>1, <2>2, CleanStays
  <1>4. ASSUME NEW t \in Threads, NEW p \in Plugins, RegisterBegin(t, p) PROVE CleanInv'
    <2>1. \A u \in Threads \ {t} : call'[u] = call[u]
      BY <1>2, <1>4, OthersStay
    <2>2. PICK n \in Nodes :
              /\ ~node[n].live /\ cut' = cut \ {n}
              /\ node'[n] = [live |-> TRUE, plugin |-> p, saved |-> "none", cleaned |-> 0]
              /\ \A k \in Nodes \ {n} : node'[k] = node[k]
              /\ call[t].at = "out" /\ call'[t].at = "callback"
      BY <1>2, <1>4, BeginMoves DEF LateInv
    <2>3. \A k : Cleaning(k)' <=> Cleaning(k)
      BY <2>1, <2>2, CleaningStays
    <2>4. ~Cleaning(n)
      BY <1>2, <2>2, CleanersHold DEF Cleaning, OwnInv, OneHolder
    <2>5. node'[n].cleaned = 0
      BY <2>2
    <2> QED BY <1>1, <2>2, <2>3, <2>4, <2>5 DEF CleanInv, CleanedBeforeFreed
  <1>5. ASSUME NEW t \in Threads, RegisterCallback(t) \/ RegisterLink(t) \/ RegisterPublish(t)
        PROVE  CleanInv'
    <2>1. \A u \in Threads \ {t} : call'[u] = call[u]
      BY <1>2, <1>5, OthersStay
    <2>2. /\ \A n \in Nodes : node'[n].live = node[n].live /\ node'[n].cleaned = node[n].cleaned
          /\ UNCHANGED cut
          /\ call[t].at # "free" /\ call'[t].at # "free"
      <3>1. CASE RegisterCallback(t)
        BY <1>2, <3>1, CallbackMoves
      <3>2. CASE RegisterLink(t)
        BY <1>2, <3>2, LinkMoves
      <3>3. CASE RegisterPublish(t)
        BY <1>2, <3>3, PublishMoves
      <3> QED BY <1>5, <3>1, <3>2, <3>3
    <2> QED BY <1>1, <2>1, <2>2, CleaningStays, CleanStays
  <1>6. ASSUME NEW t \in Threads, CleanupCall(t) PROVE CleanInv'
    <2> DEFINE n == Head(call[t].rest)
    <2>1. \A u \in Threads \ {t} : call'[u] = call[u]
      BY <1>2, <1>6, OthersStay
    <2>2. /\ n \in Held(t) /\ call[t].at = "walk" /\ call'[t].at = "free"
          /\ call'[t].rest = call[t].rest
          /\ UNCHANGED cut
          /\ node'[n].cleaned = Count(n)
          /\ \A k \in Nodes : node'[k].live = node[k].live
          /\ \A k \in Nodes \ {n} : node'[k] = node[k]
      BY <1>2, <1>6, CleanupCallMoves
    <2>3. n \in Nodes /\ node[n].live /\ n \notin cut
      BY <1>2, <2>2, HeldNodes DEF OwnInv, OneHolder, CleanInv, UnloadInv, Uncut
    <2>4. ~Cleaning(n)
      <3>1. \A u \in Threads : u # t /\ call[u].at = "free" => Head(call[u].rest) # n
        BY <1>2, <2>2, CleanersHold DEF OwnInv, OneHolder
      <3> QED BY <2>2, <3>1 DEF Cleaning
    <2>5. node[n].cleaned = 0
      BY <2>3, <2>4 DEF CleanInv, CleanedBeforeFreed
    <2>6. node'[n].cleaned = 1 /\ call'[t].at = "free" /\ Head(call'[t].rest) = n
      BY <2>2, <2>5 DEF Count
    <2> HIDE DEF n
    <2>7. \A k \in Nodes \ {n} : Cleaning(k)' <=> Cleaning(k)
      <3>1. Head(call'[t].rest) = n /\ call[t].at # "free"
        BY <2>2 DEF n
      <3> QED BY <2>1, <3>1 DEF Cleaning
    <2>8. ASSUME NEW k \in Nodes, node'[k].live, k \notin cut'
          PROVE  node'[k].cleaned = IF Cleaning(k)' THEN 1 ELSE 0
      <3>1. CASE k = n
        BY <2>6, <3>1 DEF Cleaning
      <3>2. CASE k # n
        <4>1. node[k].cleaned = IF Cleaning(k) THEN 1 ELSE 0
          BY <2>2, <2>8 DEF CleanInv, CleanedBeforeFreed
        <4> QED BY <2>2, <2>7, <3>2, <4>1
      <3> QED BY <3>1, <3>2
    <2> QED BY <1>1, <2>8 DEF CleanInv, CleanedBeforeFreed
  <1>7. ASSUME NEW t \in Threads, CleanupFree(t) PROVE CleanInv'
    <2> DEFINE n == Head(call[t].rest)
    <2>1. \A u \in Threads \ {t} : call'[u] = call[u]
      BY <1>2, <1>7, OthersStay
    <2>2. /\ call[t].at = "free" /\ call'[t].at = "walk" /\ UNCHANGED cut
          /\ node'[n] = FreeNode(node[n].cleaned)
          /\ \A k \in Nodes \ {n} : node'[k] = node[k]
      BY <1>2, <1>7, CleanupFreeMoves
    <2>3. ~node'[n].live
      BY <2>2 DEF FreeNode
    <2>4. \A k \in Nodes \ {n} : Cleaning(k)' <=> Cleaning(k)
      BY <2>1, <2>2 DEF Cleaning
    <2> HIDE DEF n
    <2> QED BY <1>1, <2>2, <2>3, <2>4, CleanStays
  <1>8. ASSUME NEW t \in Threads, CleanupEnd(t) PROVE CleanInv'
    <2>1. \A u \in Threads \ {t} : call'[u] = call[u]
      BY <1>2, <1>8, OthersStay
    <2>2. call[t].at = "walk" /\ call'[t].at = "ended" /\ UNCHANGED <<node, cut>>
      BY <1>2, <1>8, CleanupEndMoves
    <2> QED BY <1>1, <2>1, <2>2, CleaningStays, CleanStays
  <1>9. CASE Exit \/ Reboot
    <2>1. \A t \in Threads : call'[t].at # "free"
      BY <1>9, AllGone DEF Exit, Reboot
    <2>2. \A n \in Nodes : node'[n].live /\ n \notin cut' => node'[n].cleaned = 0
      <3>1. CASE Exit
        <4>1. \A n \in Nodes : node[n].cleaned \in 0..2
          BY <1>2 DEF TypeOK, NodeState
        <4>2. \A n \in Nodes \ cut' : ~(node[n].live /\ node[n].cleaned > 0) /\ node'[n] = node[n]
          BY <3>1 DEF Exit
        <4> QED BY <4>1, <4>2
      <3>2. CASE Reboot
        BY <3>2 DEF Reboot, FreeNode
      <3> QED BY <1>9, <3>1, <3>2
    <2> QED BY <1>1, <2>1, <2>2 DEF CleanInv, CleanedBeforeFreed, Cleaning
  <1>10. ASSUME NEW n \in Nodes, ClearDangling(n) \/ FreeDeferred(n) PROVE CleanInv'
    <2>1. /\ ~node'[n].live /\ \A k \in Nodes \ {n} : node'[k] = node[k]
          /\ UNCHANGED <<call, cut>>
      BY <1>2, <1>10 DEF ClearDangling, FreeDeferred, FreeNode, TypeOK, threadVars, history
    <2> QED BY <1>1, <2>1, CleanStays DEF Cleaning
  <1>11. ASSUME NEW p \in Plugins, Scan(p) PROVE CleanInv'
    <2>1. \A n \in Nodes : node'[n].live = node[n].live /\ node'[n].cleaned = node[n].cleaned
      BY <1>2, <1>11 DEF Scan, TypeOK, NodeState
    <2>2. UNCHANGED <<call, cut>>
      BY <1>11 DEF Scan, history
    <2> QED BY <1>1, <2>1, <2>2, CleanStays DEF Cleaning
  <1>12. ASSUME \/ ClearDone \/ KeepPlugins \/ StartApplication \/ UNCHANGED vars
                \/ \E p \in Plugins : LoadPlugin(p) \/ ScanTooMany(p) \/ ScanRaces(p)
                \/ \E ps \in SUBSET loaded : HooksBegin(ps)
                \/ HooksEnd \/ NextPlugin \/ Unloaded
                \/ \E t \in Threads : RestoreCallback(t)
         PROVE  CleanInv'
    <2>1. UNCHANGED <<node, call, cut>>
      BY <1>12 DEF ClearDone, KeepPlugins, StartApplication, LoadPlugin, ScanTooMany, ScanRaces,
                   HooksBegin, HooksEnd, NextPlugin, Unloaded, RestoreCallback, threadVars,
                   history, vars
    <2> QED BY <1>1, <2>1, CleanStays DEF Cleaning
  <1>13. ASSUME Looking PROVE CleanInv'
    <2>1. UNCHANGED <<node, call, cut>>
      BY <1>2, <1>13, LookFrame DEF history
    <2> QED BY <1>1, <2>1, CleanStays DEF Cleaning
  <1> QED
    BY <1>3, <1>4, <1>5, <1>6, <1>7, <1>8, <1>9, <1>10, <1>11, <1>12, <1>13
    DEF Next, Owner, Register, ThreadCleanup, ApplicationCycle, Unload

\* What is freed was cleaned up once.
LEMMA FreedCleaned ==
    ASSUME CleanInv, LateInv, [Next]_vars, NEW n \in Nodes, node[n].live, ~node'[n].live,
           phase' # "starting", n \notin cut
    PROVE  node'[n].cleaned = 1
  <1>1. OwnInv /\ TypeOK /\ FirstPublished
    BY DEF CleanInv, UnloadInv, OwnInv, LeakInv
  <1>2. ASSUME NEW t \in Threads, CleanupFree(t) PROVE node'[n].cleaned = 1
    <2> DEFINE k == Head(call[t].rest)
    <2>1. /\ call[t].at = "free"
          /\ node'[k] = FreeNode(node[k].cleaned)
          /\ \A m \in Nodes \ {k} : node'[m] = node[m]
      BY <1>1, <1>2, CleanupFreeMoves
    <2>2. n = k
      BY <2>1
    <2>3. node[n].cleaned = 1
      BY <2>1, <2>2 DEF CleanInv, CleanedBeforeFreed, Cleaning
    <2> QED BY <2>1, <2>2, <2>3 DEF FreeNode
  <1>3. ASSUME NEW k \in Nodes, ClearDangling(k) \/ FreeDeferred(k) PROVE node'[n].cleaned = 1
    <2>1. /\ k \in copy \cup deferred
          /\ node' = [node EXCEPT ![k] = FreeNode(Count(k))]
      BY <1>3 DEF ClearDangling, FreeDeferred
    <2>2. n = k
      BY <1>1, <2>1 DEF TypeOK
    <2>3. ~Cleaning(n)
      BY <1>1, <2>1, <2>2, CleanersHold DEF Cleaning, OwnInv, OneHolder
    <2>4. node[n].cleaned = 0
      BY <2>3 DEF CleanInv, CleanedBeforeFreed
    <2> QED BY <1>1, <2>1, <2>2, <2>4 DEF TypeOK, Count, FreeNode
  <1>4. ASSUME \/ \E t \in Threads :
                    \/ CreateThread(t) \/ SetCallback(t) \/ EndThread(t)
                    \/ \E p \in Plugins : RegisterBegin(t, p)
                    \/ RegisterCallback(t) \/ RegisterLink(t) \/ RegisterPublish(t)
                    \/ CleanupCall(t) \/ CleanupEnd(t)
        PROVE  FALSE
    <2>1. ASSUME NEW t \in Threads, CreateThread(t) \/ SetCallback(t) \/ EndThread(t) PROVE FALSE
      BY <2>1 DEF CreateThread, SetCallback, EndThread
    <2>2. ASSUME NEW t \in Threads, NEW p \in Plugins, RegisterBegin(t, p) PROVE FALSE
      <3>1. PICK k \in Nodes :
                /\ ~node[k].live
                /\ \A m \in Nodes \ {k} : node'[m] = node[m]
        BY <1>1, <2>2, BeginMoves DEF LateInv
      <3> QED BY <3>1
    <2>3. ASSUME NEW t \in Threads, RegisterCallback(t) PROVE FALSE
      BY <1>1, <2>3, CallbackMoves
    <2>4. ASSUME NEW t \in Threads, RegisterLink(t) \/ RegisterPublish(t) PROVE FALSE
      BY <2>4 DEF RegisterLink, RegisterPublish
    <2>5. ASSUME NEW t \in Threads, CleanupCall(t) PROVE FALSE
      BY <1>1, <2>5, CleanupCallMoves
    <2>6. ASSUME NEW t \in Threads, CleanupEnd(t) PROVE FALSE
      BY <2>6 DEF CleanupEnd
    <2> QED BY <1>4, <2>1, <2>2, <2>3, <2>4, <2>5, <2>6
  <1>5. ASSUME \/ Exit \/ ClearDone \/ KeepPlugins \/ StartApplication \/ UNCHANGED vars
               \/ \E p \in Plugins : LoadPlugin(p) \/ ScanTooMany(p) \/ ScanRaces(p)
               \/ \E ps \in SUBSET loaded : HooksBegin(ps)
               \/ HooksEnd \/ NextPlugin \/ Unloaded
               \/ \E t \in Threads : RestoreCallback(t)
        PROVE  FALSE
    BY <1>5 DEF Exit, ClearDone, KeepPlugins, StartApplication, LoadPlugin, ScanTooMany,
                ScanRaces, HooksBegin, HooksEnd, NextPlugin, Unloaded, RestoreCallback, vars
  <1>6. ASSUME NEW p \in Plugins, Scan(p) PROVE FALSE
    BY <1>1, <1>6 DEF Scan, TypeOK, NodeState
  <1>7. CASE Reboot
    BY <1>7 DEF Reboot
  <1>8. ASSUME Looking PROVE FALSE
    BY <1>1, <1>8, LookFrame
  <1> QED
    BY <1>2, <1>3, <1>4, <1>5, <1>6, <1>7, <1>8
    DEF Next, Owner, Register, ThreadCleanup, ApplicationCycle, Unload

LEMMA InitClean == Init => CleanInv
  <1>1. Init => \A n \in Nodes : ~node[n].live
    BY DEF Init, FreeNode
  <1> QED BY <1>1, InitUnload DEF CleanInv, CleanedBeforeFreed

\* wups_backend's cleanupFn runs once for every node before it is freed,
\* whoever frees it, unless the exit of an application cut that in two.
THEOREM CleansOnce == Spec => CleanedOnce
  <1>1. CleanInv /\ LateInv /\ [Next]_vars =>
           [\A n \in Nodes :
              node[n].live /\ ~node'[n].live /\ phase' # "starting" =>
                  node'[n].cleaned = 1 \/ n \in cut]_vars
    BY FreedCleaned
  <1>2. CleanInv => UnloadInv
    BY DEF CleanInv
  <1> QED BY <1>1, <1>2, InitClean, InitLate, StepClean, StepLate, PTL DEF Spec, CleanedOnce

-----------------------------------------------------------------------------
(* Whose callback is called at the end of a thread.                        *)

Told(t) == FirstSaved(t) /\ Answered(t)

\* A thread whose nodes, callback and call a step leaves alone.
LEMMA Untold ==
    ASSUME CallbackInv, NEW t \in Threads,
           call'[t] = call[t], list'[t] = list[t], callback'[t] = callback[t],
           pending'[t] = pending[t],
           t \in cut => t \in cut', t \in called' <=> t \in called, t \in own' <=> t \in own,
           \A n \in Held(t) : node'[n].saved = node[n].saved
    PROVE  Told(t)'
  <1>1. list[t] \in Seq(Nodes) /\ OwnInv
    BY ThreadTypes DEF CallbackInv, UnloadInv, OwnInv, LeakInv
  <1>2. call[t].at \in Holding => \A i \in 1..Len(list[t]) : list[t][i] \in Held(t)
    BY <1>1, InSeq DEF Held, OnList
  <1>3. FirstSaved(t)'
    BY <1>2 DEF CallbackInv, FirstSaved
  <1>4. call[t].at \in Holding /\ list[t] # <<>> => Head(list[t]) \in Held(t)
    <2>1. list[t] # <<>> => 1 \in 1..Len(list[t]) /\ Head(list[t]) = list[t][1]
      BY <1>1
    <2> QED BY <1>2, <2>1
  <1>5. call[t].at = "link" => call[t].node \in Held(t)
    BY <1>1 DEF Held, OwnInv, LeakInv, CallsMakeSense
  <1>6. Exists(t) => Answer(t)' = Answer(t)
    <2>1. call[t].at \in Places
      BY <1>1 DEF OwnInv, LeakInv, TypeOK, Call
    <2> QED BY <1>4, <1>5, <2>1 DEF Exists, Answer
  <1>7. Exists(t)' = Exists(t)
    BY DEF Exists
  <1>8. Answered(t)'
    BY <1>6, <1>7 DEF CallbackInv, Answered
  <1> QED BY <1>3, <1>8 DEF Told

LEMMA OwnerTold ==
    ASSUME CallbackInv, NEW t \in Threads, CreateThread(t) \/ SetCallback(t) \/ EndThread(t)
    PROVE  \A u \in Threads : Told(u)'
  <1>1. OwnInv /\ TypeOK /\ Told(t)
    BY DEF CallbackInv, UnloadInv, OwnInv, LeakInv, Told
  <1>2. ASSUME NEW u \in Threads \ {t} PROVE Told(u)'
    <2>1. call'[u] = call[u] /\ list'[u] = list[u] /\ callback'[u] = callback[u]
      BY <1>1 DEF TypeOK, CreateThread, SetCallback, EndThread, Finish
    <2>2. UNCHANGED <<node, pending>>
      BY DEF CreateThread, SetCallback, EndThread, loaderVars
    <2>3. (u \in cut => u \in cut') /\ (u \in called' <=> u \in called) /\ (u \in own' <=> u \in own)
      BY DEF CreateThread, SetCallback, EndThread, Finish
    <2> QED BY <2>1, <2>2, <2>3, Untold
  <1>3. CASE CreateThread(t)
    <2>1. /\ call'[t] = Idle("out") /\ list'[t] = <<>> /\ callback'[t] \in {"none", "own"}
          /\ t \in own' <=> callback'[t] = "own"
          /\ t \notin called'
          /\ pending'[t] = pending[t] /\ (pending[t] # "none" => t \in cut')
      BY <1>1, <1>3 DEF CreateThread, TypeOK, loaderVars
    <2>2. call'[t].at = "out"
      BY <2>1, IdleCall
    <2>3. FirstSaved(t)'
      BY <2>1 DEF FirstSaved
    <2>4. Answer(t)' = callback'[t]
      BY <2>1, <2>2 DEF Answer
    <2>5. Answered(t)'
      BY <2>1, <2>2, <2>4 DEF Answered
    <2> QED BY <1>2, <2>3, <2>5 DEF Told
  <1>4. CASE SetCallback(t)
    <2>1. /\ call'[t] = call[t] /\ list'[t] = list[t] /\ callback'[t] = "own"
          /\ t \in own' /\ UNCHANGED <<node, pending, called, cut>>
          /\ call[t].at = "out" /\ phase = "running"
      BY <1>1, <1>4 DEF SetCallback, TypeOK, loaderVars
    <2>2. pending[t] = "none"
      BY <2>1 DEF CallbackInv, UnloadInv, PendingHoldNothing
    <2>3. FirstSaved(t)'
      BY <1>1, <2>1 DEF FirstSaved, Told
    <2>4. Answer(t)' = "own"
      BY <2>1 DEF Answer
    <2>5. Answered(t)'
      BY <1>1, <2>1, <2>2, <2>4 DEF Answered, Told, Exists
    <2> QED BY <1>2, <2>3, <2>5 DEF Told
  <1>5. CASE EndThread(t)
    <2>1. /\ call[t].at = "out" /\ t # Loader /\ Finish(t, callback[t])
          /\ UNCHANGED <<node, pending, list, callback, own>>
          /\ pending[t] # "none" => t \in cut'
          /\ pending[t] = "none" => cut' = cut
      BY <1>5 DEF EndThread, loaderVars
    <2>2. ASSUME t \notin cut'
          PROVE  /\ pending[t] = "none" /\ t \notin called
                 /\ Answer(t) = "own" <=> t \in own
      BY <1>1, <2>1, <2>2 DEF Told, Answered, Exists
    <2>3. CASE callback[t] = "wups" /\ list[t] # <<>>
      <3>1. /\ call'[t] = [at |-> "walk", node |-> NoNode, rest |-> list[t],
                           then |-> node[Head(list[t])].saved]
            /\ called' = called
        BY <1>1, <2>1, <2>3 DEF Finish, TypeOK
      <3>2. Answer(t) = node[Head(list[t])].saved
        BY <2>1, <2>3 DEF Answer
      <3>3. call'[t].at = "walk" /\ Answer(t)' = Answer(t)
        BY <3>1, <3>2 DEF Answer
      <3>4. FirstSaved(t)'
        BY <3>3 DEF FirstSaved
      <3>5. Answered(t)'
        BY <2>1, <2>2, <3>1, <3>3 DEF Answered, Exists
      <3> QED BY <1>2, <3>4, <3>5 DEF Told
    <2>4. CASE ~(callback[t] = "wups" /\ list[t] # <<>>)
      <3>1. /\ call'[t] = Idle("ended")
            /\ called' = IF callback[t] = "own" THEN called \cup {t} ELSE called
        BY <1>1, <2>1, <2>4 DEF Finish, TypeOK
      <3>2. Answer(t) = callback[t]
        BY <2>1, <2>4 DEF Answer
      <3>3. call'[t].at = "ended"
        BY <3>1, IdleCall
      <3>4. FirstSaved(t)'
        BY <3>3 DEF FirstSaved
      <3>5. Answered(t)'
        BY <2>1, <2>2, <3>1, <3>2, <3>3 DEF Answered, Exists
      <3> QED BY <1>2, <3>4, <3>5 DEF Told
    <2> QED BY <2>3, <2>4
  <1> QED BY <1>3, <1>4, <1>5

LEMMA FirstHeld ==
    ASSUME OwnInv, NEW t \in Threads, call[t].at \in Holding
    PROVE  /\ OnList(t) \subseteq Held(t)
           /\ \A i \in 1..Len(list[t]) : list[t][i] \in OnList(t) /\ list[t][i] \in Nodes
           /\ list[t] # <<>> => /\ Head(list[t]) = list[t][1] /\ Head(list[t]) \in OnList(t)
                                /\ Head(list[t]) \in Nodes
  <1>1. list[t] \in Seq(Nodes)
    BY ThreadTypes DEF OwnInv, LeakInv
  <1>2. \A i \in 1..Len(list[t]) : list[t][i] \in OnList(t) /\ list[t][i] \in Nodes
    BY <1>1, InSeq DEF OnList
  <1>3. list[t] # <<>> => 1 \in 1..Len(list[t]) /\ Head(list[t]) = list[t][1]
    BY <1>1
  <1> QED BY <1>2, <1>3 DEF Held

LEMMA RegisterTold ==
    ASSUME CallbackInv, LateInv, NEW t \in Threads,
           \/ \E p \in Plugins : RegisterBegin(t, p)
           \/ RegisterCallback(t) \/ RegisterLink(t) \/ RegisterPublish(t)
    PROVE  \A u \in Threads : Told(u)'
  <1>1. OwnInv /\ TypeOK /\ FirstPublished /\ Told(t)
    BY DEF CallbackInv, UnloadInv, OwnInv, LeakInv, Told
  <1>2. /\ UNCHANGED <<pending, own>>
        /\ \A u \in Threads \ {t} :
             call'[u] = call[u] /\ list'[u] = list[u] /\ callback'[u] = callback[u]
    BY <1>1, OthersStay DEF loaderVars
  <1>3. /\ \A u \in Threads : Held(u) \subseteq Nodes
        /\ \A u \in Threads : \A n \in Held(u) : node[n].live
        /\ \A u \in Threads \ {t} : Held(t) \cap Held(u) = {}
    BY <1>1, HeldNodes DEF OwnInv, OneHolder
  <1>4. ASSUME NEW p \in Plugins, RegisterBegin(t, p) PROVE \A u \in Threads : Told(u)'
    <2>1. PICK n \in Nodes :
              /\ ~node[n].live /\ cut' = cut \ {n}
              /\ \A k \in Nodes \ {n} : node'[k] = node[k]
              /\ call[t].at = "out" /\ call'[t].at = "callback"
              /\ UNCHANGED <<list, callback, called>>
      BY <1>1, <1>4, BeginMoves DEF LateInv
    <2>2. \A u \in Threads : (u \in cut' <=> u \in cut) /\ \A k \in Held(u) : node'[k] = node[k]
      BY <1>3, <2>1, ReentAssumption
    <2>3. ASSUME NEW u \in Threads \ {t} PROVE Told(u)'
      BY <1>2, <2>1, <2>2, Untold
    <2>4. FirstSaved(t)'
      BY <1>1, <2>1, <2>2, FirstHeld DEF Told, FirstSaved
    <2>5. Answer(t)' = Answer(t)
      BY <1>1, <2>1, <2>2, FirstHeld DEF Answer
    <2>6. Answered(t)'
      BY <1>1, <1>2, <2>1, <2>2, <2>5 DEF Told, Answered, Exists
    <2> QED BY <2>3, <2>4, <2>6 DEF Told
  <1>5. CASE RegisterCallback(t)
    <2> DEFINE m == call[t].node
    <2>1. /\ m \in Nodes /\ call[t].at = "callback" /\ call'[t].at = "link"
          /\ call'[t].node = m
          /\ UNCHANGED <<list, called, cut>> /\ m \notin OnList(t)
          /\ \/ /\ list[t] = <<>>
                /\ node'[m].saved = callback[t] /\ callback'[t] = "wups"
                /\ \A n \in Nodes \ {m} : node'[n].saved = node[n].saved
             \/ /\ list[t] # <<>> /\ Head(list[t]) \in Nodes \ {m}
                /\ node'[m].saved = node[Head(list[t])].saved
                /\ node'[Head(list[t])].saved = "none"
                /\ callback'[t] = callback[t]
                /\ \A n \in Nodes \ {m, Head(list[t])} : node'[n].saved = node[n].saved
      BY <1>1, <1>5, CallbackMoves
    <2>2. m \in Held(t) /\ (list[t] # <<>> => Head(list[t]) \in Held(t))
      BY <1>1, <2>1, FirstHeld, ReentAssumption DEF Held
    <2>3. \A u \in Threads \ {t} : \A n \in Held(u) : node'[n].saved = node[n].saved
      BY <1>3, <2>1, <2>2
    <2>4. \A u \in Threads \ {t} : Told(u)'
      BY <1>2, <2>1, <2>3, Untold
    <2>5. FirstSaved(t)'
      <3>1. ASSUME NEW i \in 1..Len(list[t]) PROVE node'[list[t][i]].saved = "none"
        <4>1. list[t][i] \in Nodes \ {m} /\ list[t] # <<>>
          BY <1>1, <2>1, FirstHeld DEF TypeOK
        <4>2. i = 1 => list[t][i] = Head(list[t])
          BY <1>1, <2>1, <4>1, FirstHeld
        <4>3. i > 1 => node[list[t][i]].saved = "none"
          BY <1>1, <2>1 DEF Told, FirstSaved
        <4>4. i = 1 \/ i > 1
          OBVIOUS
        <4> QED BY <2>1, <4>1, <4>2, <4>3, <4>4
      <3> QED BY <2>1, <3>1 DEF FirstSaved
    <2>6. Answer(t)' = Answer(t)
      BY <2>1 DEF Answer
    <2>7. pending[t] # "none" /\ t \notin cut \cup {Loader} => callback'[t] = "wups"
      BY <1>1, <2>1 DEF Told, Answered, Exists
    <2>8. Answered(t)'
      BY <1>1, <1>2, <2>1, <2>6, <2>7 DEF Told, Answered, Exists
    <2> QED BY <2>4, <2>5, <2>8 DEF Told
  <1>6. CASE RegisterLink(t)
    <2> DEFINE m == call[t].node
    <2>1. /\ call[t].at = "link" /\ call'[t].at = "publish"
          /\ UNCHANGED <<node, callback, called, cut>>
          /\ list'[t] # <<>> /\ Head(list'[t]) = m
          /\ Len(list'[t]) = Len(list[t]) + 1 /\ Len(list[t]) \in Nat
          /\ \A i \in 1..Len(list'[t]) : i > 1 => list'[t][i] = list[t][i - 1]
      BY <1>1, <1>6, LinkMoves
    <2>2. \A u \in Threads \ {t} : Told(u)'
      BY <1>2, <2>1, Untold
    <2>3. FirstSaved(t)'
      <3>1. ASSUME NEW i \in 1..Len(list'[t]), i > 1 PROVE node[list'[t][i]].saved = "none"
        <4>1. i - 1 \in 1..Len(list[t]) /\ list'[t][i] = list[t][i - 1]
          BY <2>1, <3>1
        <4> QED BY <1>1, <2>1, <4>1 DEF Told, FirstSaved
      <3> QED BY <2>1, <3>1 DEF FirstSaved
    <2>4. Answer(t)' = Answer(t)
      BY <2>1 DEF Answer
    <2>5. Answered(t)'
      BY <1>1, <1>2, <2>1, <2>4 DEF Told, Answered, Exists
    <2> QED BY <2>2, <2>3, <2>5 DEF Told
  <1>7. CASE RegisterPublish(t)
    <2>1. /\ call[t].at = "publish" /\ call'[t].at = "out"
          /\ UNCHANGED <<node, list, callback, called, cut>>
      BY <1>1, <1>7, PublishMoves
    <2>2. \A u \in Threads \ {t} : Told(u)'
      BY <1>2, <2>1, Untold
    <2>3. FirstSaved(t)'
      BY <1>1, <2>1 DEF Told, FirstSaved
    <2>4. Answer(t)' = Answer(t)
      BY <2>1 DEF Answer
    <2>5. Answered(t)'
      BY <1>1, <1>2, <2>1, <2>4 DEF Told, Answered, Exists
    <2> QED BY <2>2, <2>3, <2>5 DEF Told
  <1> QED BY <1>4, <1>5, <1>6, <1>7

LEMMA ThreadCleanupTold ==
    ASSUME CallbackInv, NEW t \in Threads, CleanupCall(t) \/ CleanupFree(t) \/ CleanupEnd(t)
    PROVE  \A u \in Threads : Told(u)'
  <1>1. OwnInv /\ TypeOK /\ Told(t)
    BY DEF CallbackInv, UnloadInv, OwnInv, LeakInv, Told
  <1>2. /\ UNCHANGED <<pending, own>>
        /\ \A u \in Threads \ {t} :
             call'[u] = call[u] /\ list'[u] = list[u] /\ callback'[u] = callback[u]
    BY <1>1, OthersStay DEF loaderVars
  <1>3. /\ \A u \in Threads : Held(u) \subseteq Nodes
        /\ \A u \in Threads \ {t} : Held(t) \cap Held(u) = {}
    BY <1>1, HeldNodes DEF OwnInv, OneHolder
  <1>4. CASE CleanupCall(t) \/ CleanupFree(t)
    <2> DEFINE n == Head(call[t].rest)
    <2>1. /\ call[t].at \in {"walk", "free"} /\ call'[t].at \in {"walk", "free"}
          /\ call'[t].then = call[t].then
          /\ UNCHANGED <<called, cut>>
          /\ n \in Held(t) /\ \A k \in Nodes \ {n} : node'[k] = node[k]
      BY <1>1, <1>4, CleanupCallMoves, CleanupFreeMoves
    <2> HIDE DEF n
    <2>2. \A u \in Threads \ {t} : Told(u)'
      BY <1>2, <1>3, <2>1, Untold
    <2>3. FirstSaved(t)'
      BY <2>1 DEF FirstSaved
    <2>4. Answer(t)' = Answer(t)
      BY <2>1 DEF Answer
    <2>5. Answered(t)'
      BY <1>1, <1>2, <2>1, <2>4 DEF Told, Answered, Exists
    <2> QED BY <2>2, <2>3, <2>5 DEF Told
  <1>5. CASE CleanupEnd(t)
    <2>1. /\ call[t].at = "walk" /\ call'[t].at = "ended"
          /\ called' = IF call[t].then = "own" THEN called \cup {t} ELSE called
          /\ UNCHANGED <<node, cut>>
      BY <1>1, <1>5, CleanupEndMoves
    <2>2. \A u \in Threads \ {t} : Told(u)'
      <3>1. \A u \in Threads \ {t} : u \in called' <=> u \in called
        BY <2>1
      <3> QED BY <1>2, <2>1, <3>1, Untold
    <2>3. FirstSaved(t)'
      BY <2>1 DEF FirstSaved
    <2>4. Answered(t)'
      BY <1>1, <1>2, <2>1 DEF Told, Answered, Exists, Answer
    <2> QED BY <2>2, <2>3, <2>4 DEF Told
  <1> QED BY <1>4, <1>5

\* Whose saved callback the scan changes.
LEMMA HeirHolds ==
    ASSUME OwnInv, FirstPublished, NEW p \in Plugins, Scan(p), NEW u \in Heirs(p)
    PROVE  Head(Staying(u, p)) \in Held(u) /\ u \in Threads
  <1>1. u \in Threads /\ OnList(u) \cap Of(p) # {} /\ Staying(u, p) # <<>>
    BY DEF Heirs, Scanned
  <1>2. call[u].at = "out"
    BY <1>1, ScanMoves
  <1>3. /\ TypeOK
        /\ \A i, j \in 1..Len(list[u]) :
               node[list[u][i]].plugin = node[list[u][j]].plugin => i = j
    BY <1>1, <1>2 DEF OwnInv, LeakInv, ListedOnce, Fits
  <1>4. Staying(u, p) \in Seq(Nodes) /\ ToSet(Staying(u, p)) \subseteq OnList(u)
    BY <1>1, <1>3, StayingHolds
  <1>5. 1 \in 1..Len(Staying(u, p)) /\ Head(Staying(u, p)) = Staying(u, p)[1]
    BY <1>1, <1>4
  <1>6. Head(Staying(u, p)) \in ToSet(Staying(u, p))
    BY <1>4, <1>5, InSeq
  <1> QED BY <1>1, <1>2, <1>4, <1>6 DEF Held

LEMMA ScanSaves ==
    ASSUME OwnInv, FirstPublished, NEW p \in Plugins, Scan(p), NEW t \in Threads, NEW n \in Held(t)
    PROVE  /\ t \notin Heirs(p) \/ n # Head(Staying(t, p)) => node'[n].saved = node[n].saved
           /\ t \in Heirs(p) /\ n = Head(Staying(t, p)) => node'[n].saved = Carried(t, p)
  <1>1. n \in Nodes /\ node \in [Nodes -> NodeState]
    BY HeldNodes DEF OwnInv, LeakInv, TypeOK
  <1>2. \A u \in Heirs(p) : n = Head(Staying(u, p)) => u = t
    BY HeirHolds DEF OwnInv, OneHolder
  <1>3. node'[n] = IF \E u \in Heirs(p) : n = Head(Staying(u, p))
                   THEN [node[n] EXCEPT !.saved =
                           Carried(CHOOSE u \in Heirs(p) : n = Head(Staying(u, p)), p)]
                   ELSE node[n]
    BY <1>1 DEF Scan
  <1>4. ASSUME t \in Heirs(p), n = Head(Staying(t, p))
        PROVE  node'[n].saved = Carried(t, p)
    <2>1. (CHOOSE u \in Heirs(p) : n = Head(Staying(u, p))) = t
      BY <1>2, <1>4
    <2>2. node'[n] = [node[n] EXCEPT !.saved = Carried(t, p)]
      BY <1>3, <1>4, <2>1
    <2>3. node[n] \in NodeState
      BY <1>1
    <2> QED BY <2>2, <2>3 DEF NodeState
  <1> QED BY <1>2, <1>3, <1>4

LEMMA ScanTold ==
    ASSUME CallbackInv, NEW p \in Plugins, Scan(p), NEW t \in Threads
    PROVE  Told(t)'
  <1>1. OwnInv /\ TypeOK /\ FirstPublished /\ Told(t) /\ Fits(t)
    BY DEF CallbackInv, UnloadInv, OwnInv, LeakInv, ListedOnce, Told
  <1>2. /\ phase = "unloading" /\ current = NoPlugin /\ p \in left
        /\ pending'[t] = IF t \in Restores(p) THEN Carried(t, p) ELSE "none"
        /\ UNCHANGED <<callback, call, called, own, cut>>
    BY DEF Scan, Visit, LoaderAt, history
  <1>3. pending[t] = "none"
    BY <1>2 DEF CallbackInv, UnloadInv, PendingHoldNothing
  <1>4. /\ t \in Scanned(p) => call[t].at \in Holding /\ list'[t] = Staying(t, p)
        /\ t \notin Scanned(p) => list'[t] = list[t]
        /\ t \in Restores(p) => call[t].at = "out"
        /\ t \in Heirs(p) => call[t].at = "out"
    BY <1>1, ScanMoves
  <1>5. \A n \in Held(t) :
           /\ t \notin Heirs(p) \/ n # Head(Staying(t, p)) => node'[n].saved = node[n].saved
           /\ t \in Heirs(p) /\ n = Head(Staying(t, p)) => node'[n].saved = Carried(t, p)
    BY <1>1, ScanSaves
  <1>6. Heirs(p) \subseteq Scanned(p) /\ Restores(p) \subseteq Scanned(p)
    BY DEF Heirs, Restores
  <1>7. CASE t \notin Scanned(p)
    <2>1. pending'[t] = pending[t] /\ list'[t] = list[t]
      BY <1>2, <1>3, <1>4, <1>6, <1>7
    <2> QED BY <1>2, <1>5, <1>6, <1>7, <2>1, Untold
  <1>8. CASE t \in Scanned(p)
    <2> DEFINE s == list[t]
               r == Staying(t, p)
    <2>1. call[t].at \in Holding /\ list'[t] = r /\ OnList(t) \cap Of(p) # {}
      BY <1>4, <1>8 DEF Scanned
    <2>2. /\ \A i \in 1..Len(s) : s[i] \in Held(t)
          /\ s # <<>> => Head(s) = s[1] /\ Head(s) \in Held(t)
      BY <1>1, <2>1, FirstHeld
    <2>3. \A i, j \in 1..Len(s) : node[s[i]].plugin = node[s[j]].plugin => i = j
      BY <1>1, <2>1 DEF Fits
    <2>4. /\ r \in Seq(Nodes)
          /\ \A i \in 1..Len(r) : \E k \in 1..Len(s) :
                 r[i] = s[k] /\ k >= i /\ (Head(s) \in Of(p) => k > 1)
          /\ s # <<>>
          /\ Head(s) \notin Of(p) => r # <<>> /\ Head(r) = Head(s)
          /\ \A i, j \in 1..Len(r) : node[r[i]].plugin = node[r[j]].plugin => i = j
      BY <1>1, <2>1, <2>3, StayingHolds, StayingKeeps
    <2>5. r # <<>> => 1 \in 1..Len(r) /\ Head(r) = r[1] /\ Head(r) \in Held(t)
      <3>1. r # <<>> => 1 \in 1..Len(r) /\ Head(r) = r[1]
        BY <2>4
      <3> QED BY <2>2, <2>4, <3>1
    <2>6. FirstSaved(t)'
      <3>1. ASSUME NEW i \in 1..Len(r), i > 1 \/ call[t].at = "link"
            PROVE  node'[r[i]].saved = "none"
        <4>1. PICK k \in 1..Len(s) : r[i] = s[k] /\ k >= i
          BY <2>4
        <4>2. k > 1 \/ call[t].at = "link"
          BY <2>4, <3>1, <4>1
        <4>3. node[r[i]].saved = "none"
          BY <1>1, <2>1, <4>1, <4>2 DEF Told, FirstSaved
        <4>4. t \notin Heirs(p) \/ r[i] # Head(r)
          BY <1>4, <2>4, <2>5, <3>1
        <4> QED BY <1>5, <2>2, <4>1, <4>3, <4>4
      <3> QED BY <1>2, <2>1, <3>1 DEF FirstSaved
    <2>7. SUFFICES ASSUME t \notin cut \cup {Loader} PROVE Answered(t)'
      BY <1>2, <2>6 DEF Told, Answered
    <2>8. Exists(t) /\ t \notin called /\ (Answer(t) = "own" <=> t \in own)
      BY <1>1, <1>3, <2>1, <2>7 DEF Told, Answered, Exists
    <2>9. callback[t] = "wups"
      <3>1. PICK n \in OnList(t) : n \in Of(p)
        BY <2>1
      <3>2. n \in Held(t) /\ Due(n)
        BY <1>1, <1>2, <2>1, <3>1, FirstHeld DEF Due, Of
      <3> QED BY <2>1, <2>4, <2>7, <3>2 DEF CallbackInv, UnloadInv, Installed
    <2>10. call[t].at # "link" => Answer(t) = node[Head(s)].saved
      BY <2>1, <2>4, <2>9 DEF Answer
    <2>11. CASE t \in Restores(p)
      <3>1. r = <<>> /\ Carried(t, p) # "none" /\ call[t].at = "out"
        BY <1>4, <2>11 DEF Restores
      <3>2. Carried(t, p) = Answer(t)
        BY <2>10, <3>1 DEF Carried
      <3>3. Answer(t)' = "wups"
        BY <1>2, <2>1, <2>9, <3>1 DEF Answer
      <3> QED BY <1>2, <2>1, <2>8, <2>9, <2>11, <3>1, <3>2, <3>3 DEF Answered, Exists
    <2>12. CASE t \notin Restores(p)
      <3>1. Answer(t)' = "own" <=> Answer(t) = "own"
        <4>1. CASE call[t].at = "link"
          <5>1. call[t].node \in Held(t)
            BY <1>1, <4>1 DEF Held, OwnInv, LeakInv, CallsMakeSense
          <5> QED BY <1>2, <1>4, <1>5, <2>9, <4>1, <5>1 DEF Answer
        <4>2. CASE call[t].at # "link" /\ r = <<>>
          <5>1. Carried(t, p) = "none" /\ Head(s) \in Of(p)
            BY <1>8, <2>4, <2>12, <4>2 DEF Restores
          <5>2. Answer(t) = "none"
            BY <2>4, <2>10, <4>2, <5>1 DEF Carried
          <5>3. Answer(t)' = "wups"
            BY <1>2, <2>1, <2>9, <4>2 DEF Answer
          <5> QED BY <5>2, <5>3
        <4>3. CASE call[t].at # "link" /\ r # <<>>
          <5>1. Answer(t)' = node'[Head(r)].saved
            BY <1>2, <2>1, <2>9, <4>3 DEF Answer
          <5>2. CASE t \in Heirs(p)
            <6>1. Carried(t, p) = node[Head(s)].saved
              BY <5>2 DEF Heirs, Carried
            <6> QED BY <1>5, <2>5, <2>10, <4>3, <5>1, <5>2, <6>1
          <5>3. CASE t \notin Heirs(p) /\ Head(s) \in Of(p)
            <6>1. Carried(t, p) = "none"
              BY <1>8, <4>3, <5>3 DEF Heirs
            <6>2. Answer(t) = "none"
              BY <2>4, <2>10, <4>3, <5>3, <6>1 DEF Carried
            <6>3. node[Head(r)].saved = "none"
              <7>1. PICK k \in 1..Len(s) : r[1] = s[k] /\ k > 1
                BY <2>4, <2>5, <4>3, <5>3
              <7> QED BY <1>1, <2>1, <2>5, <4>3, <7>1 DEF Told, FirstSaved
            <6> QED BY <1>5, <2>5, <4>3, <5>1, <5>3, <6>2, <6>3
          <5>4. CASE t \notin Heirs(p) /\ Head(s) \notin Of(p)
            BY <1>5, <2>4, <2>5, <2>10, <4>3, <5>1, <5>4
          <5> QED BY <5>2, <5>3, <5>4
        <4> QED BY <4>1, <4>2, <4>3
      <3> QED BY <1>2, <2>1, <2>8, <2>12, <3>1 DEF Answered, Exists
    <2> QED BY <2>11, <2>12
  <1> QED BY <1>7, <1>8

LEMMA LoaderTold ==
    ASSUME CallbackInv, ApplicationCycle \/ Unload \/ Looking \/ UNCHANGED vars
    PROVE  \A t \in Threads : Told(t)'
  <1>1. OwnInv /\ TypeOK
    BY DEF CallbackInv, UnloadInv, OwnInv, LeakInv
  <1>2. CASE Exit \/ Reboot
    <2>1. \A t \in Threads : call'[t].at = (IF t = Loader THEN "out" ELSE "no") /\ list'[t] = <<>>
      BY <1>2, AllGone DEF Exit, Reboot
    <2> QED BY <2>1 DEF Told, FirstSaved, Answered, Exists
  <1>3. ASSUME NEW p \in Plugins, Scan(p) PROVE \A t \in Threads : Told(t)'
    BY <1>3, ScanTold
  <1>4. ASSUME NEW n \in Nodes, ClearDangling(n) \/ FreeDeferred(n)
        PROVE  \A t \in Threads : Told(t)'
    <2>1. /\ n \in copy \cup deferred
          /\ \A k \in Nodes \ {n} : node'[k] = node[k]
          /\ UNCHANGED <<list, call, callback, pending, own, called, cut>>
      BY <1>1, <1>4 DEF ClearDangling, FreeDeferred, TypeOK, threadVars, loaderVars, history
    <2>2. \A t \in Threads : \A k \in Held(t) : k \in Nodes \ {n}
      BY <1>1, <2>1, HeldNodes DEF OwnInv, OneHolder
    <2> QED BY <2>1, <2>2, Untold
  <1>5. ASSUME NEW t \in Threads, RestoreCallback(t) PROVE \A u \in Threads : Told(u)'
    <2>1. /\ callback'[t] = pending[t] /\ pending[t] # "none" /\ pending'[t] = "none"
          /\ UNCHANGED <<node, list, call, own, called, cut>>
          /\ \A u \in Threads \ {t} : callback'[u] = callback[u] /\ pending'[u] = pending[u]
      BY <1>1, <1>5 DEF RestoreCallback, TypeOK, history
    <2>2. \A u \in Threads \ {t} : Told(u)'
      BY <2>1, Untold
    <2>3. Told(t)
      BY DEF CallbackInv, Told
    <2>4. FirstSaved(t)'
      BY <2>1, <2>3 DEF Told, FirstSaved
    <2>5. ASSUME t \notin cut \cup {Loader} PROVE Answered(t)'
      <3>1. CASE Exists(t)
        <4>1. /\ call[t].at \in Holding /\ callback[t] = "wups" /\ Answer(t) # "own"
              /\ pending[t] = "own" <=> t \in own
              /\ t \notin called
          BY <2>1, <2>3, <2>5, <3>1 DEF Told, Answered
        <4>2. Answer(t)' = IF pending[t] = "wups" THEN Answer(t) ELSE pending[t]
          BY <2>1, <4>1 DEF Answer
        <4>3. Answer(t)' = "own" <=> t \in own
          BY <4>1, <4>2
        <4> QED BY <2>1, <4>1, <4>3 DEF Answered, Exists
      <3>2. CASE ~Exists(t)
        BY <2>1, <2>3, <2>5, <3>2 DEF Told, Answered, Exists
      <3> QED BY <3>1, <3>2
    <2>6. Answered(t)'
      BY <2>1, <2>5 DEF Answered
    <2> QED BY <2>2, <2>4, <2>6 DEF Told
  <1>6. ASSUME \/ ClearDone \/ KeepPlugins \/ StartApplication \/ UNCHANGED vars
               \/ \E p \in Plugins : LoadPlugin(p) \/ ScanTooMany(p) \/ ScanRaces(p)
               \/ \E ps \in SUBSET loaded : HooksBegin(ps)
               \/ NextPlugin \/ Unloaded
        PROVE  \A t \in Threads : Told(t)'
    <2>1. UNCHANGED <<node, list, call, callback, pending, own, called, cut>>
      BY <1>6 DEF ClearDone, KeepPlugins, StartApplication, LoadPlugin, ScanTooMany, ScanRaces,
                  HooksBegin, NextPlugin, Unloaded, threadVars, loaderVars, history, vars
    <2> QED BY <2>1, Untold
  <1>7. CASE HooksEnd
    <2>1. /\ UNCHANGED <<node, list, call, pending, own, called, cut>>
          /\ \A t \in Threads \ {Loader} : callback'[t] = callback[t]
      BY <1>1, <1>7 DEF HooksEnd, TypeOK, history
    <2>2. \A t \in Threads \ {Loader} : Told(t)'
      BY <2>1, Untold
    <2>3. Told(Loader)'
      BY <2>1, ReentAssumption DEF CallbackInv, Told, FirstSaved, Answered
    <2> QED BY <2>2, <2>3
  <1>8. ASSUME Looking PROVE \A t \in Threads : Told(t)'
    <2>1. UNCHANGED <<node, list, call, callback, pending, own, called, cut>>
      BY <1>1, <1>8, LookFrame DEF loaderVars, history
    <2> QED BY <2>1, Untold
  <1> QED BY <1>2, <1>3, <1>4, <1>5, <1>6, <1>7, <1>8 DEF ApplicationCycle, Unload

LEMMA InitCallback == Init => CallbackInv
  <1> SUFFICES ASSUME Init PROVE CallbackInv
    OBVIOUS
  <1>1. \A t \in Threads : call[t].at = (IF t = Loader THEN "out" ELSE "no") /\ list[t] = <<>>
    BY IdleCall DEF Init
  <1> QED BY <1>1, InitUnload DEF CallbackInv, FirstSaved, Answered, Exists

LEMMA StepCallback == CallbackInv /\ LateInv /\ [Next]_vars => CallbackInv'
  <1> SUFFICES ASSUME CallbackInv, LateInv, [Next]_vars PROVE CallbackInv'
    OBVIOUS
  <1>1. UnloadInv'
    BY StepUnload DEF CallbackInv
  <1>2. \A t \in Threads : Told(t)'
    BY OwnerTold, RegisterTold, ThreadCleanupTold, LoaderTold
    DEF Next, Owner, Register, ThreadCleanup
  <1> QED BY <1>1, <1>2 DEF CallbackInv, Told

\* A thread that ends comes to the callback that was its own when it got its
\* first context, or that its owner has given it since, and to no other: the
\* callback is neither lost nor called twice when plugins come and go.
THEOREM CallbackKept == Spec => []OwnCallbackCalled
  <1>1. CallbackInv => OwnCallbackCalled
    BY DEF CallbackInv, UnloadInv, LoaderStays, Answered, OwnCallbackCalled
  <1>2. CallbackInv => UnloadInv
    BY DEF CallbackInv
  <1> QED BY <1>1, <1>2, InitCallback, InitLate, StepCallback, StepLate, PTL DEF Spec
=============================================================================
