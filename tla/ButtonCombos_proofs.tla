-------------------------- MODULE ButtonCombos_proofs --------------------------
(***************************************************************************)
(* For all plugins, threads, managers, combos and masks: the types of       *)
(* ButtonCombos, that the module knows the combos plugins have, that a      *)
(* callback gets its own context, and that a call reaches the combos of its *)
(* plugin only.                                                             *)
(***************************************************************************)
EXTENDS ButtonCombos, FiniteSetTheorems, TLAPS

USE ComboAssumption DEF Gone

Places == {"out", "waiting", "inside", "removing", "updating", "detecting"}
Holding == {"inside", "removing", "updating", "detecting"}

CallType == [at: Places, plugin: Plugins \cup {Nobody}, combo: Combos \cup {Nobody}]

Read == (Plugins \X Versions) \cup {Nobody}

FiringType == [at: {"no", "entered", "read", "called"}, combo: Combos \cup {Nobody},
               callback: Read, context: Read, raced: BOOLEAN]

Types ==
    /\ TypeOK
    /\ sButtonComboManager \in [Managers -> (SUBSET Combos) \cup {Gone}]
    /\ module \in [Combos -> {convert(mask) : mask \in Masks} \cup {Gone}]
    /\ call \in [Threads -> CallType]
    /\ firing \in FiringType

\* The combos of a manager.
Has(m) == IF sButtonComboManager[m] = Gone THEN {} ELSE sButtonComboManager[m]

\* Who holds the mutex is in the middle of a call, and the combo it works on is
\* still on the list of its manager, or on none.
CallsMakeSense ==
    \A t \in Threads :
        /\ call[t].at = "out" => call[t] = Idle
        /\ call[t].at # "out" =>
              /\ phase \in {"inithooks", "running", "deinit"}
              /\ call[t].plugin \in Plugins
              /\ identifier[call[t].plugin] \in Managers
        /\ call[t].at \in Holding <=> mutex = t
        /\ call[t].at = "updating" => call[t].combo \in Has(identifier[call[t].plugin])
        /\ call[t].at = "removing" =>
              /\ call[t].combo \in Combos
              /\ \A m \in Managers : call[t].combo \notin Has(m)

\* A manager belongs to one container, or was left behind, and a plugin calls
\* with the handle of the one or the other.
ManagersApart ==
    /\ \A m \in left : sButtonComboManager[m] # Gone
    /\ \A p \in Plugins : mButtonComboManagerHandle[p] # Nobody =>
          /\ sButtonComboManager[mButtonComboManagerHandle[p]] # Gone
          /\ mButtonComboManagerHandle[p] \notin left
          /\ \A q \in Plugins \ {p} : mButtonComboManagerHandle[q] # mButtonComboManagerHandle[p]
    /\ \A p \in Plugins : identifier[p] # Nobody =>
          /\ life[p] = "running"
          /\ sButtonComboManager[identifier[p]] # Gone
          /\ identifier[p] = mButtonComboManagerHandle[p] \/ identifier[p] \in left
          /\ \A q \in Plugins \ {p} : identifier[q] # identifier[p]

Removing(h) == \E t \in Threads : call[t].at = "removing" /\ call[t].combo = h
Updating(h) == \E t \in Threads : call[t].at = "updating" /\ call[t].combo = h

ListsMatch ==
    /\ \A h \in Combos :
          /\ mContextData[h] # Gone <=> \E m \in Managers : h \in Has(m)
          /\ module[h] # Gone <=> mContextData[h] # Gone \/ Removing(h)
          /\ module[h] # Gone => module[h] = convert(asked[h])
    /\ \A m, n \in Managers : m # n => Has(m) \cap Has(n) = {}

\* The combos of a manager are those of the plugin that calls with its handle.
Owned ==
    \A m \in Managers : \A h \in Has(m) :
        \/ identifier[mContextData[h].callback[1]] = m
        \/ m \in left /\ \A p \in Plugins : identifier[p] # m

ContextsMatch ==
    \A h \in Combos :
        mContextData[h] # Gone /\ ~Updating(h) => mContextData[h].context = mContextData[h].callback

\* What the wrapper will read, or has read, while nothing happens to its combo.
FiringMakesSense ==
    /\ firing.at # "no" => phase = "running" /\ firing.combo \in Combos
    /\ firing.at \in {"entered", "read"} /\ ~firing.raced =>
          mContextData[firing.combo] # Gone /\ ~Updating(firing.combo)
    /\ firing.at = "read" /\ ~firing.raced =>
          firing.callback = mContextData[firing.combo].callback
    /\ firing.at = "called" /\ ~firing.raced =>
          /\ firing.callback # Nobody
          /\ firing.context = firing.callback
          /\ \/ life[firing.callback[1]] = "running"
             \/ \E m \in left : firing.combo \in Has(m) /\ \A p \in Plugins : identifier[p] # m

IInv ==
    /\ Types /\ CallsMakeSense /\ ManagersApart /\ ListsMatch /\ Owned
    /\ ContextsMatch /\ FiringMakesSense

-----------------------------------------------------------------------------
(* Steps and their effects                                                 *)

\* What only moves a call on.
Talks ==
    \E t \in Threads :
        \/ \E p \in Plugins : Waits(t, p)
        \/ Locks(t) \/ Returns(t) \/ DetectButtonCombo(t) \/ Detected(t)

\* What only moves the loader on.
Rests ==
    \/ \E ps \in SUBSET {p \in Plugins : life[p] # "absent"} : Deinit(ps)
    \/ RestorePatches \/ CleanupDone \/ LoadDone \/ CreateDone \/ StartApplication
    \/ \E p \in Plugins : Load(p)

LEMMA NextCases ==
    ASSUME Next
    PROVE  \/ Talks \/ Callback \/ Rests \/ ApplicationEnds \/ Reboot
           \/ \E t \in Threads : Unregister(t) \/ UpdateContext(t)
           \/ \E t \in Threads, h \in Combos :
                \/ RemoveButtonCombo(t, h)
                \/ \E v \in Versions : UpdateButtonComboCallback(t, h, v)
                \/ \E mask \in Masks : UpdateButtonCombo(t, h, mask)
                \/ \E v \in Versions, mask \in Masks : AddButtonCombo(t, h, v, mask)
           \/ \E p \in Plugins :
                \/ RemoveButtonComboData(p) \/ DestroyStub(p)
                \/ CreateButtonComboData(p) \/ InitHooks(p)
  BY DEF Next, Api, Step, Loader, Talks, Rests

LEMMA TalksLeave ==
    ASSUME Talks
    PROVE  UNCHANGED <<loader, identifier, combos, firing>>
  BY DEF Talks, Waits, Locks, Returns, DetectButtonCombo, Detected

LEMMA CallbackLeaves ==
    ASSUME Callback
    PROVE  UNCHANGED <<loader, identifier, combos, mutex, call>>
  BY DEF Callback, Fires, ReadsCallback, ReadsContext, CallbackReturns

LEMMA RestsLeave ==
    ASSUME Rests
    PROVE  Still
  BY DEF Rests, Deinit, RestorePatches, CleanupDone, LoadDone, CreateDone, StartApplication, Load

\* What the lists have after each step that changes one.
LEMMA HasIsSet == ASSUME Types, NEW m \in Managers PROVE Has(m) \in SUBSET Combos
  BY DEF Types, Has

LEMMA HasStays ==
    ASSUME UNCHANGED sButtonComboManager, NEW m \in Managers
    PROVE  Has(m)' = Has(m)
  BY DEF Has

LEMMA HasAfterAdd ==
    ASSUME Types, NEW t \in Threads, NEW h \in Combos, NEW v \in Versions, NEW mask \in Masks,
           AddButtonCombo(t, h, v, mask), NEW m \in Managers
    PROVE  Has(m)' = IF m = Manager(t) THEN Has(m) \cup {h} ELSE Has(m)
  <1>1. CASE m = Manager(t)
    <2>1. sButtonComboManager'[m] = sButtonComboManager[m] \cup {h}
      BY <1>1 DEF AddButtonCombo, Types
    <2>2. sButtonComboManager[m] # Gone /\ sButtonComboManager[m] \in SUBSET Combos
      BY <1>1 DEF AddButtonCombo, Types
    <2>3. sButtonComboManager[m] \cup {h} \in SUBSET Combos
      BY <2>2
    <2>4. sButtonComboManager'[m] # Gone
      BY <2>1, <2>3
    <2>5. QED
      BY <1>1, <2>1, <2>2, <2>4 DEF Has
  <1>2. CASE m # Manager(t)
    <2>1. sButtonComboManager'[m] = sButtonComboManager[m]
      BY <1>2 DEF AddButtonCombo, Types
    <2>2. QED
      BY <1>2, <2>1 DEF Has
  <1>3. QED
    BY <1>1, <1>2

LEMMA HasAfterRemove ==
    ASSUME Types, NEW t \in Threads, NEW h \in Combos, RemoveButtonCombo(t, h), NEW m \in Managers
    PROVE  Has(m)' = IF m = Manager(t) THEN Has(m) \ {h} ELSE Has(m)
  <1>1. CASE m = Manager(t)
    <2>1. sButtonComboManager'[m] = sButtonComboManager[m] \ {h}
      BY <1>1 DEF RemoveButtonCombo, Types
    <2>2. sButtonComboManager[m] # Gone /\ sButtonComboManager[m] \in SUBSET Combos
      BY <1>1 DEF RemoveButtonCombo, CombosOf, Types
    <2>3. sButtonComboManager[m] \ {h} \in SUBSET Combos
      BY <2>2
    <2>4. sButtonComboManager'[m] # Gone
      BY <2>1, <2>3
    <2>5. QED
      BY <1>1, <2>1, <2>2, <2>4 DEF Has
  <1>2. CASE m # Manager(t)
    <2>1. sButtonComboManager'[m] = sButtonComboManager[m]
      BY <1>2 DEF RemoveButtonCombo, Types
    <2>2. QED
      BY <1>2, <2>1 DEF Has
  <1>3. QED
    BY <1>1, <1>2

LEMMA HasAfterDestruction ==
    ASSUME Types, NEW p \in Plugins, RemoveButtonComboData(p), NEW m \in Managers
    PROVE  Has(m)' = IF m = mButtonComboManagerHandle[p] THEN {} ELSE Has(m)
  BY DEF RemoveButtonComboData, Types, Has

LEMMA HasAfterCreation ==
    ASSUME Types, NEW p \in Plugins, CreateButtonComboData(p), NEW m \in Managers
    PROVE  Has(m)' = Has(m)
  <1>1. CASE p \in Old
    BY <1>1 DEF CreateButtonComboData, Has
  <1>2. CASE p \notin Old
    <2>1. PICK n \in Managers :
             sButtonComboManager[n] = Gone /\ sButtonComboManager' = [sButtonComboManager EXCEPT ![n] = {}]
      BY <1>2 DEF CreateButtonComboData
    <2>2. {} # Gone
      OBVIOUS
    <2>3. QED
      BY <2>1, <2>2 DEF Has, Types
  <1>3. QED
    BY <1>1, <1>2

\* The combos a call finds are those of the manager its plugin calls with.
LEMMA FoundInManager ==
    ASSUME Types, CallsMakeSense, NEW t \in Threads, call[t].at # "out"
    PROVE  Manager(t) \in Managers /\ CombosOf(t) = Has(Manager(t))
  BY DEF CallsMakeSense, Manager, CombosOf, Has

\* A call that is in the middle of something is the only one.
LEMMA OneHolder ==
    ASSUME CallsMakeSense, NEW t \in Threads, call[t].at \in Holding
    PROVE  mutex = t /\ \A u \in Threads \ {t} : call[u].at \notin Holding
  BY DEF CallsMakeSense

-----------------------------------------------------------------------------
(* Types                                                                   *)

LEMMA IdleTypes == Idle \in CallType /\ Quiet \in FiringType
  BY DEF Idle, Quiet, CallType, FiringType, Places, Read

LEMMA InitTypes == ASSUME Init PROVE Types
  <1>1. Pair \cup {Gone} # {} /\ {} \in Sets
    BY DEF Sets
  <1>2. QED
    BY <1>1, IdleTypes DEF Init, Types, TypeOK, Idle, Quiet, Places, Sets

\* The members of Types one can see on their own: what a step leaves alone.
LoaderTypes ==
    /\ phase \in {"stopped", "deinit", "removing", "loading", "creating", "inithooks", "running"}
    /\ life \in [Plugins -> {"absent", "loaded", "running", "added", "stub"}]
    /\ todo \subseteq Plugins
    /\ mButtonComboManagerHandle \in [Plugins -> Managers \cup {Nobody}]
    /\ left \subseteq Managers
    /\ identifier \in [Plugins -> Managers \cup {Nobody}]

CombosTypes ==
    /\ sButtonComboManager \in [Managers -> (SUBSET Combos) \cup {Gone}]
    /\ mContextData \in [Combos -> Pair \cup {Gone}]
    /\ asked \in [Combos -> Sets \cup Masks]
    /\ module \in [Combos -> {convert(mask) : mask \in Masks} \cup {Gone}]

CallTypes ==
    /\ mutex \in Threads \cup {Nobody}
    /\ call \in [Threads -> CallType]

LEMMA TypesParts == Types <=> LoaderTypes /\ CombosTypes /\ CallTypes /\ firing \in FiringType
  <1>1. ASSUME LoaderTypes, CombosTypes, CallTypes, firing \in FiringType PROVE TypeOK
    <2>1. \A m \in Managers : sButtonComboManager[m] = Gone \/ sButtonComboManager[m] \subseteq Combos
      BY <1>1 DEF CombosTypes
    <2>2. ASSUME NEW h \in Combos
          PROVE  module[h] = Gone \/ module[h] \subseteq Buttons \cup Controllers
      BY <1>1 DEF CombosTypes, convert
    <2>3. \A t \in Threads :
             /\ call[t].at \in {"out", "waiting", "inside", "removing", "updating", "detecting"}
             /\ call[t].combo \in Combos \cup {Nobody}
      BY <1>1 DEF CallTypes, CallType, Places
    <2>4. firing.at \in {"no", "entered", "read", "called"}
      BY <1>1 DEF FiringType
    <2>5. QED
      BY <1>1, <2>1, <2>2, <2>3, <2>4 DEF TypeOK, LoaderTypes, CombosTypes, CallTypes
  <1>2. ASSUME Types PROVE LoaderTypes /\ CombosTypes /\ CallTypes /\ firing \in FiringType
    BY <1>2 DEF Types, TypeOK, LoaderTypes, CombosTypes, CallTypes
  <1>3. QED
    BY <1>1, <1>2 DEF Types, LoaderTypes, CombosTypes, CallTypes

LEMMA TypesPartsNext == Types' <=> LoaderTypes' /\ CombosTypes' /\ CallTypes' /\ firing' \in FiringType
  <1>1. Types' <=> (LoaderTypes /\ CombosTypes /\ CallTypes /\ firing \in FiringType)'
    BY TypesParts, PTL
  <1>2. QED
    BY <1>1

LEMMA EndsTypes ==
    ASSUME CallTypes, NEW t \in Threads, Ends(t)
    PROVE  CallTypes'
  BY IdleTypes DEF Ends, CallTypes

LEMMA CallMovesOn ==
    ASSUME CallTypes, NEW t \in Threads, NEW a \in Places, mutex' \in {mutex, t},
           call' = [call EXCEPT ![t].at = a]
    PROVE  CallTypes'
  <1>1. call[t] \in CallType
    BY DEF CallTypes
  <1>2. [call[t] EXCEPT !.at = a] \in CallType
    BY <1>1 DEF CallType
  <1>3. QED
    BY <1>2 DEF CallTypes

LEMMA CallTakesCombo ==
    ASSUME CallTypes, NEW t \in Threads, NEW a \in Places, NEW h \in Combos, mutex' = mutex,
           call' = [call EXCEPT ![t].at = a, ![t].combo = h]
    PROVE  CallTypes'
  <1>1. call[t] \in CallType
    BY DEF CallTypes
  <1>2. [call[t] EXCEPT !.at = a, !.combo = h] \in CallType
    BY <1>1 DEF CallType
  <1>3. call' = [call EXCEPT ![t] = [call[t] EXCEPT !.at = a, !.combo = h]]
    BY DEF CallTypes
  <1>4. QED
    BY <1>2, <1>3 DEF CallTypes

LEMMA RacesTypes == ASSUME firing \in FiringType, NEW h, Races(h) PROVE firing' \in FiringType
  BY DEF Races, FiringType

LEMMA TypesStep ==
    ASSUME Types, CallsMakeSense, ListsMatch, FiringMakesSense, [Next]_vars
    PROVE  Types'
  <1> USE TypesParts, TypesPartsNext
  <1>1. LoaderTypes /\ CombosTypes /\ CallTypes /\ firing \in FiringType
    OBVIOUS
  <1>2. ASSUME UNCHANGED <<loader, identifier>> PROVE LoaderTypes'
    BY <1>1, <1>2 DEF loader, LoaderTypes
  <1>3. ASSUME UNCHANGED combos PROVE CombosTypes'
    BY <1>1, <1>3 DEF combos, CombosTypes
  <1>4. ASSUME UNCHANGED <<mutex, call>> PROVE CallTypes'
    BY <1>1, <1>4 DEF CallTypes
  <1>5. CASE UNCHANGED vars
    BY <1>1, <1>2, <1>3, <1>4, <1>5 DEF vars
  <1>6. CASE Talks
    <2>1. CallTypes'
      <3>1. PICK t \in Threads :
               \/ \E p \in Plugins : Waits(t, p)
               \/ Locks(t) \/ Returns(t) \/ DetectButtonCombo(t) \/ Detected(t)
        BY <1>6 DEF Talks
      <3>2. ASSUME NEW p \in Plugins, Waits(t, p) PROVE CallTypes'
        <4>1. [at |-> "waiting", plugin |-> p, combo |-> Nobody] \in CallType
          BY DEF CallType, Places
        <4>2. QED
          BY <1>1, <3>2, <4>1 DEF Waits, CallTypes
      <3>3. CASE Locks(t)
        BY <1>1, <3>3, CallMovesOn DEF Locks, Places
      <3>4. CASE Returns(t) \/ Detected(t)
        BY <1>1, <3>4, EndsTypes DEF Returns, Detected
      <3>5. CASE DetectButtonCombo(t)
        BY <1>1, <3>5, CallMovesOn DEF DetectButtonCombo, Places
      <3>6. QED
        BY <3>1, <3>2, <3>3, <3>4, <3>5
    <2>2. QED
      BY <1>1, <1>2, <1>3, <1>6, <2>1, TalksLeave
  <1>7. CASE Callback
    <2>1. firing' \in FiringType
      <3>1. ASSUME NEW h \in Combos, Fires(h) PROVE firing' \in FiringType
        <4>1. firing' = [at |-> "entered", combo |-> h, callback |-> Nobody,
                         context |-> Nobody, raced |-> Halfway(h)]
          BY <3>1 DEF Fires, Quiet
        <4>2. Halfway(h) \in BOOLEAN
          BY DEF Halfway
        <4>3. QED
          BY <4>1, <4>2 DEF FiringType, Read
      <3>2. ASSUME firing.at \in {"entered", "read"}
            PROVE  mContextData[firing.combo] \in Pair \cup {Gone}
        BY <1>1, <3>2 DEF FiringMakesSense, CombosTypes
      <3>3. ASSUME ReadsCallback PROVE firing' \in FiringType
        <4>1. PICK x \in Read : firing' = [firing EXCEPT !.at = "read", !.callback = x]
          BY <3>2, <3>3 DEF ReadsCallback, Read, Pair
        <4>2. QED
          BY <1>1, <4>1 DEF FiringType
      <3>4. ASSUME ReadsContext PROVE firing' \in FiringType
        <4>1. PICK x \in Read : firing' = [firing EXCEPT !.at = "called", !.context = x]
          BY <3>2, <3>4 DEF ReadsContext, Read, Pair
        <4>2. QED
          BY <1>1, <4>1 DEF FiringType
      <3>5. ASSUME CallbackReturns PROVE firing' \in FiringType
        BY <3>5, IdleTypes DEF CallbackReturns
      <3>6. QED
        BY <1>7, <3>1, <3>3, <3>4, <3>5 DEF Callback
    <2>2. QED
      BY <1>1, <1>2, <1>3, <1>4, <1>7, <2>1, CallbackLeaves
  <1>8. CASE Rests
    <2>1. LoaderTypes'
      BY <1>1, <1>8, RestsLeave DEF Rests, Deinit, RestorePatches, CleanupDone, LoadDone, CreateDone,
         StartApplication, Load, Goes, Still, LoaderTypes
    <2>2. QED
      BY <1>1, <1>3, <1>4, <1>8, <2>1, RestsLeave DEF Still
  <1>9. CASE ApplicationEnds
    <2>1. LoaderTypes' /\ CallTypes'
      BY <1>1, <1>9, IdleTypes DEF ApplicationEnds, LoaderTypes, CallTypes
    <2>2. QED
      BY <1>1, <1>3, <1>9, <2>1, IdleTypes DEF ApplicationEnds
  <1>10. CASE Reboot
    <2>1. LoaderTypes'
      BY <1>10 DEF Reboot, LoaderTypes
    <2>2. CombosTypes'
      BY <1>10 DEF Reboot, CombosTypes, Sets
    <2>3. CallTypes' /\ firing' \in FiringType
      BY <1>10, IdleTypes DEF Reboot, CallTypes
    <2>4. QED
      BY <2>1, <2>2, <2>3
  <1>11. ASSUME NEW t \in Threads, Unregister(t) PROVE Types'
    <2>1. CombosTypes' /\ firing' = firing
      BY <1>1, <1>11 DEF Unregister, CombosTypes
    <2>2. QED
      BY <1>1, <1>2, <1>11, <2>1, EndsTypes DEF Unregister
  <1>12. ASSUME NEW t \in Threads, UpdateContext(t) PROVE Types'
    <2> DEFINE h == call[t].combo
    <2>1. h \in Combos /\ mContextData[h] \in Pair
      <3>1. call[t].at = "updating" /\ call[t].plugin \in Plugins
        BY <1>12 DEF UpdateContext, CallsMakeSense
      <3>2. identifier[call[t].plugin] \in Managers /\ h \in Has(identifier[call[t].plugin])
        BY <3>1 DEF CallsMakeSense
      <3>3. h \in Combos
        BY <3>2, HasIsSet
      <3>4. QED
        BY <1>1, <3>2, <3>3 DEF ListsMatch, CombosTypes
    <2>2. [mContextData[h] EXCEPT !.context = mContextData[h].callback] \in Pair
      BY <2>1 DEF Pair
    <2>3. CombosTypes'
      BY <1>1, <1>12, <2>1, <2>2 DEF UpdateContext, CombosTypes
    <2>4. firing' \in FiringType /\ CallTypes'
      BY <1>1, <1>12, RacesTypes, EndsTypes DEF UpdateContext
    <2>5. QED
      BY <1>1, <1>2, <1>12, <2>3, <2>4 DEF UpdateContext
  <1>13. ASSUME NEW t \in Threads, NEW h \in Combos, RemoveButtonCombo(t, h) PROVE Types'
    <2>1. CombosTypes'
      <3>1. ASSUME NEW m \in Managers, m = Manager(t)
            PROVE  sButtonComboManager[m] \ {h} \in SUBSET Combos
        BY <1>1, <1>13, <3>1 DEF RemoveButtonCombo, CombosOf, CombosTypes
      <3>2. QED
        BY <1>1, <1>13, <3>1 DEF RemoveButtonCombo, CombosTypes
    <2>2. firing' \in FiringType /\ CallTypes'
      BY <1>1, <1>13, RacesTypes, CallTakesCombo DEF RemoveButtonCombo, Places
    <2>3. QED
      BY <1>1, <1>2, <1>13, <2>1, <2>2 DEF RemoveButtonCombo
  <1>14. ASSUME NEW t \in Threads, NEW h \in Combos, NEW v \in Versions,
                UpdateButtonComboCallback(t, h, v)
         PROVE  Types'
    <2>1. call[t].plugin \in Plugins /\ h \in Has(Manager(t)) /\ Manager(t) \in Managers
      BY <1>14, FoundInManager DEF UpdateButtonComboCallback, CallsMakeSense
    <2>2. mContextData[h] \in Pair
      BY <1>1, <2>1 DEF ListsMatch, CombosTypes
    <2>3. [mContextData[h] EXCEPT !.callback = <<call[t].plugin, v>>] \in Pair
      BY <2>1, <2>2 DEF Pair
    <2>4. CombosTypes'
      BY <1>1, <1>14, <2>3 DEF UpdateButtonComboCallback, CombosTypes
    <2>5. firing' \in FiringType /\ CallTypes'
      BY <1>1, <1>14, RacesTypes, CallTakesCombo DEF UpdateButtonComboCallback, Places
    <2>6. QED
      BY <1>1, <1>2, <1>14, <2>4, <2>5 DEF UpdateButtonComboCallback
  <1>15. ASSUME NEW t \in Threads, NEW h \in Combos, NEW mask \in Masks, UpdateButtonCombo(t, h, mask)
         PROVE  Types'
    <2>1. CombosTypes' /\ firing' = firing
      BY <1>1, <1>15 DEF UpdateButtonCombo, CombosTypes
    <2>2. QED
      BY <1>1, <1>2, <1>15, <2>1, EndsTypes DEF UpdateButtonCombo
  <1>16. ASSUME NEW t \in Threads, NEW h \in Combos, NEW v \in Versions, NEW mask \in Masks,
                AddButtonCombo(t, h, v, mask)
         PROVE  Types'
    <2>1. PairOf(call[t].plugin, v) \in Pair
      BY <1>16 DEF AddButtonCombo, CallsMakeSense, PairOf, Pair
    <2>2. ASSUME NEW m \in Managers, m = Manager(t)
          PROVE  sButtonComboManager[m] \cup {h} \in SUBSET Combos
      BY <1>1, <1>16, <2>2 DEF AddButtonCombo, CombosTypes
    <2>3. CombosTypes'
      BY <1>1, <1>16, <2>1, <2>2 DEF AddButtonCombo, CombosTypes
    <2>4. QED
      BY <1>1, <1>2, <1>16, <2>3, EndsTypes DEF AddButtonCombo
  <1>17. ASSUME NEW p \in Plugins, RemoveButtonComboData(p) PROVE Types'
    <2>1. LoaderTypes'
      BY <1>1, <1>17 DEF RemoveButtonComboData, Destroyed, LoaderTypes
    <2>2. CombosTypes'
      BY <1>1, <1>17 DEF RemoveButtonComboData, CombosTypes
    <2>3. QED
      BY <1>1, <1>4, <1>17, <2>1, <2>2 DEF RemoveButtonComboData, Destroyed
  <1>18. ASSUME NEW p \in Plugins, DestroyStub(p) PROVE Types'
    <2>1. LoaderTypes'
      BY <1>1, <1>18 DEF DestroyStub, Destroyed, LoaderTypes
    <2>2. QED
      BY <1>1, <1>3, <1>4, <1>18, <2>1 DEF DestroyStub, Destroyed
  <1>19. ASSUME NEW p \in Plugins, CreateButtonComboData(p) PROVE Types'
    <2>1. LoaderTypes'
      BY <1>1, <1>19 DEF CreateButtonComboData, LoaderTypes
    <2>2. CombosTypes'
      BY <1>1, <1>19 DEF CreateButtonComboData, CombosTypes
    <2>3. QED
      BY <1>1, <1>4, <1>19, <2>1, <2>2 DEF CreateButtonComboData
  <1>20. ASSUME NEW p \in Plugins, InitHooks(p) PROVE Types'
    <2>1. LoaderTypes'
      BY <1>1, <1>20 DEF InitHooks, LoaderTypes
    <2>2. QED
      BY <1>1, <1>3, <1>4, <1>20, <2>1 DEF InitHooks
  <1>21. CASE Next
    BY <1>6, <1>7, <1>8, <1>9, <1>10, <1>11, <1>12, <1>13, <1>14, <1>15, <1>16, <1>17, <1>18, <1>19,
       <1>20, <1>21, NextCases
  <1>22. QED
    BY <1>5, <1>21

-----------------------------------------------------------------------------
(* Calls                                                                   *)

LEMMA InitCalls == ASSUME Init PROVE CallsMakeSense
  BY DEF Init, CallsMakeSense, Idle, Holding

\* While the loader works, no call is under way.
LEMMA QuietPhases ==
    ASSUME CallsMakeSense, phase \notin {"inithooks", "running", "deinit"}
    PROVE  NoCalls
  BY DEF CallsMakeSense, NoCalls

LEMMA NothingHalfway ==
    ASSUME NoCalls, NEW h
    PROVE  ~Removing(h) /\ ~Updating(h) /\ (UNCHANGED call => ~Removing(h)' /\ ~Updating(h)')
  BY DEF NoCalls, Removing, Updating

LEMMA InTheMiddle ==
    ASSUME CallsMakeSense, NEW t \in Threads, call[t].at \in Holding, NEW h
    PROVE  /\ Removing(h) <=> call[t].at = "removing" /\ call[t].combo = h
           /\ Updating(h) <=> call[t].at = "updating" /\ call[t].combo = h
  BY OneHolder DEF Removing, Updating, Holding

LEMMA NothingAfterEnd ==
    ASSUME CallTypes, CallsMakeSense, NEW t \in Threads, call[t].at \in Holding, Ends(t), NEW h
    PROVE  ~Removing(h)' /\ ~Updating(h)'
  <1>1. \A u \in Threads : call'[u].at \notin {"removing", "updating"}
    BY OneHolder DEF Ends, Idle, CallTypes, Holding
  <1>2. QED
    BY <1>1 DEF Removing, Updating

LEMMA MiddleAfterMove ==
    ASSUME CallTypes, CallsMakeSense, NEW t \in Threads, call[t].at = "inside", NEW a, NEW g,
           call' = [call EXCEPT ![t].at = a, ![t].combo = g], NEW h
    PROVE  /\ Removing(h)' <=> a = "removing" /\ g = h
           /\ Updating(h)' <=> a = "updating" /\ g = h
  <1>1. call'[t].at = a /\ call'[t].combo = g /\ \A u \in Threads \ {t} : call'[u] = call[u]
    BY DEF CallTypes, CallType
  <1>2. \A u \in Threads \ {t} : call[u].at \notin {"removing", "updating"}
    BY OneHolder DEF Holding
  <1>3. QED
    BY <1>1, <1>2 DEF Removing, Updating

LEMMA MiddleWhileTalking ==
    ASSUME CallTypes, Talks, NEW h
    PROVE  (Removing(h)' <=> Removing(h)) /\ (Updating(h)' <=> Updating(h))
  <1>1. PICK t \in Threads :
           \/ \E p \in Plugins : Waits(t, p)
           \/ Locks(t) \/ Returns(t) \/ DetectButtonCombo(t) \/ Detected(t)
    BY DEF Talks
  <1>2. /\ call[t].at \notin {"removing", "updating"}
        /\ call'[t].at \notin {"removing", "updating"}
        /\ \A u \in Threads \ {t} : call'[u] = call[u]
    <2>1. ASSUME NEW p \in Plugins, Waits(t, p) PROVE <1>2
      BY <2>1 DEF Waits, CallTypes
    <2>2. CASE Locks(t)
      BY <2>2 DEF Locks, CallTypes, CallType
    <2>3. CASE Returns(t) \/ Detected(t)
      BY <2>3 DEF Returns, Detected, Ends, Idle, CallTypes
    <2>4. CASE DetectButtonCombo(t)
      BY <2>4 DEF DetectButtonCombo, CallTypes, CallType
    <2>5. QED
      BY <1>1, <2>1, <2>2, <2>3, <2>4
  <1>3. QED
    BY <1>2 DEF Removing, Updating

LEMMA CallsStay ==
    ASSUME CallsMakeSense, UNCHANGED <<phase, identifier, mutex, call>>,
           \A m \in Managers : Has(m)' = Has(m)
    PROVE  CallsMakeSense'
  BY DEF CallsMakeSense

LEMMA NoCallsStay ==
    ASSUME CallsMakeSense, NoCalls, UNCHANGED <<mutex, call>>
    PROVE  CallsMakeSense'
  BY DEF CallsMakeSense, NoCalls

LEMMA CallEnds ==
    ASSUME CallTypes, CallsMakeSense, NEW t \in Threads, call[t].at \in Holding, Ends(t),
           UNCHANGED <<phase, identifier>>
    PROVE  CallsMakeSense'
  <1>1. mutex = t /\ \A u \in Threads \ {t} : call'[u] = call[u] /\ call[u].at \notin Holding
    BY OneHolder DEF Ends, CallTypes
  <1>2. call'[t] = Idle /\ mutex' = Nobody
    BY DEF Ends, CallTypes
  <1>3. QED
    BY <1>1, <1>2 DEF CallsMakeSense, Idle, Holding

LEMMA CallsStep ==
    ASSUME Types, CallsMakeSense, ListsMatch, FiringMakesSense, [Next]_vars
    PROVE  CallsMakeSense'
  <1>1. LoaderTypes /\ CombosTypes /\ CallTypes
    BY TypesParts
  <1>2. CASE UNCHANGED vars
    BY <1>2, CallsStay, HasStays DEF vars, loader, combos
  <1>3. CASE Talks
    <2>1. UNCHANGED <<phase, identifier>> /\ \A m \in Managers : Has(m)' = Has(m)
      BY <1>3, TalksLeave, HasStays DEF loader, combos
    <2>2. PICK t \in Threads :
             \/ \E p \in Plugins : Waits(t, p)
             \/ Locks(t) \/ Returns(t) \/ DetectButtonCombo(t) \/ Detected(t)
      BY <1>3 DEF Talks
    <2>3. ASSUME NEW p \in Plugins, Waits(t, p) PROVE CallsMakeSense'
      <3>1. call'[t] = [at |-> "waiting", plugin |-> p, combo |-> Nobody] /\ mutex' = mutex
        BY <1>1, <2>3 DEF Waits, CallTypes
      <3>2. \A u \in Threads \ {t} : call'[u] = call[u]
        BY <1>1, <2>3 DEF Waits, CallTypes
      <3>3. call[t].at = "out" /\ identifier[p] \in Managers
        BY <1>1, <2>3 DEF Waits, LoaderTypes
      <3>4. phase \in {"inithooks", "running", "deinit"}
        BY <2>3 DEF Waits, Runs
      <3>5. QED
        BY <2>1, <3>1, <3>2, <3>3, <3>4 DEF CallsMakeSense, Holding
    <2>4. CASE Locks(t)
      <3>1. call'[t] = [call[t] EXCEPT !.at = "inside"] /\ mutex' = t /\ mutex = Nobody
        BY <1>1, <2>4 DEF Locks, CallTypes
      <3>2. call'[t].at = "inside" /\ call'[t].plugin = call[t].plugin /\ call[t].at = "waiting"
        BY <1>1, <2>4, <3>1 DEF Locks, CallTypes, CallType
      <3>3. \A u \in Threads \ {t} : call'[u] = call[u]
        BY <1>1, <2>4 DEF Locks, CallTypes
      <3>4. \A u \in Threads : call[u].at \notin Holding
        BY <3>1 DEF CallsMakeSense
      <3>5. call[t].plugin \in Plugins /\ identifier[call[t].plugin] \in Managers
            /\ phase \in {"inithooks", "running", "deinit"}
        BY <3>2 DEF CallsMakeSense
      <3>6. \A u \in Threads : call'[u].at \notin {"updating", "removing"}
        BY <3>2, <3>3, <3>4 DEF Holding
      <3>7. \A u \in Threads \ {t} : mutex' # u
        BY <3>1
      <3>8. \A u \in Threads :
               /\ call'[u].at = "out" => call'[u] = Idle
               /\ call'[u].at # "out" =>
                     /\ phase' \in {"inithooks", "running", "deinit"}
                     /\ call'[u].plugin \in Plugins
                     /\ identifier'[call'[u].plugin] \in Managers
        BY <2>1, <3>2, <3>3, <3>5 DEF CallsMakeSense
      <3>9. \A u \in Threads : call'[u].at \in Holding <=> mutex' = u
        BY <3>1, <3>2, <3>3, <3>4, <3>7 DEF Holding
      <3>10. QED
        BY <3>6, <3>8, <3>9 DEF CallsMakeSense
    <2>5. CASE Returns(t) \/ Detected(t)
      BY <1>1, <2>1, <2>5, CallEnds DEF Returns, Detected, Holding
    <2>6. CASE DetectButtonCombo(t)
      <3>1. call'[t] = [call[t] EXCEPT !.at = "detecting"] /\ mutex' = mutex
        BY <1>1, <2>6 DEF DetectButtonCombo, CallTypes
      <3>2. call'[t].at = "detecting" /\ call'[t].plugin = call[t].plugin /\ call[t].at = "inside"
        BY <1>1, <2>6, <3>1 DEF DetectButtonCombo, CallTypes, CallType
      <3>3. \A u \in Threads \ {t} : call'[u] = call[u]
        BY <1>1, <2>6 DEF DetectButtonCombo, CallTypes
      <3>4. QED
        BY <2>1, <3>1, <3>2, <3>3 DEF CallsMakeSense, Holding
    <2>7. QED
      BY <2>2, <2>3, <2>4, <2>5, <2>6
  <1>4. CASE Callback
    BY <1>4, CallbackLeaves, CallsStay, HasStays DEF loader, combos
  <1>5. CASE Rests
    <2>1. NoCalls
      <3>1. ASSUME NEW p \in Plugins, Load(p) PROVE NoCalls
        BY <3>1, QuietPhases DEF Load
      <3>2. QED
        BY <1>5, <3>1 DEF Rests, Deinit, RestorePatches, CleanupDone, LoadDone, CreateDone,
           StartApplication, Goes
    <2>2. QED
      BY <1>5, <2>1, RestsLeave, NoCallsStay DEF Still
  <1>6. CASE ApplicationEnds \/ Reboot
    <2>1. mutex' = Nobody /\ \A u \in Threads : call'[u] = Idle
      BY <1>6 DEF ApplicationEnds, Reboot
    <2>2. QED
      BY <2>1 DEF CallsMakeSense, Idle, Holding
  <1>7. ASSUME NEW t \in Threads, Unregister(t) \/ UpdateContext(t) PROVE CallsMakeSense'
    BY <1>1, <1>7, CallEnds DEF Unregister, UpdateContext, loader, Holding
  <1>8. ASSUME NEW t \in Threads, NEW h \in Combos,
               \/ \E mask \in Masks : UpdateButtonCombo(t, h, mask)
               \/ \E v \in Versions, mask \in Masks : AddButtonCombo(t, h, v, mask)
        PROVE  CallsMakeSense'
    BY <1>1, <1>8, CallEnds DEF UpdateButtonCombo, AddButtonCombo, loader, Holding
  <1>9. ASSUME NEW t \in Threads, NEW h \in Combos, RemoveButtonCombo(t, h) PROVE CallsMakeSense'
    <2>1. /\ call[t].at = "inside" /\ call'[t].at = "removing"
          /\ call'[t].combo = h /\ call'[t].plugin = call[t].plugin
          /\ \A u \in Threads \ {t} : call'[u] = call[u]
      BY <1>1, <1>9 DEF RemoveButtonCombo, CallTypes, CallType
    <2>2. mutex' = t /\ UNCHANGED <<phase, identifier, mutex>>
      BY <1>9, <2>1, OneHolder DEF RemoveButtonCombo, loader, Holding
    <2>3. \A u \in Threads \ {t} : call[u].at \notin Holding
      BY <2>1, OneHolder DEF Holding
    <2>4. \A m \in Managers : h \notin Has(m)'
      <3>1. Manager(t) \in Managers /\ h \in Has(Manager(t))
        BY <1>9, <2>1, FoundInManager DEF RemoveButtonCombo
      <3>2. QED
        BY <1>9, <3>1, HasAfterRemove DEF ListsMatch
    <2>5. QED
      BY <2>1, <2>2, <2>3, <2>4 DEF CallsMakeSense, Holding
  <1>10. ASSUME NEW t \in Threads, NEW h \in Combos, NEW v \in Versions,
                UpdateButtonComboCallback(t, h, v)
         PROVE  CallsMakeSense'
    <2>1. /\ call[t].at = "inside" /\ call'[t].at = "updating"
          /\ call'[t].combo = h /\ call'[t].plugin = call[t].plugin
          /\ \A u \in Threads \ {t} : call'[u] = call[u]
      BY <1>1, <1>10 DEF UpdateButtonComboCallback, CallTypes, CallType
    <2>2. mutex' = t /\ UNCHANGED <<phase, identifier, mutex>>
      BY <1>10, <2>1, OneHolder DEF UpdateButtonComboCallback, loader, Holding
    <2>3. \A u \in Threads \ {t} : call[u].at \notin Holding
      BY <2>1, OneHolder DEF Holding
    <2>4. h \in Has(identifier[call[t].plugin])' /\ identifier[call[t].plugin] \in Managers
      BY <1>10, <2>1, <2>2, FoundInManager, HasStays DEF UpdateButtonComboCallback, Manager
    <2>5. QED
      BY <2>1, <2>2, <2>3, <2>4 DEF CallsMakeSense, Holding
  <1>11. ASSUME NEW p \in Plugins,
                RemoveButtonComboData(p) \/ DestroyStub(p) \/ CreateButtonComboData(p) \/ InitHooks(p)
         PROVE  CallsMakeSense'
    <2>1. NoCalls
      BY <1>11, QuietPhases DEF RemoveButtonComboData, DestroyStub, CreateButtonComboData, InitHooks
    <2>2. QED
      BY <1>11, <2>1, NoCallsStay DEF RemoveButtonComboData, DestroyStub, CreateButtonComboData,
         InitHooks, Destroyed
  <1>12. CASE Next
    BY <1>3, <1>4, <1>5, <1>6, <1>7, <1>8, <1>9, <1>10, <1>11, <1>12, NextCases
  <1>13. QED
    BY <1>2, <1>12

-----------------------------------------------------------------------------
(* Managers                                                                *)

LEMMA InitManagers == ASSUME Init PROVE ManagersApart
  BY DEF Init, ManagersApart

LEMMA ManagersStay ==
    ASSUME Types, ManagersApart, UNCHANGED <<mButtonComboManagerHandle, identifier, left>>,
           \A m \in Managers : sButtonComboManager[m] # Gone => sButtonComboManager'[m] # Gone,
           \A p \in Plugins : life[p] = "running" => life'[p] = "running"
    PROVE  ManagersApart'
  <1>1. LoaderTypes
    BY TypesParts
  <1>2. QED
    BY <1>1 DEF ManagersApart, LoaderTypes

LEMMA ManagersStep ==
    ASSUME Types, CallsMakeSense, ManagersApart, [Next]_vars
    PROVE  ManagersApart'
  <1>1. LoaderTypes /\ CombosTypes /\ CallTypes
    BY TypesParts
  <1>2. CASE UNCHANGED vars
    BY <1>2, ManagersStay DEF vars, loader, combos
  <1>3. CASE Talks
    BY <1>3, TalksLeave, ManagersStay DEF loader, combos
  <1>4. CASE Callback
    BY <1>4, CallbackLeaves, ManagersStay DEF loader, combos
  <1>5. CASE Rests
    <2>1. \A p \in Plugins : life[p] = "running" => life'[p] = "running"
      BY <1>1, <1>5 DEF Rests, Deinit, RestorePatches, CleanupDone, LoadDone, CreateDone,
           StartApplication, Load, LoaderTypes
    <2>2. QED
      BY <1>5, <2>1, RestsLeave, ManagersStay DEF Still, combos
  <1>6. CASE ApplicationEnds
    BY <1>6, ManagersStay DEF ApplicationEnds, combos
  <1>7. CASE Reboot
    BY <1>7 DEF Reboot, ManagersApart
  <1>8. ASSUME NEW t \in Threads, Unregister(t) \/ UpdateContext(t) PROVE ManagersApart'
    BY <1>8, ManagersStay DEF Unregister, UpdateContext, loader
  <1>9. ASSUME NEW t \in Threads, NEW h \in Combos, RemoveButtonCombo(t, h) PROVE ManagersApart'
    <2>1. ASSUME NEW m \in Managers, sButtonComboManager[m] # Gone
          PROVE  sButtonComboManager'[m] # Gone
      <3>1. sButtonComboManager[m] \in SUBSET Combos /\ sButtonComboManager[m] \ {h} \in SUBSET Combos
        BY <1>1, <2>1 DEF CombosTypes
      <3>2. sButtonComboManager'[m] \in {sButtonComboManager[m], sButtonComboManager[m] \ {h}}
        BY <1>1, <1>9 DEF RemoveButtonCombo, CombosTypes
      <3>3. QED
        BY <3>1, <3>2
    <2>2. QED
      BY <1>9, <2>1, ManagersStay DEF RemoveButtonCombo, loader
  <1>10. ASSUME NEW t \in Threads, NEW h \in Combos, NEW v \in Versions, NEW mask \in Masks,
                AddButtonCombo(t, h, v, mask)
         PROVE  ManagersApart'
    <2>1. ASSUME NEW m \in Managers, sButtonComboManager[m] # Gone
          PROVE  sButtonComboManager'[m] # Gone
      <3>1. sButtonComboManager[m] \in SUBSET Combos /\ sButtonComboManager[m] \cup {h} \in SUBSET Combos
        BY <1>1, <2>1 DEF CombosTypes
      <3>2. sButtonComboManager'[m] \in {sButtonComboManager[m], sButtonComboManager[m] \cup {h}}
        BY <1>1, <1>10 DEF AddButtonCombo, CombosTypes
      <3>3. QED
        BY <3>1, <3>2
    <2>2. QED
      BY <1>10, <2>1, ManagersStay DEF AddButtonCombo, loader
  <1>11. ASSUME NEW t \in Threads, NEW h \in Combos,
                \/ \E v \in Versions : UpdateButtonComboCallback(t, h, v)
                \/ \E mask \in Masks : UpdateButtonCombo(t, h, mask)
         PROVE  ManagersApart'
    BY <1>11, ManagersStay DEF UpdateButtonComboCallback, UpdateButtonCombo, loader
  <1>12. ASSUME NEW p \in Plugins, RemoveButtonComboData(p) PROVE ManagersApart'
    <2> DEFINE m == mButtonComboManagerHandle[p]
    <2>1. /\ mButtonComboManagerHandle' = [mButtonComboManagerHandle EXCEPT ![p] = Nobody]
          /\ identifier' = [identifier EXCEPT ![p] = Nobody]
          /\ life' = [life EXCEPT ![p] = "absent"]
          /\ left' = left
      BY <1>12 DEF RemoveButtonComboData, Destroyed
    <2>2. \A n \in Managers : sButtonComboManager'[n] = IF n = m THEN Gone ELSE sButtonComboManager[n]
      BY <1>12 DEF RemoveButtonComboData
    <2>3. m # Nobody => m \notin left
      BY DEF ManagersApart
    <2>4. \A n \in left' : sButtonComboManager'[n] # Gone
      BY <1>1, <2>1, <2>2, <2>3 DEF ManagersApart, LoaderTypes
    <2>5. ASSUME NEW q \in Plugins, mButtonComboManagerHandle'[q] # Nobody
          PROVE  /\ sButtonComboManager'[mButtonComboManagerHandle'[q]] # Gone
                 /\ mButtonComboManagerHandle'[q] \notin left'
                 /\ \A r \in Plugins \ {q} : mButtonComboManagerHandle'[r] # mButtonComboManagerHandle'[q]
      <3>1. q # p /\ mButtonComboManagerHandle'[q] = mButtonComboManagerHandle[q]
        BY <1>1, <2>1, <2>5 DEF LoaderTypes
      <3>2. mButtonComboManagerHandle[q] \in Managers /\ mButtonComboManagerHandle[q] # m
        BY <1>1, <2>5, <3>1 DEF LoaderTypes, ManagersApart
      <3>3. QED
        BY <1>1, <2>1, <2>2, <2>5, <3>1, <3>2 DEF ManagersApart, LoaderTypes
    <2>6. ASSUME NEW q \in Plugins, identifier'[q] # Nobody
          PROVE  /\ life'[q] = "running"
                 /\ sButtonComboManager'[identifier'[q]] # Gone
                 /\ identifier'[q] = mButtonComboManagerHandle'[q] \/ identifier'[q] \in left'
                 /\ \A r \in Plugins \ {q} : identifier'[r] # identifier'[q]
      <3>1. q # p /\ identifier'[q] = identifier[q] /\ life'[q] = life[q]
            /\ mButtonComboManagerHandle'[q] = mButtonComboManagerHandle[q]
        BY <1>1, <2>1, <2>6 DEF LoaderTypes
      <3>2. identifier[q] \in Managers /\ identifier[q] # m
        BY <1>1, <2>3, <2>6, <3>1 DEF LoaderTypes, ManagersApart
      <3>3. QED
        BY <1>1, <2>1, <2>2, <2>6, <3>1, <3>2 DEF ManagersApart, LoaderTypes
    <2>7. QED
      BY <2>4, <2>5, <2>6 DEF ManagersApart
  <1>13. ASSUME NEW p \in Plugins, DestroyStub(p) PROVE ManagersApart'
    <2> DEFINE m == mButtonComboManagerHandle[p]
    <2>1. /\ mButtonComboManagerHandle' = [mButtonComboManagerHandle EXCEPT ![p] = Nobody]
          /\ identifier' = [identifier EXCEPT ![p] = Nobody]
          /\ life' = [life EXCEPT ![p] = "absent"] /\ life[p] = "stub"
          /\ left' = left \cup ({m} \ {Nobody})
          /\ sButtonComboManager' = sButtonComboManager
      BY <1>13 DEF DestroyStub, Destroyed, combos
    <2>2. identifier[p] = Nobody
      BY <2>1 DEF ManagersApart
    <2>3. \A n \in left' : sButtonComboManager'[n] # Gone
      BY <2>1 DEF ManagersApart
    <2>4. ASSUME NEW q \in Plugins, mButtonComboManagerHandle'[q] # Nobody
          PROVE  /\ sButtonComboManager'[mButtonComboManagerHandle'[q]] # Gone
                 /\ mButtonComboManagerHandle'[q] \notin left'
                 /\ \A r \in Plugins \ {q} : mButtonComboManagerHandle'[r] # mButtonComboManagerHandle'[q]
      <3>1. q # p /\ mButtonComboManagerHandle'[q] = mButtonComboManagerHandle[q]
        BY <1>1, <2>1, <2>4 DEF LoaderTypes
      <3>2. mButtonComboManagerHandle[q] # m
        BY <2>4, <3>1 DEF ManagersApart
      <3>3. QED
        BY <1>1, <2>1, <2>4, <3>1, <3>2 DEF ManagersApart, LoaderTypes
    <2>5. ASSUME NEW q \in Plugins, identifier'[q] # Nobody
          PROVE  /\ life'[q] = "running"
                 /\ sButtonComboManager'[identifier'[q]] # Gone
                 /\ identifier'[q] = mButtonComboManagerHandle'[q] \/ identifier'[q] \in left'
                 /\ \A r \in Plugins \ {q} : identifier'[r] # identifier'[q]
      <3>1. q # p /\ identifier'[q] = identifier[q] /\ life'[q] = life[q]
            /\ mButtonComboManagerHandle'[q] = mButtonComboManagerHandle[q]
        BY <1>1, <2>1, <2>5 DEF LoaderTypes
      <3>2. QED
        BY <1>1, <2>1, <2>2, <2>5, <3>1 DEF ManagersApart, LoaderTypes
    <2>6. QED
      BY <2>3, <2>4, <2>5 DEF ManagersApart
  <1>14. ASSUME NEW p \in Plugins, CreateButtonComboData(p) PROVE ManagersApart'
    <2>1. CASE p \in Old
      BY <1>14, <2>1, ManagersStay DEF CreateButtonComboData
    <2>2. CASE p \notin Old
      <3> DEFINE m == mButtonComboManagerHandle[p]
      <3>1. PICK n \in Managers :
               /\ sButtonComboManager[n] = Gone
               /\ sButtonComboManager' = [sButtonComboManager EXCEPT ![n] = {}]
               /\ mButtonComboManagerHandle' = [mButtonComboManagerHandle EXCEPT ![p] = n]
               /\ left' = left \cup ({m} \ {Nobody})
        BY <1>14, <2>2 DEF CreateButtonComboData
      <3>2. UNCHANGED <<identifier, life>>
        BY <1>14 DEF CreateButtonComboData
      <3>3. \A k \in Managers : sButtonComboManager[k] # Gone => k # n /\ sButtonComboManager'[k] # Gone
        BY <1>1, <3>1 DEF CombosTypes
      <3>4. {} # Gone
        OBVIOUS
      <3>5. sButtonComboManager'[n] # Gone
        BY <1>1, <3>1, <3>4 DEF CombosTypes
      <3>6. m # Nobody => m \in Managers /\ m # n /\ sButtonComboManager[m] # Gone
        BY <1>1, <3>1 DEF LoaderTypes, ManagersApart
      <3>7. n \notin left'
        BY <3>1, <3>6 DEF ManagersApart
      <3>8. \A k \in left' : sButtonComboManager'[k] # Gone
        BY <1>1, <3>1, <3>3, <3>6 DEF ManagersApart, LoaderTypes
      <3>9. \A q \in Plugins \ {p} :
               /\ mButtonComboManagerHandle'[q] = mButtonComboManagerHandle[q]
               /\ mButtonComboManagerHandle[q] # Nobody =>
                     /\ mButtonComboManagerHandle[q] \in Managers
                     /\ mButtonComboManagerHandle[q] # n
                     /\ mButtonComboManagerHandle[q] # m
        BY <1>1, <3>1 DEF LoaderTypes, ManagersApart
      <3>10. mButtonComboManagerHandle'[p] = n
        BY <1>1, <3>1 DEF LoaderTypes
      <3>11. ASSUME NEW q \in Plugins, mButtonComboManagerHandle'[q] # Nobody
             PROVE  /\ sButtonComboManager'[mButtonComboManagerHandle'[q]] # Gone
                    /\ mButtonComboManagerHandle'[q] \notin left'
                    /\ \A r \in Plugins \ {q} : mButtonComboManagerHandle'[r] # mButtonComboManagerHandle'[q]
        <4>1. CASE q = p
          BY <3>5, <3>7, <3>9, <3>10, <4>1
        <4>2. CASE q # p
          <5>1. /\ mButtonComboManagerHandle'[q] = mButtonComboManagerHandle[q]
                /\ mButtonComboManagerHandle[q] \in Managers
                /\ mButtonComboManagerHandle[q] \notin {n, m}
            BY <3>9, <3>11, <4>2
          <5>2. sButtonComboManager'[mButtonComboManagerHandle[q]] # Gone
            BY <3>3, <3>11, <5>1 DEF ManagersApart
          <5>3. mButtonComboManagerHandle[q] \notin left'
            BY <3>1, <3>11, <5>1 DEF ManagersApart
          <5>4. \A r \in Plugins \ {q} : mButtonComboManagerHandle'[r] # mButtonComboManagerHandle[q]
            BY <3>9, <3>10, <3>11, <5>1 DEF ManagersApart
          <5>5. QED
            BY <5>1, <5>2, <5>3, <5>4
        <4>3. QED
          BY <4>1, <4>2
      <3>12. ASSUME NEW q \in Plugins, identifier[q] # Nobody
             PROVE  /\ sButtonComboManager'[identifier[q]] # Gone
                    /\ identifier[q] = mButtonComboManagerHandle'[q] \/ identifier[q] \in left'
        <4>1. identifier[q] \in Managers
          BY <1>1, <3>12 DEF LoaderTypes
        <4>2. QED
          BY <3>1, <3>3, <3>9, <3>12, <4>1 DEF ManagersApart
      <3>13. QED
        BY <3>2, <3>8, <3>11, <3>12 DEF ManagersApart
    <2>3. QED
      BY <2>1, <2>2
  <1>15. ASSUME NEW p \in Plugins, InitHooks(p) PROVE ManagersApart'
    <2>1. /\ life[p] = "loaded" /\ life' = [life EXCEPT ![p] = "running"]
          /\ identifier' = [identifier EXCEPT ![p] = mButtonComboManagerHandle[p]]
          /\ UNCHANGED <<mButtonComboManagerHandle, sButtonComboManager, left>>
      BY <1>15 DEF InitHooks, combos
    <2>2. \A q \in Plugins \ {p} : identifier[q] # Nobody => identifier[q] # mButtonComboManagerHandle[p]
      BY DEF ManagersApart
    <2>3. ASSUME NEW q \in Plugins, identifier'[q] # Nobody
          PROVE  /\ life'[q] = "running"
                 /\ sButtonComboManager[identifier'[q]] # Gone
                 /\ identifier'[q] = mButtonComboManagerHandle[q] \/ identifier'[q] \in left
                 /\ \A r \in Plugins \ {q} : identifier'[r] # identifier'[q]
      <3>1. CASE q = p
        BY <1>1, <2>1, <2>2, <2>3, <3>1 DEF LoaderTypes, ManagersApart
      <3>2. CASE q # p
        BY <1>1, <2>1, <2>2, <2>3, <3>2 DEF LoaderTypes, ManagersApart
      <3>3. QED
        BY <3>1, <3>2
    <2>4. QED
      BY <2>1, <2>3 DEF ManagersApart
  <1>16. CASE Next
    BY <1>3, <1>4, <1>5, <1>6, <1>7, <1>8, <1>9, <1>10, <1>11, <1>12, <1>13, <1>14, <1>15, <1>16, NextCases
  <1>17. QED
    BY <1>2, <1>16

-----------------------------------------------------------------------------
(* What the managers and the module know                                   *)

LEMMA InitLists == ASSUME Init PROVE ListsMatch /\ Owned /\ ContextsMatch
  BY DEF Init, ListsMatch, Owned, ContextsMatch, Has, Removing, Idle

LEMMA ListsStay ==
    ASSUME ListsMatch, UNCHANGED combos, \A h \in Combos : Removing(h)' <=> Removing(h)
    PROVE  ListsMatch'
  <1>1. \A m \in Managers : Has(m)' = Has(m)
    BY HasStays DEF combos
  <1>2. QED
    BY <1>1 DEF ListsMatch, combos

LEMMA ListsStep ==
    ASSUME Types, CallsMakeSense, ManagersApart, ListsMatch, FiringMakesSense, [Next]_vars
    PROVE  ListsMatch'
  <1>1. LoaderTypes /\ CombosTypes /\ CallTypes
    BY TypesParts
  <1>2. CASE UNCHANGED vars
    BY <1>2, ListsStay DEF vars, Removing
  <1>3. CASE Talks
    BY <1>1, <1>3, TalksLeave, MiddleWhileTalking, ListsStay
  <1>4. CASE Callback
    BY <1>4, CallbackLeaves, ListsStay DEF Removing
  <1>5. CASE Rests
    BY <1>5, RestsLeave, ListsStay DEF Still, Removing
  <1>6. CASE ApplicationEnds
    <2>1. \A h \in Combos : ~Removing(h)
      BY <1>6 DEF ApplicationEnds, CallsMakeSense, Removing, Holding
    <2>2. \A h \in Combos : ~Removing(h)'
      BY <1>6 DEF ApplicationEnds, Removing, Idle
    <2>3. QED
      BY <1>6, <2>1, <2>2, ListsStay DEF ApplicationEnds
  <1>7. CASE Reboot
    BY <1>7 DEF Reboot, ListsMatch, Has, Removing, Idle
  <1>8. ASSUME NEW t \in Threads, Unregister(t) PROVE ListsMatch'
    <2> DEFINE g == call[t].combo
    <2>1. /\ module' = [module EXCEPT ![g] = Gone]
          /\ UNCHANGED <<mContextData, asked, sButtonComboManager>>
      BY <1>8 DEF Unregister
    <2>2. /\ \A h \in Combos : ~Removing(h)'
          /\ \A h \in Combos : Removing(h) <=> h = g
      BY <1>1, <1>8, NothingAfterEnd, InTheMiddle DEF Unregister, Holding
    <2>3. g \in Combos /\ \A m \in Managers : g \notin Has(m)
      BY <1>8 DEF Unregister, CallsMakeSense
    <2>4. mContextData[g] = Gone
      BY <2>3 DEF ListsMatch
    <2>5. \A m \in Managers : Has(m)' = Has(m)
      BY <2>1, HasStays
    <2>6. \A h \in Combos : module'[h] = IF h = g THEN Gone ELSE module[h]
      BY <1>1, <2>1 DEF CombosTypes
    <2>7. QED
      BY <2>1, <2>2, <2>4, <2>5, <2>6 DEF ListsMatch
  <1>9. ASSUME NEW t \in Threads, UpdateContext(t) PROVE ListsMatch'
    <2> DEFINE g == call[t].combo
    <2>1. UNCHANGED <<module, asked, sButtonComboManager>>
      BY <1>9 DEF UpdateContext
    <2>2. \A h \in Combos : ~Removing(h)' /\ ~Removing(h)
      BY <1>1, <1>9, NothingAfterEnd, InTheMiddle DEF UpdateContext, Holding
    <2>3. Types'
      BY TypesStep
    <2>4. mContextData'[g] \in Pair /\ mContextData[g] \in Pair
      <3>1. g \in Has(identifier[call[t].plugin]) /\ identifier[call[t].plugin] \in Managers
        BY <1>9 DEF UpdateContext, CallsMakeSense
      <3>2. g \in Combos /\ mContextData[g] \in Pair
        BY <1>1, <3>1, HasIsSet DEF ListsMatch, CombosTypes
      <3>3. mContextData'[g] = [mContextData[g] EXCEPT !.context = mContextData[g].callback]
        BY <1>1, <1>9, <3>2 DEF UpdateContext, CombosTypes
      <3>4. QED
        BY <3>2, <3>3 DEF Pair
    <2>5. \A h \in Combos : h # g => mContextData'[h] = mContextData[h]
      BY <1>1, <1>9 DEF UpdateContext, CombosTypes
    <2>6. \A h \in Combos : mContextData'[h] # Gone <=> mContextData[h] # Gone
      BY <2>4, <2>5
    <2>7. \A m \in Managers : Has(m)' = Has(m)
      BY <2>1, HasStays
    <2>8. QED
      BY <2>1, <2>2, <2>6, <2>7 DEF ListsMatch
  <1>10. ASSUME NEW t \in Threads, NEW g \in Combos, RemoveButtonCombo(t, g) PROVE ListsMatch'
    <2>1. Manager(t) \in Managers /\ g \in Has(Manager(t))
      BY <1>10, FoundInManager DEF RemoveButtonCombo
    <2>2. /\ UNCHANGED <<module, asked>>
          /\ \A h \in Combos : mContextData'[h] = IF h = g THEN Gone ELSE mContextData[h]
      BY <1>1, <1>10 DEF RemoveButtonCombo, CombosTypes
    <2>3. \A h \in Combos : (Removing(h)' <=> h = g) /\ ~Removing(h)
      BY <1>1, <1>10, MiddleAfterMove, InTheMiddle DEF RemoveButtonCombo, Holding
    <2>4. \A m \in Managers : Has(m)' = IF m = Manager(t) THEN Has(m) \ {g} ELSE Has(m)
      BY <1>10, HasAfterRemove
    <2>5. \A m \in Managers : g \in Has(m) => m = Manager(t)
      BY <2>1 DEF ListsMatch
    <2>6. \A h \in Combos : (\E m \in Managers : h \in Has(m)') <=> h # g /\ \E m \in Managers : h \in Has(m)
      BY <2>4, <2>5
    <2>7. \A m, n \in Managers : m # n => Has(m)' \cap Has(n)' = {}
      BY <2>4 DEF ListsMatch
    <2>8. module[g] # Gone
      BY <2>1 DEF ListsMatch
    <2>9. QED
      BY <2>2, <2>3, <2>6, <2>7, <2>8 DEF ListsMatch
  <1>11. ASSUME NEW t \in Threads, NEW g \in Combos, NEW v \in Versions,
                UpdateButtonComboCallback(t, g, v)
         PROVE  ListsMatch'
    <2>1. Manager(t) \in Managers /\ g \in Has(Manager(t)) /\ call[t].plugin \in Plugins
      BY <1>11, FoundInManager DEF UpdateButtonComboCallback, CallsMakeSense
    <2>2. UNCHANGED <<module, asked, sButtonComboManager>>
      BY <1>11 DEF UpdateButtonComboCallback
    <2>3. mContextData[g] \in Pair
      BY <1>1, <2>1 DEF ListsMatch, CombosTypes
    <2>4. mContextData'[g] \in Pair
      <3>1. mContextData'[g] = [mContextData[g] EXCEPT !.callback = <<call[t].plugin, v>>]
        BY <1>1, <1>11 DEF UpdateButtonComboCallback, CombosTypes
      <3>2. QED
        BY <2>1, <2>3, <3>1 DEF Pair
    <2>5. \A h \in Combos : mContextData'[h] # Gone <=> mContextData[h] # Gone
      BY <1>1, <1>11, <2>3, <2>4 DEF UpdateButtonComboCallback, CombosTypes
    <2>6. \A h \in Combos : ~Removing(h)' /\ ~Removing(h)
      BY <1>1, <1>11, MiddleAfterMove, InTheMiddle DEF UpdateButtonComboCallback, Holding
    <2>7. \A m \in Managers : Has(m)' = Has(m)
      BY <2>2, HasStays
    <2>8. QED
      BY <2>2, <2>5, <2>6, <2>7 DEF ListsMatch
  <1>12. ASSUME NEW t \in Threads, NEW g \in Combos, NEW mask \in Masks, UpdateButtonCombo(t, g, mask)
         PROVE  ListsMatch'
    <2>1. Manager(t) \in Managers /\ g \in Has(Manager(t))
      BY <1>12, FoundInManager DEF UpdateButtonCombo
    <2>2. /\ UNCHANGED <<mContextData, sButtonComboManager>>
          /\ \A h \in Combos : /\ module'[h] = IF h = g THEN convert(mask) ELSE module[h]
                               /\ asked'[h] = IF h = g THEN mask ELSE asked[h]
      BY <1>1, <1>12 DEF UpdateButtonCombo, CombosTypes
    <2>3. convert(mask) # Gone /\ module[g] # Gone
      BY <2>1 DEF ListsMatch, convert
    <2>4. \A h \in Combos : ~Removing(h)' /\ ~Removing(h)
      BY <1>1, <1>12, NothingAfterEnd, InTheMiddle DEF UpdateButtonCombo, Holding
    <2>5. \A m \in Managers : Has(m)' = Has(m)
      BY <2>2, HasStays
    <2>6. QED
      BY <2>2, <2>3, <2>4, <2>5 DEF ListsMatch
  <1>13. ASSUME NEW t \in Threads, NEW g \in Combos, NEW v \in Versions, NEW mask \in Masks,
                AddButtonCombo(t, g, v, mask)
         PROVE  ListsMatch'
    <2>1. Manager(t) \in Managers /\ call[t].plugin \in Plugins
      BY <1>13, FoundInManager DEF AddButtonCombo, CallsMakeSense
    <2>2. \A h \in Combos :
             /\ module'[h] = IF h = g THEN convert(mask) ELSE module[h]
             /\ asked'[h] = IF h = g THEN mask ELSE asked[h]
             /\ mContextData'[h] = IF h = g THEN PairOf(call[t].plugin, v) ELSE mContextData[h]
      BY <1>1, <1>13 DEF AddButtonCombo, CombosTypes
    <2>3. convert(mask) # Gone /\ mContextData[g] = Gone
      BY <1>13 DEF AddButtonCombo, convert
    <2>4. PairOf(call[t].plugin, v) # Gone
      <3>1. PairOf(call[t].plugin, v) \in Pair
        BY <2>1 DEF PairOf, Pair
      <3>2. QED
        BY <3>1
    <2>5. \A h \in Combos : ~Removing(h)' /\ ~Removing(h)
      BY <1>1, <1>13, NothingAfterEnd, InTheMiddle DEF AddButtonCombo, Holding
    <2>6. \A m \in Managers : Has(m)' = IF m = Manager(t) THEN Has(m) \cup {g} ELSE Has(m)
      BY <1>13, HasAfterAdd
    <2>7. \A m \in Managers : g \notin Has(m)
      BY <2>3 DEF ListsMatch
    <2>8. \A h \in Combos : (\E m \in Managers : h \in Has(m)') <=> h = g \/ \E m \in Managers : h \in Has(m)
      BY <2>1, <2>6
    <2>9. \A m, n \in Managers : m # n => Has(m)' \cap Has(n)' = {}
      BY <2>6, <2>7 DEF ListsMatch
    <2>10. QED
      BY <2>2, <2>3, <2>4, <2>5, <2>8, <2>9 DEF ListsMatch
  <1>14. ASSUME NEW p \in Plugins, RemoveButtonComboData(p) PROVE ListsMatch'
    <2> DEFINE m == mButtonComboManagerHandle[p]
               gone == IF m = Nobody THEN {} ELSE sButtonComboManager[m]
    <2>1. /\ mContextData' = [h \in Combos |-> IF h \in gone THEN Gone ELSE mContextData[h]]
          /\ module' = [h \in Combos |-> IF h \in gone THEN Gone ELSE module[h]]
          /\ asked' = asked /\ call' = call
      BY <1>14 DEF RemoveButtonComboData, Destroyed
    <2>2. \A n \in Managers : Has(n)' = IF n = m THEN {} ELSE Has(n)
      BY <1>14, HasAfterDestruction
    <2>3. m # Nobody => m \in Managers /\ gone = Has(m)
      BY <1>1 DEF LoaderTypes, ManagersApart, Has
    <2>4. \A h \in Combos : ~Removing(h) /\ ~Removing(h)'
      BY <1>14, <2>1, QuietPhases, NothingHalfway DEF RemoveButtonComboData
    <2>5. \A h \in Combos : \A n \in Managers : h \in Has(n) => (h \in gone <=> n = m)
      BY <2>3 DEF ListsMatch
    <2>6. \A h \in Combos : (\E n \in Managers : h \in Has(n)') <=> h \notin gone /\ \E n \in Managers : h \in Has(n)
      BY <2>2, <2>5
    <2>7. \A n, k \in Managers : n # k => Has(n)' \cap Has(k)' = {}
      BY <2>2 DEF ListsMatch
    <2>8. ASSUME NEW h \in Combos
          PROVE  /\ mContextData'[h] # Gone <=> \E n \in Managers : h \in Has(n)'
                 /\ module'[h] # Gone <=> mContextData'[h] # Gone \/ Removing(h)'
                 /\ module'[h] # Gone => module'[h] = convert(asked'[h])
      BY <2>1, <2>4, <2>6 DEF ListsMatch
    <2>9. QED
      BY <2>7, <2>8 DEF ListsMatch
  <1>15. ASSUME NEW p \in Plugins, DestroyStub(p) \/ InitHooks(p) PROVE ListsMatch'
    BY <1>15, ListsStay DEF DestroyStub, InitHooks, Destroyed, Removing
  <1>16. ASSUME NEW p \in Plugins, CreateButtonComboData(p) PROVE ListsMatch'
    <2>1. UNCHANGED <<mContextData, asked, module, call>> /\ \A m \in Managers : Has(m)' = Has(m)
      BY <1>16, HasAfterCreation DEF CreateButtonComboData
    <2>2. \A h \in Combos : Removing(h)' <=> Removing(h)
      BY <2>1 DEF Removing
    <2>3. QED
      BY <2>1, <2>2 DEF ListsMatch
  <1>17. CASE Next
    BY <1>3, <1>4, <1>5, <1>6, <1>7, <1>8, <1>9, <1>10, <1>11, <1>12, <1>13, <1>14, <1>15, <1>16, <1>17,
       NextCases
  <1>18. QED
    BY <1>2, <1>17

-----------------------------------------------------------------------------
(* Whose combos a manager has                                              *)

LEMMA OwnedStays ==
    ASSUME Owned, UNCHANGED <<identifier, left>>,
           \A m \in Managers : Has(m)' \subseteq Has(m),
           \A m \in Managers : \A h \in Has(m)' :
               mContextData'[h].callback[1] = mContextData[h].callback[1]
    PROVE  Owned'
  BY DEF Owned

\* A call finds combos of its own plugin.
LEMMA FoundIsOwn ==
    ASSUME Types, CallsMakeSense, ManagersApart, ListsMatch, Owned, NEW t \in Threads, call[t].at # "out",
           NEW h \in Has(Manager(t))
    PROVE  /\ h \in Combos /\ mContextData[h] \in Pair /\ mContextData[h].callback[1] = call[t].plugin
           /\ Manager(t) \in Managers /\ call[t].plugin \in Plugins
  <1>1. LoaderTypes /\ CombosTypes
    BY TypesParts
  <1>2. call[t].plugin \in Plugins /\ Manager(t) \in Managers /\ Manager(t) = identifier[call[t].plugin]
    BY FoundInManager DEF CallsMakeSense, Manager
  <1>3. h \in Combos /\ mContextData[h] \in Pair
    BY <1>1, <1>2, HasIsSet DEF ListsMatch, CombosTypes
  <1>4. mContextData[h].callback[1] \in Plugins
    BY <1>3 DEF Pair
  <1>5. identifier[mContextData[h].callback[1]] = Manager(t)
    BY <1>2 DEF Owned
  <1>6. Manager(t) # Nobody
    BY <1>2
  <1>7. QED
    BY <1>2, <1>3, <1>4, <1>5, <1>6 DEF ManagersApart

LEMMA OwnedStep ==
    ASSUME Types, CallsMakeSense, ManagersApart, ListsMatch, Owned, FiringMakesSense, [Next]_vars
    PROVE  Owned'
  <1>1. LoaderTypes /\ CombosTypes /\ CallTypes
    BY TypesParts
  <1>2. ASSUME UNCHANGED <<identifier, left, sButtonComboManager, mContextData>> PROVE Owned'
    BY <1>2, OwnedStays, HasStays
  <1>3. CASE UNCHANGED vars \/ Talks \/ Callback \/ Rests \/ ApplicationEnds
    BY <1>2, <1>3, TalksLeave, CallbackLeaves, RestsLeave
       DEF vars, loader, combos, Still, ApplicationEnds
  <1>4. CASE Reboot
    BY <1>4 DEF Reboot, Owned, Has
  <1>5. ASSUME NEW t \in Threads, \/ Unregister(t)
                                  \/ \E h \in Combos, mask \in Masks : UpdateButtonCombo(t, h, mask)
        PROVE  Owned'
    BY <1>2, <1>5 DEF Unregister, UpdateButtonCombo, loader
  <1>6. ASSUME NEW t \in Threads, UpdateContext(t) PROVE Owned'
    <2> DEFINE g == call[t].combo
    <2>1. UNCHANGED <<identifier, left, sButtonComboManager>>
      BY <1>6 DEF UpdateContext, loader
    <2>2. g \in Combos /\ mContextData[g] \in Pair
      <3>1. g \in Has(identifier[call[t].plugin]) /\ identifier[call[t].plugin] \in Managers
        BY <1>6 DEF UpdateContext, CallsMakeSense
      <3>2. QED
        BY <1>1, <3>1, HasIsSet DEF ListsMatch, CombosTypes
    <2>3. mContextData'[g] = [mContextData[g] EXCEPT !.context = mContextData[g].callback]
      BY <1>1, <1>6, <2>2 DEF UpdateContext, CombosTypes
    <2>4. mContextData'[g].callback = mContextData[g].callback
      BY <2>2, <2>3 DEF Pair
    <2>5. \A h \in Combos : mContextData'[h].callback = mContextData[h].callback
      BY <1>1, <1>6, <2>4 DEF UpdateContext, CombosTypes
    <2>6. \A m \in Managers : Has(m)' = Has(m) /\ Has(m) \in SUBSET Combos
      BY <2>1, HasStays, HasIsSet
    <2>7. QED
      BY <2>1, <2>5, <2>6, OwnedStays
  <1>7. ASSUME NEW t \in Threads, NEW g \in Combos, RemoveButtonCombo(t, g) PROVE Owned'
    <2>1. \A m \in Managers : Has(m)' = IF m = Manager(t) THEN Has(m) \ {g} ELSE Has(m)
      BY <1>7, HasAfterRemove
    <2>2. Manager(t) \in Managers /\ g \in Has(Manager(t))
      BY <1>7, FoundInManager DEF RemoveButtonCombo
    <2>3. \A m \in Managers : g \notin Has(m)' /\ Has(m)' \subseteq Has(m) /\ Has(m) \in SUBSET Combos
      BY <2>1, <2>2, HasIsSet DEF ListsMatch
    <2>4. \A h \in Combos : h # g => mContextData'[h] = mContextData[h]
      BY <1>1, <1>7 DEF RemoveButtonCombo, CombosTypes
    <2>5. UNCHANGED <<identifier, left>>
      BY <1>7 DEF RemoveButtonCombo, loader
    <2>6. \A m \in Managers : \A h \in Has(m)' : h \in Combos /\ h # g
      BY <2>3
    <2>7. QED
      BY <2>3, <2>4, <2>5, <2>6, OwnedStays
  <1>8. ASSUME NEW t \in Threads, NEW g \in Combos, NEW v \in Versions,
               UpdateButtonComboCallback(t, g, v)
        PROVE  Owned'
    <2>1. g \in Has(Manager(t)) /\ call[t].at = "inside"
      BY <1>8, FoundInManager DEF UpdateButtonComboCallback
    <2>2. mContextData[g] \in Pair /\ mContextData[g].callback[1] = call[t].plugin
      BY <2>1, FoundIsOwn
    <2>3. mContextData'[g] = [mContextData[g] EXCEPT !.callback = <<call[t].plugin, v>>]
      BY <1>1, <1>8 DEF UpdateButtonComboCallback, CombosTypes
    <2>4. mContextData'[g].callback = <<call[t].plugin, v>>
      BY <2>2, <2>3 DEF Pair
    <2>5. \A h \in Combos : mContextData'[h].callback[1] = mContextData[h].callback[1]
      BY <1>1, <1>8, <2>2, <2>4 DEF UpdateButtonComboCallback, CombosTypes
    <2>6. UNCHANGED <<identifier, left, sButtonComboManager>>
      BY <1>8 DEF UpdateButtonComboCallback, loader
    <2>7. \A m \in Managers : Has(m)' = Has(m) /\ Has(m) \in SUBSET Combos
      BY <2>6, HasStays, HasIsSet
    <2>8. QED
      BY <2>5, <2>6, <2>7, OwnedStays
  <1>9. ASSUME NEW t \in Threads, NEW g \in Combos, NEW v \in Versions, NEW mask \in Masks,
               AddButtonCombo(t, g, v, mask)
        PROVE  Owned'
    <2>1. UNCHANGED <<identifier, left>>
      BY <1>9 DEF AddButtonCombo, loader
    <2>2. \A h \in Combos :
             mContextData'[h] = IF h = g THEN PairOf(call[t].plugin, v) ELSE mContextData[h]
      BY <1>1, <1>9 DEF AddButtonCombo, CombosTypes
    <2>3. mContextData'[g].callback[1] = call[t].plugin
      BY <2>2 DEF PairOf
    <2>4. \A m \in Managers : Has(m)' = IF m = Manager(t) THEN Has(m) \cup {g} ELSE Has(m)
      BY <1>9, HasAfterAdd
    <2>5. \A m \in Managers : g \notin Has(m) /\ Has(m) \in SUBSET Combos
      BY <1>9, HasIsSet DEF AddButtonCombo, ListsMatch
    <2>6. Manager(t) = identifier[call[t].plugin]
      BY DEF Manager
    <2>7. ASSUME NEW m \in Managers, NEW h \in Has(m)'
          PROVE  \/ identifier[mContextData'[h].callback[1]] = m
                 \/ m \in left /\ \A p \in Plugins : identifier[p] # m
      <3>1. CASE h = g
        BY <2>3, <2>4, <2>5, <2>6, <2>7, <3>1
      <3>2. CASE h # g
        <4>1. h \in Has(m) /\ h \in Combos
          BY <2>4, <2>5, <2>7, <3>2
        <4>2. QED
          BY <2>2, <3>2, <4>1 DEF Owned
      <3>3. QED
        BY <3>1, <3>2
    <2>8. QED
      BY <2>1, <2>7 DEF Owned
  <1>10. ASSUME NEW p \in Plugins, RemoveButtonComboData(p) PROVE Owned'
    <2> DEFINE m == mButtonComboManagerHandle[p]
               gone == IF m = Nobody THEN {} ELSE sButtonComboManager[m]
    <2>1. /\ \A h \in Combos : mContextData'[h] = IF h \in gone THEN Gone ELSE mContextData[h]
          /\ \A q \in Plugins : identifier'[q] = IF q = p THEN Nobody ELSE identifier[q]
          /\ left' = left
      BY <1>1, <1>10 DEF RemoveButtonComboData, Destroyed, LoaderTypes
    <2>2. \A n \in Managers : Has(n)' = IF n = m THEN {} ELSE Has(n)
      BY <1>10, HasAfterDestruction
    <2>3. m # Nobody => m \in Managers /\ gone = Has(m)
      BY <1>1 DEF LoaderTypes, ManagersApart, Has
    <2>4. ASSUME NEW n \in Managers, NEW h \in Has(n)'
          PROVE  \/ identifier'[mContextData'[h].callback[1]] = n
                 \/ n \in left /\ \A q \in Plugins : identifier'[q] # n
      <3>1. n # m /\ h \in Has(n) /\ h \in Combos
        BY <2>2, <2>4, HasIsSet
      <3>2. h \notin gone
        BY <2>3, <3>1 DEF ListsMatch
      <3>3. mContextData'[h] = mContextData[h] /\ mContextData[h].callback[1] \in Plugins
        BY <1>1, <2>1, <3>1, <3>2 DEF ListsMatch, CombosTypes, Pair
      <3>4. CASE n \in left /\ \A q \in Plugins : identifier[q] # n
        BY <2>1, <3>4
      <3>5. CASE identifier[mContextData[h].callback[1]] = n
        <4>1. CASE mContextData[h].callback[1] = p
          <5>1. identifier[p] = n /\ n # Nobody
            BY <3>5, <4>1
          <5>2. n \in left /\ \A q \in Plugins \ {p} : identifier[q] # n
            BY <3>1, <5>1 DEF ManagersApart
          <5>3. QED
            BY <2>1, <5>1, <5>2
        <4>2. CASE mContextData[h].callback[1] # p
          BY <2>1, <3>3, <3>5, <4>2
        <4>3. QED
          BY <4>1, <4>2
      <3>6. QED
        BY <3>1, <3>4, <3>5 DEF Owned
    <2>5. QED
      BY <2>1, <2>4 DEF Owned
  <1>11. ASSUME NEW p \in Plugins, DestroyStub(p) PROVE Owned'
    <2>1. identifier[p] = Nobody
      BY <1>11 DEF DestroyStub, ManagersApart
    <2>2. identifier' = identifier
      BY <1>1, <1>11, <2>1 DEF DestroyStub, Destroyed, LoaderTypes
    <2>3. left \subseteq left' /\ UNCHANGED <<sButtonComboManager, mContextData>>
      BY <1>11 DEF DestroyStub, combos
    <2>4. QED
      BY <2>2, <2>3, HasStays DEF Owned
  <1>12. ASSUME NEW p \in Plugins, CreateButtonComboData(p) PROVE Owned'
    <2>1. left \subseteq left' /\ UNCHANGED <<identifier, mContextData>>
      BY <1>12 DEF CreateButtonComboData
    <2>2. QED
      BY <1>12, <2>1, HasAfterCreation DEF Owned
  <1>13. ASSUME NEW p \in Plugins, InitHooks(p) PROVE Owned'
    <2> DEFINE m == mButtonComboManagerHandle[p]
    <2>1. UNCHANGED <<left, sButtonComboManager, mContextData>> /\ life[p] = "loaded"
      BY <1>13 DEF InitHooks, combos
    <2>2. \A q \in Plugins : identifier'[q] = IF q = p THEN m ELSE identifier[q]
      BY <1>1, <1>13 DEF InitHooks, LoaderTypes
    <2>3. identifier[p] = Nobody
      BY <2>1 DEF ManagersApart
    <2>4. m # Nobody => m \notin left /\ \A q \in Plugins : identifier[q] # m
      BY <2>3 DEF ManagersApart
    <2>5. ASSUME NEW n \in Managers, NEW h \in Has(n)
          PROVE  \/ identifier'[mContextData[h].callback[1]] = n
                 \/ n \in left /\ \A q \in Plugins : identifier'[q] # n
      <3>1. mContextData[h].callback[1] \in Plugins
        BY <1>1, HasIsSet DEF ListsMatch, CombosTypes, Pair
      <3>2. n # m
        BY <2>4, <3>1 DEF Owned
      <3>3. mContextData[h].callback[1] = p => identifier[mContextData[h].callback[1]] # n
        BY <2>3
      <3>4. QED
        BY <2>2, <3>1, <3>2, <3>3 DEF Owned
    <2>6. QED
      BY <2>1, <2>5, HasStays DEF Owned
  <1>14. CASE Next
    BY <1>3, <1>4, <1>5, <1>6, <1>7, <1>8, <1>9, <1>10, <1>11, <1>12, <1>13, <1>14, NextCases
  <1>15. QED
    BY <1>3, <1>14

-----------------------------------------------------------------------------
(* Callbacks and their contexts                                            *)

LEMMA ContextsStay ==
    ASSUME ContextsMatch, UNCHANGED mContextData, \A h \in Combos : Updating(h) => Updating(h)'
    PROVE  ContextsMatch'
  BY DEF ContextsMatch

LEMMA ContextsStep ==
    ASSUME Types, CallsMakeSense, ManagersApart, ListsMatch, ContextsMatch, [Next]_vars
    PROVE  ContextsMatch'
  <1>1. LoaderTypes /\ CombosTypes /\ CallTypes
    BY TypesParts
  <1>2. CASE UNCHANGED vars \/ Callback \/ Rests
    BY <1>2, ContextsStay, CallbackLeaves, RestsLeave DEF vars, combos, Still, Updating
  <1>3. CASE Talks
    BY <1>1, <1>3, TalksLeave, MiddleWhileTalking, ContextsStay DEF combos
  <1>4. CASE ApplicationEnds
    <2>1. \A h \in Combos : ~Updating(h)
      BY <1>4 DEF ApplicationEnds, CallsMakeSense, Updating, Holding
    <2>2. QED
      BY <1>4, <2>1, ContextsStay DEF ApplicationEnds, combos
  <1>5. CASE Reboot
    BY <1>5 DEF Reboot, ContextsMatch
  <1>6. ASSUME NEW t \in Threads, NEW g \in Combos, NEW mask \in Masks, UpdateButtonCombo(t, g, mask)
        PROVE  ContextsMatch'
    <2>1. \A h \in Combos : ~Updating(h)
      BY <1>6, InTheMiddle DEF UpdateButtonCombo, Holding
    <2>2. QED
      BY <1>6, <2>1, ContextsStay DEF UpdateButtonCombo
  <1>7. ASSUME NEW t \in Threads, UpdateContext(t) PROVE ContextsMatch'
    <2> DEFINE g == call[t].combo
    <2>1. g \in Combos /\ mContextData[g] \in Pair
      <3>1. g \in Has(identifier[call[t].plugin]) /\ identifier[call[t].plugin] \in Managers
        BY <1>7 DEF UpdateContext, CallsMakeSense
      <3>2. QED
        BY <1>1, <3>1, HasIsSet DEF ListsMatch, CombosTypes
    <2>2. mContextData'[g] = [mContextData[g] EXCEPT !.context = mContextData[g].callback]
      BY <1>1, <1>7, <2>1 DEF UpdateContext, CombosTypes
    <2>3. mContextData'[g].context = mContextData'[g].callback
      BY <2>1, <2>2 DEF Pair
    <2>4. \A h \in Combos : h # g => mContextData'[h] = mContextData[h] /\ ~Updating(h)
      BY <1>1, <1>7, InTheMiddle DEF UpdateContext, CombosTypes, Holding
    <2>5. QED
      BY <2>3, <2>4 DEF ContextsMatch
  <1>8. ASSUME NEW t \in Threads, NEW g \in Combos, RemoveButtonCombo(t, g) PROVE ContextsMatch'
    <2>1. \A h \in Combos : mContextData'[h] = IF h = g THEN Gone ELSE mContextData[h]
      BY <1>1, <1>8 DEF RemoveButtonCombo, CombosTypes
    <2>2. \A h \in Combos : ~Updating(h)
      BY <1>8, InTheMiddle DEF RemoveButtonCombo, Holding
    <2>3. QED
      BY <2>1, <2>2 DEF ContextsMatch
  <1>9. ASSUME NEW t \in Threads, NEW g \in Combos, NEW v \in Versions, UpdateButtonComboCallback(t, g, v)
        PROVE  ContextsMatch'
    <2>1. \A h \in Combos : h # g => mContextData'[h] = mContextData[h]
      BY <1>1, <1>9 DEF UpdateButtonComboCallback, CombosTypes
    <2>2. \A h \in Combos : ~Updating(h) /\ (h = g => Updating(h)')
      BY <1>1, <1>9, InTheMiddle, MiddleAfterMove DEF UpdateButtonComboCallback, Holding
    <2>3. QED
      BY <2>1, <2>2 DEF ContextsMatch
  <1>10. ASSUME NEW t \in Threads, NEW g \in Combos, NEW v \in Versions, NEW mask \in Masks,
                AddButtonCombo(t, g, v, mask)
         PROVE  ContextsMatch'
    <2>1. \A h \in Combos :
             mContextData'[h] = IF h = g THEN PairOf(call[t].plugin, v) ELSE mContextData[h]
      BY <1>1, <1>10 DEF AddButtonCombo, CombosTypes
    <2>2. \A h \in Combos : ~Updating(h)
      BY <1>10, InTheMiddle DEF AddButtonCombo, Holding
    <2>3. QED
      BY <2>1, <2>2 DEF ContextsMatch, PairOf
  <1>11. ASSUME NEW p \in Plugins, RemoveButtonComboData(p) PROVE ContextsMatch'
    <2>1. \A h \in Combos : mContextData'[h] \in {Gone, mContextData[h]}
      BY <1>11 DEF RemoveButtonComboData
    <2>2. \A h \in Combos : ~Updating(h)
      BY <1>11, QuietPhases, NothingHalfway DEF RemoveButtonComboData
    <2>3. QED
      BY <2>1, <2>2 DEF ContextsMatch
  <1>12. ASSUME NEW p \in Plugins, DestroyStub(p) \/ CreateButtonComboData(p) \/ InitHooks(p)
         PROVE  ContextsMatch'
    BY <1>12, ContextsStay DEF DestroyStub, CreateButtonComboData, InitHooks, Destroyed, combos, Updating
  <1>13. ASSUME NEW t \in Threads, Unregister(t) PROVE ContextsMatch'
    <2>1. \A h \in Combos : ~Updating(h)
      BY <1>13, InTheMiddle DEF Unregister, Holding
    <2>2. QED
      BY <1>13, <2>1, ContextsStay DEF Unregister
  <1>14. CASE Next
    BY <1>2, <1>3, <1>4, <1>5, <1>6, <1>7, <1>8, <1>9, <1>10, <1>11, <1>12, <1>13, <1>14, NextCases
  <1>15. QED
    BY <1>2, <1>14

-----------------------------------------------------------------------------
(* The callback wrapper                                                    *)

LEMMA InitFiring == ASSUME Init PROVE FiringMakesSense
  BY DEF Init, FiringMakesSense, Quiet

LEMMA NothingFires == ASSUME firing'.at = "no" PROVE FiringMakesSense'
  BY DEF FiringMakesSense

\* A wrapper that was not disturbed makes sense still; who disturbs it is seen.
LEMMA RacesSeen ==
    ASSUME firing \in FiringType, NEW g, Races(g)
    PROVE  /\ firing'.at = firing.at /\ firing'.combo = firing.combo
           /\ firing'.callback = firing.callback /\ firing'.context = firing.context
           /\ firing.raced => firing'.raced
           /\ firing.at \in {"entered", "read"} /\ firing.combo = g => firing'.raced
  BY DEF Races, FiringType

LEMMA FiringStays ==
    ASSUME FiringMakesSense, UNCHANGED <<phase, life, left, identifier>>,
           firing'.at = firing.at, firing'.combo = firing.combo, firing'.callback = firing.callback,
           firing'.context = firing.context, firing.raced => firing'.raced,
           firing.at \in {"entered", "read"} /\ ~firing'.raced =>
              /\ mContextData'[firing.combo] = mContextData[firing.combo]
              /\ Updating(firing.combo)' => Updating(firing.combo),
           \A m \in left : (\A p \in Plugins : identifier[p] # m) =>
              (firing.combo \in Has(m) => firing.combo \in Has(m)')
    PROVE  FiringMakesSense'
  <1>1. firing'.at # "no" => phase' = "running" /\ firing'.combo \in Combos
    BY DEF FiringMakesSense
  <1>2. firing'.at \in {"entered", "read"} /\ ~firing'.raced =>
           mContextData'[firing'.combo] # Gone /\ ~Updating(firing.combo)'
    BY DEF FiringMakesSense, Updating
  <1>3. firing'.at = "read" /\ ~firing'.raced => firing'.callback = mContextData'[firing'.combo].callback
    BY DEF FiringMakesSense
  <1>4. firing'.at = "called" /\ ~firing'.raced =>
          /\ firing'.callback # Nobody
          /\ firing'.context = firing'.callback
          /\ \/ life'[firing'.callback[1]] = "running"
             \/ \E m \in left' : firing'.combo \in Has(m)' /\ \A p \in Plugins : identifier'[p] # m
    BY DEF FiringMakesSense, Has
  <1>5. QED
    BY <1>1, <1>2, <1>3, <1>4 DEF FiringMakesSense, Updating

LEMMA FiringStep ==
    ASSUME IInv, [Next]_vars
    PROVE  FiringMakesSense'
  <1>1. /\ Types /\ CallsMakeSense /\ ManagersApart /\ ListsMatch /\ Owned /\ ContextsMatch
        /\ FiringMakesSense
    BY DEF IInv
  <1>2. LoaderTypes /\ CombosTypes /\ CallTypes /\ firing \in FiringType
    BY <1>1, TypesParts
  <1>3. CASE UNCHANGED vars
    BY <1>1, <1>3, FiringStays, HasStays DEF vars, loader, combos, Updating, LoaderTypes, Has
  <1>4. CASE Talks
    <2>1. UNCHANGED <<loader, identifier, combos, firing>>
      BY <1>4, TalksLeave
    <2>2. \A h \in Combos : Updating(h)' <=> Updating(h)
      BY <1>2, <1>4, MiddleWhileTalking
    <2>3. firing.at # "no" => firing.combo \in Combos
      BY <1>1 DEF FiringMakesSense
    <2>4. \A m \in left : Has(m)' = Has(m)
      BY <2>1 DEF combos, Has
    <2>5. QED
      BY <1>1, <2>1, <2>2, <2>3, <2>4, FiringStays DEF loader, combos
  <1>5. ASSUME NEW h \in Combos, Fires(h) PROVE FiringMakesSense'
    <2>1. /\ phase' = "running" /\ module[h] # Gone
          /\ firing' = [at |-> "entered", combo |-> h, callback |-> Nobody,
                        context |-> Nobody, raced |-> Halfway(h)]
          /\ UNCHANGED <<call, mContextData>>
      BY <1>5 DEF Fires, Quiet, loader, combos
    <2>2. Halfway(h) <=> Removing(h) \/ Updating(h)
      BY DEF Halfway, Removing, Updating
    <2>3. ~Halfway(h) => mContextData[h] # Gone /\ ~Updating(h)
      BY <1>1, <2>1, <2>2 DEF ListsMatch
    <2>4. QED
      BY <2>1, <2>3 DEF FiringMakesSense, Updating
  <1>6. CASE ReadsCallback \/ ReadsContext
    <2> DEFINE c == firing.combo
    <2>1. c \in Combos /\ phase = "running" /\ UNCHANGED <<loader, identifier, combos, call>>
      BY <1>1, <1>6 DEF ReadsCallback, ReadsContext, FiringMakesSense
    <2>2. ~firing.raced => /\ mContextData[c] \in Pair /\ mContextData[c] # Gone /\ ~Updating(c)
                           /\ mContextData[c].context = mContextData[c].callback
      BY <1>1, <1>2, <1>6, <2>1 DEF ReadsCallback, ReadsContext, FiringMakesSense, ContextsMatch, CombosTypes
    <2>3. CASE ReadsCallback
      <3>1. PICK x : /\ firing' = [firing EXCEPT !.at = "read", !.callback = x]
                     /\ mContextData[c] # Gone => x = mContextData[c].callback
        BY <2>3 DEF ReadsCallback
      <3>2. firing'.at = "read" /\ firing'.combo = c /\ firing'.callback = x /\ firing'.raced = firing.raced
        BY <1>2, <3>1 DEF FiringType
      <3>3. QED
        BY <2>1, <2>2, <3>1, <3>2 DEF FiringMakesSense, Updating, loader, combos
    <2>4. CASE ReadsContext
      <3>1. PICK x : /\ firing' = [firing EXCEPT !.at = "called", !.context = x]
                     /\ mContextData[c] # Gone => x = mContextData[c].context
        BY <2>4 DEF ReadsContext
      <3>2. /\ firing'.at = "called" /\ firing'.combo = c /\ firing'.callback = firing.callback
            /\ firing'.context = x /\ firing'.raced = firing.raced
        BY <1>2, <3>1 DEF FiringType
      <3>3. ASSUME ~firing.raced
            PROVE  /\ firing.callback # Nobody /\ x = firing.callback
                   /\ \/ life[firing.callback[1]] = "running"
                      \/ \E m \in left : c \in Has(m) /\ \A p \in Plugins : identifier[p] # m
        <4>1. firing.callback = mContextData[c].callback
          BY <1>1, <2>4, <3>3 DEF ReadsContext, FiringMakesSense
        <4>2. firing.callback \in Plugins \X Versions /\ x = firing.callback
          BY <2>2, <3>1, <3>3, <4>1 DEF Pair
        <4>3. PICK m \in Managers : c \in Has(m)
          BY <1>1, <2>1, <2>2, <3>3 DEF ListsMatch
        <4>4. CASE identifier[firing.callback[1]] = m
          <5>1. firing.callback[1] \in Plugins /\ m # Nobody
            BY <4>2
          <5>2. life[firing.callback[1]] = "running"
            BY <1>1, <4>4, <5>1 DEF ManagersApart
          <5>3. QED
            BY <4>2, <5>2
        <4>5. CASE m \in left /\ \A p \in Plugins : identifier[p] # m
          BY <4>2, <4>3, <4>5
        <4>6. QED
          BY <1>1, <4>1, <4>3, <4>4, <4>5 DEF Owned
      <3>4. \A m \in left : Has(m)' = Has(m)
        BY <2>1 DEF combos, Has
      <3>5. QED
        BY <2>1, <3>2, <3>3, <3>4 DEF FiringMakesSense, loader
    <2>5. QED
      BY <1>6, <2>3, <2>4
  <1>7. CASE CallbackReturns \/ ApplicationEnds \/ Reboot
    BY <1>7, NothingFires DEF CallbackReturns, ApplicationEnds, Reboot, Quiet
  <1>8. ASSUME phase # "running", firing' = firing PROVE FiringMakesSense'
    BY <1>1, <1>8, NothingFires DEF FiringMakesSense
  <1>9. CASE Rests
    BY <1>8, <1>9, RestsLeave DEF Rests, Deinit, RestorePatches, CleanupDone, LoadDone, CreateDone,
         StartApplication, Load, Goes, Still
  <1>10. ASSUME NEW p \in Plugins,
                RemoveButtonComboData(p) \/ DestroyStub(p) \/ CreateButtonComboData(p) \/ InitHooks(p)
         PROVE  FiringMakesSense'
    BY <1>8, <1>10 DEF RemoveButtonComboData, DestroyStub, CreateButtonComboData, InitHooks, Destroyed
  <1>11. firing.at \in {"entered", "read"} /\ ~firing.raced => firing.combo \in Combos
    BY <1>1 DEF FiringMakesSense
  <1>12. left \subseteq Managers
    BY <1>2 DEF LoaderTypes
  <1>13. ASSUME NEW t \in Threads, NEW g \in Combos, NEW mask \in Masks, UpdateButtonCombo(t, g, mask)
         PROVE  FiringMakesSense'
    <2>1. UNCHANGED <<phase, life, left, identifier, sButtonComboManager, mContextData, firing>>
      BY <1>13 DEF UpdateButtonCombo, loader
    <2>2. ~Updating(firing.combo)'
      BY <1>1, <1>2, <1>13, NothingAfterEnd DEF UpdateButtonCombo, Holding
    <2>3. \A m \in left : Has(m)' = Has(m)
      BY <2>1 DEF Has
    <2>4. QED
      BY <1>1, <2>1, <2>2, <2>3, FiringStays
  <1>14. ASSUME NEW t \in Threads, UpdateContext(t) PROVE FiringMakesSense'
    <2> DEFINE g == call[t].combo
    <2>1. UNCHANGED <<phase, life, left, identifier, sButtonComboManager>> /\ Races(g)
      BY <1>14 DEF UpdateContext, loader
    <2>2. ~Updating(firing.combo)'
      BY <1>1, <1>2, <1>14, NothingAfterEnd DEF UpdateContext, Holding
    <2>3. \A h \in Combos : h # g => mContextData'[h] = mContextData[h]
      BY <1>2, <1>14 DEF UpdateContext, CombosTypes
    <2>4. \A m \in left : Has(m)' = Has(m)
      BY <2>1 DEF Has
    <2>5. firing.at \in {"entered", "read"} /\ ~firing'.raced => firing.combo # g /\ firing.combo \in Combos
      BY <1>2, <1>11, <2>1, RacesSeen
    <2>6. QED
      BY <1>1, <1>2, <2>1, <2>2, <2>3, <2>4, <2>5, RacesSeen, FiringStays
  <1>15. ASSUME NEW t \in Threads, NEW g \in Combos, NEW v \in Versions, UpdateButtonComboCallback(t, g, v)
         PROVE  FiringMakesSense'
    <2>1. UNCHANGED <<phase, life, left, identifier, sButtonComboManager>> /\ Races(g)
      BY <1>15 DEF UpdateButtonComboCallback, loader
    <2>2. Updating(firing.combo)' => firing.combo = g
      <3>1. \A h \in {firing'.combo} : Updating(h)' <=> g = h
        BY <1>1, <1>2, <1>15, MiddleAfterMove DEF UpdateButtonComboCallback
      <3>2. QED
        BY <1>2, <2>1, <3>1, RacesSeen DEF Updating
    <2>3. \A h \in Combos : h # g => mContextData'[h] = mContextData[h]
      BY <1>2, <1>15 DEF UpdateButtonComboCallback, CombosTypes
    <2>4. \A m \in left : Has(m)' = Has(m)
      BY <2>1 DEF Has
    <2>5. firing.at \in {"entered", "read"} /\ ~firing'.raced => firing.combo # g /\ firing.combo \in Combos
      BY <1>2, <1>11, <2>1, RacesSeen
    <2>6. QED
      BY <1>1, <1>2, <2>1, <2>2, <2>3, <2>4, <2>5, RacesSeen, FiringStays
  <1>16. ASSUME NEW t \in Threads, NEW g \in Combos, RemoveButtonCombo(t, g) PROVE FiringMakesSense'
    <2>1. UNCHANGED <<phase, life, left, identifier>> /\ Races(g)
      BY <1>16 DEF RemoveButtonCombo, loader
    <2>2. ~Updating(firing.combo)'
      BY <1>1, <1>2, <1>16, MiddleAfterMove DEF RemoveButtonCombo
    <2>3. \A h \in Combos : h # g => mContextData'[h] = mContextData[h]
      BY <1>2, <1>16 DEF RemoveButtonCombo, CombosTypes
    <2>4. ASSUME NEW m \in left, \A p \in Plugins : identifier[p] # m PROVE Has(m)' = Has(m)
      <3>1. call[t].plugin \in Plugins
        BY <1>1, <1>16 DEF RemoveButtonCombo, CallsMakeSense
      <3>2. m # Manager(t) /\ m \in Managers
        BY <1>12, <2>4, <3>1 DEF Manager
      <3>3. QED
        BY <1>1, <1>16, <3>2, HasAfterRemove
    <2>5. firing.at \in {"entered", "read"} /\ ~firing'.raced => firing.combo # g /\ firing.combo \in Combos
      BY <1>2, <1>11, <2>1, RacesSeen
    <2>6. QED
      BY <1>1, <1>2, <2>1, <2>2, <2>3, <2>4, <2>5, RacesSeen, FiringStays
  <1>17. ASSUME NEW t \in Threads, NEW g \in Combos, NEW v \in Versions, NEW mask \in Masks,
                AddButtonCombo(t, g, v, mask)
         PROVE  FiringMakesSense'
    <2>1. UNCHANGED <<phase, life, left, identifier, firing>> /\ mContextData[g] = Gone
      BY <1>17 DEF AddButtonCombo, loader
    <2>2. ~Updating(firing.combo)'
      BY <1>1, <1>2, <1>17, NothingAfterEnd DEF AddButtonCombo, Holding
    <2>3. \A h \in Combos : h # g => mContextData'[h] = mContextData[h]
      BY <1>2, <1>17 DEF AddButtonCombo, CombosTypes
    <2>4. \A m \in left : Has(m) \subseteq Has(m)'
      BY <1>1, <1>12, <1>17, HasAfterAdd
    <2>5. firing.at \in {"entered", "read"} /\ ~firing.raced => firing.combo # g
      BY <1>1, <2>1 DEF FiringMakesSense
    <2>6. QED
      BY <1>1, <1>11, <2>1, <2>2, <2>3, <2>4, <2>5, FiringStays
  <1>18. ASSUME NEW t \in Threads, Unregister(t) PROVE FiringMakesSense'
    <2>1. UNCHANGED <<phase, life, left, identifier, sButtonComboManager, mContextData, firing>>
      BY <1>18 DEF Unregister, loader
    <2>2. ~Updating(firing.combo)'
      BY <1>1, <1>2, <1>18, NothingAfterEnd DEF Unregister, Holding
    <2>3. \A m \in left : Has(m)' = Has(m)
      BY <2>1 DEF Has
    <2>4. QED
      BY <1>1, <2>1, <2>2, <2>3, FiringStays
  <1>19. CASE Next
    BY <1>4, <1>5, <1>6, <1>7, <1>9, <1>10, <1>13, <1>14, <1>15, <1>16, <1>17, <1>18, <1>19, NextCases
       DEF Callback
  <1>20. QED
    BY <1>3, <1>19

-----------------------------------------------------------------------------
(* The theorems                                                            *)

LEMMA InitIInv == ASSUME Init PROVE IInv
  BY InitTypes, InitCalls, InitManagers, InitLists, InitFiring DEF IInv

LEMMA StepIInv == ASSUME IInv, [Next]_vars PROVE IInv'
  <1>1. Types' /\ CallsMakeSense' /\ ManagersApart' /\ ListsMatch'
    BY TypesStep, CallsStep, ManagersStep, ListsStep DEF IInv
  <1>2. Owned' /\ ContextsMatch' /\ FiringMakesSense'
    BY OwnedStep, ContextsStep, FiringStep DEF IInv
  <1>3. QED
    BY <1>1, <1>2 DEF IInv

LEMMA Invariance == Spec => []IInv
  <1>1. Init => IInv
    BY InitIInv
  <1>2. IInv /\ [Next]_vars => IInv'
    BY StepIInv
  <1>3. QED
    BY <1>1, <1>2, PTL DEF Spec

\* The variables keep their types: a call is one of a plugin, a combo has a
\* callback and a context, the module knows buttons and controllers only.
THEOREM ComboTypes == Spec => []TypeOK
  <1>1. IInv => TypeOK
    BY DEF IInv, Types
  <1>2. QED
    BY <1>1, Invariance, PTL

LEMMA ListsSuffice == ASSUME Types, ListsMatch PROVE ModuleKnowsCombos
  <1> DEFINE listed(h) == {m \in Managers : sButtonComboManager[m] # Gone /\ h \in sButtonComboManager[m]}
             removing == {call[t].combo : t \in {u \in Threads : call[u].at = "removing"}}
  <1>1. SUFFICES ASSUME NEW h \in Combos
                 PROVE  /\ module[h] # Gone <=> listed(h) # {} \/ h \in removing
                        /\ Cardinality(listed(h)) <= 1
                        /\ listed(h) # {} <=> mContextData[h] # Gone
                        /\ module[h] # Gone => module[h] = asked[h] \cap (Buttons \cup Controllers)
    BY DEF ModuleKnowsCombos
  <1>2. listed(h) = {m \in Managers : h \in Has(m)}
    BY DEF Has
  <1>3. h \in removing <=> Removing(h)
    BY DEF Removing
  <1>4. listed(h) # {} <=> mContextData[h] # Gone
    BY <1>2 DEF ListsMatch
  <1> HIDE DEF listed
  <1>5. Cardinality(listed(h)) <= 1
    <2>1. CASE listed(h) = {}
      <3>1. Cardinality({}) = 0
        BY FS_EmptySet
      <3>2. QED
        BY <2>1, <3>1
    <2>2. CASE listed(h) # {}
      <3>1. PICK m : m \in listed(h)
        BY <2>2
      <3>2. listed(h) = {m}
        BY <1>2, <3>1 DEF ListsMatch
      <3>3. Cardinality({m}) = 1
        BY FS_Singleton
      <3>4. QED
        BY <3>2, <3>3
    <2>3. QED
      BY <2>1, <2>2
  <1>6. QED
    BY <1>3, <1>4, <1>5 DEF ListsMatch, convert

\* Whatever plugins, threads and the loader do, the button combo module knows
\* the combos that are on the list of a manager and those a call is about to
\* remove, no others; each belongs to one manager, has its data, and is on the
\* buttons last asked for.
THEOREM ModuleInStep == Spec => []ModuleKnowsCombos
  <1>1. IInv => ModuleKnowsCombos
    BY ListsSuffice DEF IInv
  <1>2. QED
    BY <1>1, Invariance, PTL

\* A wrapper that nobody disturbed calls the code of a plugin that is loaded,
\* with the context of that callback, unless the combo is on a manager that was
\* left behind.
THEOREM CallbackSafe == Spec => []CallbackIsOwn
  <1>1. IInv => CallbackIsOwn
    <2>1. ASSUME IInv, NEW m \in left, firing.combo \in Has(m)
          PROVE  firing.combo \in sButtonComboManager[m]
      BY <2>1 DEF Has
    <2>2. QED
      BY <2>1 DEF IInv, FiringMakesSense, CallbackIsOwn
  <1>2. QED
    BY <1>1, Invariance, PTL

\* The property of one step.
OwnOnly(h, t) ==
    /\ mContextData[h] # Gone
    /\ <<module[h], mContextData[h]>>' # <<module[h], mContextData[h]>>
    /\ phase' = phase /\ call'[t] # call[t]
    => mContextData[h].callback[1] = call[t].plugin

LEMMA OwnOnlyStep ==
    ASSUME IInv, [Next]_vars, NEW h \in Combos, NEW t \in Threads
    PROVE  OwnOnly(h, t)
  <1>1. /\ Types /\ CallsMakeSense /\ ManagersApart /\ ListsMatch /\ Owned
        /\ LoaderTypes /\ CombosTypes /\ CallTypes
    BY TypesParts DEF IInv
  <1>2. ASSUME UNCHANGED <<module, mContextData>> \/ UNCHANGED call PROVE OwnOnly(h, t)
    BY <1>2 DEF OwnOnly
  <1>3. CASE UNCHANGED vars \/ Talks \/ Callback \/ Rests
    BY <1>2, <1>3, TalksLeave, CallbackLeaves, RestsLeave DEF vars, combos, Still
  <1>4. CASE ApplicationEnds
    BY <1>4 DEF ApplicationEnds, OwnOnly
  <1>5. CASE Reboot
    <2>1. ASSUME phase' = phase PROVE call' = call
      <3>1. NoCalls
        BY <1>1, <1>5, <2>1, QuietPhases DEF Reboot
      <3>2. \A u \in Threads : call[u] = Idle
        BY <1>1, <3>1 DEF NoCalls, CallsMakeSense
      <3>3. call = [u \in Threads |-> Idle]
        BY <1>1, <3>2 DEF CallTypes
      <3>4. QED
        BY <1>5, <3>3 DEF Reboot
    <2>2. QED
      BY <2>1 DEF OwnOnly
  <1>6. ASSUME NEW u \in Threads, Unregister(u) PROVE OwnOnly(h, t)
    <2> DEFINE g == call[u].combo
    <2>1. g \in Combos /\ \A m \in Managers : g \notin Has(m)
      BY <1>1, <1>6 DEF Unregister, CallsMakeSense
    <2>2. mContextData[g] = Gone
      BY <1>1, <2>1 DEF ListsMatch
    <2>3. h # g => module'[h] = module[h] /\ mContextData' = mContextData
      BY <1>1, <1>6 DEF Unregister, CombosTypes
    <2>4. QED
      BY <2>2, <2>3 DEF OwnOnly
  <1>7. ASSUME NEW u \in Threads, NEW g \in Has(Manager(u)), call[u].at # "out",
               h # g => module'[h] = module[h] /\ mContextData'[h] = mContextData[h],
               t # u => call'[t] = call[t]
        PROVE  OwnOnly(h, t)
    <2>1. mContextData[g].callback[1] = call[u].plugin
      BY <1>1, <1>7, FoundIsOwn
    <2>2. QED
      BY <1>7, <2>1 DEF OwnOnly
  <1>8. ASSUME NEW u \in Threads, UpdateContext(u) PROVE OwnOnly(h, t)
    <2>1. call[u].combo \in Has(Manager(u)) /\ call[u].at # "out"
      BY <1>1, <1>8 DEF UpdateContext, CallsMakeSense, Manager
    <2>2. h # call[u].combo => module'[h] = module[h] /\ mContextData'[h] = mContextData[h]
      BY <1>1, <1>8 DEF UpdateContext, CombosTypes
    <2>3. t # u => call'[t] = call[t]
      BY <1>1, <1>8 DEF UpdateContext, Ends, CallTypes
    <2>4. QED
      BY <1>7, <2>1, <2>2, <2>3
  <1>9. ASSUME NEW u \in Threads, NEW g \in Combos,
               \/ RemoveButtonCombo(u, g)
               \/ \E v \in Versions : UpdateButtonComboCallback(u, g, v)
               \/ \E mask \in Masks : UpdateButtonCombo(u, g, mask)
        PROVE  OwnOnly(h, t)
    <2>1. g \in Has(Manager(u)) /\ call[u].at # "out"
      BY <1>1, <1>9, FoundInManager DEF RemoveButtonCombo, UpdateButtonComboCallback, UpdateButtonCombo
    <2>2. h # g => module'[h] = module[h] /\ mContextData'[h] = mContextData[h]
      BY <1>1, <1>9 DEF RemoveButtonCombo, UpdateButtonComboCallback, UpdateButtonCombo, CombosTypes
    <2>3. t # u => call'[t] = call[t]
      BY <1>1, <1>9 DEF RemoveButtonCombo, UpdateButtonComboCallback, UpdateButtonCombo, Ends, CallTypes
    <2>4. QED
      BY <1>7, <2>1, <2>2, <2>3
  <1>10. ASSUME NEW u \in Threads, NEW g \in Combos, NEW v \in Versions, NEW mask \in Masks,
                AddButtonCombo(u, g, v, mask)
         PROVE  OwnOnly(h, t)
    <2>1. mContextData[g] = Gone
      BY <1>10 DEF AddButtonCombo
    <2>2. h # g => module'[h] = module[h] /\ mContextData'[h] = mContextData[h]
      BY <1>1, <1>10 DEF AddButtonCombo, CombosTypes
    <2>3. QED
      BY <2>1, <2>2 DEF OwnOnly
  <1>11. ASSUME NEW p \in Plugins,
                RemoveButtonComboData(p) \/ DestroyStub(p) \/ CreateButtonComboData(p) \/ InitHooks(p)
         PROVE  OwnOnly(h, t)
    BY <1>2, <1>11 DEF RemoveButtonComboData, DestroyStub, CreateButtonComboData, InitHooks, Destroyed
  <1>12. CASE Next
    BY <1>3, <1>4, <1>5, <1>6, <1>8, <1>9, <1>10, <1>11, <1>12, NextCases
  <1>13. QED
    BY <1>3, <1>12

\* No call changes the callback, the context or the buttons of a combo of
\* another plugin.
THEOREM OthersCombosKept == Spec => OwnCombosOnly
  <1>1. IInv /\ [Next]_vars =>
           [\A h \in Combos, t \in Threads :
               LET changes == <<module[h], mContextData[h]>>' # <<module[h], mContextData[h]>>
               IN  mContextData[h] # Gone /\ changes /\ phase' = phase /\ call'[t] # call[t] =>
                      mContextData[h].callback[1] = call[t].plugin]_vars
    BY OwnOnlyStep DEF OwnOnly
  <1>2. QED
    BY <1>1, Invariance, PTL DEF Spec, OwnCombosOnly
=============================================================================
