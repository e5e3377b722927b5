------------------------------ MODULE ButtonCombos ------------------------------
(***************************************************************************)
(* Button combos of plugins: source/utils/buttoncombo/ButtonComboUtils.cpp *)
(* and source/plugin/ButtonComboManager.cpp.  Each container has a manager  *)
(* with the combos its plugin added; each combo is registered with the      *)
(* button combo module, an external component that calls back on a thread   *)
(* that reads the pads.                                                     *)
(*                                                                         *)
(* A combo's handle and the data its callback reads are allocated and freed *)
(* together, and are one address here; as everything that does so holds     *)
(* sButtonComboMutex, an address is only used again once the combo it       *)
(* belonged to is gone from the module, too.                                *)
(***************************************************************************)
EXTENDS Naturals, FiniteSets

CONSTANTS
    Plugins,
    Old,        \* plugins built before WUPS 0.8.2: they have no manager
    Managers,   \* addresses managers can get
    Combos,     \* addresses combos can get
    Threads,
    Input,      \* the thread of Threads that reads the pads
    Nobody,     \* no manager, no combo, no thread, no plugin
    Versions,   \* a plugin's callbacks, each with a context of its own
    Masks       \* sets of buttons and controllers plugins ask for

\* What the conversions know; every other bit is dropped.
Buttons == {"A", "B", "X", "Y", "LEFT", "RIGHT", "UP", "DOWN", "ZL", "ZR", "L", "R", "PLUS", "MINUS",
            "STICK_R", "STICK_L", "TV", "RESERVED_BIT", "1", "2", "C", "Z"}
Controllers == {"VPAD_0", "VPAD_1", "WPAD_0", "WPAD_1", "WPAD_2", "WPAD_3", "WPAD_4", "WPAD_5", "WPAD_6"}

\* What the callback of a combo reads.
Pair == [callback: Plugins \X Versions, context: Plugins \X Versions]

ASSUME ComboAssumption ==
    /\ Input \in Threads
    /\ Nobody \notin Plugins \cup Managers \cup Combos \cup Threads
    /\ \A x \in (SUBSET Combos) \cup Pair \cup (Plugins \X Versions) : x # Nobody
    /\ \A mask \in Masks : mask \cap (Buttons \cup Controllers) # Nobody

VARIABLES
    phase,      \* where the application cycle is
    life,       \* per plugin: "absent", "loaded", "running"; "added", "stub": not linked
    todo,       \* the plugins a loop of the loader has to visit
    mButtonComboManagerHandle, \* per container
    identifier, \* per plugin: the manager it was handed by INIT_BUTTON_COMBO
    sButtonComboManager,       \* per manager: its combos
    mContextData, \* per combo: callback and context, while allocated
    asked,      \* per combo (history): the buttons and controllers asked for
    module,     \* (external) per combo: what is registered
    mutex,      \* sButtonComboMutex
    call,       \* per thread
    firing,     \* the callback wrapper on thread Input
    left        \* (history) managers no container will remove

loader == <<phase, life, todo, mButtonComboManagerHandle, left>>
combos == <<sButtonComboManager, mContextData, asked, module>>
vars == <<loader, identifier, combos, mutex, call, firing>>

Gone == Nobody     \* of managers, context data and registrations

Sets == SUBSET (Buttons \cup Controllers)

\* at: "out"; "waiting" for the mutex; "inside": the mutex is held; "removing",
\* "updating": half way through; "detecting": waiting for the user.
Idle == [at |-> "out", plugin |-> Nobody, combo |-> Nobody]

\* at: "no"; "entered"; "read": the callback was read, not yet the context;
\* "called".  raced: the combo was removed or changed under the wrapper.
Quiet == [at |-> "no", combo |-> Nobody, callback |-> Nobody, context |-> Nobody, raced |-> FALSE]

TypeOK ==
    /\ phase \in {"stopped", "deinit", "removing", "loading", "creating", "inithooks", "running"}
    /\ life \in [Plugins -> {"absent", "loaded", "running", "added", "stub"}]
    /\ todo \subseteq Plugins
    /\ mButtonComboManagerHandle \in [Plugins -> Managers \cup {Nobody}]
    /\ identifier \in [Plugins -> Managers \cup {Nobody}]
    /\ \A m \in Managers : sButtonComboManager[m] = Gone \/ sButtonComboManager[m] \subseteq Combos
    /\ mContextData \in [Combos -> Pair \cup {Gone}]
    /\ asked \in [Combos -> Sets \cup Masks]
    /\ \A h \in Combos : module[h] = Gone \/ module[h] \subseteq Buttons \cup Controllers
    /\ mutex \in Threads \cup {Nobody}
    /\ \A t \in Threads :
          /\ call[t].at \in {"out", "waiting", "inside", "removing", "updating", "detecting"}
          /\ call[t].combo \in Combos \cup {Nobody}
    /\ firing.at \in {"no", "entered", "read", "called"}
    /\ left \subseteq Managers

Init ==
    /\ phase = "loading"
    /\ life = [p \in Plugins |-> "absent"]
    /\ todo = {}
    /\ mButtonComboManagerHandle = [p \in Plugins |-> Nobody]
    /\ identifier = [p \in Plugins |-> Nobody]
    /\ sButtonComboManager = [m \in Managers |-> Gone]
    /\ mContextData = [h \in Combos |-> Gone]
    /\ asked = [h \in Combos |-> {}]
    /\ module = [h \in Combos |-> Gone]
    /\ mutex = Nobody
    /\ call = [t \in Threads |-> Idle]
    /\ firing = Quiet
    /\ left = {}

-----------------------------------------------------------------------------
(* The API of plugins                                                      *)

\* Code of a plugin runs in the application, in callbacks, and in hooks, which
\* run one after the other.
Runs(p, t) ==
    /\ life[p] = "running"
    /\ t = Input => phase # "running" \/ firing.at = "called"
    /\ \/ phase = "running"
       \/ /\ phase = "inithooks" \/ (phase = "deinit" /\ p \in todo)
          /\ \A u \in Threads : call[u].at = "out"

Waits(t, p) ==
    /\ call[t].at = "out"
    /\ Runs(p, t)
    /\ identifier[p] # Nobody
    /\ call' = [call EXCEPT ![t] = [at |-> "waiting", plugin |-> p, combo |-> Nobody]]
    /\ UNCHANGED <<loader, identifier, combos, mutex, firing>>

\* ExecuteForIdentifierLocked
Locks(t) ==
    /\ call[t].at = "waiting"
    /\ mutex = Nobody
    /\ mutex' = t
    /\ call' = [call EXCEPT ![t].at = "inside"]
    /\ UNCHANGED <<loader, identifier, combos, firing>>

Manager(t) == identifier[call[t].plugin]

\* Mutant: looks at the combos of all managers.
CombosInAny(t) == UNION {sButtonComboManager[m] : m \in {n \in Managers : sButtonComboManager[n] # Gone}}

\* The combos that calls of a plugin find.
CombosOf(t) ==
    IF sButtonComboManager[Manager(t)] = Gone THEN {} ELSE sButtonComboManager[Manager(t)]

Ends(t) == mutex' = Nobody /\ call' = [call EXCEPT ![t] = Idle]

\* Mutant: an early return that keeps the mutex.
ReturnsLocked(t) ==
    /\ call[t].at = "inside"
    /\ call' = [call EXCEPT ![t] = Idle]
    /\ UNCHANGED <<loader, identifier, combos, mutex, firing>>

\* The getters, CheckComboAvailable, and every call that fails: for a handle
\* that is not found, for wrong arguments, or because the module refuses.
Returns(t) ==
    /\ call[t].at = "inside"
    /\ Ends(t)
    /\ UNCHANGED <<loader, identifier, combos, firing>>

\* Mutant: the bits are taken as they are.
convertNothing(mask) == mask

convert(mask) == mask \cap (Buttons \cup Controllers)

PairOf(p, v) == [callback |-> <<p, v>>, context |-> <<p, v>>]

\* ButtonComboManager::AddButtonComboHandle, ButtonComboWrapper::Create
AddButtonCombo(t, h, v, mask) ==
    LET p == call[t].plugin
    IN  /\ call[t].at = "inside"
        /\ sButtonComboManager[Manager(t)] # Gone
        /\ mContextData[h] = Gone /\ module[h] = Gone
        /\ mContextData' = [mContextData EXCEPT ![h] = PairOf(p, v)]
        /\ asked' = [asked EXCEPT ![h] = mask]
        /\ module' = [module EXCEPT ![h] = convert(mask)]
        /\ sButtonComboManager' = [sButtonComboManager EXCEPT ![Manager(t)] = @ \cup {h}]
        /\ Ends(t)
        /\ UNCHANGED <<loader, identifier, firing>>

Races(h) ==
    firing' = IF firing.at \in {"entered", "read"} /\ firing.combo = h
              THEN [firing EXCEPT !.raced = TRUE] ELSE firing

\* Mutant: the wrapper is taken off the list only.
RemoveFromListOnly(t, h) ==
    /\ call[t].at = "inside"
    /\ h \in CombosOf(t)
    /\ sButtonComboManager' = [sButtonComboManager EXCEPT ![Manager(t)] = @ \ {h}]
    /\ Ends(t)
    /\ UNCHANGED <<loader, identifier, mContextData, asked, module, firing>>

\* ButtonComboManager::RemoveButtonCombo: the members of the wrapper go in the
\* order opposite to their declaration, so the module hears of it last.
RemoveButtonCombo(t, h) ==
    /\ call[t].at = "inside"
    /\ h \in CombosOf(t)
    /\ sButtonComboManager' = [sButtonComboManager EXCEPT ![Manager(t)] = @ \ {h}]
    /\ mContextData' = [mContextData EXCEPT ![h] = Gone]
    /\ call' = [call EXCEPT ![t].at = "removing", ![t].combo = h]
    /\ Races(h)
    /\ UNCHANGED <<loader, identifier, asked, module, mutex>>

Unregister(t) ==
    /\ call[t].at = "removing"
    /\ module' = [module EXCEPT ![call[t].combo] = Gone]
    /\ Ends(t)
    /\ UNCHANGED <<loader, identifier, sButtonComboManager, mContextData, asked, firing>>

\* UpdateButtonComboCallback: two assignments, which the thread of the callback
\* can see one by one.
UpdateButtonComboCallback(t, h, v) ==
    /\ call[t].at = "inside"
    /\ h \in CombosOf(t)
    /\ mContextData' = [mContextData EXCEPT ![h].callback = <<call[t].plugin, v>>]
    /\ call' = [call EXCEPT ![t].at = "updating", ![t].combo = h]
    /\ Races(h)
    /\ UNCHANGED <<loader, identifier, sButtonComboManager, asked, module, mutex>>

\* Mutant: only the callback is updated.
UpdateNoContext(t) ==
    /\ call[t].at = "updating"
    /\ Ends(t)
    /\ UNCHANGED <<loader, identifier, combos, firing>>

UpdateContext(t) ==
    /\ call[t].at = "updating"
    /\ LET h == call[t].combo
       IN  /\ mContextData' = [mContextData EXCEPT ![h].context = mContextData[h].callback]
           /\ Races(h)
    /\ Ends(t)
    /\ UNCHANGED <<loader, identifier, sButtonComboManager, asked, module>>

\* Combo masks, controller masks; the hold duration and the label go with them.
UpdateButtonCombo(t, h, mask) ==
    /\ call[t].at = "inside"
    /\ h \in CombosOf(t)
    /\ asked' = [asked EXCEPT ![h] = mask]
    /\ module' = [module EXCEPT ![h] = convert(mask)]
    /\ Ends(t)
    /\ UNCHANGED <<loader, identifier, sButtonComboManager, mContextData, firing>>

\* DetectButtonCombo_Blocking waits with the mutex held.
DetectButtonCombo(t) ==
    /\ call[t].at = "inside"
    /\ sButtonComboManager[Manager(t)] # Gone
    /\ call' = [call EXCEPT ![t].at = "detecting"]
    /\ UNCHANGED <<loader, identifier, combos, mutex, firing>>

\* The user presses the combo, or holds the one that aborts.
Detected(t) ==
    /\ call[t].at = "detecting"
    /\ Ends(t)
    /\ UNCHANGED <<loader, identifier, combos, firing>>

-----------------------------------------------------------------------------
(* The module calls back: ButtonComboCallbackWrapper                       *)

Halfway(h) == \E t \in Threads : call[t].at \in {"removing", "updating"} /\ call[t].combo = h

Fires(h) ==
    /\ phase = "running"
    /\ firing.at = "no" /\ module[h] # Gone
    /\ firing' = [Quiet EXCEPT !.at = "entered", !.combo = h, !.raced = Halfway(h)]
    /\ UNCHANGED <<loader, identifier, combos, mutex, call>>

\* What is read from freed memory can be anything; Nobody stands for it.
ReadsCallback ==
    /\ firing.at = "entered"
    /\ firing' = [firing EXCEPT !.at = "read",
                     !.callback = IF mContextData[firing.combo] = Gone THEN Nobody
                                  ELSE mContextData[firing.combo].callback]
    /\ UNCHANGED <<loader, identifier, combos, mutex, call>>

ReadsContext ==
    /\ firing.at = "read"
    /\ firing' = [firing EXCEPT !.at = "called",
                     !.context = IF mContextData[firing.combo] = Gone THEN Nobody
                                 ELSE mContextData[firing.combo].context]
    /\ UNCHANGED <<loader, identifier, combos, mutex, call>>

CallbackReturns ==
    /\ firing.at = "called" /\ call[Input].at = "out"
    /\ firing' = Quiet
    /\ UNCHANGED <<loader, identifier, combos, mutex, call>>

-----------------------------------------------------------------------------
(* The loader                                                              *)

NoCalls == \A t \in Threads : call[t].at = "out"
Goes(from, to) == phase = from /\ NoCalls /\ phase' = to
Still == UNCHANGED <<mButtonComboManagerHandle, identifier, combos, mutex, call, firing, left>>

Deinit(ps) ==
    /\ Goes("stopped", "deinit")
    /\ todo' = ps
    /\ UNCHANGED life /\ Still

RestorePatches == Goes("deinit", "removing") /\ UNCHANGED <<life, todo>> /\ Still

Destroyed(p) ==
    /\ todo' = todo \ {p}
    /\ life' = [life EXCEPT ![p] = "absent"]
    /\ mButtonComboManagerHandle' = [mButtonComboManagerHandle EXCEPT ![p] = Nobody]
    /\ identifier' = [identifier EXCEPT ![p] = Nobody]
    /\ UNCHANGED <<phase, mutex, call, firing>>

\* DeinitButtonComboData, RemoveButtonComboData: the manager goes with all its
\* combos.  The pads are not read meanwhile.
RemoveButtonComboData(p) ==
    LET m == mButtonComboManagerHandle[p]
        gone == IF m = Nobody THEN {} ELSE sButtonComboManager[m]
    IN  /\ phase = "removing" /\ p \in todo /\ life[p] = "running"
        /\ mutex = Nobody
        /\ sButtonComboManager' = [n \in Managers |-> IF n = m THEN Gone ELSE sButtonComboManager[n]]
        /\ mContextData' = [h \in Combos |-> IF h \in gone THEN Gone ELSE mContextData[h]]
        /\ module' = [h \in Combos |-> IF h \in gone THEN Gone ELSE module[h]]
        /\ Destroyed(p)
        /\ UNCHANGED <<asked, left>>

\* The manager of a container that is not linked stays.
DestroyStub(p) ==
    /\ phase = "removing" /\ p \in todo /\ life[p] = "stub"
    /\ left' = left \cup ({mButtonComboManagerHandle[p]} \ {Nobody})
    /\ Destroyed(p)
    /\ UNCHANGED combos

CleanupDone == Goes("removing", "loading") /\ todo = {} /\ UNCHANGED <<life, todo>> /\ Still

Load(p) ==
    /\ phase = "loading" /\ life[p] = "absent"
    /\ \E l \in {"loaded", "added"} : life' = [life EXCEPT ![p] = l]
    /\ UNCHANGED <<phase, todo>> /\ Still

LoadDone ==
    /\ Goes("loading", "creating")
    /\ todo' = {p \in Plugins : life[p] \notin {"absent", "stub"}}
    /\ UNCHANGED life /\ Still

\* InitButtonComboData, CreateButtonComboData: a plugin that is initialised
\* already gets a manager, too, and is not told.
CreateButtonComboData(p) ==
    LET m == mButtonComboManagerHandle[p]
    IN  /\ phase = "creating" /\ p \in todo
        /\ todo' = todo \ {p}
        /\ IF p \in Old THEN UNCHANGED <<mButtonComboManagerHandle, sButtonComboManager, left>>
           ELSE \E n \in Managers :
                  /\ mutex = Nobody
                  /\ sButtonComboManager[n] = Gone
                  /\ sButtonComboManager' = [sButtonComboManager EXCEPT ![n] = {}]
                  /\ mButtonComboManagerHandle' = [mButtonComboManagerHandle EXCEPT ![p] = n]
                  /\ left' = left \cup ({m} \ {Nobody})
        /\ UNCHANGED <<phase, life, identifier, mContextData, asked, module, mutex, call, firing>>

CreateDone == Goes("creating", "inithooks") /\ todo = {} /\ UNCHANGED <<life, todo>> /\ Still

\* WUPS_LOADER_HOOK_INIT_BUTTON_COMBO
InitHooks(p) ==
    /\ phase = "inithooks" /\ life[p] = "loaded" /\ NoCalls
    /\ life' = [life EXCEPT ![p] = "running"]
    /\ identifier' = [identifier EXCEPT ![p] = mButtonComboManagerHandle[p]]
    /\ UNCHANGED <<phase, todo, mButtonComboManagerHandle, combos, mutex, call, firing, left>>

StartApplication ==
    /\ Goes("inithooks", "running")
    /\ \A p \in Plugins : life[p] # "loaded"
    /\ life' = [p \in Plugins |-> IF life[p] = "added" THEN "stub" ELSE life[p]]
    /\ UNCHANGED todo /\ Still

\* The threads of the application end with it; what holds the mutex finishes
\* first.
ApplicationEnds ==
    /\ phase = "running" /\ mutex = Nobody
    /\ phase' = "stopped"
    /\ call' = [t \in Threads |-> Idle]
    /\ firing' = Quiet
    /\ UNCHANGED <<life, todo, mButtonComboManagerHandle, identifier, combos, mutex, left>>

Reboot ==
    /\ phase' = "loading" /\ life' = [p \in Plugins |-> "absent"] /\ todo' = {}
    /\ mButtonComboManagerHandle' = [p \in Plugins |-> Nobody]
    /\ identifier' = [p \in Plugins |-> Nobody]
    /\ sButtonComboManager' = [m \in Managers |-> Gone]
    /\ mContextData' = [h \in Combos |-> Gone]
    /\ asked' = [h \in Combos |-> {}]
    /\ module' = [h \in Combos |-> Gone]
    /\ mutex' = Nobody /\ call' = [t \in Threads |-> Idle] /\ firing' = Quiet
    /\ left' = {}

-----------------------------------------------------------------------------
Step(t) ==
    \/ Locks(t) \/ Returns(t) \/ Unregister(t) \/ UpdateContext(t)
    \/ \E h \in Combos :
          \/ RemoveButtonCombo(t, h)
          \/ \E v \in Versions : UpdateButtonComboCallback(t, h, v)
          \/ \E mask \in Masks :
                UpdateButtonCombo(t, h, mask) \/ \E v \in Versions : AddButtonCombo(t, h, v, mask)
    \/ DetectButtonCombo(t)

Api == \E t \in Threads : Step(t) \/ Detected(t) \/ \E p \in Plugins : Waits(t, p)

Callback == (\E h \in Combos : Fires(h)) \/ ReadsCallback \/ ReadsContext \/ CallbackReturns

Loader ==
    \/ \E ps \in SUBSET {p \in Plugins : life[p] # "absent"} : Deinit(ps)
    \/ RestorePatches \/ CleanupDone \/ LoadDone \/ CreateDone
    \/ StartApplication \/ ApplicationEnds \/ Reboot
    \/ \E p \in Plugins :
          \/ RemoveButtonComboData(p) \/ DestroyStub(p) \/ Load(p)
          \/ CreateButtonComboData(p) \/ InitHooks(p)

Next == Api \/ Callback \/ Loader

Spec == Init /\ [][Next]_vars

\* The mutex is handed on to whoever waits for it, and a thread that has it
\* goes on.  That a detection ends is up to the user.
FairSpec == Spec /\ \A t \in Threads : SF_vars(Locks(t)) /\ WF_vars(Step(t))

-----------------------------------------------------------------------------
(* Properties                                                              *)

\* The module knows the combos that are on the list of a manager, and those a
\* call is about to remove; each belongs to one manager and has its data, and is
\* on the buttons its plugin last asked for, but for bits the loader does not know.
ModuleKnowsCombos ==
    LET listed(h) == {m \in Managers : sButtonComboManager[m] # Gone /\ h \in sButtonComboManager[m]}
        removing == {call[t].combo : t \in {u \in Threads : call[u].at = "removing"}}
    IN  \A h \in Combos :
            /\ module[h] # Gone <=> listed(h) # {} \/ h \in removing
            /\ Cardinality(listed(h)) <= 1
            /\ listed(h) # {} <=> mContextData[h] # Gone
            /\ module[h] # Gone => module[h] = asked[h] \cap (Buttons \cup Controllers)

\* A combo that fires runs the code of a plugin that is loaded, with the context
\* that belongs to the callback, unless another thread was removing or updating
\* that very combo, or the combo is on a manager that was left behind: that of
\* a plugin which outlived an application.
CallbackIsOwn ==
    firing.at = "called" /\ ~firing.raced =>
        /\ firing.callback # Nobody
        /\ firing.context = firing.callback
        /\ \/ life[firing.callback[1]] = "running"
           \/ \E m \in left : firing.combo \in sButtonComboManager[m]

\* No call of a plugin changes a combo of another one.
OwnCombosOnly ==
    [][\A h \in Combos, t \in Threads :
         LET changes == <<module[h], mContextData[h]>>' # <<module[h], mContextData[h]>>
         IN  mContextData[h] # Gone /\ changes /\ phase' = phase /\ call'[t] # call[t] =>
                mContextData[h].callback[1] = call[t].plugin]_vars

\* As long as users end every detection, every call of the combo functions
\* comes to its end, whatever the other threads do: no call waits for ever, and
\* the loader finds the mutex free.
CallsReturn ==
    (\A t \in Threads : []<>(call[t].at # "detecting")) =>
        \A t \in Threads : (call[t].at # "out") ~> (call[t].at = "out")
=============================================================================
