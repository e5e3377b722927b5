# A TLA+ model of the Wii U plugin loader backend

The repository is a module of the Aroma environment: it loads WUPS plugins (ELF
images) into the console's memory, links them, patches functions of the system
and of the running application with theirs, calls their hooks, keeps or replaces
them whenever an application ends and the next one starts, and gives them
storage, button combos, a config menu and per-thread C library contexts.  This
directory holds TLA+ modules of it, TLC configurations that check them on small
systems, and proofs checked by TLAPS.

## 1. Inventory

| Component | Source | State | Operations | Interacts with |
|---|---|---|---|---|
| Plugin lifecycle | `main.cpp`, `PluginManagement.cpp`, `hooks.cpp`, `plugin/Plugin*.cpp`, `plugin/FunctionData.cpp` | `gLoadedPlugins`, `gLoadOnNextLaunch`, `gLoadedData`, `gUsedRPLs`, `gTrampData`; per container: data, link information, heap tracking, `mInitDone`, storage root, combo manager | `WUMS_INITIALIZE`, `APPLICATION_STARTS`, `APPLICATION_REQUESTS_EXIT`, `APPLICATION_ENDS`, `CleanupPlugins`, `loadPlugins` | calls plugin hooks, the FunctionPatcher module and every component below |
| Backend settings | `utils/WUPSBackendSettings.cpp` | the inactive and the broken file names, a dirty flag, `wupsbackend.json` on the card | load, save, add, remove, set | lifecycle, config menu |
| Exported loader API | `utils/exports.cpp` | none of its own | load an image as data, link data on the next launch, queries | appends to `gLoadedData` and `gLoadOnNextLaunch`, from any plugin at any time |
| Config menu | `utils/config/*`, `patcher/hooks_patcher_static.cpp` | which screen is open, cursor, the entries and what was toggled | open, navigate, toggle, apply, close | replaces `gLoadOnNextLaunch`, saves settings, calls item callbacks |
| Config handles | `config/WUPSConfigAPI.cpp` | configs, categories, items behind handles | create, add, destroy | used by plugins, read by the menu |
| Storage | `utils/storage/*`, deprecated variant | a tree per plugin, its JSON file, the list of open roots | open, get, store, delete, save, reload, wipe, close | opened and closed by the lifecycle |
| Button combos | `plugin/ButtonComboManager.cpp`, `utils/buttoncombo/*` | managers, combos with status and conflicts, hold state | add, remove, update, detect (blocking), input from pads | input hooks on several threads, lifecycle |
| Reent contexts | `utils/reent.cpp`, `SomeExitHook` | per thread a list of nodes and the saved clean-up callback; two global lists of nodes | get, register, thread clean-up, mark on exit, clear on start, removal for a plugin | plugins on every thread, lifecycle |
| Heap tracking | `plugin/*HeapMemoryAllocator.cpp` | 64 slots, each a map from addresses to sizes and stack traces | alloc, realloc, free, create, move, destroy | linked containers |
| Linking and relocation | `plugin/PluginLinkInformationFactory.cpp`, `utils/ElfUtils.cpp`, `PluginManagement.cpp` | trampolines, the list of acquired RPLs | load sections, relocate, resolve imports | loadPlugins, APPLICATION_STARTS |
| Meta parser, utilities, file system, shell commands, drawing, logging, vendored libraries | the rest | mostly none | | |

Behaviours that are hard to test:

- *Reload sequences.*  Requests of plugins, menu changes and wiiloaded images of
  the same name meet in one list; what a reload keeps, unloads and creates is
  decided by data identity, linking and tracking of each container.
- *Order of unloading.*  Hooks, removal of patches, closing of storage and
  destruction must follow each other, for the plugins that go and no other.
- *Failure in the middle.*  Files that cannot be read, images that do not link,
  settings that cannot be written or are written half, OSFatal.
- *Reboots.*  Only the settings file survives; it is what keeps a plugin that
  crashed the console from being linked again.
- *Callbacks.*  Hooks run with the recursive mutex held and call the API that
  changes the lists being processed.
- *Threads.*  Reent contexts, combos and the heap tracker are used from every
  thread; some of their locks are not taken.
- *Capacity.*  Tracking slots, trampolines, the buffer of 128 pending restores.

Every hazard is listed with its line in `PROJECT.json`, with the properties that
cover it or the reason why none does.

What makes the components correct, and where it is stated:

| Component | Promise | Properties |
|---|---|---|
| Plugin lifecycle | hooks run in order and in pairs, while the functions are patched; a container goes only after its clean-up; a reload does what was requested; nobody is forgotten; a running plugin has what a start promises | `KeepsContract`, `ReloadFollowsRequest`, `RunningMeansReady` |
| Settings | a change is on the card before the settings are read again; a plugin with the reent bug is linked only after a warning; safe mode disables | `SavedBeforeRead`, `WarnedBeforeLinked`, `SafeModeDisables` |
| Reent contexts | a node is freed once, nothing points to it afterwards, none is forgotten; a callback the thread had is called in the end; nothing of an unloaded plugin is left | `PointersLive`, `NothingLeaks`, `CleanedOnce`, `OwnCallbackCalled`, `UnloadedLeavesNothing` |
| Storage | a plugin works on a map that is read once and written as it is; one root item per plugin; items survive the change of the interface | `KeepsStorageContract`, `OneRoot`, `UpgradeKeepsItems` |
| Button combos | the module knows what the managers know; a callback is the plugin's own; nobody changes another plugin's combos; no call waits for ever | `ModuleKnowsCombos`, `CallbackIsOwn`, `OwnCombosOnly`, `CallsReturn` |
| Heap tracking | a slot has one owner; what is reported as leaked was allocated and not freed | `OneOwner`, `MapIsLive` |
| Config handles | every object has one owner; the menu owns what it shows; no cycle of waiting threads | `OwnedOnce`, `MenuTakesOver`, `OnlyGetNameBlocks` |
| Config screens | cursors are visible; what opens is what was pointed at; items hear of things in pairs; abort undoes, apply hands over | `CursorVisible`, `OpenShowsSelected`, `ItemsHearOnce`, `AppliedOrUndone` |
| Menu and threads | the menu gives back what it took, draws on no TV buffer of an application before, closes when asked, opens when asked | `GivenBack`, `ReleaseCloses`, `RequestServed` |
| Linking | every import leads to its symbol in every application, looked up with a handle of that application; inner branches stay; the pool is not used up by earlier applications | `ImportsReached`, `HandlesFresh`, `FixedStay`, `PoolSuffices` |

## 2. Modules

| Module | Kind | Models |
|---|---|---|
| `BackendSettings` | operators | `WUPSBackendSettings.cpp`: settings in memory, the file, every function on them |
| `PluginLifecycle` | state machine | `main.cpp`, `PluginManagement.cpp`, `hooks.cpp`, the containers, the state-changing calls of `exports.cpp`, "Apply" of the menu, safe mode, reboots |
| `PluginContract` | abstract specification | what a plugin sees of the loader: its hooks, in order and in pairs, while its functions are patched |
| `ReentContexts` | state machine | `reent.cpp`, its calls from `main.cpp` and the exit hook, threads and their clean-up callbacks |
| `PluginStorage` | state machine | `utils/storage/*`, the old interface of `StorageUtilsDeprecated.cpp`, files, and who opens and closes when |
| `StorageContract` | abstract specification | what a plugin relies on: a map of its own, read once, written as it is |
| `ButtonCombos` | state machine | `ButtonComboUtils.cpp`, `ButtonComboManager.cpp`, the callback wrapper on the thread that reads the pads |
| `HeapTracking` | state machine | `*HeapMemoryAllocator.cpp` and the moves of containers in `main.cpp`, the thunks on threads |
| `ConfigHandles` | state machine | `WUPSConfigAPI.cpp`, its old variant, and how `displayMenu` takes configs over |
| `ConfigScreens` | state machine | the renderers and states of `utils/config`, and the result `displayMenu` gets |
| `MenuThreads` | state machine | `hooks_patcher_static.cpp`, `RenderScreen`, the loop of `displayMenu`, among threads |
| `Relocations` | state machine | `linkSection`, `elfLinkOne`, `doRelocations`, the trampolines and RPL handles over application cycles |
| `PluginLifecycle_proofs`, `ReentContexts_proofs`, `PluginStorage_proofs`, `ButtonCombos_proofs`, `HeapTracking_proofs`, `ConfigHandles_proofs`, `ConfigMenu_proofs`, `Relocations_proofs` | proofs | see section 4 |
| `MC...` | models | the instances TLC runs: systems of plugins, trees, menus; symmetry |

How they compose.  `PluginLifecycle` is the frame: it decides which containers
live through which phases.  The modules of the parts each contain the application
cycle as far as their part can tell it apart (phases, and a life per plugin), with
the same order of phases, and add what the frame abstracts.  `BackendSettings` is
extended by `PluginLifecycle`; the contracts are instances under refinement
mappings in `PluginLifecycle` and `PluginStorage`.  `ConfigScreens` relies on
`MenuTakesOver` of `ConfigHandles` (what is shown does not change) and is one
state of `MenuThreads` (`loop`); what it applies is `MenuSelectActive` and
`MenuSelectTracked` of `PluginLifecycle`.

### BackendSettings

`settings` is `[inactive, broken, dirty]`, the file `[valid, inactive, broken]`.
A function of the class is an operator from settings to settings; those that
read or write the card return the set of possible outcomes.  `LoadSettings`
leaves the memory as it is when the file cannot be read.  `SaveSettings` does nothing when the flag is down; a write is refused (flag up,
file unchanged) or torn (flag up, file empty or garbled).  Nobody looks at the result,
and the next `LoadSettings` that can read the file clears the flag: what was not
written by then is lost, which is why `SavedBeforeRead` is about the moment of reading and
not about the flag.  A garbled file that is not empty *parses*: `ParseJsonFromFile` returns success with a discarded
document, and both lists come out empty (`GarbledFile`).

### PluginLifecycle

A plugin system is given by its images: `Files` in the plugin directory and
`Buffers` sent over the network, each with a name and the attributes the code
asks about.  `Data` is a `PluginData` object: an image at an address (handle), so
that two loads of the same file differ as they do for the `==` of the shared
pointers.  `cont` gives every `PluginContainer` object its place (which of the
lists holds it), its data and flags.  History fields and variables (`life`,
`started`, `opened`, `warned`, `enabled`, `safe`, `plan`) are read by properties
only; no guard depends on them.

`APPLICATION_STARTS` is one function of 200 lines under one recursive mutex.  It
is split where a plugin hook can call back and at the loops:

    boot -> stopped -> loaddir ----------------------> relocate -> storage -> inithooks -> starthooks -> running
                  |       `-(request exists)-> match                                                       |
                  |                              |                                                        |
                  `-> match -> deinit -> restore -> destroy -> load -> relocate               stopped <----'

| Action | Code |
|---|---|
| `Initialize`, `InitializeSafeMode` | `WUMS_INITIALIZE` |
| `StartFromDirectory`, `StartWithReload`, `StartUnchanged` | the branches at the head of `WUMS_APPLICATION_STARTS`; `Filtered` is the comparison by name and author |
| `Match`, `MatchDone` | the search in `gLoadedPlugins` by `pluginNeedsNoReloadFn`, and the swap of the lists |
| `DeinitPlugins`, `RestoreFunctionPatches`, `DestroyDoomed` | `CleanupPlugins` and the destructors |
| `LoadUnparsable`, `LoadInactive`, `LoadRefused`, `LoadActive`, `LoadDone` | one turn of the loop of `PluginManagement::loadPlugins` each, and its end with `DoFunctionPatches` and `SaveSettings` |
| `Relocate`, `OpenStorage`, `InitHooks`, `StartHooks` | the rest of `APPLICATION_STARTS` |
| `Fatal` | `OSFatal` of patching or relocating |
| `ApplicationEnds`, `Reboot` | `WUMS_APPLICATION_ENDS`; power off or crash at any moment |
| `WUPS...` | the calls of `exports.cpp`, while an application runs or from a hook (`ApiUsable`) |
| `MenuSelectActive`, `MenuSelectTracked` | "Apply" in either list of `ConfigUtils::displayMenu` |

`PluginContract` is the abstract specification: per plugin a stage (none, loaded,
idle, active, over) and whether its functions are patched.  It knows no lists, no
settings and no phases.  `Contract` in `PluginLifecycle` is its instance: `Stage`
reads the stage of a container off `linked`, `life` and `started`, and
`KeepsContract` says that every step of the loader is a step of the contract, for
all containers at once.  So APPLICATION_STARTS and APPLICATION_ENDS alternate
between INIT_PLUGIN and DEINIT_PLUGIN, and the patches are in place from before the
first to after the last of these calls.

Abstractions, and why they lose nothing the properties see:

- Lists are sets.  Order decides in which order hooks run inside one phase; no
  state of the loader depends on it.  Entries carry a tag, so that equal
  requests stay two entries as in the vector.  Where the code takes the first
  of several matches the model takes any.
- Hooks other than INIT_PLUGIN, DEINIT_PLUGIN and the start of the application
  have no state in the loader.
- Removing a function patch succeeds for a handle the FunctionPatcher module
  gave out, so the early return of `RestoreFunctionPatches` is never taken.
- `root` is whether the container knows a storage root (`mStorageRootItem`), `opened` how many
  that were opened for it are open.  `Storing` are the images built for WUPS 0.8.0 or later
  with a storage id; for the others nothing is opened.  With the fault `nostorage` opening
  fails for any of the containers, which is logged, and the start goes on without.
- The build is the release build: tracking is off unless the menu or the meta
  data asks for it.
- API calls of threads that outlive their application, and the calls that only
  copy data out, are not modelled.
- Relocation, RPL handles and tracking slots appear as success or failure only;
  `Relocations` and `HeapTracking` are about them.

### ReentContexts

The C library context of a plugin on a thread is a node.  `list[t]` is what the
thread's specific value leads to, in order; `callback[t]` is the clean-up
callback the system will call when the thread ends; `node` is the heap.  The
pointers `next` are the order of `list`: the only writers are the thread itself
and the removal, and `Racing` is where both meet.

A thread is anywhere in the walk of `wups_backend_get_context`, node by node
(`LookBegin`, `LookNext`, `LookEnd`; `look[t]` is the plugin and the node it reads next), in
`wups_backend_register_context`, when the walk found nothing (`RegisterBegin`,
`RegisterCallback`, `RegisterLink`, `RegisterPublish`), or in
`__wups_thread_cleanup` (`CleanupCall`, `CleanupFree`, `CleanupEnd`) while others,
and the loader, go on.  The loader marks the nodes of an application that exits
(`Exit`), frees them when the next one starts (`ClearDangling`, `ClearDone`), and
in `CleanupPlugins` runs the hooks of plugins that go (`HooksBegin`, `HooksEnd`,
which gives the thread its former callback back), and then per plugin removes
the nodes under the scheduler lock (`Scan`), restores callbacks
(`RestoreCallback`) and frees (`FreeDeferred`).  A plugin registers a context only where its
walk came to the end of the list, so a thread has at most one node of a plugin.

What the code relies on, and the model takes as given: the exit hook is the last
thing an application runs, its threads are gone after it, and application code
runs only after `APPLICATION_STARTS`.  Threads of the system and the loader's own
run, and register, at any time.

Three windows in which the code does not keep its promises are part of the model,
each visible as a reachable state and named in the hazards:

- *The scan meets a thread inside `reent.cpp`* (`ScanRaces`): freed memory would be
  read, so the model stops in the phase `undefined`.  `Racing` lists the places: a thread
  that looks for a context of the plugin that goes, or for another's and is at one of its
  nodes; one that registers, or frees, a node the scan unlinks or reads.  A thread in the
  walk for another plugin's context, at a node that stays, is not racing: the walk goes on
  on what is left of the list, and `PointersLive` is about it.  Every property is about
  what happens before.
- *A thread ends between scan and restore*: its owner's callback is lost.  The
  thread joins `cut`, and `OwnCallbackCalled` is about all others.
- *The application exits while one of its threads is inside `reent.cpp`*: a node
  that was not yet published is lost, one that was cleaned up but not yet
  unpublished is cleaned up again.  These nodes join `cut`; `NothingLeaks` and
  `CleanedOnce` are about all others.

### PluginStorage

A tree is a set of paths that are sub items and a function from paths to values;
`Above[q]` are the sub items a path lies in, so handles of sub items are paths.
Values are classes, as far as the code converts between them: a string that is
base64 is another class than one that is not, a binary item without bytes another
than one with.  `SerializeToJson` and `DeserializeFromJson` are what the
conversions do to the classes; the empty tree the old interface writes as `null`
counts as empty.  Each call takes `gStorageMutex` from begin to end, so it is
one step.  Files can be missing, empty, garbled; a read can fail, a write be refused or
torn.

The loader opens a root item per container in each application
(`OpenStorage`), hands it over once (`InitHooks`), and closes the one the
container has last (`CloseStorage`).  A plugin that outlives an application works on the
root item it was handed first; `outlived` and `lost` name these plugins and root
items, and the contract promises nothing for them (run `storage_kept`).

`StorageContract` is the abstract specification: a map in memory, what is on the
card, and whether the last write was reported as a success.  `KeepsStorageContract`
maps a tree to the map calls can see (`AsMap`) and a file to the map it would be
read as.  As every map is at some time saved and read, it includes that the
conversion to JSON and back loses nothing.

### ButtonCombos

A combo is an address; its data, its registration with the button combo module
(external) and its place in a manager's list are separate, because the code
changes them one by one.  Calls hold `sButtonComboMutex` over several steps
(`Locks`, the call, `Unregister` or `UpdateContext`, `Returns`);
`DetectButtonCombo` holds it until the user ends it.  `Callback` runs on
`Input` without that mutex: it reads callback and context one after the other.
The button masks are sets, and `convert` drops every bit the code does not know.
Type, hold duration and label of a combo travel with the mask and have no state of
their own.  A thread that holds the mutex finishes before its application ends.

`CallbackIsOwn` leaves out a combo that another thread was removing or updating
while it fired, and combos on the manager of a plugin that outlived an
application: there the code has no order.

### HeapTracking

Vectors of containers are sequences, because the defect this guards against is in
the moves: `Match` erases from the middle, `append` moves, `newLoadedPlugins` is
assigned twice, and a container's destructor releases the slot its optional names.
`MovedFrom` is the move constructor (the index becomes -1), `Release` the
destructor, `Create` the search for a free slot.  A thunk gets its memory before
the mutex of its slot (`Alloc`, `Record`) and frees it while it holds it
(`FreeEntry`, `FreeMemory`), so another thread can be handed the address between.
Peak values, counts and stack traces are left out.  A thread that ends with its
application between the two steps leaves its address in `cut`.

### ConfigHandles

Each config, category and item has a place: free, in the list of its kind, in a
category, or shown by the menu.  Plugins pass any address, also of objects that
are gone.  A call takes the mutexes of the lists in `Order`, one per step.
The callbacks of an object that is deleted run under these mutexes; they are code
of plugins and not modelled.  The getters and setters of names and callbacks, and
`InitEx`, change no owner.  A category that is added to itself owns itself and is
never removed: the code allows it, and `OwnedOnce` names it as the one exception.
`Owner` is the step from an object to what holds it, and `Reaches` who holds it in the
end: every set that is closed under `Owner` and has the one has the other.  A recursive
definition would say the same, and could not be proved about.

### ConfigScreens

The list of plugins is in one of three states (normal, choosing active plugins,
choosing tracked ones); `chain` holds the category renderers that exist, `level`
the one that is shown.  A frame is a set of buttons that are new, or held and
repeated: the repeater changes when a button counts as pressed, and any pair may
be pressed in any frame.  `Frame` is the whole of `ConfigRenderer::Update`, in the
code's order of conditions.  `Taken` is the `copy_if` of `SetListState`, plugin by plugin.
Not modelled: which input an item gets, what is drawn
and when.  Closing because the system wants the foreground ends the menu without
the close callbacks of items, and `onSelected(false)` comes after the plugin's
closed callback.

### MenuThreads

The thread that swaps the scan buffers runs the menu inside of that call; other
threads read pads, and `OSSendMessage` runs on a thread of the system.  Each is
split at every access to a shared flag.  `menu` is the place of the rendering
thread: `idle -> opened -> buffers -> font -> loading -> loop <-> frame`, then from `loop` (the
system asks) or `frame` (the user leaves) `saving -> restore -> closing -> reset`, with exits from the preparation straight to
`restore` and `closing`.  The cooldown is read and stored in two steps.  An
application ends outside of the menu only: an application that is killed inside
of it is not modelled.  `gStoredDRCBuffer` is not reset when an application starts
(`main.cpp:178` resets the other one), so the model reaches a menu that draws on the DRC
buffer of an application before; `GivenBack` says nothing of that buffer.  A message to
close that comes in the frame in which the user leaves, or after it, stays for the next menu of that
application; the code does nothing about it and no property either.

### Relocations

A relocation is a type (branch, short branch, word) and a symbol; `code` says
where it leads, directly or through a trampoline.  `LinkFixed` is `linkSection`
when a plugin is loaded, `LinkThunk`, `LinkUsed` and `AcquireAndLink` are the
cases of `doRelocations` for an import.  RPLs lie elsewhere in each application
(`LoadRpl`), can lie too far for a branch, and go when nobody uses them
(`ReleaseRpl`).  Slots of import trampolines are freed at the beginning of each
relocation, slots of inner branches never.  `missing` and `unreachable` stand for
`OSFatal`.  Addresses are numbers on a line with plugins, thunks and RPLs near or
far; addends and offsets inside of a plugin are left out, and with them a far branch to a
symbol with an addend, for which `elfLinkOne` is only right if there are none.

## 3. Runs

| Run | System | States | Shows |
|---|---|---|---|
| `lifecycle` | a file and a network image of one name, both with the reent bug; linking may fail; three containers, three data objects | 462,809 | the loader implements `PluginContract` over reloads, menu changes, safe mode and reboots; what is loaded is what was requested; no image is linked unannounced |
| `lifecycle_faults` | two files, one unparsable, one base plugin that asks for tracking and has a storage; every failure of reading, linking, opening storage, patching and relocating | 96,245 | a change of the settings is on the card before it is read again; what runs has been through all of a start, whatever failed on the way |
| `reent` | the loader's thread and another, two plugins, three nodes, room for one pending restore | 1,280,100 | no pointer to a freed node, no node forgotten or cleaned up twice, no callback of a thread lost, nothing of an unloaded plugin left, in every interleaving |
| `storage` | a plugin, two root items, a path and one inside of it, three classes of values, both interfaces, failing, refused and torn file access | 481,749 | the storage is the map the contract says; one root item per plugin; upgrades keep items |
| `combos` | two plugins, two managers, one combo, a thread and the one that reads pads | 60,260 | list, module and data agree, callbacks are the plugin's own, every call returns |
| `heap` | two plugins, four containers, two slots, two threads, two addresses of two sizes | 96,148 | one owner per slot through every move; the map of a slot is exact |
| `handles` | two configs, two categories, one item, the menu and another thread | 92,855 | one owner per object, what is shown does not change, only the old call for a name can block |
| `screens` | four plugins, three levels of categories, four items, two rows on the screen, every frame of at most two buttons | 495,228 | cursor, selection, abort and apply |
| `menu` | a rendering thread and one more, a cooldown of 2, a title whose reading threads sleep while the menu is open | 41,220 | what is taken is given back, no TV buffer of an application before is drawn on; the menu closes and opens when asked |
| `relocations` | two plugins, two RPLs near or far, a pool of two | 24,022 | imports lead to their symbols, handles are of the running application, the pool is not used up by earlier applications |
| `reenabled` (violation) | a file with the bug and a network image of one name | about 5,500 | a plugin with the bug is linked though nobody enabled it again, against `PluginManagement.cpp:56` |
| `storage_kept` (violation) | one plugin, one path | 367 | the loader writes a storage without changes over what the plugin saved, against `StorageUtils.cpp:224` |

**Bounds.**  `lifecycle`: three slots and three handles: a reload with two plugins needs one
container to keep, one to unload and one to create at a time.  `MaxRequests` and
`MaxEntries` limit the length of a request list: three entries are two requests for
one name and one for another.  `opened` saturates at `MaxOpened` = 2, enough to
tell "none", "one" and "more".  `lifecycle` writes the card without
failures; `lifecycle_faults` lets everything fail but a write, because `SavedBeforeRead` is about a
card that can be written.  What a refused write leads to is in section 5.  A run in which the slots or handles are used up
disables the step that needs one; with the bounds above a started loader step
always finds one (in no state of the two runs is a start at a step it cannot take).

`reent`: the interesting lists have two nodes (the first goes and the second
inherits, or stays), which needs two plugins; the third node belongs to another
thread or to the next application.  One thread besides the loader's is enough to
meet it in every place.  `MaxRestores` is 1 instead of 128 so that the limit is met.

`storage`: one path inside of another is the shortest tree in which a key is an
item, a sub item, or hidden by the change of its parent; plugins do not share
storage ids, so one plugin is enough for a file and `OneRoot`.  Two handles are
needed for a plugin that outlives an application.  The fault "open" (a file that exists but
cannot be opened) is not in the run: section 5 reports it, and
the contract does not hold with it.  `combos`: one combo address suffices, as a
second plugin's combo may get the address of the first's; two managers for the two
plugins, or for one before and after a cycle.  `heap`: four container objects are
two kept and two new ones; two slots with two tracked plugins fill the pool, and a
third request finds it full.  `handles`: the smallest set with a category in a
category in a config.  `screens`: four plugins on two rows need scrolling, paging
and wrapping; p1 has the nesting, p2 items that refuse to be left, p3 and p4
nothing.  `menu`: a cooldown of 2 tells "zero", "last" and "more".
`relocations`: two trampolines for three far branches make the pool the limit.

Deadlock is checked except in `handles` (two threads may really wait for each
other, and `OnlyGetNameBlocks` says which), `screens` (the menu ends) and
`relocations` (`OSFatal`).

**Fairness.**

- `combos`: `SF_vars(Locks(t))`, the mutex is handed on to whoever waits for it,
  and `WF_vars(Step(t))`, a thread that holds it goes on.  That a user ends a
  detection is the premise of `CallsReturn`, not part of the fairness.
- `menu`: `SF_vars(Progress)`, the application goes on swapping buffers, and the
  loop comes back to its begin every 33 ms, so that it cannot miss the flag for
  ever; `WF_vars` for a thread inside of a read.  The user owes nothing: he may
  leave a menu open for ever if nobody asks it to close.

**Mutants.**  For each property of a passing run `PROJECT.json` names a change of a
modelled definition, as a slip in the code would be, under which TLC finds the
property violated.  These operators stand before the definition they change and
are marked "Mutant".

## 4. Proofs

`PluginLifecycle_proofs` proves for all images, attributes, faults, numbers of
slots, handles and requests, from `ConstantsAssumption` and `IoFaultsAssumption`:

| Theorem | Statement |
|---|---|
| `TypeCorrect` | `Spec => []TypeOK` |
| `PatchesSafe` | `Spec => []PatchesPointIntoPlugins` |
| `HooksSafe` | `Spec => []HooksInOrder` |
| `DestructionSafe` | `Spec => CleanDestruction` (an action property) |
| `WarningsSafe` | `Spec => []WarnedBeforeLinked` |
| `SettingsSafe` | `Spec => []SavedBeforeRead` |
| `ImplementsContract` | `Spec => KeepsContract`: the loader implements `PluginContract` |
| `RunningSafe` | `Spec => []RunningMeansReady` |
| `SafeModeSafe` | `Spec => []SafeModeDisables`, assuming `IoFaults \subseteq {"unread"}` |
| `ReloadDoesAsAsked` | `Spec => []ReloadFollowsRequest` |

These inductive invariants carry them.

- `TypeInv` adds to `TypeOK` that every slot in use has data: without it the
  lookup `cont[s].data.img` is not typed.
- `LifeInv` says, per place and phase, what `life`, `initDone` and `patches` of a
  container can be: which lists can be non-empty in which phase, that a doomed
  container is unpatched and deinitialised exactly from the stages of
  `CleanupPlugins` on, that a fresh one has run nothing.  `HooksInOrder` alone
  is not inductive: that INIT_PLUGIN does not run twice needs to know that
  `mInitDone` agrees with `life` for every container in `gLoadedPlugins`, through
  all the moves between lists.
- `WarnInv` adds to `WarnedBeforeLinked` that the two verdicts the code keeps,
  the list of broken files (in memory and on the card) and `mIsReentBugAllowed`
  of data, hold warned images only.  It survives reboots because the file is
  part of it, and torn writes because a garbled file reads as empty.
- `SavedBeforeRead` follows from two invariants: settings that are not dirty are those of
  the file (`CleanMeansSaved`, whatever fails), and on a card that can be written they are
  dirty inside of `loadPlugins` only (`DirtyWhileLoading`).
- `ContractInv` adds to `LifeInv` what the refinement mapping reads: that plugins are
  started only while an application runs, and patched from before their first hook to
  after their last (`StartedWhileRunning`, `PatchedWhileAlive`).  The initial states of the loader map to
  those of the contract, and every action to a step of it or a stutter.
- `RunInv` follows a container through one start: what the stages have done to the
  containers on either list (`ListsAreDone`, `NewFollowPhase`, `StorageIsOpen`,
  `AllAreStarted`).  `RunningMeansReady` is its last stretch.
- `SafeInv` needs what a reboot leaves (`BootIsBlank`), that the settings hold every
  file as inactive from then on (`SafeSettings`), and so do the containers
  (`SafeLists`).  The assumption excludes refused and torn writes; with them the
  property is false (section 5).
- `ReloadInv` relates the lists to `plan`, what the request that is carried out asks
  for: what is still to load, what was kept, what is to be unlinked
  (`PlanIsUsed`, `EntriesAsked`, `KeptAsAsked`, `HeldAsAsked`, `UnlinkedPending`).
  A request names data and not containers, and two containers can have one image:
  the invariant is about the holders of a data object, which the matching loop
  goes through one by one.

Each is proved with one lemma per action group and combined by `PTL`.

`ReentContexts_proofs` proves, for all threads, plugins, nodes and every
interleaving, from `ReentAssumption`:

| Theorem | Statement |
|---|---|
| `ReentTypeCorrect` | `Spec => []TypeOK` |
| `LeaksNothing` | `Spec => []NothingLeaks` |

The invariant `LeakInv` adds to both that a thread carries a node exactly while it
registers one (else the node it carries could not stand for one that is not yet
published), that there is a node left whenever one is freed, and that the loop
over the plugins is idle outside its phase.

The same module goes on from there:

| Theorem | Statement |
|---|---|
| `PointersSafe` | `Spec => []PointersLive` |
| `UnloadCleansUp` | `Spec => []UnloadedLeavesNothing` |
| `CleansOnce` | `Spec => []CleanedOnce` |
| `CallbackKept` | `Spec => []OwnCallbackCalled` |

`PointersLive` is far from inductive: that a freed node is in no other list needs
to know who may free what.  `OwnInv` gives every node one holder.  `Held(t)` are
the nodes thread `t` still follows: its list, the node it registers, what its
clean-up has still to visit.  They are live, in no other thread's `Held`, and
neither in the copy of an exited application nor on the deferred list
(`OneHolder`); a thread that walks its list is at a node of it and has met none of its plugin
before (`LookInv`), so that what it registers at the end is the thread's only one; a thread
has one node per plugin, so the one `RemoveAt` of a scan
takes all of them, and never visits a node twice (`ListedOnce`); the copy and the
deferred list are in use in one phase each (`GlobalsApart`).  The scan is the
interesting step: that no thread holds a deferred node afterwards needs all three,
and that no thread is in the middle of `reent.cpp` (`Racing`), which the code does
not ensure; a scan that meets one ends in phase `undefined`.

`UnloadInv` adds to `OwnInv` what makes the scan complete.  A node of a plugin that is
going to be unloaded is on the global list only while a thread holds it
(`GlobalsHeld`), because a thread that has such a node has the loader's callback
(`Installed`, `FirstPublished`, `LoaderStays`) and cannot end without cleaning up: nobody
but the loader's restores replaces it, and they replace that of threads without such
nodes (`PendingHoldNothing`).  A thread that was looking for its context when the hooks ended
may still register one, of a plugin the loop has yet to come to and while no restore of its
callback is pending (`LateInv`).  So the loop leaves nothing behind of the plugins it
has visited (`Visited`) but what an exiting application cut in two, which is in
no list any more (`Uncut`).  `CleanInv` adds that `cleanupFn` was called for those nodes
only that a thread is about to free (`CleanedBeforeFreed`).  `CallbackInv` adds that
only the first node of a thread has saved a callback (`FirstSaved`) and which one the
end of the thread comes to, whichever nodes go in between (`Answered`).

`ButtonCombos_proofs` proves, for all plugins, threads and numbers of combos, from
`ComboAssumption`:

| Theorem | Statement |
|---|---|
| `ComboTypes` | `Spec => []TypeOK` |
| `ModuleInStep` | `Spec => []ModuleKnowsCombos` |
| `CallbackSafe` | `Spec => []CallbackIsOwn` |
| `OthersCombosKept` | `Spec => OwnCombosOnly` (an action property) |

The invariant says what a call holds and works on at each of its places
(`CallsMakeSense`), what the callback wrapper has read while nothing happened to its
combo (`FiringMakesSense`), that a manager belongs to one container or was left
behind, and its combos to the plugin that calls with its handle (`ManagersApart`,
`Owned`), and that the module, the managers' lists and the contexts agree combo by combo but
for the one a call is in the middle of (`ListsMatch`, `ContextsMatch`).

`HeapTracking_proofs` proves, for all plugins, slots, addresses, sizes and threads,
from `TrackingAssumption` (there are finitely many plugins):

| Theorem | Statement |
|---|---|
| `TrackingTypes` | `Spec => []TypeOK` |
| `SlotsHaveOneOwner` | `Spec => []OneOwner` |
| `MapsAreLive` | `Spec => []MapsLive`: the map of a running plugin holds what it allocated and did not free |
| `ReportsAreExact` | `Spec => []MapIsLive`: and `currentAllocated` is the sum of its sizes |

`HeapInv` adds to `OneOwner` which vectors are in use in which phase (`Phased`), that
a container is at one place and no two have one identity (`Apart`, `Keyed`), that those
that went through the linker call the thunks of their own slot (`Linked`), and what a
thread inside a thunk works on (`Called`).  `LiveInv` adds what such a thread
still owes to the map (`InThunk`): between the allocation and the entry, and between the
end of the entry and the end of the memory, the address is that thread's alone.  A
container that was not linked has an empty map (`Fresh`), and what has an owner is
allocated, by a container that is still there (`Owned`).  What vectors keep under
`RemoveAt` and `Append` are lemmas of the module.  `SumInv` says of every container,
registered or not, that its map is finite and its counter the sum (`Summed`).  What the sum
of a map becomes when an entry is added or removed is proved by induction over the size of
its domain, by way of a least counterexample (`PartialSums`, `TotalGrows`).

`ConfigHandles_proofs` proves, for all objects and threads, from `HandleAssumption`:

| Theorem | Statement |
|---|---|
| `HandlesInvariant` | the inductive invariant holds |
| `HandleTypes` | `Spec => []TypeOK` |
| `ObjectsOwned` | `Spec => []OwnedOnce` |
| `OnlyGetNameBlocksAnyone` | `Spec => []OnlyGetNameBlocks` |
| `MenuKeeps` | `Spec => MenuTakesOver` (an action property) |

Places never form a longer cycle than a category in itself, so that every object reaches
one root (`OwnedOnce`); the mutexes keep the parent that `AddItem` found where it was until
the item is in it (`MutexesApart`, `ParentsStay`).  `OnlyGetNameBlocks` is an
argument about cycles: without `GetName`, whoever holds the mutex of the categories
waits for that of the items, which nobody keeps.

`ConfigMenu_proofs` holds the proofs of both parts of the menu.  Of `MenuThreads` it
proves, for any number of reading threads and any cooldown, from `MenuAssumption`:

| Theorem | Statement |
|---|---|
| `MenuTypes` | `MenuSpec => []MenuTypeOK`; the cooldown does not run below zero though threads count it down without a lock |
| `EverythingGivenBack` | `MenuSpec => []GivenBack` |
| `NoForeignBuffer` | `MenuSpec => []DrawsOnOwnTV` |

The invariant, `MenuInv`, adds what the menu has at each place of its way (`Stretches`:
flags, screen, font, home button) and that a stored TV buffer was set by the application that runs (`OwnTV`).
`GivenBack` says it of two places only, which no step preserves by itself.

Of `ConfigScreens` it proves, for any plugins, categories, items and rows on the
screen, from `ScreenAssumption`:

| Theorem | Statement |
|---|---|
| `ScreensInvariant` | the inductive invariant holds |
| `ScreenTypes` | `Spec => []TypeOK` |
| `CursorsShown` | `Spec => []CursorVisible` |
| `OpenIsSelected` | `Spec => []OpenShowsSelected` |
| `ItemsHearPairs` | `Spec => []ItemsHearOnce` |
| `TogglesApplyOrUndo` | `Spec => []AppliedOrUndone` |

`ScreenInv` adds that each renderer of the chain shows the sub category that the one
before has open, and the last has none open (`Chained`); that what the list has open is
what the *default* list of the flags the menu opened with has there, so that other lists
may be shown in between (`Path`); and that a list differs from how the menu was opened in
its own field and among what it shows only, and in nothing once it is left (`Listed`).
`ItemsHearOnce` counts renderers; a count is 0 or 1 because no two renderers of
a chain show one category.  That follows from the assumption that no category is inside of
itself, stated without recursion (every set of categories has one with none of its
own sub categories in the set), and that an item is in one category; `OwnedOnce`, a theorem
too, is where both come from: what is added to a category moves there.  The filter is a
recursive function; that it lists loaded plugins is proved by a least counterexample.

`Relocations_proofs` proves, for all plugins, relocations, RPLs, places, distances
and pool sizes, from `RelocationAssumption`:

| Theorem | Statement |
|---|---|
| `RelocationTypes` | `Spec => []TypeOK` |
| `HandlesOfThisApplication` | `Spec => []HandlesFresh` |
| `InsideStaysLinked` | `Spec => []FixedStay` |
| `ImportsReachSymbols` | `Spec => []ImportsReached` |
| `PoolIsEnough` | `Spec => []PoolSuffices` |

The invariant says of every relocation that was done where it ends, of every
trampoline it goes through that its status is that of the relocation's kind and that
no other relocation goes through it, and of the loop how far it is
(`Working`).  The first free slot is a `CHOOSE` of a least element, whose existence
is a lemma from well-founded induction over the naturals.  `PoolInv` adds that every
trampoline in use is that of a branch that needs one (`FixedHeld`), and while imports are
linked, of one of this application (`ImportsHeld`): were all slots taken when a far branch
comes, they would be covered by the other far branches, of which there are fewer
(`Covered`).

`PluginStorage_proofs` proves, for all plugins, paths,
handles, kinds of values and faults, from `StorageAssumption`, `ClosedIsNoItem` and
`FilesDiffer` (a closed handle is no root item, a missing or garbled file is no JSON):

| Theorem | Statement |
|---|---|
| `StorageTypes` | `Spec => []TypeOK` |
| `OneRootEach` | `Spec => []OneRoot` |
| `UpgradesKeepItems` | `Spec => []UpgradeKeepsItems` |
| `ImplementsStorageContract` | `Spec => KeepsStorageContract`, assuming `"open" \notin IoFaults` |

`OneRoot` alone is not inductive: that opening a root item does not strand an open one
needs what a container can have at each stage of its life (`Stages`), and the contract needs that
the plugin has the root item of its container until it outlives an application and that
the one it has stays open and its own (`Holdings`).  `FileKeepsMap` is the step from trees to
files: what calls can tell of a tree is what is read back from its JSON; for the
old interface it is `OldItemsSurvive`, which needs that its trees hold only its kinds
(`OldItems`).  The assumption is the divergence of section 5: with it dropped, a file that
exists and cannot be opened is replaced by an empty tree, and the contract does not hold.

`PatchesPointIntoPlugins`, `HooksInOrder`, `CleanDestruction` and `DrawsOnOwnTV` are
proved and have no run of their own: the first three follow from `KeepsContract`, and
the last is a part of `GivenBack`, both of which are model-checked.

Every safety property of a passing run is a theorem.  Only model-checked: liveness, which is
out of reach of the prover (`CallsReturn`, `ReleaseCloses`,
`RequestServed`).

## 5. Divergences

Met while modelling; the first two have runs.

- `reenabled`: the inactive flag of a file is lost when its disabled copy was
  replaced by a network image of the same name and the menu is applied
  (`ConfigUtils.cpp:246`); `PluginManagement.cpp:56` speaks of plugins "explicitly
  re-enabled by the user".
- `storage_kept`: a plugin that outlives an application gets a second root item it
  never sees; that one is written when the plugin is unloaded, over what the plugin
  saved (`main.cpp:349`, `StorageUtils.cpp:224`).
- A storage file that exists and cannot be opened counts as missing
  (`StorageUtils.cpp:387`, `utils.cpp:126`): the plugin starts with an empty storage
  and a later save replaces the file.
- In safe mode, when the settings file cannot be written, third party plugins are
  linked though the message says they were disabled (`main.cpp:100`, 136): the next
  `LoadSettings` overwrites what safe mode set and clears the dirty flag
  (`PluginManagement.cpp:111`, `WUPSBackendSettings.cpp:52`).  The same loses any other change
  a refused write left in memory.  With `IoFaults = {"refused"}`, two files and one of them a
  base plugin, TLC finds `SafeModeDisables` violated after 18 steps.
- A binary item of length 0 is accepted and not saved (`StorageUtils.cpp:360`, 132).
- Two requests before one start can load the data of one inactive plugin twice
  (`main.cpp:265-275`), while `exports.cpp:62` keeps an inactive plugin once.
- A container that was patched is destroyed when `newLoadedPlugins` is assigned
  twice (`main.cpp:208`, 316); `FunctionData.cpp:24` logs it as what "should never
  happen".
- "Wait at least 2 seconds" (`ConfigUtils.cpp:252`) is `OSSleepTicks` of
  `OSTicksToMilliseconds`, which converts the wrong way.
- The prediction of trampolines is always 0
  (`PluginLinkInformationFactory.cpp:55`), so the pool has its minimal size of 20.

## 6. Not modelled

- *Vendored code* (`json.hpp`, `schrift.c`, `elfio`): most of the repository's
  lines, third-party, sequential.  It appears through what its callers see: a file
  parses or not, an image has sections or not.
- *Drawing, input devices, notifications, logging, shell commands*: output and device
  access; they keep no state that another part depends on.
- *Meta information parser*: string handling; its verdict is a constant.
- *The queries of `exports.cpp`* and the walks over `gLoadedPlugins` without its
  mutex: what a walk over a vector that moves reads is undefined.
- *Getters and setters of the config API*, and the input items get.
- *Reading, placing and padding of sections*, tables of hooks and functions, the
  allocator of `OSDynLoad`.
- *Threads that outlive their application* and call the API afterwards;
  applications that are killed inside of the menu.

## 7. What could follow

1. `StorageContract` as the specification of the old interface, too: what it saves when
   it closes is proved to come back (`UpgradesKeepItems`), failing files are not in it.
