---------------------------- MODULE PluginLifecycle ----------------------------
(***************************************************************************)
(* How the loader backend loads, keeps, replaces and unloads plugins over  *)
(* application cycles and reboots.  WUMS_APPLICATION_STARTS (main.cpp) is   *)
(* split at its loops and at the plugin hooks it calls, because a hook may *)
(* call back into the exported API while gLoadedDataMutex, a recursive     *)
(* mutex, is held by the same thread.                                      *)
(*                                                                         *)
(* Lists are sets: the order of gLoadedPlugins decides the order of hook   *)
(* calls inside one phase and nothing else.  Requests carry a tag, so that *)
(* the same request made twice stays two list entries.                     *)
(***************************************************************************)
EXTENDS BackendSettings, Functions

CONSTANTS Buffers,     \* plugin images sent to the console (wiiload)
          Name,        \* Name[i]: the author/name pair in the meta data of image i
          Buggy,       \* images built with the reent bug
          Unparsable,  \* images whose meta data does not parse
          MetaTracked, \* images that ask for heap tracking themselves
          Storing,     \* images built for WUPS 0.8.0 or later, with a storage id
          BaseFiles,   \* the base Aroma plugins, which safe mode keeps
          LoadFaults,  \* the failures of loading a run allows
          Slots,       \* identities of PluginContainer objects
          Handles,     \* addresses of PluginData objects
          NoData,      \* what a slot holds when it is not in use
          MaxRequests, \* bound: requests that build one gLoadOnNextLaunch
          MaxEntries,  \* bound: length of gLoadOnNextLaunch
          MaxOpened    \* bound: storage roots counted per container

Images == Files \cup Buffers
Data   == [img: Images, h: Handles]

\* "unreadable": a plugin file cannot be read; "nolink": linking fails (out of
\* memory, unresolved section); "nostorage": the storage of a plugin cannot be
\* opened; "fatal": a patch or a relocation fails.
AllLoadFaults == {"unreadable", "nolink", "nostorage", "fatal"}

ASSUME ConstantsAssumption ==
    /\ LoadFaults \subseteq AllLoadFaults
    /\ Buggy \subseteq Images
    /\ Unparsable \subseteq Images
    /\ MetaTracked \subseteq Images
    /\ Storing \subseteq Images
    /\ BaseFiles \subseteq Files
    /\ NoData \notin Data
    /\ MaxRequests \in Nat \ {0}
    /\ MaxEntries \in Nat
    /\ MaxOpened \in Nat \ {0}

\* Where a container is: "fresh" in the list loadPlugins builds, "new" in
\* newLoadedPlugins, "loaded" in gLoadedPlugins, "kept" in pluginsToKeep,
\* "doomed" in gPluginsToBeDeInitialized, "free" nowhere.
Places == {"free", "fresh", "new", "loaded", "kept", "doomed"}

\* linked: mPluginLinkInformation.hasValidData(), otherwise a stub.
\* life: the calls of the hooks INIT_PLUGIN and DEINIT_PLUGIN so far.
\* started: APPLICATION_STARTS ran, APPLICATION_ENDS did not yet.
\* root: mStorageRootItem # nullptr.  opened: storage roots opened for it and
\* not closed (what they hold is in PluginStorage).
Container ==
    [at: Places, data: Data \cup {NoData}, linked: BOOLEAN, track: BOOLEAN,
     initDone: BOOLEAN, life: {"none", "inited", "deinited", "misused"},
     started: BOOLEAN, root: BOOLEAN, opened: 0..MaxOpened]

FreeSlot ==
    [at |-> "free", data |-> NoData, linked |-> FALSE, track |-> FALSE,
     initDone |-> FALSE, life |-> "none", started |-> FALSE, root |-> FALSE, opened |-> 0]

\* A PluginLoadWrapper; call and item only tell list entries apart.
Entry == [data: Data, link: BOOLEAN, track: BOOLEAN,
          call: 0..MaxRequests, item: Slots \cup Handles]

Phases == {"boot", "stopped", "loaddir", "load", "match", "deinit", "restore", "destroy",
           "relocate", "storage", "inithooks", "starthooks", "running", "halted"}

VARIABLES
    phase,     \* where the loader is in an application cycle
    cont,      \* the containers
    patches,   \* the FunctionPatcher module: slots whose functions are patched
    queue,     \* the entries the current loop has still to visit
    toLoad,    \* toBeLoaded
    next,      \* gLoadOnNextLaunch
    requests,  \* how many requests built gLoadOnNextLaunch
    data,      \* gLoadedData
    allowed,   \* data objects whose mIsReentBugAllowed is set
    settings,  \* the settings in memory
    file,      \* the settings on the SD card
    warned,    \* (history) images the user was warned about
    enabled,   \* (history) buggy files somebody asked to link since they went off
    safe,      \* (history) this boot is a safe mode boot, nothing enabled since
    plan       \* (history) what gLoadOnNextLaunch held when it was used

requestVars == <<next, requests, data>>
settingVars == <<settings, file>>
history     == <<warned, enabled, safe, plan>>
vars == <<phase, cont, patches, queue, toLoad, requestVars, allowed,
          settingVars, history>>

-----------------------------------------------------------------------------
(* State functions                                                         *)

At(place) == {s \in Slots : cont[s].at = place}
Loaded    == At("loaded")
LinkedAt(place) == {s \in At(place) : cont[s].linked}

\* getPluginFilename: only data read from the plugin directory has a name.
OnSD(d) == d.img \in Files

LiveData ==
    {cont[s].data : s \in Slots \ At("free")} \cup data
        \cup {e.data : e \in next \cup queue \cup toLoad}

FreshHandles == Handles \ {d.h : d \in LiveData}

\* The wrappers that survive the comparison by name and author.  One that is
\* not to be linked goes when its meta data is missing, or when other plugin
\* data with the same name and author is to be linked.
Filtered(entries) ==
    {e \in entries :
        \/ e.link
        \/ /\ e.data.img \notin Unparsable
           /\ ~ \E o \in entries :
                  /\ o.data # e.data
                  /\ o.link
                  /\ o.data.img \notin Unparsable
                  /\ Name[o.data.img] = Name[e.data.img]}

-----------------------------------------------------------------------------
TypeOK ==
    /\ phase \in Phases
    /\ cont \in [Slots -> Container]
    /\ patches \subseteq Slots
    /\ queue \subseteq Entry
    /\ toLoad \subseteq Entry
    /\ next \subseteq Entry
    /\ requests \in 0..MaxRequests
    /\ data \subseteq Data
    /\ allowed \subseteq Data
    /\ settings \in Settings
    /\ file \in SettingsFile
    /\ warned \subseteq Images
    /\ enabled \subseteq Files \cap Buggy
    /\ safe \in BOOLEAN
    /\ plan \subseteq Entry

\* What a reset of the console leaves in RAM.
Blank ==
    /\ phase = "boot"
    /\ cont = [s \in Slots |-> FreeSlot]
    /\ patches = {}
    /\ queue = {} /\ toLoad = {} /\ next = {} /\ requests = 0
    /\ data = {} /\ allowed = {}
    /\ settings = NoSettings
    /\ safe = FALSE
    /\ plan = {}

Init ==
    /\ Blank
    /\ file = NoFile
    /\ warned = {}
    /\ enabled = {}

-----------------------------------------------------------------------------
(* WUMS_INITIALIZE: with the safe mode combo held, every plugin file that  *)
(* is not a base plugin joins the inactive ones.                           *)
Initialize ==
    /\ phase = "boot"
    /\ phase' = "stopped"
    /\ UNCHANGED <<cont, patches, queue, toLoad, requestVars, allowed,
                   settingVars, history>>

\* Mutant: the extended list is not saved.
SafeModeUnsaved ==
    /\ phase = "boot"
    /\ phase' = "stopped"
    /\ \E mem \in LoadSettings(settings, file) :
          settings' = SetInactivePluginFilenames(mem, mem.inactive \cup (Files \ BaseFiles))
    /\ safe' = TRUE
    /\ UNCHANGED <<cont, patches, queue, toLoad, requestVars, allowed, file,
                   warned, enabled, plan>>

InitializeSafeMode ==
    /\ phase = "boot"
    /\ phase' = "stopped"
    /\ \E mem \in LoadSettings(settings, file) :
       \E r \in SaveSettings(SetInactivePluginFilenames(
                    mem, mem.inactive \cup (Files \ BaseFiles)), file) :
          /\ settings' = r.mem
          /\ file' = r.file
    /\ safe' = TRUE
    /\ UNCHANGED <<cont, patches, queue, toLoad, requestVars, allowed,
                   warned, enabled, plan>>

-----------------------------------------------------------------------------
(* WUMS_APPLICATION_STARTS, first part                                     *)

\* Nothing is loaded: loadDir reads the plugin directory (a file that cannot
\* be read is skipped); settings are read here and again by loadPlugins.
StartFromDirectory ==
    /\ phase = "stopped"
    /\ Loaded = {}
    /\ phase' = "loaddir"
    /\ \E mem \in LoadSettings(settings, file) :
       /\ settings' \in LoadSettings(mem, file)
       /\ \E readable \in (IF "unreadable" \in LoadFaults THEN SUBSET Files ELSE {Files}) :
          \E h \in Injection(readable, FreshHandles) :
             LET d == [f \in readable |-> [img |-> f, h |-> h[f]]]
             IN  /\ queue' = {[data |-> d[f], link |-> f \notin mem.inactive,
                               track |-> FALSE, call |-> 0, item |-> h[f]]
                                 : f \in readable}
                 /\ allowed' = allowed \ {d[f] : f \in readable}
    /\ UNCHANGED <<cont, patches, toLoad, requestVars, file, history>>

\* The reload branch: taken when somebody left a list of plugins to load.
BeginReload ==
    /\ phase' = "match"
    /\ queue' = Filtered(next)
    /\ plan' = next

StartWithReload ==
    /\ phase = "stopped"
    /\ Loaded # {}
    /\ next # {}
    /\ BeginReload
    /\ UNCHANGED <<cont, patches, toLoad, requestVars, allowed, settingVars,
                   warned, enabled, safe>>

StartUnchanged ==
    /\ phase = "stopped"
    /\ Loaded # {}
    /\ next = {}
    /\ phase' = "relocate"
    /\ UNCHANGED <<cont, patches, queue, toLoad, requestVars, allowed,
                   settingVars, history>>

\* Mutant: whether the plugin is linked, or tracked, is not compared.
SameDataNoReload(c, e) == c.data = e.data

\* pluginNeedsNoReloadFn
NeedsNoReload(c, e) ==
    /\ c.data = e.data
    /\ c.linked = e.link
    /\ e.link => c.track = e.track

\* One wrapper: a container that is what it asks for moves to pluginsToKeep,
\* otherwise the wrapper is to be loaded.
Match(e) ==
    LET same == {s \in Loaded : NeedsNoReload(cont[s], e)}
    IN  /\ phase = "match"
        /\ queue' = queue \ {e}
        /\ \/ /\ \E s \in same : cont' = [cont EXCEPT ![s].at = "kept"]
              /\ UNCHANGED toLoad
           \/ /\ same = {}
              /\ toLoad' = toLoad \cup {e}
              /\ UNCHANGED cont
        /\ UNCHANGED <<phase, patches, requestVars, allowed, settingVars, history>>

\* What is left in gLoadedPlugins is doomed, pluginsToKeep takes its place.
MatchDone ==
    /\ phase = "match"
    /\ queue = {}
    /\ phase' = "deinit"
    /\ cont' = [s \in Slots |->
                  CASE cont[s].at = "loaded" -> [cont[s] EXCEPT !.at = "doomed"]
                    [] cont[s].at = "kept"   -> [cont[s] EXCEPT !.at = "loaded"]
                    [] OTHER                 -> cont[s]]
    /\ UNCHANGED <<patches, queue, toLoad, requestVars, allowed, settingVars, history>>

-----------------------------------------------------------------------------
(* CleanupPlugins, in its three stages                                     *)

AfterDeinit(life) == IF life = "inited" THEN "deinited" ELSE "misused"

DeinitHooksFor(gone) ==
    [s \in Slots |-> IF s \in gone
                     THEN [cont[s] EXCEPT !.life = AfterDeinit(@)]
                     ELSE cont[s]]

\* Mutant: the hooks go to the plugins that stay.
DeinitPluginsThatStay ==
    /\ phase = "deinit"
    /\ phase' = "restore"
    /\ cont' = DeinitHooksFor(LinkedAt("loaded"))
    /\ UNCHANGED <<patches, queue, toLoad, requestVars, allowed, settingVars, history>>

\* The hooks: DEINIT_PLUGIN and FINI_WRAPPER among them.
DeinitPlugins ==
    /\ phase = "deinit"
    /\ phase' = "restore"
    /\ cont' = DeinitHooksFor(LinkedAt("doomed"))
    /\ UNCHANGED <<patches, queue, toLoad, requestVars, allowed, settingVars, history>>

\* CloseStorage: only the root the container knows, which is the last one opened
\* for it.  mStorageRootItem keeps its value.
CloseStorage(c) == IF c.root /\ c.opened > 0 THEN c.opened - 1 ELSE c.opened

\* RestoreFunctionPatches, then CloseStorage for what was initialised.
RestoreFunctionPatches ==
    /\ phase = "restore"
    /\ phase' = "destroy"
    /\ patches' = patches \ LinkedAt("doomed")
    /\ cont' = [s \in Slots |-> IF s \in LinkedAt("doomed") /\ cont[s].initDone
                                THEN [cont[s] EXCEPT !.opened = CloseStorage(cont[s])]
                                ELSE cont[s]]
    /\ UNCHANGED <<queue, toLoad, requestVars, allowed, settingVars, history>>

\* ~PluginContainer; ~FunctionData removes a patch that is still there.
Destroyed(gone) == [s \in Slots |-> IF s \in gone THEN FreeSlot ELSE cont[s]]

\* gPluginsToBeDeInitialized.clear(), and loadPlugins(toBeLoaded) begins.
DestroyDoomed ==
    /\ phase = "destroy"
    /\ phase' = "load"
    /\ cont' = Destroyed(At("doomed"))
    /\ patches' = patches \ At("doomed")
    /\ queue' = toLoad
    /\ toLoad' = {}
    /\ settings' \in LoadSettings(settings, file)
    /\ UNCHANGED <<requestVars, allowed, file, history>>

-----------------------------------------------------------------------------
(* loadPlugins: one wrapper after the other                                *)

\* Without a heap tracking option in the wrapper the meta data decides.
NewContainer(e, linked) ==
    [at |-> "fresh", data |-> e.data, linked |-> linked,
     track |-> (linked /\ e.track) \/ e.data.img \in MetaTracked,
     initDone |-> FALSE, life |-> "none", started |-> FALSE, root |-> FALSE, opened |-> 0]

AddContainer(e, linked) ==
    \E s \in At("free") : cont' = [cont EXCEPT ![s] = NewContainer(e, linked)]

Visit(e) ==
    /\ phase \in {"loaddir", "load"}
    /\ queue' = queue \ {e}
    /\ UNCHANGED <<phase, patches, toLoad, requestVars, file, enabled, safe, plan>>

\* errorHasBeenShownFile || errorHasBeenShownWiiloaded
WarningShown(d) == (OnSD(d) /\ d.img \in settings.broken) \/ d \in allowed

\* Mutant: only files of the SD card are checked.
RefusedOnSD(e) == e.link /\ e.data.img \in Buggy \cap Files /\ ~WarningShown(e.data)

\* HandlePossibleReentBug refuses to link on first sight.
Refused(e) == e.link /\ e.data.img \in Buggy /\ ~WarningShown(e.data)

LoadUnparsable(e) ==
    /\ Visit(e)
    /\ e.data.img \in Unparsable
    /\ UNCHANGED <<cont, allowed, settings, warned>>

LoadInactive(e) ==
    /\ Visit(e)
    /\ e.data.img \notin Unparsable
    /\ ~e.link
    /\ AddContainer(e, FALSE)
    /\ UNCHANGED <<allowed, settings, warned>>

LoadRefused(e) ==
    /\ Visit(e)
    /\ e.data.img \notin Unparsable
    /\ Refused(e)
    /\ AddContainer(e, FALSE)
    /\ IF OnSD(e.data)
       THEN /\ settings' = AddInactivePluginFilename(
                   AddBrokenReentPluginFilename(settings, e.data.img), e.data.img)
            /\ UNCHANGED allowed
       ELSE /\ allowed' = allowed \cup {e.data}
            /\ UNCHANGED settings
    /\ warned' = warned \cup {e.data.img}

\* When linking fails the plugin is skipped, but its file has left the list of
\* broken ones by then.
LoadActive(e) ==
    /\ Visit(e)
    /\ e.data.img \notin Unparsable
    /\ e.link
    /\ ~Refused(e)
    /\ \/ AddContainer(e, TRUE)
       \/ "nolink" \in LoadFaults /\ UNCHANGED cont
    /\ settings' = IF OnSD(e.data) /\ e.data.img \notin Buggy
                   THEN RemoveBrokenReentPluginFilename(settings, e.data.img)
                   ELSE settings
    /\ UNCHANGED <<allowed, warned>>

\* ~FunctionData for the replaced list, DoFunctionPatches for the result.
PatchesAfterLoad == (patches \ At("new")) \cup LinkedAt("fresh")

\* DoFunctionPatches, SaveSettings, and the result replaces newLoadedPlugins:
\* containers it still holds from the directory are destroyed.
LoadDone ==
    /\ phase \in {"loaddir", "load"}
    /\ queue = {}
    /\ cont' = [s \in Slots |->
                  CASE cont[s].at = "new"   -> FreeSlot
                    [] cont[s].at = "fresh" -> [cont[s] EXCEPT !.at = "new"]
                    [] OTHER                -> cont[s]]
    /\ patches' = PatchesAfterLoad
    /\ \E r \in SaveSettings(settings, file) :
          /\ settings' = r.mem
          /\ file' = r.file
    /\ IF phase = "loaddir" /\ next # {}
       THEN BeginReload
       ELSE phase' = "relocate" /\ UNCHANGED <<queue, plan>>
    /\ UNCHANGED <<toLoad, requestVars, allowed, warned, enabled, safe>>

\* A function cannot be patched, or a relocation fails: OSFatal.
Fatal ==
    /\ "fatal" \in LoadFaults
    /\ \/ phase \in {"loaddir", "load"} /\ queue = {} /\ LinkedAt("fresh") # {}
       \/ phase = "storage" /\ LinkedAt("loaded") # {}
    /\ phase' = "halted"
    /\ UNCHANGED <<cont, patches, queue, toLoad, requestVars, allowed,
                   settingVars, history>>

-----------------------------------------------------------------------------
(* WUMS_APPLICATION_STARTS, last part                                      *)

\* The lists are cleared, the new containers join gLoadedPlugins; doRelocations
\* either succeeds (and the loader goes on from "storage") or is Fatal.  Data
\* that no container refers to is freed, its mIsReentBugAllowed with it.
Relocate ==
    /\ phase = "relocate"
    /\ next' = {}
    /\ requests' = 0
    /\ data' = {}
    /\ cont' = [s \in Slots |-> IF cont[s].at = "new"
                                THEN [cont[s] EXCEPT !.at = "loaded", !.initDone = FALSE]
                                ELSE cont[s]]
    /\ IF At("new") \cup Loaded = {}
       THEN phase' = "running" /\ plan' = {}
       ELSE phase' = "storage" /\ UNCHANGED plan
    /\ allowed' = {d \in allowed : \E s \in Slots : cont[s].data = d}
    /\ UNCHANGED <<patches, queue, toLoad, settingVars, warned, enabled, safe>>

\* PluginContainer::OpenStorage: the container knows the root it opened, or none
\* when that fails.
WithStorage(c, fails) ==
    IF fails
    THEN [c EXCEPT !.root = FALSE]
    ELSE [c EXCEPT !.root = TRUE, !.opened = IF @ < MaxOpened THEN @ + 1 ELSE @]

\* The loop over gLoadedPlugins, which only logs a failure.  Images that store
\* nothing are left alone; a container kept from an earlier cycle gets another root
\* and forgets the first one.
OpenStorage ==
    /\ phase = "storage"
    /\ phase' = "inithooks"
    /\ LET opens == {s \in Loaded : /\ cont[s].initDone => cont[s].linked
                                    /\ cont[s].data.img \in Storing}
       IN  \E failed \in SUBSET opens :
              /\ failed # {} => "nostorage" \in LoadFaults
              /\ cont' = [s \in Slots |-> IF s \in opens
                                          THEN WithStorage(cont[s], s \in failed)
                                          ELSE cont[s]]
    /\ plan' = {}
    /\ UNCHANGED <<patches, queue, toLoad, requestVars, allowed, settingVars,
                   warned, enabled, safe>>

AfterInit(life) == IF life = "none" THEN "inited" ELSE "misused"

\* callInitHooks, for the containers that were not initialised before.
InitHooks ==
    /\ phase = "inithooks"
    /\ phase' = "starthooks"
    /\ cont' = [s \in Slots |->
                  IF s \in LinkedAt("loaded") /\ ~cont[s].initDone
                  THEN [cont[s] EXCEPT !.life = AfterInit(@)]
                  ELSE cont[s]]
    /\ UNCHANGED <<patches, queue, toLoad, requestVars, allowed, settingVars, history>>

\* APPLICATION_STARTS, and setInitDone(true) for every container.
StartHooks ==
    /\ phase = "starthooks"
    /\ phase' = "running"
    /\ cont' = [s \in Slots |->
                  IF s \in Loaded
                  THEN [cont[s] EXCEPT !.initDone = TRUE, !.started = cont[s].linked]
                  ELSE cont[s]]
    /\ UNCHANGED <<patches, queue, toLoad, requestVars, allowed, settingVars, history>>

\* Mutant: the hooks are not called.
ApplicationEndsUnnoticed ==
    /\ phase = "running"
    /\ phase' = "stopped"
    /\ UNCHANGED <<cont, patches, queue, toLoad, requestVars, allowed, settingVars, history>>

\* WUMS_APPLICATION_ENDS
ApplicationEnds ==
    /\ phase = "running"
    /\ phase' = "stopped"
    /\ cont' = [s \in Slots |-> IF s \in LinkedAt("loaded")
                                THEN [cont[s] EXCEPT !.started = FALSE]
                                ELSE cont[s]]
    /\ UNCHANGED <<patches, queue, toLoad, requestVars, allowed, settingVars, history>>

\* Power off, crash or reboot: only the SD card and the user remember.
Reboot ==
    /\ phase # "boot"
    /\ phase' = "boot"
    /\ cont' = [s \in Slots |-> FreeSlot]
    /\ patches' = {}
    /\ queue' = {} /\ toLoad' = {} /\ next' = {} /\ requests' = 0
    /\ data' = {} /\ allowed' = {}
    /\ settings' = NoSettings
    /\ safe' = FALSE
    /\ plan' = {}
    /\ UNCHANGED <<file, warned, enabled>>

-----------------------------------------------------------------------------
(* The exported API (utils/exports.cpp): called while an application runs, *)
(* and by the hooks of a plugin, which run with the mutex held.            *)
ApiUsable ==
    \/ phase = "running"
    \/ phase \in {"inithooks", "starthooks"} /\ LinkedAt("loaded") # {}
    \/ phase = "deinit" /\ LinkedAt("doomed") # {}

ApiUnchanged == UNCHANGED <<phase, cont, patches, queue, toLoad, settingVars,
                            warned, plan>>

\* The bound: addresses are left for the files of the directory when it is
\* going to be read.
WUPSLoadPluginAsData(i) ==
    /\ ApiUsable
    /\ Loaded = {} => Cardinality(FreshHandles) > Cardinality(Files)
    /\ \E h \in FreshHandles :
          /\ data' = data \cup {[img |-> i, h |-> h]}
          /\ allowed' = allowed \ {[img |-> i, h |-> h]}
    /\ ApiUnchanged
    /\ UNCHANGED <<next, requests, enabled, safe>>

WUPSDeletePluginData(d) ==
    /\ ApiUsable
    /\ d \in data
    /\ data' = data \ {d}
    /\ ApiUnchanged
    /\ UNCHANGED <<next, requests, allowed, enabled, safe>>

\* Only linked containers are found.
WUPSGetPluginDataForContainerHandles(s) ==
    /\ ApiUsable
    /\ s \in LinkedAt("loaded")
    /\ data' = data \cup {cont[s].data}
    /\ ApiUnchanged
    /\ UNCHANGED <<next, requests, allowed, enabled, safe>>

\* heapTrackingActive: that of the first loaded container with this data.
TrackingOf(d) ==
    LET tracks == {cont[s].track : s \in {t \in Loaded : cont[t].data = d}}
    IN  IF tracks = {} THEN {FALSE} ELSE tracks

InactiveLoaded == Loaded \ LinkedAt("loaded")

\* Handles that are not in gLoadedData are skipped: ds are the others.  All
\* containers that are not linked are appended again by every call.
WUPSLoadAndLinkByDataHandle(ds) ==
    /\ ApiUsable
    /\ requests < MaxRequests
    /\ requests' = requests + 1
    /\ \E track \in [ds -> BOOLEAN] :
          /\ \A d \in ds : track[d] \in TrackingOf(d)
          /\ next' = next
                \cup {[data |-> d, link |-> TRUE, track |-> track[d],
                       call |-> requests', item |-> d.h] : d \in ds}
                \cup {[data |-> cont[s].data, link |-> FALSE, track |-> FALSE,
                       call |-> requests', item |-> s] : s \in InactiveLoaded}
    /\ Cardinality(next') <= MaxEntries
    /\ enabled' = enabled \cup ({d.img : d \in ds} \cap Files \cap Buggy)
    /\ safe' = FALSE
    /\ ApiUnchanged
    /\ UNCHANGED <<data, allowed>>

-----------------------------------------------------------------------------
(* The config menu: "Apply" in the list of active plugins or in the list   *)
(* of tracked ones (ConfigUtils::displayMenu).  The list replaces          *)
(* gLoadOnNextLaunch, and says which files are inactive from now on.       *)

\* Mutant: the list of inactive files is not saved.
ApplyMenuUnsaved(link, track) ==
    /\ phase = "running"
    /\ Cardinality(Loaded) <= MaxEntries
    /\ next' = {[data |-> cont[s].data, link |-> link[s], track |-> track[s],
                 call |-> 1, item |-> s] : s \in Loaded}
    /\ requests' = 1
    /\ LET off == {cont[s].data.img : s \in {t \in Loaded : ~link[t] /\ OnSD(cont[t].data)}}
           on  == {cont[s].data.img : s \in {t \in Loaded : link[t]}} \cap Files \cap Buggy
       IN  /\ settings' = SetInactivePluginFilenames(settings, off)
           /\ enabled' = (enabled \ off) \cup on
    /\ safe' = FALSE
    /\ UNCHANGED <<phase, cont, patches, queue, toLoad, data, allowed, file, warned, plan>>

ApplyMenu(link, track) ==
    /\ phase = "running"
    /\ Cardinality(Loaded) <= MaxEntries
    /\ next' = {[data |-> cont[s].data, link |-> link[s], track |-> track[s],
                 call |-> 1, item |-> s] : s \in Loaded}
    /\ requests' = 1
    /\ LET off == {cont[s].data.img : s \in {t \in Loaded : ~link[t] /\ OnSD(cont[t].data)}}
           on  == {cont[s].data.img : s \in {t \in Loaded : link[t]}} \cap Files \cap Buggy
       IN  /\ \E r \in SaveSettings(SetInactivePluginFilenames(settings, off), file) :
                 /\ settings' = r.mem
                 /\ file' = r.file
           /\ enabled' = (enabled \ off) \cup on
    /\ safe' = FALSE
    /\ UNCHANGED <<phase, cont, patches, queue, toLoad, data, allowed, warned, plan>>

MenuSelectActive(toggled) ==
    ApplyMenu([s \in Loaded |-> IF s \in toggled THEN ~cont[s].linked ELSE cont[s].linked],
              [s \in Loaded |-> cont[s].track])

MenuSelectTracked(toggled) ==
    ApplyMenu([s \in Loaded |-> cont[s].linked],
              [s \in Loaded |-> IF s \in toggled THEN ~cont[s].track ELSE cont[s].track])

-----------------------------------------------------------------------------
StartCycle == StartFromDirectory \/ StartWithReload \/ StartUnchanged

VisitOne == \E e \in queue :
    \/ Match(e)
    \/ LoadUnparsable(e) \/ LoadInactive(e) \/ LoadRefused(e) \/ LoadActive(e)

LoaderStep ==
    \/ VisitOne
    \/ MatchDone \/ DeinitPlugins \/ RestoreFunctionPatches \/ DestroyDoomed
    \/ LoadDone \/ Fatal
    \/ Relocate \/ OpenStorage \/ InitHooks \/ StartHooks

Api ==
    \/ \E i \in Images : WUPSLoadPluginAsData(i)
    \/ \E d \in data : WUPSDeletePluginData(d)
    \/ \E s \in Slots : WUPSGetPluginDataForContainerHandles(s)
    \/ \E ds \in SUBSET data : WUPSLoadAndLinkByDataHandle(ds)

\* Toggling an entry twice leaves the list dirty with nothing toggled.
Menu ==
    \/ Loaded # {} /\ \E toggled \in SUBSET Loaded : MenuSelectActive(toggled)
    \/ /\ LinkedAt("loaded") # {}
       /\ \E toggled \in SUBSET LinkedAt("loaded") : MenuSelectTracked(toggled)

Next ==
    \/ Initialize \/ InitializeSafeMode
    \/ StartCycle \/ LoaderStep \/ ApplicationEnds \/ Reboot
    \/ Api \/ Menu

Spec == Init /\ [][Next]_vars

-----------------------------------------------------------------------------
(* Properties                                                              *)

\* The functions of the game and the system are patched with code of linked
\* containers that exist, never with code that was freed or not linked.
PatchesPointIntoPlugins ==
    \A s \in patches : cont[s].at # "free" /\ cont[s].linked

\* While an application runs, gLoadedPlugins holds every container there is,
\* each is initialised, and exactly the linked ones are patched, have run
\* INIT_PLUGIN but not DEINIT_PLUGIN, and know that the application started.  The
\* root a container refers to is open and its own, and a linked plugin that stores
\* something has one unless opening it failed.
RunningMeansReady ==
    phase = "running" =>
        /\ \A s \in Slots \ At("free") :
              /\ cont[s].at = "loaded"
              /\ cont[s].initDone
              /\ cont[s].started = cont[s].linked
              /\ cont[s].life = (IF cont[s].linked THEN "inited" ELSE "none")
              /\ cont[s].root => cont[s].opened > 0 /\ cont[s].data.img \in Storing
              /\ cont[s].linked /\ cont[s].data.img \in Storing =>
                    cont[s].root \/ "nostorage" \in LoadFaults
        /\ patches = LinkedAt("loaded")
        /\ queue = {} /\ toLoad = {}

\* A reload does what gLoadOnNextLaunch asked for.  A container that is kept runs
\* on as the request wants it, with the tracking it has.  Nothing else survives, a
\* plugin is linked only if that was asked, and a request to keep a plugin
\* unlinked is met unless its name is linked from other data.
ReloadFollowsRequest ==
    /\ \A s \in LinkedAt("kept") : \E e \in plan :
          e.data = cont[s].data /\ e.link /\ e.track = cont[s].track
    /\ phase = "storage" /\ plan # {} =>
          /\ \A s \in Loaded : \E e \in plan :
                /\ e.data = cont[s].data
                /\ cont[s].linked => e.link
          /\ \A e \in Filtered(plan) : ~e.link =>
                \E s \in InactiveLoaded : cont[s].data = e.data

\* What a run of HandlePossibleReentBug has not warned about is not linked.
WarnedBeforeLinked ==
    \A s \in Slots \ At("free") :
        cont[s].linked /\ cont[s].data.img \in Buggy => cont[s].data.img \in warned

\* "Has been explicitly re-enabled by the user" (PluginManagement.cpp:56): a
\* plugin file with the reent bug is linked only after somebody asked for it, in
\* the menu or through the API, and did not switch it off since.
BuggyOnlyWhenReenabled ==
    \A s \in LinkedAt("fresh") :
        OnSD(cont[s].data) /\ cont[s].data.img \in Buggy => cont[s].data.img \in enabled

\* "Any 3rd party plugins have been disabled!" (main.cpp:100): in a safe mode
\* boot only base plugins are linked until somebody enables others.
SafeModeDisables ==
    safe => \A s \in LinkedAt("loaded") :
                OnSD(cont[s].data) => cont[s].data.img \in BaseFiles

\* LoadSettings is called again by every loadPlugins, overwrites the memory and
\* clears the dirty flag: whatever changed the settings has to be on the card by
\* then.  While the card takes what is written, the memory outside of loadPlugins
\* is what the file says, or nothing was ever set.
SavedBeforeRead ==
    IoFaults \cap {"refused", "torn"} = {} /\ phase \notin {"loaddir", "load", "halted"} =>
        \/ settings = NoSettings
        \/ file.valid /\ settings = FromFile(file)

\* Per container INIT_PLUGIN runs once, and DEINIT_PLUGIN once and after it.
HooksInOrder == \A s \in Slots : cont[s].life # "misused"

\* A container whose INIT_PLUGIN ran is destroyed only after DEINIT_PLUGIN and
\* with its functions restored: no hook runs and no patch points into freed code.
CleanDestruction ==
    [][\A s \in Slots :
         cont[s].life # "none" /\ cont'[s].at = "free" /\ phase' # "boot" =>
             cont[s].life = "deinited" /\ s \notin patches]_vars

\* The stage of PluginContract that a container is in.
Stage(c) ==
    CASE c.at = "free" \/ ~c.linked -> "none"
      [] OTHER ->
            CASE c.life = "none"     -> "loaded"
              [] c.life = "inited"   -> IF c.started THEN "active" ELSE "idle"
              [] c.life = "deinited" -> "over"
              [] OTHER               -> "misused"

Contract == INSTANCE PluginContract
            WITH Plugins <- Slots, stage <- [s \in Slots |-> Stage(cont[s])], patched <- patches

\* The loader implements the contract: every plugin sees its hooks in order, in
\* pairs and only while its functions are patched, whatever is reloaded.
KeepsContract == Contract!Spec
=============================================================================
