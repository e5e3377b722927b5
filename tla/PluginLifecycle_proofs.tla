------------------------ MODULE PluginLifecycle_proofs ------------------------
(***************************************************************************)
(* What holds of the plugin lifecycle for every set of files, every number *)
(* of containers and every combination of faults.                          *)
(*                                                                         *)
(* The steps of each proof are the actions of the specification.  Quiet    *)
(* actions, that leave what an invariant speaks of alone, share one step.  *)
(* At the end: the lifecycle implements the contract of PluginContract.    *)
(***************************************************************************)
EXTENDS PluginLifecycle, TLAPS

USE DEF Phases, Places

-----------------------------------------------------------------------------
(* The settings                                                            *)

\* A settings record is its three fields.
LEMMA SettingsFields ==
    ASSUME NEW mem \in Settings
    PROVE  /\ mem.inactive \in SUBSET Files /\ mem.broken \in SUBSET Files
           /\ mem.dirty \in BOOLEAN
           /\ mem = [inactive |-> mem.inactive, broken |-> mem.broken, dirty |-> mem.dirty]
  BY DEF Settings

\* LoadSettings yields the memory it was given or the content of the file.
LEMMA LoadedSettings ==
    ASSUME NEW mem \in Settings, NEW f \in SettingsFile,
           NEW r \in LoadSettings(mem, f)
    PROVE  /\ r \in Settings
           /\ r = mem \/ (f.valid /\ r = FromFile(f))
  <1>1. r = mem \/ (f.valid /\ r = FromFile(f))
    BY Zenon DEF LoadSettings
  <1>2. FromFile(f) \in Settings
    BY DEF FromFile, Settings, SettingsFile
  <1> QED BY <1>1, <1>2

\* SaveSettings leaves the two sets in memory alone; the flag is clear
\* afterwards only when the file holds what the memory holds.
LEMMA SavedSettings ==
    ASSUME NEW mem \in Settings, NEW f \in SettingsFile,
           NEW r \in SaveSettings(mem, f)
    PROVE  /\ r.mem \in Settings /\ r.file \in SettingsFile
           /\ r.mem.inactive = mem.inactive /\ r.mem.broken = mem.broken
           /\ r.file \in {f, ToFile(mem), NoFile, GarbledFile}
           /\ \/ r.mem = mem /\ r.file = f
              \/ r.mem.dirty
              \/ r.file.valid /\ r.mem = FromFile(r.file)
  <1>1. ToFile(mem) \in SettingsFile /\ TornFiles \subseteq SettingsFile
    BY DEF ToFile, TornFiles, NoFile, GarbledFile, Settings, SettingsFile
  <1>2. CASE ~mem.dirty
    BY <1>2 DEF SaveSettings
  <1>3. CASE mem.dirty
    <2> DEFINE clean == Clean(mem)
    <2>1. /\ clean \in Settings
          /\ clean.inactive = mem.inactive /\ clean.broken = mem.broken
          /\ clean = FromFile(ToFile(mem))
      BY DEF FromFile, ToFile, Settings, Clean
    <2>2. \/ r = [mem |-> clean, file |-> ToFile(mem)]
          \/ r = [mem |-> mem, file |-> f]
          \/ \E torn \in TornFiles : r = [mem |-> mem, file |-> torn]
      BY <1>3 DEF SaveSettings
    <2>3. CASE r = [mem |-> clean, file |-> ToFile(mem)]
      <3>1. r.mem = clean /\ r.file = ToFile(mem)
        BY <2>3
      <3>2. ToFile(mem).valid
        BY DEF ToFile
      <3> QED BY <1>1, <2>1, <3>1, <3>2
    <2>4. CASE r = [mem |-> mem, file |-> f]
      BY <1>1, <2>4
    <2>5. ASSUME NEW torn \in TornFiles, r = [mem |-> mem, file |-> torn]
          PROVE  /\ r.mem = mem /\ r.file \in SettingsFile
                 /\ r.file \in {NoFile, GarbledFile}
      BY <1>1, <2>5 DEF TornFiles
    <2> QED BY <1>3, <2>2, <2>3, <2>4, <2>5
  <1> QED BY <1>2, <1>3 DEF Settings

\* The setters keep the type, and change nothing without raising the flag.
LEMMA SetSettings ==
    ASSUME NEW mem \in Settings, NEW fs \in SUBSET Files
    PROVE  LET new == SetInactivePluginFilenames(mem, fs)
           IN  /\ new \in Settings
               /\ new.broken = mem.broken
               /\ new.dirty \/ new = mem
  <1> DEFINE new == SetInactivePluginFilenames(mem, fs)
  <1>1. new = [inactive |-> fs, broken |-> mem.broken,
               dirty |-> mem.dirty \/ mem.inactive \cup fs # {}]
    BY DEF SetInactivePluginFilenames
  <1>2. CASE mem.dirty \/ mem.inactive \cup fs # {}
    BY <1>1, <1>2, SettingsFields DEF Settings
  <1>3. CASE ~mem.dirty /\ mem.inactive = {} /\ fs = {}
    BY <1>1, <1>3, SettingsFields DEF Settings
  <1> QED BY <1>2, <1>3, SettingsFields

LEMMA AddInactive ==
    ASSUME NEW mem \in Settings, NEW f \in Files
    PROVE  LET new == AddInactivePluginFilename(mem, f)
           IN  /\ new \in Settings
               /\ new.broken = mem.broken
               /\ new.dirty \/ new = mem
  <1> DEFINE new == AddInactivePluginFilename(mem, f)
  <1>1. new = [inactive |-> mem.inactive \cup {f}, broken |-> mem.broken,
               dirty |-> mem.dirty \/ f \notin mem.inactive]
    BY DEF AddInactivePluginFilename
  <1>2. f \in mem.inactive => mem.inactive \cup {f} = mem.inactive
    OBVIOUS
  <1> QED BY <1>1, <1>2, SettingsFields DEF Settings

LEMMA AddBroken ==
    ASSUME NEW mem \in Settings, NEW f \in Files
    PROVE  LET new == AddBrokenReentPluginFilename(mem, f)
           IN  /\ new \in Settings
               /\ new.broken = mem.broken \cup {f}
               /\ new.dirty \/ new = mem
  <1> DEFINE new == AddBrokenReentPluginFilename(mem, f)
  <1>1. new = [inactive |-> mem.inactive, broken |-> mem.broken \cup {f},
               dirty |-> mem.dirty \/ f \notin mem.broken]
    BY DEF AddBrokenReentPluginFilename
  <1>2. f \in mem.broken => mem.broken \cup {f} = mem.broken
    OBVIOUS
  <1> QED BY <1>1, <1>2, SettingsFields DEF Settings

LEMMA RemoveBroken ==
    ASSUME NEW mem \in Settings, NEW f \in Files
    PROVE  LET new == RemoveBrokenReentPluginFilename(mem, f)
           IN  /\ new \in Settings
               /\ new.broken \subseteq mem.broken
               /\ new.dirty \/ new = mem
  <1> DEFINE new == RemoveBrokenReentPluginFilename(mem, f)
  <1>1. new = [inactive |-> mem.inactive, broken |-> mem.broken \ {f},
               dirty |-> mem.dirty \/ f \in mem.broken]
    BY DEF RemoveBrokenReentPluginFilename
  <1>2. f \notin mem.broken => mem.broken \ {f} = mem.broken
    OBVIOUS
  <1> QED BY <1>1, <1>2, SettingsFields DEF Settings

-----------------------------------------------------------------------------
(* Type correctness.  A container that is in use holds plugin data: that   *)
(* is what makes the entries of the API and of the menu entries.           *)

UsedHaveData == \A s \in Slots : cont[s].at # "free" => cont[s].data \in Data

TypeInv == TypeOK /\ UsedHaveData

\* Containers that change in one field only remain containers.
LEMMA Moved ==
    ASSUME NEW c \in Container, NEW p \in Places
    PROVE  [c EXCEPT !.at = p] \in Container /\ [c EXCEPT !.at = p].data = c.data
  BY DEF Container

LEMMA Joined ==
    ASSUME NEW c \in Container
    PROVE  LET new == [c EXCEPT !.at = "loaded", !.initDone = FALSE]
           IN  /\ new \in Container /\ new.data = c.data /\ new.linked = c.linked
               /\ new.life = c.life /\ new.at = "loaded" /\ new.initDone = FALSE
               /\ new.started = c.started
  BY DEF Container

LEMMA Hooked ==
    ASSUME NEW c \in Container, NEW l \in {"none", "inited", "deinited", "misused"}
    PROVE  LET new == [c EXCEPT !.life = l]
           IN  new \in Container /\ new.data = c.data /\ new.at = c.at
  BY DEF Container

LEMMA Stored ==
    ASSUME NEW c \in Container, NEW n \in 0..MaxOpened
    PROVE  LET new == [c EXCEPT !.opened = n]
           IN  new \in Container /\ new.data = c.data /\ new.at = c.at
  BY DEF Container

LEMMA ClosedCount ==
    ASSUME NEW c \in Container
    PROVE  CloseStorage(c) \in 0..MaxOpened
  BY ConstantsAssumption DEF Container, CloseStorage

LEMMA Ended ==
    ASSUME NEW c \in Container
    PROVE  LET new == [c EXCEPT !.started = FALSE]
           IN  new \in Container /\ new.data = c.data /\ new.at = c.at
  BY DEF Container

LEMMA Started ==
    ASSUME NEW c \in Container
    PROVE  LET new == [c EXCEPT !.initDone = TRUE, !.started = c.linked]
           IN  /\ new \in Container /\ new.data = c.data /\ new.at = c.at
               /\ new.linked = c.linked /\ new.life = c.life /\ new.initDone = TRUE
               /\ new.started = c.linked
  BY DEF Container

\* StartHooks only touches initDone and started.
LEMMA StartHooksKeep ==
    ASSUME TypeInv, StartHooks, NEW s \in Slots
    PROVE  /\ cont'[s].at = cont[s].at /\ cont'[s].data = cont[s].data
           /\ cont'[s].linked = cont[s].linked /\ cont'[s].life = cont[s].life
           /\ cont[s].at = "loaded" => cont'[s].initDone = TRUE /\ cont'[s].started = cont[s].linked
           /\ cont[s].at # "loaded" => cont'[s] = cont[s]
  <1>1. cont[s] \in Container
    BY DEF TypeInv, TypeOK
  <1>2. CASE cont[s].at = "loaded"
    <2>1. cont'[s] = [cont[s] EXCEPT !.initDone = TRUE, !.started = cont[s].linked]
      BY <1>2 DEF StartHooks, Loaded, At
    <2> QED BY <1>1, <1>2, <2>1, Started
  <1>3. CASE cont[s].at # "loaded"
    BY <1>3 DEF StartHooks, Loaded, At
  <1> QED BY <1>2, <1>3

\* OpenStorage only touches root and opened.
LEMMA StorageOpened ==
    ASSUME NEW c \in Container, NEW fails \in BOOLEAN
    PROVE  LET new == WithStorage(c, fails)
           IN  /\ new \in Container /\ new.data = c.data /\ new.at = c.at
               /\ new.linked = c.linked /\ new.track = c.track
               /\ new.initDone = c.initDone /\ new.life = c.life /\ new.started = c.started
               /\ new.root = ~fails
               /\ new.root => new.opened # 0
  <1> DEFINE n == IF c.opened < MaxOpened THEN c.opened + 1 ELSE c.opened
  <1>1. n \in 0..MaxOpened /\ n # 0
    BY ConstantsAssumption DEF Container
  <1>2. WithStorage(c, fails) = IF fails THEN [c EXCEPT !.root = FALSE]
                                ELSE [c EXCEPT !.root = TRUE, !.opened = n]
    BY DEF WithStorage
  <1> HIDE DEF n
  <1>3. CASE fails
    <2>1. WithStorage(c, fails) = [c EXCEPT !.root = FALSE]
      BY <1>2, <1>3
    <2> QED BY <1>3, <2>1 DEF Container
  <1>4. CASE ~fails
    <2>1. WithStorage(c, fails) = [c EXCEPT !.root = TRUE, !.opened = n]
      BY <1>2, <1>4
    <2> QED BY <1>1, <1>4, <2>1 DEF Container
  <1> QED BY <1>3, <1>4

LEMMA OpenStorageKeeps ==
    ASSUME TypeInv, OpenStorage, NEW s \in Slots
    PROVE  /\ cont'[s] \in Container
           /\ cont'[s].at = cont[s].at /\ cont'[s].data = cont[s].data
           /\ cont'[s].linked = cont[s].linked /\ cont'[s].track = cont[s].track
           /\ cont'[s].initDone = cont[s].initDone /\ cont'[s].life = cont[s].life
           /\ cont'[s].started = cont[s].started
           /\ \/ cont'[s] = cont[s]
              \/ cont[s].data.img \in Storing /\ (cont'[s].root => cont'[s].opened # 0)
           /\ cont[s].at = "loaded" /\ cont[s].linked /\ cont[s].data.img \in Storing =>
                 cont'[s].root \/ "nostorage" \in LoadFaults
  <1> DEFINE opens == {t \in Loaded : /\ cont[t].initDone => cont[t].linked
                                     /\ cont[t].data.img \in Storing}
  <1>1. cont[s] \in Container
    BY DEF TypeInv, TypeOK
  <1>2. PICK failed \in SUBSET opens :
          /\ failed # {} => "nostorage" \in LoadFaults
          /\ cont' = [t \in Slots |-> IF t \in opens
                                      THEN WithStorage(cont[t], t \in failed)
                                      ELSE cont[t]]
    BY DEF OpenStorage
  <1>3. s \in opens <=> /\ cont[s].at = "loaded"
                        /\ cont[s].initDone => cont[s].linked
                        /\ cont[s].data.img \in Storing
    BY DEF Loaded, At
  <1> HIDE DEF opens
  <1>4. CASE s \in opens
    <2>1. (s \in failed) \in BOOLEAN
      OBVIOUS
    <2>2. cont'[s] = WithStorage(cont[s], s \in failed)
      BY <1>2, <1>4
    <2> DEFINE fails == s \in failed
    <2>3. fails \in BOOLEAN /\ cont'[s] = WithStorage(cont[s], fails)
      BY <2>1, <2>2
    <2>4. fails => "nostorage" \in LoadFaults
      BY <1>2
    <2> HIDE DEF fails
    <2> DEFINE new == WithStorage(cont[s], fails)
    <2>5. /\ new \in Container /\ new.data = cont[s].data /\ new.at = cont[s].at
          /\ new.linked = cont[s].linked /\ new.track = cont[s].track
          /\ new.initDone = cont[s].initDone /\ new.life = cont[s].life
          /\ new.started = cont[s].started
          /\ new.root = ~fails
          /\ new.root => new.opened # 0
      BY <1>1, <2>3, StorageOpened
    <2>6. cont'[s] = new
      BY <2>3
    <2> HIDE DEF new
    <2> QED BY <1>3, <1>4, <2>4, <2>5, <2>6
  <1>5. CASE s \notin opens
    <2>1. cont'[s] = cont[s]
      BY <1>2, <1>5
    <2> QED BY <1>1, <1>3, <1>5, <2>1
  <1> QED BY <1>4, <1>5

LEMMA OpenStorageFrame ==
    ASSUME OpenStorage
    PROVE  /\ phase = "storage" /\ phase' = "inithooks" /\ plan' = {}
           /\ UNCHANGED <<patches, queue, toLoad, requestVars, allowed, settings, file,
                          warned, enabled, safe>>
  BY DEF OpenStorage, settingVars

\* Relocate only touches at and initDone of new containers.
LEMMA RelocateKeeps ==
    ASSUME TypeInv, Relocate, NEW s \in Slots
    PROVE  /\ cont'[s].data = cont[s].data /\ cont'[s].linked = cont[s].linked
           /\ cont'[s].life = cont[s].life /\ cont'[s].started = cont[s].started
           /\ cont[s].at = "new" => cont'[s].at = "loaded" /\ cont'[s].initDone = FALSE
           /\ cont[s].at # "new" => cont'[s] = cont[s]
  <1>1. cont[s] \in Container
    BY DEF TypeInv, TypeOK
  <1>2. CASE cont[s].at = "new"
    <2> DEFINE new == [cont[s] EXCEPT !.at = "loaded", !.initDone = FALSE]
    <2>1. cont'[s] = new
      BY <1>2 DEF Relocate, At
    <2>2. /\ new.data = cont[s].data /\ new.linked = cont[s].linked
          /\ new.life = cont[s].life /\ new.at = "loaded" /\ new.initDone = FALSE
          /\ new.started = cont[s].started
      BY <1>1, Joined
    <2> HIDE DEF new
    <2> QED BY <1>2, <2>1, <2>2
  <1>3. CASE cont[s].at # "new"
    BY <1>3 DEF Relocate, At
  <1> QED BY <1>2, <1>3

LEMMA Bounds == 0 \in 0..MaxRequests /\ 1 \in 0..MaxRequests /\ 0 \in 0..MaxOpened
  BY ConstantsAssumption

LEMMA FreeSlotType == FreeSlot \in Container
  BY ConstantsAssumption DEF FreeSlot, Container

LEMMA InitType == Init => TypeInv
  <1> SUFFICES ASSUME Init PROVE TypeInv
    OBVIOUS
  <1>1. NoFile \in SettingsFile /\ NoSettings \in Settings
    BY DEF NoFile, SettingsFile, NoSettings, Settings
  <1>2. cont \in [Slots -> Container] /\ UsedHaveData
    BY FreeSlotType DEF Init, Blank, UsedHaveData, FreeSlot
  <1>3. phase \in Phases /\ requests \in 0..MaxRequests /\ safe \in BOOLEAN
    BY Bounds DEF Init, Blank
  <1> QED BY <1>1, <1>2, <1>3 DEF Init, Blank, TypeInv, TypeOK

LEMMA TypeStep == TypeInv /\ [Next]_vars => TypeInv'
  <1> SUFFICES ASSUME TypeInv, [Next]_vars PROVE TypeInv'
    OBVIOUS
  <1> USE ConstantsAssumption DEF TypeInv, TypeOK, UsedHaveData, requestVars, settingVars, history
  <1>1. CASE Initialize
    BY <1>1 DEF Initialize
  <1>2. CASE InitializeSafeMode
    <2>1. /\ phase' \in Phases
          /\ settings' \in Settings /\ file' \in SettingsFile
          /\ safe' \in BOOLEAN
      <3> PICK mem \in LoadSettings(settings, file) :
            \E r \in SaveSettings(SetInactivePluginFilenames(
                        mem, mem.inactive \cup (Files \ BaseFiles)), file) :
                settings' = r.mem /\ file' = r.file
        BY <1>2 DEF InitializeSafeMode
      <3>1. mem \in Settings
        BY LoadedSettings
      <3>2. mem.inactive \cup (Files \ BaseFiles) \in SUBSET Files
        BY <3>1, SettingsFields
      <3>3. SetInactivePluginFilenames(mem, mem.inactive \cup (Files \ BaseFiles)) \in Settings
        BY <3>1, <3>2, SetSettings
      <3> QED BY <1>2, <3>3, SavedSettings DEF InitializeSafeMode
    <2> QED BY <1>2, <2>1 DEF InitializeSafeMode
  <1>3. CASE StartFromDirectory
    <2>1. settings' \in Settings
      <3>1. PICK mem \in LoadSettings(settings, file) : settings' \in LoadSettings(mem, file)
        BY <1>3 DEF StartFromDirectory
      <3>2. mem \in Settings
        BY LoadedSettings
      <3> QED BY <3>1, <3>2, LoadedSettings
    <2>2. queue' \subseteq Entry /\ allowed' \subseteq Data
      <3>1. PICK mem \in LoadSettings(settings, file), readable \in SUBSET Files :
               \E h \in Injection(readable, FreshHandles) :
                  /\ queue' = {[data |-> [img |-> f, h |-> h[f]], link |-> f \notin mem.inactive,
                                track |-> FALSE, call |-> 0, item |-> h[f]] : f \in readable}
                  /\ allowed' \subseteq allowed
        BY <1>3 DEF StartFromDirectory
      <3>2. PICK h \in [readable -> Handles] :
               /\ queue' = {[data |-> [img |-> f, h |-> h[f]], link |-> f \notin mem.inactive,
                             track |-> FALSE, call |-> 0, item |-> h[f]] : f \in readable}
               /\ allowed' \subseteq allowed
        BY <3>1 DEF Injection, FreshHandles
      <3>3. ASSUME NEW f \in readable
            PROVE  [data |-> [img |-> f, h |-> h[f]], link |-> f \notin mem.inactive,
                    track |-> FALSE, call |-> 0, item |-> h[f]] \in Entry
        BY DEF Entry, Data, Images
      <3> QED BY <3>2, <3>3
    <2> QED BY <1>3, <2>1, <2>2 DEF StartFromDirectory
  <1>4. CASE StartWithReload
    BY <1>4 DEF StartWithReload, BeginReload, Filtered
  <1>5. CASE StartUnchanged
    BY <1>5 DEF StartUnchanged
  <1>6. ASSUME NEW e \in queue, Match(e) PROVE TypeInv'
    <2>1. cont' \in [Slots -> Container] /\ UsedHaveData'
      <3>1. CASE UNCHANGED cont
        BY <3>1
      <3>2. ASSUME NEW s \in Slots, cont[s].at = "loaded", cont' = [cont EXCEPT ![s].at = "kept"]
            PROVE  cont' \in [Slots -> Container] /\ UsedHaveData'
        <4>1. cont' = [cont EXCEPT ![s] = [cont[s] EXCEPT !.at = "kept"]]
          BY <3>2
        <4>2. [cont[s] EXCEPT !.at = "kept"] \in Container
              /\ [cont[s] EXCEPT !.at = "kept"].data = cont[s].data
          BY Moved
        <4> QED BY <3>2, <4>1, <4>2
      <3> QED BY <1>6, <3>1, <3>2 DEF Match, Loaded, At
    <2> QED BY <1>6, <2>1 DEF Match
  <1>7. CASE MatchDone
    <2>1. \A s \in Slots : [cont[s] EXCEPT !.at = "doomed"] \in Container
                        /\ [cont[s] EXCEPT !.at = "loaded"] \in Container
                        /\ [cont[s] EXCEPT !.at = "doomed"].data = cont[s].data
                        /\ [cont[s] EXCEPT !.at = "loaded"].data = cont[s].data
      BY Moved
    <2>2. cont' \in [Slots -> Container] /\ UsedHaveData'
      BY <1>7, <2>1 DEF MatchDone
    <2> QED BY <1>7, <2>2 DEF MatchDone
  <1>8. CASE DeinitPlugins
    <2>1. ASSUME NEW s \in Slots
          PROVE  /\ [cont[s] EXCEPT !.life = AfterDeinit(cont[s].life)] \in Container
                 /\ [cont[s] EXCEPT !.life = AfterDeinit(cont[s].life)].data = cont[s].data
                 /\ [cont[s] EXCEPT !.life = AfterDeinit(cont[s].life)].at = cont[s].at
      BY Hooked DEF AfterDeinit
    <2>2. cont' \in [Slots -> Container] /\ UsedHaveData'
      BY <1>8, <2>1 DEF DeinitPlugins, DeinitHooksFor
    <2> QED BY <1>8, <2>2 DEF DeinitPlugins
  <1>9. CASE RestoreFunctionPatches
    <2>1. ASSUME NEW s \in Slots
          PROVE  LET n == CloseStorage(cont[s])
                 IN  /\ [cont[s] EXCEPT !.opened = n] \in Container
                     /\ [cont[s] EXCEPT !.opened = n].data = cont[s].data
                     /\ [cont[s] EXCEPT !.opened = n].at = cont[s].at
      BY ClosedCount, Stored
    <2>2. cont' \in [Slots -> Container] /\ UsedHaveData'
      BY <1>9, <2>1 DEF RestoreFunctionPatches
    <2> QED BY <1>9, <2>2 DEF RestoreFunctionPatches
  <1>10. CASE DestroyDoomed
    <2>1. cont' \in [Slots -> Container] /\ UsedHaveData'
      BY <1>10, FreeSlotType DEF DestroyDoomed, Destroyed, FreeSlot
    <2>2. settings' \in Settings
      BY <1>10, LoadedSettings DEF DestroyDoomed
    <2> QED BY <1>10, <2>1, <2>2 DEF DestroyDoomed
  <1>11. ASSUME NEW e \in queue, NEW linked \in BOOLEAN, AddContainer(e, linked)
         PROVE  cont' \in [Slots -> Container] /\ UsedHaveData'
    <2>1. NewContainer(e, linked) \in Container /\ NewContainer(e, linked).data \in Data
      <3> DEFINE track == (linked /\ e.track) \/ e.data.img \in MetaTracked
      <3>1. track \in BOOLEAN /\ e.data \in Data
        BY DEF Entry
      <3>2. NewContainer(e, linked) =
              [at |-> "fresh", data |-> e.data, linked |-> linked, track |-> track,
               initDone |-> FALSE, life |-> "none", started |-> FALSE, root |-> FALSE, opened |-> 0]
        BY DEF NewContainer
      <3> HIDE DEF track
      <3> QED BY <3>1, <3>2, Bounds DEF Container
    <2> QED BY <1>11, <2>1 DEF AddContainer, At
  <1>12. ASSUME NEW e \in queue, LoadUnparsable(e) PROVE TypeInv'
    BY <1>12 DEF LoadUnparsable, Visit
  <1>13. ASSUME NEW e \in queue, LoadInactive(e) PROVE TypeInv'
    BY <1>13, <1>11 DEF LoadInactive, Visit
  <1>14. ASSUME NEW e \in queue, LoadRefused(e) PROVE TypeInv'
    <2>1. cont' \in [Slots -> Container] /\ UsedHaveData'
      BY <1>14, <1>11 DEF LoadRefused
    <2>2. settings' \in Settings /\ allowed' \subseteq Data
      BY <1>14, AddInactive, AddBroken DEF LoadRefused, OnSD, Entry
    <2>3. warned' \subseteq Images
      BY <1>14 DEF LoadRefused, Entry, Data
    <2> QED BY <1>14, <2>1, <2>2, <2>3 DEF LoadRefused, Visit
  <1>15. ASSUME NEW e \in queue, LoadActive(e) PROVE TypeInv'
    <2>1. cont' \in [Slots -> Container] /\ UsedHaveData'
      BY <1>15, <1>11 DEF LoadActive
    <2>2. settings' \in Settings
      BY <1>15, RemoveBroken DEF LoadActive, OnSD
    <2> QED BY <1>15, <2>1, <2>2 DEF LoadActive, Visit
  <1>16. CASE LoadDone
    <2>1. \A s \in Slots : [cont[s] EXCEPT !.at = "new"] \in Container
                        /\ [cont[s] EXCEPT !.at = "new"].data = cont[s].data
      BY Moved
    <2>2. cont' \in [Slots -> Container] /\ UsedHaveData'
      BY <1>16, <2>1, FreeSlotType DEF LoadDone, FreeSlot
    <2>3. settings' \in Settings /\ file' \in SettingsFile
      BY <1>16, SavedSettings DEF LoadDone
    <2>4. queue' \subseteq Entry /\ plan' \subseteq Entry /\ phase' \in Phases
      BY <1>16 DEF LoadDone, BeginReload, Filtered
    <2>5. patches' \subseteq Slots
      BY <1>16 DEF LoadDone, PatchesAfterLoad, LinkedAt, At
    <2> QED BY <1>16, <2>2, <2>3, <2>4, <2>5 DEF LoadDone
  <1>17. CASE Fatal
    BY <1>17 DEF Fatal
  <1>18. CASE Relocate
    <2>1. \A s \in Slots : [cont[s] EXCEPT !.at = "loaded", !.initDone = FALSE] \in Container
                        /\ [cont[s] EXCEPT !.at = "loaded", !.initDone = FALSE].data = cont[s].data
      BY Joined
    <2>2. cont' \in [Slots -> Container] /\ UsedHaveData'
      BY <1>18, <2>1 DEF Relocate
    <2>3. phase' \in Phases /\ plan' \subseteq Entry /\ requests' \in 0..MaxRequests
      BY <1>18, Bounds DEF Relocate
    <2> QED BY <1>18, <2>2, <2>3 DEF Relocate
  <1>19. CASE OpenStorage
    <2>2. cont' \in [Slots -> Container] /\ UsedHaveData'
      BY <1>19, OpenStorageKeeps DEF OpenStorage
    <2> QED BY <1>19, <2>2 DEF OpenStorage
  <1>20. CASE InitHooks
    <2>1. ASSUME NEW s \in Slots
          PROVE  /\ [cont[s] EXCEPT !.life = AfterInit(cont[s].life)] \in Container
                 /\ [cont[s] EXCEPT !.life = AfterInit(cont[s].life)].data = cont[s].data
                 /\ [cont[s] EXCEPT !.life = AfterInit(cont[s].life)].at = cont[s].at
      BY Hooked DEF AfterInit
    <2>2. cont' \in [Slots -> Container] /\ UsedHaveData'
      BY <1>20, <2>1 DEF InitHooks
    <2> QED BY <1>20, <2>2 DEF InitHooks
  <1>21. CASE StartHooks
    <2>1. ASSUME NEW s \in Slots
          PROVE  LET c == [cont[s] EXCEPT !.initDone = TRUE,
                                          !.started = cont[s].linked]
                 IN  c \in Container /\ c.data = cont[s].data /\ c.at = cont[s].at
      BY Started
    <2>2. cont' \in [Slots -> Container] /\ UsedHaveData'
      BY <1>21, <2>1 DEF StartHooks
    <2> QED BY <1>21, <2>2 DEF StartHooks
  <1>22. CASE ApplicationEnds
    <2>1. \A s \in Slots : /\ [cont[s] EXCEPT !.started = FALSE] \in Container
                           /\ [cont[s] EXCEPT !.started = FALSE].data = cont[s].data
                           /\ [cont[s] EXCEPT !.started = FALSE].at = cont[s].at
      BY Ended
    <2>2. cont' \in [Slots -> Container] /\ UsedHaveData'
      BY <1>22, <2>1 DEF ApplicationEnds
    <2> QED BY <1>22, <2>2 DEF ApplicationEnds
  <1>23. CASE Reboot
    <2>1. cont' \in [Slots -> Container] /\ UsedHaveData'
      BY <1>23, FreeSlotType DEF Reboot, FreeSlot
    <2>2. NoSettings \in Settings
      BY DEF NoSettings, Settings
    <2>3. requests' \in 0..MaxRequests /\ safe' \in BOOLEAN
      BY <1>23, Bounds DEF Reboot
    <2> QED BY <1>23, <2>1, <2>2, <2>3 DEF Reboot
  <1>24. ASSUME NEW i \in Images, WUPSLoadPluginAsData(i) PROVE TypeInv'
    <2>1. \A h \in FreshHandles : [img |-> i, h |-> h] \in Data
      BY DEF FreshHandles, Data
    <2> QED BY <1>24, <2>1 DEF WUPSLoadPluginAsData, ApiUnchanged
  <1>18b. ASSUME NEW d \in data, WUPSDeletePluginData(d) PROVE TypeInv'
    BY <1>18b DEF WUPSDeletePluginData, ApiUnchanged
  <1>26. ASSUME NEW s \in Slots, WUPSGetPluginDataForContainerHandles(s) PROVE TypeInv'
    BY <1>26 DEF WUPSGetPluginDataForContainerHandles, ApiUnchanged, LinkedAt, At
  <1>27. ASSUME NEW ds \in SUBSET data, WUPSLoadAndLinkByDataHandle(ds) PROVE TypeInv'
    <2>1. next' \subseteq Entry /\ requests' \in 0..MaxRequests
      <3>1. requests' \in 0..MaxRequests
        BY <1>27 DEF WUPSLoadAndLinkByDataHandle
      <3>2. PICK track \in [ds -> BOOLEAN] :
              next' = next
                \cup {[data |-> d, link |-> TRUE, track |-> track[d],
                       call |-> requests', item |-> d.h] : d \in ds}
                \cup {[data |-> cont[s].data, link |-> FALSE, track |-> FALSE,
                       call |-> requests', item |-> s] : s \in InactiveLoaded}
        BY <1>27 DEF WUPSLoadAndLinkByDataHandle
      <3>3. ASSUME NEW d \in ds
            PROVE  [data |-> d, link |-> TRUE, track |-> track[d],
                    call |-> requests', item |-> d.h] \in Entry
        BY <3>1 DEF Entry, Data
      <3>4. ASSUME NEW s \in InactiveLoaded
            PROVE  [data |-> cont[s].data, link |-> FALSE, track |-> FALSE,
                    call |-> requests', item |-> s] \in Entry
        <4>1. s \in Slots /\ cont[s].data \in Data
          BY DEF InactiveLoaded, Loaded, At
        <4> QED BY <3>1, <4>1 DEF Entry
      <3> QED BY <3>1, <3>2, <3>3, <3>4
    <2>2. enabled' \subseteq Files \cap Buggy /\ safe' \in BOOLEAN
      BY <1>27 DEF WUPSLoadAndLinkByDataHandle
    <2> QED BY <1>27, <2>1, <2>2 DEF WUPSLoadAndLinkByDataHandle, ApiUnchanged
  <1>28. ASSUME NEW link \in [Loaded -> BOOLEAN], NEW track \in [Loaded -> BOOLEAN],
                ApplyMenu(link, track)
         PROVE  TypeInv'
    <2>1. next' \subseteq Entry /\ requests' \in 0..MaxRequests
      <3>1. ASSUME NEW s \in Loaded
            PROVE  [data |-> cont[s].data, link |-> link[s], track |-> track[s],
                    call |-> 1, item |-> s] \in Entry
        <4>1. s \in Slots /\ cont[s].data \in Data /\ 1 \in 0..MaxRequests
          BY DEF Loaded, At
        <4> QED BY <4>1 DEF Entry
      <3> QED BY <1>28, <3>1 DEF ApplyMenu
    <2> DEFINE off == {cont[s].data.img : s \in {t \in Loaded : ~link[t] /\ OnSD(cont[t].data)}}
    <2>2. off \in SUBSET Files
      BY DEF OnSD
    <2>3. settings' \in Settings /\ file' \in SettingsFile
      <3>1. PICK r \in SaveSettings(SetInactivePluginFilenames(settings, off), file) :
               settings' = r.mem /\ file' = r.file
        BY <1>28 DEF ApplyMenu
      <3>2. SetInactivePluginFilenames(settings, off) \in Settings
        BY <2>2, SetSettings
      <3> QED BY <3>1, <3>2, SavedSettings
    <2>4. enabled' \subseteq Files \cap Buggy /\ safe' \in BOOLEAN
      BY <1>28 DEF ApplyMenu
    <2> QED BY <1>28, <2>1, <2>3, <2>4 DEF ApplyMenu
  <1>29. \A s \in Loaded : cont[s].linked \in BOOLEAN /\ cont[s].track \in BOOLEAN
    BY DEF Loaded, At, Container
  <1>30. ASSUME NEW toggled, MenuSelectActive(toggled) PROVE TypeInv'
    <2>1. /\ [s \in Loaded |-> IF s \in toggled THEN ~cont[s].linked ELSE cont[s].linked]
                \in [Loaded -> BOOLEAN]
          /\ [s \in Loaded |-> cont[s].track] \in [Loaded -> BOOLEAN]
      BY <1>29
    <2> QED BY <1>28, <1>30, <2>1 DEF MenuSelectActive
  <1>31. ASSUME NEW toggled, MenuSelectTracked(toggled) PROVE TypeInv'
    <2>1. /\ [s \in Loaded |-> IF s \in toggled THEN ~cont[s].track ELSE cont[s].track]
                \in [Loaded -> BOOLEAN]
          /\ [s \in Loaded |-> cont[s].linked] \in [Loaded -> BOOLEAN]
      BY <1>29
    <2> QED BY <1>28, <1>31, <2>1 DEF MenuSelectTracked
  <1>32. CASE UNCHANGED vars
    BY <1>32 DEF vars
  <1> QED
    BY <1>1, <1>2, <1>3, <1>4, <1>5, <1>6, <1>7, <1>8, <1>9, <1>10, <1>12, <1>13, <1>14,
       <1>15, <1>16, <1>17, <1>18, <1>19, <1>20, <1>21, <1>22, <1>23, <1>24, <1>18b, <1>26,
       <1>27, <1>30, <1>31, <1>32
    DEF Next, StartCycle, LoaderStep, VisitOne, Api, Menu

\* Every variable keeps its type, whatever fails and whatever is requested.
THEOREM TypeCorrect == Spec => []TypeOK
  <1>1. TypeInv => TypeOK
    BY DEF TypeInv
  <1> QED BY <1>1, InitType, TypeStep, PTL DEF Spec

-----------------------------------------------------------------------------
(* Patches.  A container is patched at the end of loadPlugins and loses    *)
(* its patches before it is destroyed: the invariant is inductive as it is.*)

LEMMA PatchesStep == TypeInv /\ PatchesPointIntoPlugins /\ [Next]_vars => PatchesPointIntoPlugins'
  <1> SUFFICES ASSUME TypeInv, PatchesPointIntoPlugins, [Next]_vars
               PROVE  PatchesPointIntoPlugins'
    OBVIOUS
  <1> USE DEF TypeInv, TypeOK, PatchesPointIntoPlugins, requestVars, settingVars, history
  <1>1. ASSUME UNCHANGED <<cont, patches>> PROVE PatchesPointIntoPlugins'
    BY <1>1
  <1>2. ASSUME UNCHANGED patches,
               \A s \in Slots : cont[s].at # "free" =>
                   cont'[s].at # "free" /\ cont'[s].linked = cont[s].linked
        PROVE  PatchesPointIntoPlugins'
    BY <1>2
  <1>3. CASE Initialize \/ InitializeSafeMode \/ StartCycle \/ Fatal
    BY <1>3, <1>1 DEF Initialize, InitializeSafeMode, StartCycle, StartFromDirectory,
                      StartWithReload, StartUnchanged, Fatal
  <1>4. ASSUME NEW e \in queue, Match(e) PROVE PatchesPointIntoPlugins'
    BY <1>4, <1>2 DEF Match, Loaded, At, Container
  <1>5. CASE MatchDone
    BY <1>5, <1>2 DEF MatchDone, Container
  <1>6. CASE DeinitPlugins
    BY <1>6, <1>2 DEF DeinitPlugins, DeinitHooksFor, Container
  <1>7. CASE RestoreFunctionPatches
    BY <1>7 DEF RestoreFunctionPatches, Container
  <1>8. CASE DestroyDoomed
    BY <1>8 DEF DestroyDoomed, Destroyed, At
  <1>9. ASSUME NEW e \in queue, NEW linked \in BOOLEAN, AddContainer(e, linked), UNCHANGED patches
        PROVE  PatchesPointIntoPlugins'
    BY <1>9 DEF AddContainer, At
  <1>10. ASSUME NEW e \in queue,
                LoadUnparsable(e) \/ LoadInactive(e) \/ LoadRefused(e) \/ LoadActive(e)
         PROVE  PatchesPointIntoPlugins'
    BY <1>10, <1>1, <1>9 DEF LoadUnparsable, LoadInactive, LoadRefused, LoadActive, Visit
  <1>11. CASE LoadDone
    BY <1>11 DEF LoadDone, PatchesAfterLoad, LinkedAt, At, Container
  <1>12. CASE Relocate
    <2>1. \A s \in Slots : cont[s].at # "free" =>
             cont'[s].at # "free" /\ cont'[s].linked = cont[s].linked
      BY <1>12, RelocateKeeps
    <2> QED BY <1>12, <2>1, <1>2 DEF Relocate
  <1>13. CASE OpenStorage
    BY <1>13, <1>2, OpenStorageKeeps DEF OpenStorage
  <1>14. CASE InitHooks
    BY <1>14, <1>2 DEF InitHooks, Container
  <1>15. CASE StartHooks
    <2>1. \A s \in Slots : cont[s].at # "free" =>
             cont'[s].at # "free" /\ cont'[s].linked = cont[s].linked
      BY <1>15, StartHooksKeep
    <2> QED BY <1>15, <2>1, <1>2 DEF StartHooks
  <1>16. CASE ApplicationEnds
    BY <1>16, <1>2 DEF ApplicationEnds, Container
  <1>17. CASE Reboot
    BY <1>17 DEF Reboot
  <1>18. CASE Api \/ Menu
    BY <1>18, <1>1 DEF Api, Menu, ApiUnchanged, WUPSLoadPluginAsData, WUPSDeletePluginData,
       WUPSGetPluginDataForContainerHandles, WUPSLoadAndLinkByDataHandle, MenuSelectActive,
       MenuSelectTracked, ApplyMenu
  <1>19. CASE UNCHANGED vars
    BY <1>19, <1>1 DEF vars
  <1> QED
    BY <1>3, <1>4, <1>5, <1>6, <1>7, <1>8, <1>10, <1>11, <1>12, <1>13, <1>14, <1>15, <1>16,
       <1>17, <1>18, <1>19 DEF Next, LoaderStep, VisitOne

\* No patch ever points into a container that is gone or was not linked.
THEOREM PatchesSafe == Spec => []PatchesPointIntoPlugins
  <1>1. Init => PatchesPointIntoPlugins
    BY DEF Init, Blank, PatchesPointIntoPlugins
  <1> QED BY <1>1, InitType, TypeStep, PatchesStep, PTL DEF Spec

-----------------------------------------------------------------------------
(* Hooks.  Which hooks a container has seen follows from the list it is in,*)
(* its initDone flag and the phase of the loader.                          *)

UnusedIsUnhooked ==
    \A s \in Slots : cont[s].at \in {"free", "fresh", "new"} => cont[s].life = "none"

StubIsUnhooked == \A s \in Slots : ~cont[s].linked => cont[s].life = "none"

ListsFollowPhase ==
    \A s \in Slots :
        /\ cont[s].at = "kept" => phase = "match"
        /\ cont[s].at = "doomed" => phase \in {"deinit", "restore", "destroy"}

InitDoneIsLate ==
    \A s \in Slots : cont[s].at \in {"loaded", "kept", "doomed"} =>
        cont[s].initDone \/ phase \in {"storage", "inithooks", "starthooks", "halted"}

LoadedIsInited ==
    \A s \in Slots : cont[s].at \in {"loaded", "kept"} /\ cont[s].linked =>
        cont[s].life = IF cont[s].initDone \/ phase = "starthooks" THEN "inited" ELSE "none"

DoomedIsDeinited ==
    \A s \in Slots : cont[s].at = "doomed" /\ cont[s].linked =>
        cont[s].life = IF phase = "deinit" THEN "inited" ELSE "deinited"

DoomedIsRestored ==
    \A s \in Slots : cont[s].at = "doomed" /\ phase = "destroy" => s \notin patches

LifeInv ==
    /\ UnusedIsUnhooked /\ StubIsUnhooked /\ ListsFollowPhase /\ InitDoneIsLate
    /\ LoadedIsInited /\ DoomedIsDeinited /\ DoomedIsRestored

LEMMA LifeInit == Init => LifeInv
  BY DEF Init, Blank, FreeSlot, LifeInv, UnusedIsUnhooked, StubIsUnhooked, ListsFollowPhase,
         InitDoneIsLate, LoadedIsInited, DoomedIsDeinited, DoomedIsRestored

LEMMA LifeStep ==
    TypeInv /\ PatchesPointIntoPlugins /\ LifeInv /\ [Next]_vars => LifeInv'
  <1> SUFFICES ASSUME TypeInv, PatchesPointIntoPlugins, LifeInv, [Next]_vars
               PROVE  LifeInv'
    OBVIOUS
  <1> USE DEF TypeInv, TypeOK, Container, requestVars, settingVars, history,
              LifeInv, UnusedIsUnhooked, StubIsUnhooked, ListsFollowPhase,
              InitDoneIsLate, LoadedIsInited, DoomedIsDeinited, DoomedIsRestored
  <1>1. ASSUME UNCHANGED <<phase, cont, patches>> PROVE LifeInv'
    BY <1>1
  <1>2. CASE Initialize \/ InitializeSafeMode
    BY <1>2 DEF Initialize, InitializeSafeMode
  <1>3. CASE StartFromDirectory
    BY <1>3 DEF StartFromDirectory
  <1>4. CASE StartWithReload
    BY <1>4 DEF StartWithReload, BeginReload
  <1>5. CASE StartUnchanged
    BY <1>5 DEF StartUnchanged
  <1>6. ASSUME NEW e \in queue, Match(e) PROVE LifeInv'
    BY <1>6 DEF Match, Loaded, At
  <1>7. CASE MatchDone
    BY <1>7 DEF MatchDone
  <1>8. CASE DeinitPlugins
    BY <1>8 DEF DeinitPlugins, DeinitHooksFor, AfterDeinit, LinkedAt, At
  <1>9. CASE RestoreFunctionPatches
    BY <1>9 DEF RestoreFunctionPatches, LinkedAt, At, PatchesPointIntoPlugins
  <1>10. CASE DestroyDoomed
    BY <1>10 DEF DestroyDoomed, Destroyed, At, FreeSlot
  <1>11. ASSUME NEW e \in queue, NEW linked \in BOOLEAN, AddContainer(e, linked),
                UNCHANGED <<phase, patches>>
         PROVE  LifeInv'
    <2>1. NewContainer(e, linked).at = "fresh" /\ NewContainer(e, linked).life = "none"
      BY DEF NewContainer
    <2> QED BY <1>11, <2>1 DEF AddContainer, At
  <1>12. ASSUME NEW e \in queue,
                LoadUnparsable(e) \/ LoadInactive(e) \/ LoadRefused(e) \/ LoadActive(e)
         PROVE  LifeInv'
    BY <1>12, <1>1, <1>11 DEF LoadUnparsable, LoadInactive, LoadRefused, LoadActive, Visit
  <1>13. CASE LoadDone
    BY <1>13 DEF LoadDone, BeginReload, FreeSlot
  <1>14. CASE Fatal
    BY <1>14 DEF Fatal
  <1>15. CASE Relocate
    <2>1. \A s \in Slots :
            /\ cont[s].at = "new" => cont'[s].at = "loaded" /\ cont'[s].initDone = FALSE
            /\ cont[s].at # "new" => cont'[s] = cont[s]
            /\ cont'[s].linked = cont[s].linked /\ cont'[s].life = cont[s].life
      BY <1>15, RelocateKeeps
    <2>2. \/ phase' = "storage"
          \/ phase' = "running" /\ \A s \in Slots : cont[s].at \notin {"new", "loaded"}
      BY <1>15 DEF Relocate, Loaded, At
    <2>3. phase = "relocate" /\ UNCHANGED patches
      BY <1>15 DEF Relocate
    <2> QED BY <2>1, <2>2, <2>3
  <1>16. CASE OpenStorage
    BY <1>16, OpenStorageKeeps, OpenStorageFrame
  <1>17. CASE InitHooks
    BY <1>17 DEF InitHooks, AfterInit, LinkedAt, At
  <1>18. CASE StartHooks
    <2>1. \A s \in Slots :
            /\ cont[s].at = "loaded" => cont'[s].initDone = TRUE
            /\ cont[s].at # "loaded" => cont'[s] = cont[s]
            /\ cont'[s].at = cont[s].at
            /\ cont'[s].linked = cont[s].linked /\ cont'[s].life = cont[s].life
      BY <1>18, StartHooksKeep
    <2>2. phase = "starthooks" /\ phase' = "running" /\ UNCHANGED patches
      BY <1>18 DEF StartHooks
    <2> QED BY <2>1, <2>2
  <1>19. CASE ApplicationEnds
    BY <1>19 DEF ApplicationEnds
  <1>20. CASE Reboot
    BY <1>20 DEF Reboot, FreeSlot
  <1>21. CASE Api \/ Menu
    BY <1>21, <1>1 DEF Api, Menu, ApiUnchanged, WUPSLoadPluginAsData, WUPSDeletePluginData,
       WUPSGetPluginDataForContainerHandles, WUPSLoadAndLinkByDataHandle, MenuSelectActive,
       MenuSelectTracked, ApplyMenu
  <1>22. CASE UNCHANGED vars
    BY <1>22, <1>1 DEF vars
  <1> QED
    BY <1>2, <1>3, <1>4, <1>5, <1>6, <1>7, <1>8, <1>9, <1>10, <1>12, <1>13, <1>14, <1>15,
       <1>16, <1>17, <1>18, <1>19, <1>20, <1>21, <1>22
    DEF Next, StartCycle, LoaderStep, VisitOne

\* INIT_PLUGIN runs once per container, DEINIT_PLUGIN once and after it.
THEOREM HooksSafe == Spec => []HooksInOrder
  <1>1. TypeInv /\ LifeInv => HooksInOrder
    BY DEF TypeInv, TypeOK, Container, HooksInOrder, LifeInv, UnusedIsUnhooked, StubIsUnhooked,
           LoadedIsInited, DoomedIsDeinited
  <1>2. Init => PatchesPointIntoPlugins
    BY DEF Init, Blank, PatchesPointIntoPlugins
  <1> QED BY <1>1, <1>2, InitType, TypeStep, PatchesStep, LifeInit, LifeStep, PTL DEF Spec

\* What CleanDestruction says of one step.
DestroysCleanly ==
    \A s \in Slots :
        cont[s].life # "none" /\ cont'[s].at = "free" /\ phase' # "boot" =>
            cont[s].life = "deinited" /\ s \notin patches

LEMMA DestructionStep ==
    TypeInv /\ LifeInv /\ [Next]_vars => DestroysCleanly
  <1> SUFFICES ASSUME TypeInv, LifeInv, [Next]_vars PROVE DestroysCleanly
    OBVIOUS
  <1> USE DEF TypeInv, TypeOK, Container, requestVars, settingVars, history
  <1>1. ASSUME \A s \in Slots : cont'[s].at = "free" => cont[s].at = "free"
        PROVE  DestroysCleanly
    BY <1>1 DEF DestroysCleanly, LifeInv, UnusedIsUnhooked
  <1>2. CASE UNCHANGED cont
    BY <1>1, <1>2
  <1>3. CASE Initialize \/ InitializeSafeMode \/ StartCycle \/ Fatal \/ Api \/ Menu \/ UNCHANGED vars
    BY <1>2, <1>3 DEF Initialize, InitializeSafeMode, StartCycle, StartFromDirectory,
       StartWithReload, StartUnchanged, Fatal, Api, Menu, ApiUnchanged, WUPSLoadPluginAsData,
       WUPSDeletePluginData, WUPSGetPluginDataForContainerHandles,
       WUPSLoadAndLinkByDataHandle, MenuSelectActive, MenuSelectTracked, ApplyMenu, vars
  <1>4. ASSUME NEW e \in queue, Match(e) PROVE DestroysCleanly
    BY <1>4, <1>1 DEF Match, Loaded, At
  <1>5. CASE MatchDone
    BY <1>5, <1>1 DEF MatchDone
  <1>6. CASE DeinitPlugins \/ RestoreFunctionPatches
    BY <1>6, <1>1 DEF DeinitPlugins, DeinitHooksFor, RestoreFunctionPatches
  <1>7. CASE DestroyDoomed
    <2>1. ASSUME NEW s \in Slots, cont[s].life # "none", cont'[s].at = "free"
          PROVE  cont[s].life = "deinited" /\ s \notin patches
      <3>1. cont[s].at = "doomed"
        BY <1>7, <2>1 DEF DestroyDoomed, Destroyed, At, LifeInv, UnusedIsUnhooked
      <3>2. cont[s].linked
        BY <2>1 DEF LifeInv, StubIsUnhooked
      <3> QED BY <1>7, <3>1, <3>2 DEF DestroyDoomed, LifeInv, DoomedIsDeinited, DoomedIsRestored
    <2> QED BY <2>1 DEF DestroysCleanly
  <1>8. ASSUME NEW e \in queue,
               LoadUnparsable(e) \/ LoadInactive(e) \/ LoadRefused(e) \/ LoadActive(e)
        PROVE  DestroysCleanly
    <2>1. ASSUME NEW linked, AddContainer(e, linked) PROVE DestroysCleanly
      BY <1>1, <2>1 DEF AddContainer, NewContainer
    <2> QED BY <1>2, <1>8, <2>1 DEF LoadUnparsable, LoadInactive, LoadRefused, LoadActive, Visit
  <1>9. CASE LoadDone
    BY <1>9 DEF LoadDone, DestroysCleanly, LifeInv, UnusedIsUnhooked
  <1>10. CASE Relocate
    BY <1>10, <1>1 DEF Relocate
  <1>11. CASE OpenStorage
    <2>1. \A s \in Slots : cont'[s].at = cont[s].at
      BY <1>11, OpenStorageKeeps DEF LifeInv
    <2> QED BY <1>1, <2>1 DEF DestroysCleanly
  <1>11b. CASE InitHooks \/ ApplicationEnds
    BY <1>11b, <1>1 DEF InitHooks, ApplicationEnds
  <1>12. CASE Reboot
    BY <1>12 DEF Reboot, DestroysCleanly
  <1>13. CASE StartHooks
    <2>1. \A s \in Slots : cont'[s].at = cont[s].at
      BY <1>13, StartHooksKeep
    <2> QED BY <1>1, <2>1
  <1> QED
    BY <1>3, <1>4, <1>5, <1>6, <1>7, <1>8, <1>9, <1>10, <1>11, <1>11b, <1>12, <1>13
    DEF Next, LoaderStep, VisitOne

\* No container is destroyed between INIT_PLUGIN and DEINIT_PLUGIN, or patched.
THEOREM DestructionSafe == Spec => CleanDestruction
  <1>1. Init => PatchesPointIntoPlugins
    BY DEF Init, Blank, PatchesPointIntoPlugins
  <1>2. DestroysCleanly =>
          [\A s \in Slots :
             cont[s].life # "none" /\ cont'[s].at = "free" /\ phase' # "boot" =>
                 cont[s].life = "deinited" /\ s \notin patches]_vars
    BY DEF DestroysCleanly
  <1> QED
    BY <1>1, <1>2, InitType, TypeStep, PatchesStep, LifeInit, LifeStep, DestructionStep, PTL
    DEF Spec, CleanDestruction

-----------------------------------------------------------------------------
(* The reent bug.  The verdict on a file survives in the list of broken    *)
(* files, in memory and on the card, the one on other images in their data.*)

VerdictsAreWarnings ==
    /\ settings.broken \subseteq warned
    /\ file.broken \subseteq warned
    /\ \A d \in allowed : d.img \in warned

WarnInv == VerdictsAreWarnings /\ WarnedBeforeLinked

LEMMA WarnStep == TypeInv /\ WarnInv /\ [Next]_vars => WarnInv'
  <1> SUFFICES ASSUME TypeInv, WarnInv, [Next]_vars PROVE WarnInv'
    OBVIOUS
  <1> USE DEF TypeInv, TypeOK, requestVars, settingVars, history
  <1>1. ASSUME UNCHANGED warned,
               settings'.broken \subseteq settings.broken \cup file.broken,
               file'.broken \subseteq settings.broken \cup file.broken,
               allowed' \subseteq allowed
        PROVE  VerdictsAreWarnings'
    BY <1>1 DEF WarnInv, VerdictsAreWarnings
  <1>2. ASSUME UNCHANGED warned,
               \A s \in Slots : cont'[s].at # "free" =>
                   cont[s].at # "free" /\ cont'[s].linked = cont[s].linked
                                       /\ cont'[s].data = cont[s].data
        PROVE  WarnedBeforeLinked'
    BY <1>2 DEF WarnInv, WarnedBeforeLinked, At
  <1>3. CASE UNCHANGED <<cont, allowed, settings, file, warned>>
    BY <1>3, <1>1, <1>2 DEF WarnInv
  <1>4. CASE Initialize \/ StartWithReload \/ StartUnchanged \/ Fatal \/ UNCHANGED vars
    BY <1>3, <1>4 DEF Initialize, StartWithReload, StartUnchanged, Fatal, vars
  <1>5. CASE InitializeSafeMode
    <2>1. PICK mem \in LoadSettings(settings, file) :
            \E r \in SaveSettings(SetInactivePluginFilenames(
                        mem, mem.inactive \cup (Files \ BaseFiles)), file) :
                settings' = r.mem /\ file' = r.file
      BY <1>5 DEF InitializeSafeMode
    <2>2. mem \in Settings /\ (mem = settings \/ mem = FromFile(file))
      BY LoadedSettings
    <2> DEFINE new == SetInactivePluginFilenames(mem, mem.inactive \cup (Files \ BaseFiles))
    <2>3. new \in Settings /\ new.broken = mem.broken
      BY <2>2, SettingsFields, SetSettings
    <2>4. settings'.broken = mem.broken /\ file'.broken \subseteq mem.broken \cup file.broken
      BY <2>1, <2>3, SavedSettings DEF ToFile, NoFile, GarbledFile
    <2>5. mem.broken \subseteq settings.broken \cup file.broken
      BY <2>2 DEF FromFile
    <2> QED BY <1>5, <2>4, <2>5, <1>1, <1>2 DEF InitializeSafeMode, WarnInv
  <1>6. CASE StartFromDirectory
    <2>1. PICK mem \in LoadSettings(settings, file) : settings' \in LoadSettings(mem, file)
      BY <1>6 DEF StartFromDirectory
    <2>2. mem \in Settings /\ (mem = settings \/ mem = FromFile(file))
      BY LoadedSettings
    <2>3. settings' = mem \/ settings' = FromFile(file)
      BY <2>1, <2>2, LoadedSettings
    <2>4. settings'.broken \subseteq settings.broken \cup file.broken
      BY <2>2, <2>3 DEF FromFile
    <2>5. allowed' \subseteq allowed
      BY <1>6 DEF StartFromDirectory
    <2> QED BY <1>6, <2>4, <2>5, <1>1, <1>2 DEF StartFromDirectory, WarnInv
  <1>7. ASSUME NEW e \in queue, Match(e) PROVE WarnInv'
    BY <1>7, <1>1, <1>2 DEF Match, Loaded, At, Container, WarnInv
  <1>8. CASE MatchDone
    BY <1>8, <1>1, <1>2 DEF MatchDone, Container, WarnInv
  <1>9. CASE DeinitPlugins \/ RestoreFunctionPatches
    BY <1>9, <1>1, <1>2 DEF DeinitPlugins, DeinitHooksFor, RestoreFunctionPatches, Container, WarnInv
  <1>10. CASE DestroyDoomed
    <2>1. settings' = settings \/ settings' = FromFile(file)
      BY <1>10, LoadedSettings DEF DestroyDoomed
    <2>2. settings'.broken \subseteq settings.broken \cup file.broken
      BY <2>1 DEF FromFile
    <2> QED BY <1>10, <2>2, <1>1, <1>2 DEF DestroyDoomed, Destroyed, FreeSlot, WarnInv
  <1>11. ASSUME NEW e \in queue, NEW linked \in BOOLEAN, AddContainer(e, linked),
                warned \subseteq warned',
                linked /\ e.data.img \in Buggy => e.data.img \in warned
         PROVE  WarnedBeforeLinked'
    <2>1. NewContainer(e, linked).linked = linked /\ NewContainer(e, linked).data = e.data
      BY DEF NewContainer
    <2> QED BY <1>11, <2>1 DEF AddContainer, At, WarnInv, WarnedBeforeLinked
  <1>12. ASSUME NEW e \in queue, LoadUnparsable(e) PROVE WarnInv'
    BY <1>12, <1>3 DEF LoadUnparsable, Visit
  <1>13. ASSUME NEW e \in queue, LoadInactive(e) PROVE WarnInv'
    BY <1>13, <1>1, <1>11 DEF LoadInactive, Visit, WarnInv
  <1>14. ASSUME NEW e \in queue, LoadRefused(e) PROVE WarnInv'
    <2>1. WarnedBeforeLinked'
      BY <1>14, <1>11 DEF LoadRefused
    <2>2. settings'.broken \subseteq settings.broken \cup {e.data.img}
      BY <1>14, AddInactive, AddBroken DEF LoadRefused, OnSD
    <2>3. allowed' \subseteq allowed \cup {e.data}
      BY <1>14 DEF LoadRefused
    <2>4. warned' = warned \cup {e.data.img} /\ file' = file
      BY <1>14 DEF LoadRefused, Visit
    <2> QED BY <2>1, <2>2, <2>3, <2>4 DEF WarnInv, VerdictsAreWarnings
  <1>15. ASSUME NEW e \in queue, LoadActive(e) PROVE WarnInv'
    <2>1. e.data.img \in Buggy => e.data.img \in warned
      BY <1>15 DEF LoadActive, Refused, WarningShown, WarnInv, VerdictsAreWarnings
    <2>2. WarnedBeforeLinked'
      <3>1. CASE UNCHANGED cont
        BY <1>15, <3>1, <1>2 DEF LoadActive
      <3>2. CASE AddContainer(e, TRUE)
        BY <1>15, <2>1, <3>2, <1>11 DEF LoadActive
      <3> QED BY <1>15, <3>1, <3>2 DEF LoadActive
    <2>3. settings'.broken \subseteq settings.broken
      BY <1>15, RemoveBroken DEF LoadActive, OnSD
    <2> QED BY <1>15, <2>2, <2>3, <1>1 DEF LoadActive, Visit, WarnInv
  <1>16. CASE LoadDone
    <2>1. settings'.broken = settings.broken /\ file'.broken \subseteq settings.broken \cup file.broken
      BY <1>16, SavedSettings DEF LoadDone, ToFile, NoFile, GarbledFile
    <2> QED BY <1>16, <2>1, <1>1, <1>2 DEF LoadDone, FreeSlot, Container, WarnInv
  <1>17. CASE Relocate
    BY <1>17, <1>1, <1>2 DEF Relocate, Container, WarnInv
  <1>18. CASE OpenStorage
    <2>1. UNCHANGED <<settings, file, allowed, warned>>
      BY <1>18, OpenStorageFrame
    <2>2. \A s \in Slots : /\ cont'[s].at = cont[s].at /\ cont'[s].data = cont[s].data
                          /\ cont'[s].linked = cont[s].linked
      BY <1>18, OpenStorageKeeps DEF WarnInv
    <2> QED BY <2>1, <2>2, <1>1, <1>2 DEF WarnInv
  <1>18b. CASE InitHooks
    BY <1>18b, <1>1, <1>2 DEF InitHooks, Container, WarnInv
  <1>19. CASE ApplicationEnds
    BY <1>19, <1>1, <1>2 DEF ApplicationEnds, Container, WarnInv
  <1>24. CASE StartHooks
    <2>1. \A s \in Slots : /\ cont'[s].at = cont[s].at /\ cont'[s].linked = cont[s].linked
                          /\ cont'[s].data = cont[s].data
      BY <1>24, StartHooksKeep
    <2>2. UNCHANGED <<allowed, settings, file, warned>>
      BY <1>24 DEF StartHooks
    <2> QED BY <2>1, <2>2, <1>1, <1>2 DEF WarnInv
  <1>20. CASE Reboot
    BY <1>20 DEF Reboot, FreeSlot, NoSettings, WarnInv, VerdictsAreWarnings, WarnedBeforeLinked
  <1>21. CASE Api
    BY <1>21, <1>1, <1>2 DEF Api, ApiUnchanged, WUPSLoadPluginAsData, WUPSDeletePluginData,
       WUPSGetPluginDataForContainerHandles, WUPSLoadAndLinkByDataHandle, WarnInv
  <1>22. ASSUME NEW link, NEW track, ApplyMenu(link, track) PROVE WarnInv'
    <2> DEFINE off == {cont[s].data.img : s \in {t \in Loaded : ~link[t] /\ OnSD(cont[t].data)}}
    <2>1. off \in SUBSET Files
      BY DEF OnSD
    <2>2. PICK r \in SaveSettings(SetInactivePluginFilenames(settings, off), file) :
             settings' = r.mem /\ file' = r.file
      BY <1>22 DEF ApplyMenu
    <2>3. /\ SetInactivePluginFilenames(settings, off) \in Settings
          /\ SetInactivePluginFilenames(settings, off).broken = settings.broken
      BY <2>1, SetSettings
    <2>4. settings'.broken = settings.broken /\ file'.broken \subseteq settings.broken \cup file.broken
      BY <2>2, <2>3, SavedSettings DEF ToFile, NoFile, GarbledFile
    <2> QED BY <1>22, <2>4, <1>1, <1>2 DEF ApplyMenu, WarnInv
  <1>23. CASE Menu
    BY <1>22, <1>23 DEF Menu, MenuSelectActive, MenuSelectTracked
  <1> QED
    BY <1>4, <1>5, <1>6, <1>7, <1>8, <1>9, <1>10, <1>12, <1>13, <1>14, <1>15, <1>16, <1>17,
       <1>18, <1>18b, <1>19, <1>20, <1>21, <1>23, <1>24
    DEF Next, StartCycle, LoaderStep, VisitOne

\* No image with the reent bug is linked before the user was warned about it.
THEOREM WarningsSafe == Spec => []WarnedBeforeLinked
  <1>1. Init => WarnInv
    BY DEF Init, Blank, FreeSlot, NoSettings, NoFile, WarnInv, VerdictsAreWarnings, WarnedBeforeLinked
  <1>2. WarnInv => WarnedBeforeLinked
    BY DEF WarnInv
  <1> QED BY <1>1, <1>2, InitType, TypeStep, WarnStep, PTL DEF Spec

-----------------------------------------------------------------------------
(* What is in memory but not on the card.  A save that fails leaves the     *)
(* dirty flag up, a load takes it down together with the change: either    *)
(* keeps the two in step.  That nothing is left to be saved when they are   *)
(* read again is the second part, of a card that takes what is written.    *)

\* Settings that are not dirty are those of the file, or were never set.
CleanMeansSaved ==
    \/ settings.dirty
    \/ settings = NoSettings
    \/ file.valid /\ settings = FromFile(file)

\* CleanMeansSaved of a memory and a file that are not the current ones.
InStep(mem, f) == mem.dirty \/ mem = NoSettings \/ (f.valid /\ mem = FromFile(f))

LEMMA LoadInStep ==
    ASSUME NEW mem \in Settings, NEW f \in SettingsFile, InStep(mem, f),
           NEW r \in LoadSettings(mem, f)
    PROVE  InStep(r, f)
  BY LoadedSettings DEF InStep

LEMMA SaveInStep ==
    ASSUME NEW mem \in Settings, NEW f \in SettingsFile, InStep(mem, f),
           NEW r \in SaveSettings(mem, f)
    PROVE  InStep(r.mem, r.file)
  BY SavedSettings DEF InStep

LEMMA SavedStep == TypeInv /\ CleanMeansSaved /\ [Next]_vars => CleanMeansSaved'
  <1> SUFFICES ASSUME TypeInv, CleanMeansSaved, [Next]_vars PROVE CleanMeansSaved'
    OBVIOUS
  <1> USE DEF requestVars, settingVars, history
  <1>1. settings \in Settings /\ file \in SettingsFile /\ InStep(settings, file)
    BY DEF TypeInv, TypeOK, CleanMeansSaved, InStep
  <1>2. ASSUME InStep(settings', file') PROVE CleanMeansSaved'
    BY <1>2 DEF CleanMeansSaved, InStep
  <1>3. CASE UNCHANGED settingVars
    BY <1>1, <1>2, <1>3
  <1>4. CASE \/ Initialize \/ StartWithReload \/ StartUnchanged \/ MatchDone \/ DeinitPlugins
             \/ RestoreFunctionPatches \/ Fatal \/ Relocate \/ OpenStorage \/ InitHooks
             \/ StartHooks \/ ApplicationEnds \/ Api \/ UNCHANGED vars
    BY <1>3, <1>4 DEF Initialize, StartWithReload, StartUnchanged, MatchDone, DeinitPlugins,
       RestoreFunctionPatches, Fatal, Relocate, OpenStorage, InitHooks, StartHooks,
       ApplicationEnds, Api, ApiUnchanged, WUPSLoadPluginAsData, WUPSDeletePluginData,
       WUPSGetPluginDataForContainerHandles, WUPSLoadAndLinkByDataHandle, vars
  <1>5. CASE InitializeSafeMode
    <2>1. PICK mem \in LoadSettings(settings, file) :
            \E r \in SaveSettings(SetInactivePluginFilenames(
                        mem, mem.inactive \cup (Files \ BaseFiles)), file) :
                settings' = r.mem /\ file' = r.file
      BY <1>5 DEF InitializeSafeMode
    <2>2. mem \in Settings /\ InStep(mem, file)
      BY <1>1, LoadedSettings, LoadInStep
    <2> DEFINE new == SetInactivePluginFilenames(mem, mem.inactive \cup (Files \ BaseFiles))
    <2>3. new \in Settings /\ (new.dirty \/ new = mem)
      BY <2>2, SettingsFields, SetSettings
    <2>4. InStep(new, file)
      BY <2>2, <2>3 DEF InStep
    <2> QED BY <1>1, <1>2, <2>1, <2>3, <2>4, SaveInStep
  <1>6. CASE StartFromDirectory
    <2>1. PICK mem \in LoadSettings(settings, file) : settings' \in LoadSettings(mem, file)
      BY <1>6 DEF StartFromDirectory
    <2>2. mem \in Settings /\ InStep(mem, file)
      BY <1>1, LoadedSettings, LoadInStep
    <2>3. InStep(settings', file)
      BY <1>1, <2>1, <2>2, LoadInStep
    <2> QED BY <1>2, <1>6, <2>3 DEF StartFromDirectory
  <1>7. ASSUME NEW e \in queue, Match(e) PROVE CleanMeansSaved'
    BY <1>3, <1>7 DEF Match
  <1>8. CASE DestroyDoomed
    BY <1>1, <1>2, <1>8, LoadInStep DEF DestroyDoomed
  <1>9. ASSUME NEW e \in queue, LoadUnparsable(e) \/ LoadInactive(e) PROVE CleanMeansSaved'
    BY <1>3, <1>9 DEF LoadUnparsable, LoadInactive, Visit
  <1>10. ASSUME NEW e \in queue, LoadRefused(e) PROVE CleanMeansSaved'
    <2>1. CASE UNCHANGED settings
      BY <1>3, <1>10, <2>1 DEF LoadRefused, Visit
    <2>2. CASE OnSD(e.data)
      <3> DEFINE mem == AddBrokenReentPluginFilename(settings, e.data.img)
      <3>1. mem \in Settings /\ (mem.dirty \/ mem = settings)
        BY <1>1, <2>2, AddBroken DEF OnSD
      <3>2. mem.dirty => AddInactivePluginFilename(mem, e.data.img).dirty
        BY DEF AddInactivePluginFilename
      <3>3. InStep(AddInactivePluginFilename(mem, e.data.img), file)
        BY <1>1, <2>2, <3>1, <3>2, AddInactive DEF OnSD, InStep
      <3> QED BY <1>2, <1>10, <2>2, <3>3 DEF LoadRefused, Visit
    <2> QED BY <1>10, <2>1, <2>2 DEF LoadRefused
  <1>11. ASSUME NEW e \in queue, LoadActive(e) PROVE CleanMeansSaved'
    <2>1. settings' = settings \/ settings'.dirty
      BY <1>1, <1>11, RemoveBroken DEF LoadActive, OnSD
    <2> QED BY <1>1, <1>2, <1>11, <2>1 DEF LoadActive, Visit, InStep
  <1>12. CASE LoadDone
    BY <1>1, <1>2, <1>12, SaveInStep DEF LoadDone
  <1>13. CASE Reboot
    BY <1>13 DEF Reboot, CleanMeansSaved
  <1>14. ASSUME NEW link, NEW track, ApplyMenu(link, track) PROVE CleanMeansSaved'
    <2> DEFINE off == {cont[s].data.img : s \in {t \in Loaded : ~link[t] /\ OnSD(cont[t].data)}}
    <2>1. PICK r \in SaveSettings(SetInactivePluginFilenames(settings, off), file) :
             settings' = r.mem /\ file' = r.file
      BY <1>14 DEF ApplyMenu
    <2>2. off \in SUBSET Files
      BY DEF OnSD
    <2>3. /\ SetInactivePluginFilenames(settings, off) \in Settings
          /\ InStep(SetInactivePluginFilenames(settings, off), file)
      BY <1>1, <2>2, SetSettings DEF InStep
    <2> QED BY <1>1, <1>2, <2>1, <2>3, SaveInStep
  <1>15. CASE Menu
    BY <1>14, <1>15 DEF Menu, MenuSelectActive, MenuSelectTracked
  <1> QED
    BY <1>4, <1>5, <1>6, <1>7, <1>8, <1>9, <1>10, <1>11, <1>12, <1>13, <1>15
    DEF Next, StartCycle, LoaderStep, VisitOne

CardWrites == IoFaults \cap {"refused", "torn"} = {}

DirtyWhileLoading == settings.dirty => phase \in {"loaddir", "load", "halted"}

LEMMA SaveCleans ==
    ASSUME CardWrites, NEW mem \in Settings, NEW f \in SettingsFile,
           NEW r \in SaveSettings(mem, f)
    PROVE  ~r.mem.dirty
  <1>1. "refused" \notin IoFaults /\ "torn" \notin IoFaults
    BY DEF CardWrites
  <1> QED BY <1>1 DEF SaveSettings, Clean, Settings

LEMMA LoadCleans ==
    ASSUME NEW mem \in Settings, NEW f \in SettingsFile, NEW r \in LoadSettings(mem, f)
    PROVE  r.dirty => mem.dirty
  BY DEF LoadSettings, FromFile

LEMMA DirtyStep == CardWrites /\ TypeInv /\ DirtyWhileLoading /\ [Next]_vars => DirtyWhileLoading'
  <1> SUFFICES ASSUME CardWrites, TypeInv, DirtyWhileLoading, [Next]_vars
               PROVE  DirtyWhileLoading'
    OBVIOUS
  <1> USE DEF requestVars, settingVars, history, DirtyWhileLoading
  <1>1. settings \in Settings /\ file \in SettingsFile
    BY DEF TypeInv, TypeOK
  <1>2. CASE \/ Initialize \/ StartWithReload \/ StartUnchanged \/ MatchDone \/ DeinitPlugins
             \/ RestoreFunctionPatches \/ Relocate \/ OpenStorage \/ InitHooks
             \/ StartHooks \/ ApplicationEnds
    BY <1>2 DEF Initialize, StartWithReload, StartUnchanged, MatchDone, DeinitPlugins,
       RestoreFunctionPatches, Relocate, OpenStorage, InitHooks, StartHooks, ApplicationEnds
  <1>3. CASE Api \/ UNCHANGED vars
    BY <1>3 DEF Api, ApiUnchanged, WUPSLoadPluginAsData, WUPSDeletePluginData,
       WUPSGetPluginDataForContainerHandles, WUPSLoadAndLinkByDataHandle, vars
  <1>4. CASE Fatal
    BY <1>4 DEF Fatal
  <1>5. CASE InitializeSafeMode
    <2>1. PICK mem \in LoadSettings(settings, file) :
            \E r \in SaveSettings(SetInactivePluginFilenames(
                        mem, mem.inactive \cup (Files \ BaseFiles)), file) :
                settings' = r.mem /\ file' = r.file
      BY <1>5 DEF InitializeSafeMode
    <2>2. mem \in Settings
      BY <1>1, LoadedSettings
    <2> DEFINE new == SetInactivePluginFilenames(mem, mem.inactive \cup (Files \ BaseFiles))
    <2>3. new \in Settings
      BY <2>2, SettingsFields, SetSettings
    <2> HIDE DEF new
    <2>4. PICK r \in SaveSettings(new, file) : settings' = r.mem
      BY <2>1 DEF new
    <2> QED BY <1>1, <2>3, <2>4, SaveCleans
  <1>6. CASE StartFromDirectory \/ (\E e \in queue : LoadUnparsable(e) \/ LoadInactive(e)
                                        \/ LoadRefused(e) \/ LoadActive(e))
    BY <1>6 DEF StartFromDirectory, LoadUnparsable, LoadInactive, LoadRefused, LoadActive, Visit
  <1>7. ASSUME NEW e \in queue, Match(e) PROVE DirtyWhileLoading'
    BY <1>7 DEF Match
  <1>8. CASE DestroyDoomed
    BY <1>8 DEF DestroyDoomed
  <1>9. CASE LoadDone
    BY <1>1, <1>9, SaveCleans DEF LoadDone
  <1>10. CASE Reboot
    BY <1>10 DEF Reboot, NoSettings
  <1>11. ASSUME NEW link, NEW track, ApplyMenu(link, track) PROVE DirtyWhileLoading'
    <2> DEFINE off == {cont[s].data.img : s \in {t \in Loaded : ~link[t] /\ OnSD(cont[t].data)}}
    <2>1. PICK r \in SaveSettings(SetInactivePluginFilenames(settings, off), file) :
             settings' = r.mem /\ file' = r.file
      BY <1>11 DEF ApplyMenu
    <2>2. off \in SUBSET Files
      BY DEF OnSD
    <2>3. SetInactivePluginFilenames(settings, off) \in Settings
      BY <1>1, <2>2, SetSettings
    <2> QED BY <1>1, <2>1, <2>3, SaveCleans
  <1>12. CASE Menu
    BY <1>11, <1>12 DEF Menu, MenuSelectActive, MenuSelectTracked
  <1> QED
    BY <1>2, <1>3, <1>4, <1>5, <1>6, <1>7, <1>8, <1>9, <1>10, <1>12
    DEF Next, StartCycle, LoaderStep, VisitOne

\* While the card takes what is written, reading the settings again loses nothing:
\* outside of loadPlugins the memory is what the file says.
THEOREM SettingsSafe == Spec => []SavedBeforeRead
  <1>1. CASE CardWrites
    <2> DEFINE Saved == CleanMeansSaved /\ DirtyWhileLoading
    <2>1. Init => Saved
      BY DEF Init, Blank, CleanMeansSaved, DirtyWhileLoading, NoSettings
    <2>2. TypeInv /\ Saved /\ [Next]_vars => Saved'
      BY <1>1, SavedStep, DirtyStep
    <2>3. Saved => SavedBeforeRead
      BY DEF CleanMeansSaved, DirtyWhileLoading, SavedBeforeRead
    <2> QED BY <2>1, <2>2, <2>3, InitType, TypeStep, PTL DEF Spec
  <1>2. CASE ~CardWrites
    <2>1. SavedBeforeRead
      BY <1>2 DEF CardWrites, SavedBeforeRead
    <2> QED BY <2>1, PTL
  <1> QED BY <1>1, <1>2

HIDE DEF Phases, Places

-----------------------------------------------------------------------------
(* The loader implements PluginContract, for all plugins, files, settings  *)
(* and requests.                                                           *)

\* An application knows only plugins that are initialised and stay loaded.
StartedWhileRunning ==
    \A s \in Slots : cont[s].started =>
        phase = "running" /\ cont[s].at = "loaded" /\ cont[s].linked

\* A linked container is patched from the end of loadPlugins on until
\* CleanupPlugins has called its last hook.
PatchedWhileAlive ==
    \A s \in Slots :
        /\ cont[s].at = "fresh" => s \notin patches
        /\ cont[s].at \in {"new", "loaded", "kept"} /\ cont[s].linked => s \in patches
        /\ cont[s].at = "doomed" /\ cont[s].linked /\ phase \in {"deinit", "restore"} =>
              s \in patches

ContractInv ==
    /\ TypeInv /\ PatchesPointIntoPlugins /\ LifeInv
    /\ StartedWhileRunning /\ PatchedWhileAlive

\* The fields that the contract is about do not change.
SameFacets(s) ==
    /\ cont'[s].linked = cont[s].linked
    /\ cont'[s].life = cont[s].life
    /\ cont'[s].started = cont[s].started

\* Where MatchDone takes a container.
MatchedPlaces(place) ==
    CASE place = "loaded" -> {"doomed"}
      [] place = "kept"   -> {"loaded"}
      [] OTHER            -> {place}

LEMMA MatchDoneKeeps ==
    ASSUME TypeInv, MatchDone, NEW s \in Slots
    PROVE  SameFacets(s) /\ cont'[s].at \in MatchedPlaces(cont[s].at)
  <1>1. cont[s] \in Container
    BY DEF TypeInv, TypeOK
  <1>2. ASSUME NEW p \in Places
        PROVE  LET new == [cont[s] EXCEPT !.at = p]
               IN  /\ new.linked = cont[s].linked /\ new.life = cont[s].life
                   /\ new.started = cont[s].started /\ new.at = p
    BY <1>1 DEF Container
  <1>3. CASE cont[s].at = "loaded"
    <2>1. cont'[s] = [cont[s] EXCEPT !.at = "doomed"]
      BY <1>3 DEF MatchDone
    <2> QED BY <1>2, <1>3, <2>1 DEF SameFacets, MatchedPlaces, Places
  <1>4. CASE cont[s].at = "kept"
    <2>1. cont'[s] = [cont[s] EXCEPT !.at = "loaded"]
      BY <1>4 DEF MatchDone
    <2> QED BY <1>2, <1>4, <2>1 DEF SameFacets, MatchedPlaces, Places
  <1>5. CASE cont[s].at \notin {"loaded", "kept"}
    <2>1. cont'[s] = cont[s]
      BY <1>5 DEF MatchDone
    <2> QED BY <1>5, <2>1 DEF SameFacets, MatchedPlaces
  <1> QED BY <1>3, <1>4, <1>5

LEMMA StartedStep ==
    ContractInv /\ [Next]_vars => StartedWhileRunning' /\ PatchedWhileAlive'
  <1> SUFFICES ASSUME ContractInv, [Next]_vars
               PROVE  StartedWhileRunning' /\ PatchedWhileAlive'
    OBVIOUS
  <1> USE DEF ContractInv, TypeInv, TypeOK, Container, requestVars, settingVars, history,
              PatchesPointIntoPlugins, StartedWhileRunning, PatchedWhileAlive
  <1> DEFINE Goal == StartedWhileRunning /\ PatchedWhileAlive
  <1>1. ASSUME UNCHANGED <<phase, cont, patches>> PROVE Goal'
    BY <1>1
  <1>2. CASE Initialize \/ InitializeSafeMode
    BY <1>2 DEF Initialize, InitializeSafeMode, LifeInv, ListsFollowPhase
  <1>3. CASE StartFromDirectory \/ StartUnchanged
    BY <1>3 DEF StartFromDirectory, StartUnchanged
  <1>4. CASE StartWithReload
    BY <1>4 DEF StartWithReload, BeginReload
  <1>5. ASSUME NEW e \in queue, Match(e) PROVE Goal'
    BY <1>5 DEF Match, Loaded, At
  <1>6. CASE MatchDone
    <2>1. \A s \in Slots : SameFacets(s) /\ cont'[s].at \in MatchedPlaces(cont[s].at)
      BY <1>6, MatchDoneKeeps
    <2>2. phase' = "deinit" /\ phase = "match" /\ UNCHANGED patches
      BY <1>6 DEF MatchDone
    <2>3. StartedWhileRunning'
      BY <2>1, <2>2 DEF SameFacets
    <2>4. ASSUME NEW s \in Slots
          PROVE  /\ cont'[s].at = "fresh" => cont[s].at = "fresh"
                 /\ cont'[s].at = "doomed" => cont[s].at \in {"loaded", "doomed"}
                 /\ cont'[s].at \in {"new", "loaded", "kept"} => cont[s].at \in {"new", "kept"}
      BY <2>1 DEF MatchedPlaces
    <2>5. PatchedWhileAlive'
      BY <2>1, <2>2, <2>4 DEF SameFacets, LifeInv, ListsFollowPhase
    <2> QED BY <2>3, <2>5
  <1>7. CASE DeinitPlugins
    BY <1>7 DEF DeinitPlugins, DeinitHooksFor
  <1>8. CASE RestoreFunctionPatches
    BY <1>8 DEF RestoreFunctionPatches, LinkedAt, At
  <1>9. CASE DestroyDoomed
    BY <1>9 DEF DestroyDoomed, Destroyed, At, FreeSlot
  <1>10. ASSUME NEW e \in queue, NEW linked \in BOOLEAN, AddContainer(e, linked),
                UNCHANGED <<phase, patches>>
         PROVE  Goal'
    <2>1. NewContainer(e, linked).at = "fresh" /\ NewContainer(e, linked).started = FALSE
      BY DEF NewContainer
    <2> QED BY <1>10, <2>1 DEF AddContainer, At
  <1>11. ASSUME NEW e \in queue,
                LoadUnparsable(e) \/ LoadInactive(e) \/ LoadRefused(e) \/ LoadActive(e)
         PROVE  Goal'
    BY <1>11, <1>1, <1>10 DEF LoadUnparsable, LoadInactive, LoadRefused, LoadActive, Visit
  <1>12. CASE LoadDone
    BY <1>12 DEF LoadDone, BeginReload, FreeSlot, PatchesAfterLoad, LinkedAt, At,
                 LifeInv, ListsFollowPhase
  <1>13. CASE Fatal
    BY <1>13 DEF Fatal, LifeInv, ListsFollowPhase
  <1>14. CASE Relocate
    <2>1. \A s \in Slots :
            /\ cont'[s].started = cont[s].started /\ cont'[s].linked = cont[s].linked
            /\ cont[s].at = "new" => cont'[s].at = "loaded"
            /\ cont[s].at # "new" => cont'[s].at = cont[s].at
      BY <1>14, RelocateKeeps
    <2>2. phase = "relocate" /\ phase' \in {"running", "storage"} /\ UNCHANGED patches
      BY <1>14 DEF Relocate
    <2> QED BY <2>1, <2>2
  <1>15. CASE OpenStorage
    BY <1>15, OpenStorageKeeps, OpenStorageFrame
  <1>15b. CASE InitHooks
    BY <1>15b DEF InitHooks
  <1>16. CASE StartHooks
    <2>1. \A s \in Slots :
            /\ cont'[s].at = cont[s].at /\ cont'[s].linked = cont[s].linked
            /\ IF cont[s].at = "loaded" THEN cont'[s].started = cont[s].linked
                                       ELSE cont'[s].started = cont[s].started
      BY <1>16, StartHooksKeep
    <2>2. phase = "starthooks" /\ phase' = "running" /\ UNCHANGED patches
      BY <1>16 DEF StartHooks
    <2>3. \A s \in Slots : cont'[s].started => cont[s].at = "loaded" /\ cont[s].linked
      BY <2>1, <2>2
    <2>4. StartedWhileRunning'
      BY <2>1, <2>2, <2>3
    <2>5. PatchedWhileAlive'
      BY <2>1, <2>2
    <2> QED BY <2>4, <2>5
  <1>17. CASE ApplicationEnds
    BY <1>17 DEF ApplicationEnds, LinkedAt, At
  <1>18. CASE Reboot
    BY <1>18 DEF Reboot, FreeSlot
  <1>19. CASE Api \/ Menu
    BY <1>19, <1>1 DEF Api, Menu, ApiUnchanged, WUPSLoadPluginAsData, WUPSDeletePluginData,
       WUPSGetPluginDataForContainerHandles, WUPSLoadAndLinkByDataHandle, MenuSelectActive,
       MenuSelectTracked, ApplyMenu
  <1>20. CASE UNCHANGED vars
    BY <1>20, <1>1 DEF vars
  <1> QED
    BY <1>2, <1>3, <1>4, <1>5, <1>6, <1>7, <1>8, <1>9, <1>11, <1>12, <1>13, <1>14, <1>15, <1>15b,
       <1>16, <1>17, <1>18, <1>19, <1>20
    DEF Next, StartCycle, LoaderStep, VisitOne

-----------------------------------------------------------------------------
(* Steps of the loader are steps of the contract.                          *)

LEMMA StageOf ==
    ASSUME NEW c
    PROVE  /\ c.at = "free" \/ ~c.linked => Stage(c) = "none"
           /\ c.at # "free" /\ c.linked /\ c.life = "none" => Stage(c) = "loaded"
           /\ c.at # "free" /\ c.linked /\ c.life = "inited" =>
                 Stage(c) = IF c.started THEN "active" ELSE "idle"
           /\ c.at # "free" /\ c.linked /\ c.life = "deinited" => Stage(c) = "over"
  BY DEF Stage

\* What one step means for one container.
Becomes(s, from, to, isPatched) ==
    /\ Stage(cont[s]) = from
    /\ Stage(cont'[s]) = to
    /\ s \in patches' <=> isPatched

Same(s) == Becomes(s, Stage(cont[s]), Stage(cont[s]), s \in patches)

Allowed(s) ==
    \/ Same(s)
    \/ Becomes(s, "none", "loaded", FALSE)
    \/ s \notin patches /\ Becomes(s, "loaded", "loaded", TRUE)
    \/ s \in patches /\ \/ Becomes(s, "loaded", "idle", TRUE)
                        \/ Becomes(s, "idle", "active", TRUE)
                        \/ Becomes(s, "active", "idle", TRUE)
                        \/ Becomes(s, "idle", "over", TRUE)
                        \/ Becomes(s, "over", "over", FALSE)
    \/ Becomes(s, "loaded", "none", FALSE)
    \/ s \notin patches /\ Becomes(s, "over", "none", FALSE)

LEMMA AllowedMeansStep ==
    ASSUME ContractInv, ContractInv', \A s \in Slots : Allowed(s)
    PROVE  Contract!Next
  <1> DEFINE map == [s \in Slots |-> Stage(cont[s])]
  <1>1. /\ \A s \in Slots : map[s] = Stage(cont[s]) /\ map'[s] = Stage(cont'[s])
        /\ map' = [s \in Slots |-> Stage(cont'[s])]
    OBVIOUS
  <1>2. ASSUME NEW s \in Slots PROVE Stage(cont'[s]) \in Contract!Stages
    <2>1. cont'[s] \in Container
      BY DEF ContractInv, TypeInv, TypeOK
    <2>2. cont'[s].life # "misused"
      BY DEF ContractInv, LifeInv, UnusedIsUnhooked, StubIsUnhooked, LoadedIsInited,
             DoomedIsDeinited, TypeInv, TypeOK, Container, Places
    <2> QED BY <2>1, <2>2 DEF Stage, Container, Contract!Stages
  <1>3. map' \in [Slots -> Contract!Stages]
    BY <1>1, <1>2
  <1>4. patches' \subseteq Slots
    BY DEF ContractInv, TypeInv, TypeOK
  <1>5. ASSUME NEW s \in Slots PROVE Contract!Step(s)
    BY <1>1 DEF Allowed, Same, Becomes, Contract!Step, Contract!Load, Contract!Patch,
       Contract!InitHook, Contract!StartHook, Contract!EndHook, Contract!DeinitHook,
       Contract!Restore, Contract!Unload, Contract!Same, Contract!Becomes
  <1> QED BY <1>3, <1>4, <1>5 DEF Contract!Next

\* A container whose facets stay, and that stays in use or out of use.
LEMMA SameAllowed ==
    ASSUME NEW s \in Slots, SameFacets(s),
           cont'[s].at = "free" <=> cont[s].at = "free",
           s \in patches' <=> s \in patches
    PROVE  Allowed(s)
  BY DEF SameFacets, Stage, Becomes, Same, Allowed

LEMMA UnchangedAllowed ==
    ASSUME NEW s \in Slots, cont'[s] = cont[s], s \in patches' <=> s \in patches
    PROVE  Allowed(s)
  BY DEF Becomes, Same, Allowed

\* A container that is and stays without linked code.
LEMMA StubAllowed ==
    ASSUME ContractInv, NEW s \in Slots,
           cont[s].at = "free" \/ ~cont[s].linked,
           cont'[s].at = "free" \/ ~cont'[s].linked,
           s \notin patches'
    PROVE  Allowed(s)
  <1>1. s \notin patches
    BY DEF ContractInv, PatchesPointIntoPlugins, TypeInv, TypeOK
  <1>2. Stage(cont[s]) = "none" /\ Stage(cont'[s]) = "none"
    BY StageOf
  <1> QED BY <1>1, <1>2 DEF Becomes, Same, Allowed

\* What the invariant says of a linked container, by the list it is in.
LEMMA LinkedStage ==
    ASSUME ContractInv, NEW s \in Slots, cont[s].linked
    PROVE  /\ cont[s].at \in {"fresh", "new"} => Stage(cont[s]) = "loaded"
           /\ cont[s].at = "fresh" => s \notin patches
           /\ cont[s].at \in {"new", "loaded", "kept"} => s \in patches
           /\ cont[s].at = "loaded" /\ phase = "inithooks" /\ ~cont[s].initDone =>
                 Stage(cont[s]) = "loaded" /\ cont[s].life = "none"
           /\ cont[s].at = "loaded" /\ phase = "starthooks" =>
                 Stage(cont[s]) = "idle" /\ cont[s].life = "inited"
           /\ cont[s].at = "loaded" /\ phase = "running" => cont[s].life = "inited"
           /\ cont[s].at = "doomed" /\ phase = "deinit" =>
                 Stage(cont[s]) = "idle" /\ s \in patches /\ cont[s].life = "inited"
           /\ cont[s].at = "doomed" /\ phase \in {"restore", "destroy"} =>
                 Stage(cont[s]) = "over"
           /\ cont[s].at = "doomed" /\ phase = "restore" => s \in patches
           /\ cont[s].at = "doomed" /\ phase = "destroy" => s \notin patches
  <1> USE DEF ContractInv, LifeInv
  <1>1. cont[s].at \in {"fresh", "new"} => cont[s].life = "none"
    BY DEF UnusedIsUnhooked
  <1>2. /\ cont[s].at = "fresh" => s \notin patches
        /\ cont[s].at \in {"new", "loaded", "kept"} => s \in patches
        /\ cont[s].at = "doomed" /\ phase \in {"deinit", "restore"} => s \in patches
    BY DEF PatchedWhileAlive
  <1>3. cont[s].at = "loaded" =>
          cont[s].life = IF cont[s].initDone \/ phase = "starthooks" THEN "inited" ELSE "none"
    BY DEF LoadedIsInited
  <1>4. cont[s].at = "loaded" /\ phase = "running" => cont[s].initDone
    BY DEF InitDoneIsLate
  <1>5. cont[s].at = "doomed" =>
          cont[s].life = IF phase = "deinit" THEN "inited" ELSE "deinited"
    BY DEF DoomedIsDeinited
  <1>6. cont[s].at = "doomed" /\ phase = "destroy" => s \notin patches
    BY DEF DoomedIsRestored
  <1>7. cont[s].started => phase = "running"
    BY DEF StartedWhileRunning
  <1> QED BY <1>1, <1>2, <1>3, <1>4, <1>5, <1>6, <1>7, StageOf

-----------------------------------------------------------------------------
(* One lemma per action that changes what the contract is about.           *)

LEMMA MatchAllowed ==
    ASSUME ContractInv, NEW e, Match(e), NEW s \in Slots
    PROVE  Allowed(s)
  <1>1. cont[s] \in Container /\ UNCHANGED patches
    BY DEF ContractInv, TypeInv, TypeOK, Match
  <1>2. CASE cont'[s] = cont[s]
    BY <1>1, <1>2, UnchangedAllowed
  <1>3. CASE cont'[s] # cont[s]
    <2>1. cont[s].at = "loaded" /\ cont'[s] = [cont[s] EXCEPT !.at = "kept"]
      BY <1>3 DEF Match, Loaded, At, ContractInv, TypeInv, TypeOK
    <2>2. SameFacets(s) /\ cont'[s].at = "kept"
      BY <1>1, <2>1 DEF SameFacets, Container
    <2> QED BY <1>1, <2>1, <2>2, SameAllowed
  <1> QED BY <1>2, <1>3

LEMMA DeinitAllowed ==
    ASSUME ContractInv, DeinitPlugins, NEW s \in Slots
    PROVE  Allowed(s)
  <1>1. cont[s] \in Container /\ UNCHANGED patches /\ phase = "deinit"
    BY DEF ContractInv, TypeInv, TypeOK, DeinitPlugins
  <1>2. CASE s \in LinkedAt("doomed")
    <2>1. cont[s].at = "doomed" /\ cont[s].linked
      BY <1>2 DEF LinkedAt, At
    <2>2. Stage(cont[s]) = "idle" /\ s \in patches /\ cont[s].life = "inited"
      BY <1>1, <2>1, LinkedStage
    <2>3. cont'[s] = [cont[s] EXCEPT !.life = "deinited"]
      BY <1>2, <2>2 DEF DeinitPlugins, DeinitHooksFor, AfterDeinit
    <2>4. cont'[s].at = "doomed" /\ cont'[s].linked /\ cont'[s].life = "deinited"
      BY <1>1, <2>1, <2>3 DEF Container
    <2>5. Stage(cont'[s]) = "over"
      BY <2>4, StageOf
    <2> QED BY <1>1, <2>2, <2>5 DEF Becomes, Allowed
  <1>3. CASE s \notin LinkedAt("doomed")
    <2>1. cont'[s] = cont[s]
      BY <1>3 DEF DeinitPlugins, DeinitHooksFor
    <2> QED BY <1>1, <2>1, UnchangedAllowed
  <1> QED BY <1>2, <1>3

LEMMA RestoreAllowed ==
    ASSUME ContractInv, RestoreFunctionPatches, NEW s \in Slots
    PROVE  Allowed(s)
  <1>1. cont[s] \in Container /\ phase = "restore" /\ patches' = patches \ LinkedAt("doomed")
    BY DEF ContractInv, TypeInv, TypeOK, RestoreFunctionPatches
  <1>2. SameFacets(s) /\ cont'[s].at = cont[s].at
    BY <1>1 DEF RestoreFunctionPatches, SameFacets, Container
  <1>3. CASE s \in LinkedAt("doomed")
    <2>1. cont[s].at = "doomed" /\ cont[s].linked
      BY <1>3 DEF LinkedAt, At
    <2>2. Stage(cont[s]) = "over" /\ s \in patches
      BY <1>1, <2>1, LinkedStage
    <2>3. Stage(cont'[s]) = Stage(cont[s])
      BY <1>2 DEF SameFacets, Stage
    <2> QED BY <1>1, <1>3, <2>2, <2>3 DEF Becomes, Allowed
  <1>4. CASE s \notin LinkedAt("doomed")
    BY <1>1, <1>2, <1>4, SameAllowed
  <1> QED BY <1>3, <1>4

LEMMA DestroyAllowed ==
    ASSUME ContractInv, DestroyDoomed, NEW s \in Slots
    PROVE  Allowed(s)
  <1>1. cont[s] \in Container /\ phase = "destroy" /\ patches' = patches \ At("doomed")
    BY DEF ContractInv, TypeInv, TypeOK, DestroyDoomed
  <1>2. CASE s \in At("doomed")
    <2>1. cont[s].at = "doomed" /\ cont'[s] = FreeSlot
      BY <1>2 DEF At, DestroyDoomed, Destroyed
    <2>2. cont'[s].at = "free" /\ Stage(cont'[s]) = "none"
      BY <2>1, StageOf DEF FreeSlot
    <2>3. CASE cont[s].linked
      <3>1. Stage(cont[s]) = "over" /\ s \notin patches
        BY <1>1, <2>1, <2>3, LinkedStage
      <3> QED BY <1>1, <2>2, <3>1 DEF Becomes, Allowed
    <2>4. CASE ~cont[s].linked
      BY <1>1, <1>2, <2>2, <2>4, StubAllowed
    <2> QED BY <2>3, <2>4
  <1>3. CASE s \notin At("doomed")
    <2>1. cont'[s] = cont[s]
      BY <1>3 DEF DestroyDoomed, Destroyed
    <2> QED BY <1>1, <1>3, <2>1, UnchangedAllowed
  <1> QED BY <1>2, <1>3

LEMMA AddAllowed ==
    ASSUME ContractInv, NEW e, NEW linked \in BOOLEAN, AddContainer(e, linked),
           UNCHANGED patches, NEW s \in Slots
    PROVE  Allowed(s)
  <1>1. cont[s] \in Container
    BY DEF ContractInv, TypeInv, TypeOK
  <1>2. CASE cont'[s] = cont[s]
    BY <1>2, UnchangedAllowed
  <1>3. CASE cont'[s] # cont[s]
    <2>1. cont[s].at = "free" /\ cont'[s] = NewContainer(e, linked)
      BY <1>3 DEF AddContainer, At, ContractInv, TypeInv, TypeOK
    <2>2. /\ cont'[s].at = "fresh" /\ cont'[s].linked = linked /\ cont'[s].life = "none"
      BY <2>1 DEF NewContainer
    <2>3. s \notin patches
      BY <2>1 DEF ContractInv, PatchesPointIntoPlugins
    <2>4. CASE linked
      <3>1. Stage(cont[s]) = "none" /\ Stage(cont'[s]) = "loaded"
        BY <2>1, <2>2, <2>4, StageOf
      <3> QED BY <2>3, <3>1 DEF Becomes, Allowed
    <2>5. CASE ~linked
      BY <2>1, <2>2, <2>3, <2>5, StubAllowed
    <2> QED BY <2>4, <2>5
  <1> QED BY <1>2, <1>3

LEMMA LoadDoneAllowed ==
    ASSUME ContractInv, LoadDone, NEW s \in Slots
    PROVE  Allowed(s)
  <1>1. /\ cont[s] \in Container
        /\ s \in patches' <=> (s \in patches /\ cont[s].at # "new")
                              \/ (cont[s].at = "fresh" /\ cont[s].linked)
    BY DEF ContractInv, TypeInv, TypeOK, LoadDone, PatchesAfterLoad, LinkedAt, At
  <1>2. CASE cont[s].at = "new"
    <2>1. cont'[s] = FreeSlot
      BY <1>2 DEF LoadDone
    <2>2. cont'[s].at = "free" /\ Stage(cont'[s]) = "none"
      BY <2>1, StageOf DEF FreeSlot
    <2>3. CASE cont[s].linked
      <3>1. Stage(cont[s]) = "loaded"
        BY <1>2, <2>3, LinkedStage
      <3> QED BY <1>1, <1>2, <2>2, <3>1 DEF Becomes, Allowed
    <2>4. CASE ~cont[s].linked
      BY <1>1, <1>2, <2>2, <2>4, StubAllowed
    <2> QED BY <2>3, <2>4
  <1>3. CASE cont[s].at = "fresh"
    <2>1. cont'[s] = [cont[s] EXCEPT !.at = "new"]
      BY <1>3 DEF LoadDone
    <2>2. SameFacets(s) /\ cont'[s].at = "new"
      BY <1>1, <2>1 DEF SameFacets, Container
    <2>3. CASE cont[s].linked
      <3>1. Stage(cont[s]) = "loaded" /\ s \notin patches
        BY <1>3, <2>3, LinkedStage
      <3>2. Stage(cont'[s]) = Stage(cont[s])
        BY <1>3, <2>2 DEF SameFacets, Stage
      <3> QED BY <1>1, <1>3, <2>3, <3>1, <3>2 DEF Becomes, Allowed
    <2>4. CASE ~cont[s].linked
      <3>1. s \notin patches
        BY <1>3 DEF ContractInv, PatchedWhileAlive
      <3> QED BY <1>1, <2>2, <2>4, <3>1, StubAllowed DEF SameFacets
    <2> QED BY <2>3, <2>4
  <1>4. CASE cont[s].at \notin {"new", "fresh"}
    <2>1. cont'[s] = cont[s]
      BY <1>4 DEF LoadDone
    <2> QED BY <1>1, <1>4, <2>1, UnchangedAllowed
  <1> QED BY <1>2, <1>3, <1>4

LEMMA InitAllowed ==
    ASSUME ContractInv, InitHooks, NEW s \in Slots
    PROVE  Allowed(s)
  <1>1. cont[s] \in Container /\ UNCHANGED patches /\ phase = "inithooks"
    BY DEF ContractInv, TypeInv, TypeOK, InitHooks
  <1>2. CASE s \in LinkedAt("loaded") /\ ~cont[s].initDone
    <2>1. cont[s].at = "loaded" /\ cont[s].linked
      BY <1>2 DEF LinkedAt, At
    <2>2. Stage(cont[s]) = "loaded" /\ s \in patches /\ cont[s].life = "none"
      BY <1>1, <1>2, <2>1, LinkedStage
    <2>3. cont'[s] = [cont[s] EXCEPT !.life = "inited"]
      BY <1>2, <2>2 DEF InitHooks, AfterInit
    <2>4. /\ cont'[s].at = "loaded" /\ cont'[s].linked /\ cont'[s].life = "inited"
          /\ cont'[s].started = cont[s].started
      BY <1>1, <2>1, <2>3 DEF Container
    <2>5. ~cont[s].started
      BY <1>1 DEF ContractInv, StartedWhileRunning
    <2>6. Stage(cont'[s]) = "idle"
      BY <2>4, <2>5, StageOf
    <2> QED BY <1>1, <2>2, <2>6 DEF Becomes, Allowed
  <1>3. CASE ~(s \in LinkedAt("loaded") /\ ~cont[s].initDone)
    <2>1. cont'[s] = cont[s]
      BY <1>3 DEF InitHooks
    <2> QED BY <1>1, <2>1, UnchangedAllowed
  <1> QED BY <1>2, <1>3

LEMMA StartAllowed ==
    ASSUME ContractInv, StartHooks, NEW s \in Slots
    PROVE  Allowed(s)
  <1>1. UNCHANGED patches /\ phase = "starthooks"
    BY DEF StartHooks
  <1>2. CASE cont[s].at = "loaded"
    <2>1. /\ cont'[s].at = "loaded" /\ cont'[s].linked = cont[s].linked
          /\ cont'[s].life = cont[s].life /\ cont'[s].started = cont[s].linked
      BY <1>2, StartHooksKeep DEF ContractInv
    <2>2. CASE cont[s].linked
      <3>1. Stage(cont[s]) = "idle" /\ s \in patches /\ cont[s].life = "inited"
        BY <1>1, <1>2, <2>2, LinkedStage
      <3>2. Stage(cont'[s]) = "active"
        BY <2>1, <2>2, <3>1, StageOf
      <3> QED BY <1>1, <3>1, <3>2 DEF Becomes, Allowed
    <2>3. CASE ~cont[s].linked
      <3>1. s \notin patches
        BY <2>3 DEF ContractInv, PatchesPointIntoPlugins
      <3> QED BY <1>1, <2>1, <2>3, <3>1, StubAllowed
    <2> QED BY <2>2, <2>3
  <1>3. CASE cont[s].at # "loaded"
    BY <1>1, <1>3, StartHooksKeep, UnchangedAllowed DEF ContractInv
  <1> QED BY <1>2, <1>3

LEMMA EndAllowed ==
    ASSUME ContractInv, ApplicationEnds, NEW s \in Slots
    PROVE  Allowed(s)
  <1>1. cont[s] \in Container /\ UNCHANGED patches /\ phase = "running"
    BY DEF ContractInv, TypeInv, TypeOK, ApplicationEnds
  <1>2. CASE s \in LinkedAt("loaded")
    <2>1. cont[s].at = "loaded" /\ cont[s].linked
      BY <1>2 DEF LinkedAt, At
    <2>2. cont[s].life = "inited" /\ s \in patches
      BY <1>1, <2>1, LinkedStage
    <2>3. cont'[s] = [cont[s] EXCEPT !.started = FALSE]
      BY <1>2 DEF ApplicationEnds
    <2>4. /\ cont'[s].at = "loaded" /\ cont'[s].linked /\ cont'[s].life = "inited"
          /\ ~cont'[s].started
      BY <1>1, <2>1, <2>2, <2>3 DEF Container
    <2>5. Stage(cont'[s]) = "idle" /\ Stage(cont[s]) \in {"active", "idle"}
      BY <2>1, <2>2, <2>4, StageOf
    <2> QED BY <1>1, <2>2, <2>5 DEF Becomes, Same, Allowed
  <1>3. CASE s \notin LinkedAt("loaded")
    <2>1. cont'[s] = cont[s]
      BY <1>3 DEF ApplicationEnds
    <2> QED BY <1>1, <2>1, UnchangedAllowed
  <1> QED BY <1>2, <1>3

-----------------------------------------------------------------------------
LEMMA ContractInit == Init => ContractInv /\ Contract!Init
  <1> SUFFICES ASSUME Init PROVE ContractInv /\ Contract!Init
    OBVIOUS
  <1>1. \A s \in Slots : cont[s] = FreeSlot
    BY DEF Init, Blank
  <1>2. FreeSlot.at = "free" /\ FreeSlot.started = FALSE
    BY DEF FreeSlot
  <1>3. StartedWhileRunning /\ PatchedWhileAlive /\ PatchesPointIntoPlugins
    BY <1>1, <1>2 DEF Init, Blank, StartedWhileRunning, PatchedWhileAlive, PatchesPointIntoPlugins
  <1>4. [s \in Slots |-> Stage(cont[s])] = [s \in Slots |-> "none"]
    BY <1>1, <1>2, StageOf
  <1>5. Contract!Init
    BY <1>4 DEF Init, Blank, Contract!Init
  <1> QED BY <1>3, <1>5, InitType, LifeInit DEF ContractInv

LEMMA ContractStep == ContractInv /\ [Next]_vars => ContractInv'
  BY TypeStep, PatchesStep, LifeStep, StartedStep DEF ContractInv

LEMMA ContractMap == ContractInv /\ [Next]_vars => [Contract!Next]_(Contract!vars)
  <1> SUFFICES ASSUME ContractInv, [Next]_vars PROVE [Contract!Next]_(Contract!vars)
    OBVIOUS
  <1>1. ContractInv'
    BY ContractStep
  <1>2. CASE UNCHANGED <<cont, patches>>
    BY <1>2 DEF Contract!vars
  <1>3. CASE \/ Initialize \/ InitializeSafeMode \/ StartCycle \/ Fatal \/ Api \/ Menu
             \/ UNCHANGED vars
    BY <1>2, <1>3 DEF Initialize, InitializeSafeMode, StartCycle, StartFromDirectory,
       StartWithReload, StartUnchanged, Fatal, Api, Menu, ApiUnchanged, WUPSLoadPluginAsData,
       WUPSDeletePluginData, WUPSGetPluginDataForContainerHandles,
       WUPSLoadAndLinkByDataHandle, MenuSelectActive, MenuSelectTracked, ApplyMenu, vars
  <1>4. ASSUME NEW e \in queue, Match(e) PROVE Contract!Next
    BY <1>1, <1>4, MatchAllowed, AllowedMeansStep
  <1>5. CASE MatchDone
    <2>1. \A s \in Slots : SameFacets(s) /\ (cont'[s].at = "free" <=> cont[s].at = "free")
      BY <1>5, MatchDoneKeeps DEF ContractInv, MatchedPlaces
    <2>2. UNCHANGED patches
      BY <1>5 DEF MatchDone
    <2> QED BY <1>1, <2>1, <2>2, SameAllowed, AllowedMeansStep
  <1>6. CASE DeinitPlugins
    BY <1>1, <1>6, DeinitAllowed, AllowedMeansStep
  <1>7. CASE RestoreFunctionPatches
    BY <1>1, <1>7, RestoreAllowed, AllowedMeansStep
  <1>8. CASE DestroyDoomed
    BY <1>1, <1>8, DestroyAllowed, AllowedMeansStep
  <1>9. ASSUME NEW e \in queue,
               LoadUnparsable(e) \/ LoadInactive(e) \/ LoadRefused(e) \/ LoadActive(e)
        PROVE  [Contract!Next]_(Contract!vars)
    <2>1. UNCHANGED patches
      BY <1>9 DEF LoadUnparsable, LoadInactive, LoadRefused, LoadActive, Visit
    <2>2. UNCHANGED cont \/ \E linked \in BOOLEAN : AddContainer(e, linked)
      BY <1>9 DEF LoadUnparsable, LoadInactive, LoadRefused, LoadActive
    <2> QED BY <1>1, <1>2, <2>1, <2>2, AddAllowed, AllowedMeansStep
  <1>10. CASE LoadDone
    BY <1>1, <1>10, LoadDoneAllowed, AllowedMeansStep
  <1>11. CASE Relocate
    <2>1. \A s \in Slots : SameFacets(s) /\ (cont'[s].at = "free" <=> cont[s].at = "free")
      BY <1>11, RelocateKeeps DEF ContractInv, SameFacets
    <2>2. UNCHANGED patches
      BY <1>11 DEF Relocate
    <2> QED BY <1>1, <2>1, <2>2, SameAllowed, AllowedMeansStep
  <1>12. CASE OpenStorage
    <2>1. \A s \in Slots : SameFacets(s) /\ cont'[s].at = cont[s].at
      BY <1>12, OpenStorageKeeps DEF SameFacets, ContractInv
    <2>2. UNCHANGED patches
      BY <1>12 DEF OpenStorage
    <2> QED BY <1>1, <2>1, <2>2, SameAllowed, AllowedMeansStep
  <1>13. CASE InitHooks
    BY <1>1, <1>13, InitAllowed, AllowedMeansStep
  <1>14. CASE StartHooks
    BY <1>1, <1>14, StartAllowed, AllowedMeansStep
  <1>15. CASE ApplicationEnds
    BY <1>1, <1>15, EndAllowed, AllowedMeansStep
  <1>16. CASE Reboot
    <2>1. \A s \in Slots : Stage(cont'[s]) = "none"
      BY <1>16, StageOf DEF Reboot, FreeSlot
    <2>2. [s \in Slots |-> Stage(cont'[s])] = [s \in Slots |-> "none"] /\ patches' = {}
      BY <1>16, <2>1 DEF Reboot
    <2> QED BY <2>2 DEF Contract!Next, Contract!PowerOff
  <1> QED
    BY <1>3, <1>4, <1>5, <1>6, <1>7, <1>8, <1>9, <1>10, <1>11, <1>12, <1>13, <1>14, <1>15,
       <1>16 DEF Next, LoaderStep, VisitOne

\* The loader implements the contract with plugin authors: for every container
\* the hooks come in order and in pairs, while its functions are patched.
THEOREM ImplementsContract == Spec => KeepsContract
  BY ContractInit, ContractStep, ContractMap, PTL DEF Spec, KeepsContract, Contract!Spec

-----------------------------------------------------------------------------
(* What each step does to a container                                      *)

SameCode(s) ==
    /\ cont'[s].data = cont[s].data
    /\ cont'[s].linked = cont[s].linked
    /\ cont'[s].track = cont[s].track

SameRun(s) ==
    /\ cont'[s].initDone = cont[s].initDone
    /\ cont'[s].life = cont[s].life
    /\ cont'[s].started = cont[s].started
    /\ cont'[s].root = cont[s].root
    /\ cont'[s].opened = cont[s].opened

LEMMA Alike ==
    ASSUME NEW s, cont'[s] = cont[s]
    PROVE  SameCode(s) /\ SameRun(s) /\ cont'[s].at = cont[s].at
  BY DEF SameCode, SameRun

LEMMA MovesTo ==
    ASSUME TypeInv, NEW s \in Slots, NEW p, cont'[s] = [cont[s] EXCEPT !.at = p]
    PROVE  SameCode(s) /\ SameRun(s) /\ cont'[s].at = p
  BY DEF TypeInv, TypeOK, Container, SameCode, SameRun

LEMMA FreeSlotIs ==
    /\ FreeSlot.at = "free" /\ FreeSlot.linked = FALSE /\ FreeSlot.started = FALSE
    /\ FreeSlot.life = "none" /\ FreeSlot.initDone = FALSE
  BY DEF FreeSlot

LEMMA MatchEffect ==
    ASSUME TypeInv, NEW e \in queue, Match(e)
    PROVE  /\ phase = "match" /\ queue' = queue \ {e}
           /\ UNCHANGED <<phase, patches, next, plan, safe, settings, file>>
           /\ \/ /\ toLoad' = toLoad
                 /\ \E k \in Slots :
                       /\ cont[k].at = "loaded" /\ NeedsNoReload(cont[k], e)
                       /\ cont'[k].at = "kept" /\ SameCode(k) /\ SameRun(k)
                       /\ \A s \in Slots \ {k} : cont'[s] = cont[s]
              \/ toLoad' = toLoad \cup {e} /\ UNCHANGED cont
  <1>1. /\ phase = "match" /\ queue' = queue \ {e}
        /\ UNCHANGED <<phase, patches, next, plan, safe, settings, file>>
    BY DEF Match, requestVars, settingVars, history
  <1>2. CASE toLoad' = toLoad \cup {e} /\ UNCHANGED cont
    BY <1>1, <1>2
  <1>3. ASSUME NEW k \in Slots, cont[k].at = "loaded", NeedsNoReload(cont[k], e),
               cont' = [cont EXCEPT ![k].at = "kept"], toLoad' = toLoad
        PROVE  /\ cont'[k].at = "kept" /\ SameCode(k) /\ SameRun(k)
               /\ \A s \in Slots \ {k} : cont'[s] = cont[s]
    <2>1. cont \in [Slots -> Container]
      BY DEF TypeInv, TypeOK
    <2>2. cont'[k] = [cont[k] EXCEPT !.at = "kept"] /\ \A s \in Slots \ {k} : cont'[s] = cont[s]
      BY <1>3, <2>1
    <2> QED BY <2>2, MovesTo
  <1>4. \/ /\ toLoad' = toLoad
           /\ \E k \in Slots : /\ cont[k].at = "loaded" /\ NeedsNoReload(cont[k], e)
                               /\ cont' = [cont EXCEPT ![k].at = "kept"]
        \/ toLoad' = toLoad \cup {e} /\ UNCHANGED cont
    BY DEF Match, Loaded, At
  <1> QED BY <1>1, <1>2, <1>3, <1>4

LEMMA MatchDoneEffect ==
    ASSUME TypeInv, MatchDone
    PROVE  /\ phase = "match" /\ phase' = "deinit" /\ queue = {}
           /\ UNCHANGED <<patches, queue, toLoad, next, plan, safe, settings, file>>
           /\ \A s \in Slots : SameCode(s) /\ SameRun(s) /\ cont'[s].at \in MatchedPlaces(cont[s].at)
  <1>1. ASSUME NEW s \in Slots
        PROVE  SameCode(s) /\ SameRun(s) /\ cont'[s].at \in MatchedPlaces(cont[s].at)
    <2>1. CASE cont[s].at = "loaded"
      <3>1. cont'[s] = [cont[s] EXCEPT !.at = "doomed"]
        BY <2>1 DEF MatchDone
      <3> QED BY <2>1, <3>1, MovesTo DEF MatchedPlaces
    <2>2. CASE cont[s].at = "kept"
      <3>1. cont'[s] = [cont[s] EXCEPT !.at = "loaded"]
        BY <2>2 DEF MatchDone
      <3> QED BY <2>2, <3>1, MovesTo DEF MatchedPlaces
    <2>3. CASE cont[s].at \notin {"loaded", "kept"}
      BY <2>3, Alike DEF MatchDone, MatchedPlaces
    <2> QED BY <2>1, <2>2, <2>3
  <1> QED BY <1>1 DEF MatchDone, requestVars, settingVars, history

LEMMA DeinitEffect ==
    ASSUME TypeInv, DeinitPlugins
    PROVE  /\ phase = "deinit" /\ phase' = "restore"
           /\ UNCHANGED <<patches, queue, toLoad, next, plan, safe, settings, file>>
           /\ \A s \in Slots : SameCode(s) /\ cont'[s].at = cont[s].at
  <1>1. ASSUME NEW s \in Slots PROVE SameCode(s) /\ cont'[s].at = cont[s].at
    BY DEF DeinitPlugins, DeinitHooksFor, TypeInv, TypeOK, Container, SameCode
  <1> QED BY <1>1 DEF DeinitPlugins, requestVars, settingVars, history

LEMMA RestoreEffect ==
    ASSUME TypeInv, RestoreFunctionPatches
    PROVE  /\ phase = "restore" /\ phase' = "destroy"
           /\ UNCHANGED <<queue, toLoad, next, plan, safe, settings, file>>
           /\ \A s \in Slots : SameCode(s) /\ cont'[s].at = cont[s].at
  <1>1. ASSUME NEW s \in Slots PROVE SameCode(s) /\ cont'[s].at = cont[s].at
    BY DEF RestoreFunctionPatches, TypeInv, TypeOK, Container, SameCode
  <1> QED BY <1>1 DEF RestoreFunctionPatches, requestVars, settingVars, history

LEMMA DestroyEffect ==
    ASSUME TypeInv, DestroyDoomed
    PROVE  /\ phase = "destroy" /\ phase' = "load" /\ queue' = toLoad /\ toLoad' = {}
           /\ UNCHANGED <<next, plan, safe, file>>
           /\ \A s \in Slots : IF cont[s].at = "doomed" THEN cont'[s] = FreeSlot
                                                       ELSE cont'[s] = cont[s]
  BY DEF DestroyDoomed, Destroyed, At, requestVars, history

LEMMA AddEffect ==
    ASSUME TypeInv, NEW e, NEW linked \in BOOLEAN, AddContainer(e, linked)
    PROVE  \E k \in Slots :
              /\ cont[k].at = "free" /\ cont'[k].at = "fresh" /\ cont'[k].data = e.data
              /\ cont'[k].linked = linked /\ cont'[k].started = FALSE
              /\ \A s \in Slots \ {k} : cont'[s] = cont[s]
  <1>1. PICK k \in Slots : cont[k].at = "free" /\ cont' = [cont EXCEPT ![k] = NewContainer(e, linked)]
    BY DEF AddContainer, At
  <1>2. cont'[k] = NewContainer(e, linked) /\ \A s \in Slots \ {k} : cont'[s] = cont[s]
    BY <1>1 DEF TypeInv, TypeOK
  <1> QED BY <1>1, <1>2 DEF NewContainer

\* The turns of the loop in loadPlugins.
LoadOne(e) == LoadUnparsable(e) \/ LoadInactive(e) \/ LoadRefused(e) \/ LoadActive(e)

LEMMA LoadEffect ==
    ASSUME TypeInv, NEW e \in queue, LoadOne(e)
    PROVE  /\ phase \in {"loaddir", "load"} /\ queue' = queue \ {e}
           /\ UNCHANGED <<phase, patches, toLoad, next, plan, safe, file>>
           /\ \/ UNCHANGED cont /\ (e.link \/ e.data.img \in Unparsable)
              \/ \E linked \in BOOLEAN : AddContainer(e, linked) /\ (linked => e.link)
  BY DEF LoadOne, LoadUnparsable, LoadInactive, LoadRefused, LoadActive, Refused, Visit, requestVars

LEMMA LoadDoneEffect ==
    ASSUME TypeInv, LoadDone
    PROVE  /\ phase \in {"loaddir", "load"} /\ queue = {}
           /\ UNCHANGED <<toLoad, next, safe>>
           /\ \/ phase = "loaddir" /\ phase' = "match" /\ queue' = Filtered(next)
                 /\ plan' = next /\ next # {}
              \/ phase' = "relocate" /\ UNCHANGED <<queue, plan>> /\ (phase = "load" \/ next = {})
           /\ \A s \in Slots :
                 /\ cont[s].at = "new" => cont'[s] = FreeSlot
                 /\ cont[s].at = "fresh" => SameCode(s) /\ SameRun(s) /\ cont'[s].at = "new"
                 /\ cont[s].at \notin {"new", "fresh"} => cont'[s] = cont[s]
  <1>1. ASSUME NEW s \in Slots
        PROVE  /\ cont[s].at = "new" => cont'[s] = FreeSlot
               /\ cont[s].at = "fresh" => SameCode(s) /\ SameRun(s) /\ cont'[s].at = "new"
               /\ cont[s].at \notin {"new", "fresh"} => cont'[s] = cont[s]
    <2>1. CASE cont[s].at = "fresh"
      BY <2>1, MovesTo DEF LoadDone
    <2> QED BY <2>1 DEF LoadDone
  <1> QED BY <1>1 DEF LoadDone, BeginReload, requestVars

LEMMA RelocateEffect ==
    ASSUME TypeInv, Relocate
    PROVE  /\ phase = "relocate" /\ next' = {}
           /\ UNCHANGED <<patches, queue, toLoad, safe, settings, file>>
           /\ \/ /\ phase' = "running" /\ plan' = {}
                 /\ \A s \in Slots : cont[s].at \notin {"new", "loaded"}
              \/ phase' = "storage" /\ UNCHANGED plan
           /\ \A s \in Slots :
                 /\ SameCode(s) /\ cont'[s].started = cont[s].started
                 /\ cont'[s].at = IF cont[s].at = "new" THEN "loaded" ELSE cont[s].at
  <1>1. ASSUME NEW s \in Slots
        PROVE  /\ SameCode(s) /\ cont'[s].started = cont[s].started
               /\ cont'[s].at = IF cont[s].at = "new" THEN "loaded" ELSE cont[s].at
    <2>1. CASE cont[s].at = "new"
      <3>1. cont'[s] = [cont[s] EXCEPT !.at = "loaded", !.initDone = FALSE]
        BY <2>1 DEF Relocate
      <3> QED BY <2>1, <3>1 DEF TypeInv, TypeOK, Container, SameCode
    <2>2. CASE cont[s].at # "new"
      BY <2>2, Alike DEF Relocate, SameRun
    <2> QED BY <2>1, <2>2
  <1> QED BY <1>1 DEF Relocate, Loaded, At, settingVars

LEMMA OpenEffect ==
    ASSUME TypeInv, OpenStorage
    PROVE  /\ phase = "storage" /\ phase' = "inithooks" /\ plan' = {}
           /\ UNCHANGED <<patches, queue, toLoad, next, safe, settings, file>>
           /\ \A s \in Slots :
                 /\ SameCode(s) /\ cont'[s].at = cont[s].at /\ cont'[s].started = cont[s].started
                 /\ cont[s].at = "loaded" /\ cont[s].linked /\ cont[s].data.img \in Storing =>
                       cont'[s].root \/ "nostorage" \in LoadFaults
  <1>1. ASSUME NEW s \in Slots
        PROVE  /\ SameCode(s) /\ cont'[s].at = cont[s].at /\ cont'[s].started = cont[s].started
               /\ cont[s].at = "loaded" /\ cont[s].linked /\ cont[s].data.img \in Storing =>
                     cont'[s].root \/ "nostorage" \in LoadFaults
    BY OpenStorageKeeps DEF SameCode
  <1> QED BY <1>1 DEF OpenStorage, requestVars, settingVars

LEMMA InitHooksEffect ==
    ASSUME TypeInv, InitHooks
    PROVE  /\ phase = "inithooks" /\ phase' = "starthooks"
           /\ UNCHANGED <<patches, queue, toLoad, next, plan, safe, settings, file>>
           /\ \A s \in Slots :
                 /\ SameCode(s) /\ cont'[s].at = cont[s].at
                 /\ cont'[s].started = cont[s].started /\ cont'[s].root = cont[s].root
  <1>1. ASSUME NEW s \in Slots
        PROVE  /\ SameCode(s) /\ cont'[s].at = cont[s].at
               /\ cont'[s].started = cont[s].started /\ cont'[s].root = cont[s].root
    BY DEF InitHooks, TypeInv, TypeOK, Container, SameCode
  <1> QED BY <1>1 DEF InitHooks, requestVars, settingVars, history

LEMMA StartHooksEffect ==
    ASSUME TypeInv, StartHooks
    PROVE  /\ phase = "starthooks" /\ phase' = "running"
           /\ UNCHANGED <<patches, queue, toLoad, next, plan, safe, settings, file>>
           /\ \A s \in Slots :
                 /\ SameCode(s) /\ cont'[s].at = cont[s].at /\ cont'[s].root = cont[s].root
                 /\ cont[s].at = "loaded" => cont'[s].started = cont[s].linked
  <1>1. ASSUME NEW s \in Slots
        PROVE  /\ SameCode(s) /\ cont'[s].at = cont[s].at /\ cont'[s].root = cont[s].root
               /\ cont[s].at = "loaded" => cont'[s].started = cont[s].linked
    <2>1. CASE cont[s].at = "loaded"
      <3>1. cont'[s] = [cont[s] EXCEPT !.initDone = TRUE, !.started = cont[s].linked]
        BY <2>1 DEF StartHooks, Loaded, At
      <3> QED BY <3>1 DEF TypeInv, TypeOK, Container, SameCode
    <2>2. CASE cont[s].at # "loaded"
      BY <2>2, Alike DEF StartHooks, Loaded, At, SameRun
    <2> QED BY <2>1, <2>2
  <1> QED BY <1>1 DEF StartHooks, requestVars, settingVars, history

LEMMA EndsEffect ==
    ASSUME TypeInv, ApplicationEnds
    PROVE  /\ phase = "running" /\ phase' = "stopped"
           /\ UNCHANGED <<patches, queue, toLoad, next, plan, safe, settings, file>>
           /\ \A s \in Slots : SameCode(s) /\ cont'[s].at = cont[s].at
  <1>1. ASSUME NEW s \in Slots PROVE SameCode(s) /\ cont'[s].at = cont[s].at
    BY DEF ApplicationEnds, TypeInv, TypeOK, Container, SameCode
  <1> QED BY <1>1 DEF ApplicationEnds, requestVars, settingVars, history

LEMMA ApiEffect ==
    ASSUME Api
    PROVE  /\ UNCHANGED <<phase, cont, patches, queue, toLoad, settings, file, plan>>
           /\ UNCHANGED <<next, safe>> \/ safe' = FALSE
           /\ phase \in {"running", "inithooks", "starthooks", "deinit"}
  BY DEF Api, ApiUnchanged, ApiUsable, WUPSLoadPluginAsData, WUPSDeletePluginData,
         WUPSGetPluginDataForContainerHandles, WUPSLoadAndLinkByDataHandle, settingVars

LEMMA MenuEffect ==
    ASSUME Menu
    PROVE  /\ UNCHANGED <<phase, cont, patches, queue, toLoad, plan>>
           /\ safe' = FALSE /\ phase = "running"
  BY DEF Menu, MenuSelectActive, MenuSelectTracked, ApplyMenu

-----------------------------------------------------------------------------
(* What is there while an application runs                                 *)

\* The loops of APPLICATION_STARTS leave nothing behind.
ListsAreDone ==
    /\ queue # {} => phase \in {"loaddir", "load", "match"}
    /\ toLoad # {} => phase \in {"match", "deinit", "restore", "destroy"}

\* So do its lists of containers.
NewFollowPhase ==
    \A s \in Slots :
        /\ cont[s].at = "fresh" => phase \in {"loaddir", "load", "halted"}
        /\ cont[s].at = "new" => phase \in {"match", "deinit", "restore", "destroy", "load",
                                            "relocate", "halted"}

StorageIsOpen ==
    phase \in {"inithooks", "starthooks", "running"} =>
        \A s \in Slots :
            cont[s].at = "loaded" /\ cont[s].linked /\ cont[s].data.img \in Storing =>
                cont[s].root \/ "nostorage" \in LoadFaults

AllAreStarted ==
    phase = "running" => \A s \in Slots : cont[s].at = "loaded" => cont[s].started = cont[s].linked

RunParts == ListsAreDone /\ NewFollowPhase /\ StorageIsOpen /\ AllAreStarted

\* A container of gLoadedPlugins refers to no root that was closed.
RootsAreOpen ==
    \A s \in Slots : cont[s].root =>
        cont[s].data.img \in Storing /\ (cont[s].at # "doomed" => cont[s].opened # 0)

RunInv == ContractInv /\ RunParts /\ RootsAreOpen

LEMMA RunInit == Init => RunParts
  BY FreeSlotIs DEF Init, Blank, RunParts, ListsAreDone, NewFollowPhase, StorageIsOpen, AllAreStarted

LEMMA RunStep == RunInv /\ [Next]_vars => RunParts'
  <1> SUFFICES ASSUME RunInv, [Next]_vars PROVE RunParts'
    OBVIOUS
  <1>0. TypeInv /\ ContractInv
    BY DEF RunInv, ContractInv
  <1> USE DEF RunInv, RunParts, ListsAreDone, NewFollowPhase, StorageIsOpen, AllAreStarted
  <1>1. CASE Initialize \/ InitializeSafeMode
    <2>1. phase = "boot" /\ phase' = "stopped" /\ UNCHANGED <<cont, queue, toLoad>>
      BY <1>1 DEF Initialize, InitializeSafeMode
    <2> QED BY <2>1
  <1>2. CASE StartFromDirectory
    <2>1. phase = "stopped" /\ phase' = "loaddir" /\ UNCHANGED <<cont, toLoad>>
      BY <1>2 DEF StartFromDirectory
    <2> QED BY <2>1
  <1>3. CASE StartWithReload
    BY <1>3 DEF StartWithReload, BeginReload
  <1>4. CASE StartUnchanged
    BY <1>4 DEF StartUnchanged
  <1>5. ASSUME NEW e \in queue, Match(e) PROVE RunParts'
    <2>1. phase = "match" /\ phase' = "match"
      BY <1>0, <1>5, MatchEffect
    <2>2. \A s \in Slots : cont'[s].at \in {"kept", cont[s].at}
      BY <1>0, <1>5, MatchEffect
    <2> QED BY <2>1, <2>2
  <1>6. CASE MatchDone
    <2>1. \A s \in Slots : cont'[s].at \in MatchedPlaces(cont[s].at)
      BY <1>0, <1>6, MatchDoneEffect
    <2>2. \A s \in Slots : cont'[s].at \in {"fresh", "new"} => cont[s].at = cont'[s].at
      BY <2>1 DEF MatchedPlaces
    <2> QED BY <1>0, <1>6, <2>2, MatchDoneEffect
  <1>7. CASE DeinitPlugins
    BY <1>0, <1>7, DeinitEffect
  <1>8. CASE RestoreFunctionPatches
    BY <1>0, <1>8, RestoreEffect
  <1>9. CASE DestroyDoomed
    <2>1. \A s \in Slots : cont'[s].at \in {"free", cont[s].at}
      BY <1>0, <1>9, DestroyEffect, FreeSlotIs
    <2> QED BY <1>0, <1>9, <2>1, DestroyEffect
  <1>10. ASSUME NEW e \in queue, LoadOne(e) PROVE RunParts'
    <2>1. \A s \in Slots : cont'[s].at \in {"fresh", cont[s].at}
      BY <1>0, <1>10, LoadEffect, AddEffect
    <2> QED BY <1>0, <1>10, <2>1, LoadEffect
  <1>11. CASE LoadDone
    <2>1. \A s \in Slots : cont'[s].at # "fresh"
      BY <1>0, <1>11, LoadDoneEffect, FreeSlotIs
    <2> QED BY <1>0, <1>11, <2>1, LoadDoneEffect
  <1>12. CASE Fatal
    <2>1. /\ queue = {} \/ phase = "storage"
          /\ phase' = "halted" /\ phase \in {"loaddir", "load", "storage"}
          /\ UNCHANGED <<cont, queue, toLoad>>
      BY <1>12 DEF Fatal
    <2> QED BY <2>1
  <1>13. CASE Relocate
    <2>1. \A s \in Slots : cont'[s].at # "new" /\ (cont'[s].at = "fresh" => cont[s].at = "fresh")
      BY <1>0, <1>13, RelocateEffect
    <2> QED BY <1>0, <1>13, <2>1, RelocateEffect
  <1>14. CASE OpenStorage
    BY <1>0, <1>14, OpenEffect DEF SameCode
  <1>15. CASE InitHooks
    BY <1>0, <1>15, InitHooksEffect DEF SameCode
  <1>16. CASE StartHooks
    BY <1>0, <1>16, StartHooksEffect DEF SameCode
  <1>17. CASE ApplicationEnds
    BY <1>0, <1>17, EndsEffect
  <1>18. CASE Reboot
    BY <1>18, FreeSlotIs DEF Reboot
  <1>19. CASE Api \/ Menu \/ UNCHANGED vars
    <2>1. UNCHANGED <<phase, cont, queue, toLoad>>
      BY <1>19, ApiEffect, MenuEffect DEF vars
    <2> QED BY <2>1
  <1> QED
    BY <1>1, <1>2, <1>3, <1>4, <1>5, <1>6, <1>7, <1>8, <1>9, <1>10, <1>11, <1>12, <1>13, <1>14,
       <1>15, <1>16, <1>17, <1>18, <1>19
    DEF Next, StartCycle, LoaderStep, VisitOne, LoadOne

LEMMA RootsInit == Init => RootsAreOpen
  BY DEF Init, Blank, FreeSlot, RootsAreOpen

\* What a step leaves of root, opened and data.
SameRoot(s) ==
    /\ cont'[s].root = cont[s].root
    /\ cont'[s].opened = cont[s].opened
    /\ cont'[s].data = cont[s].data

LEMMA RootsStep == TypeInv /\ RootsAreOpen /\ [Next]_vars => RootsAreOpen'
  <1> SUFFICES ASSUME TypeInv, RootsAreOpen, [Next]_vars PROVE RootsAreOpen'
    OBVIOUS
  <1>1. \A s \in Slots : cont[s] \in Container
    BY DEF TypeInv, TypeOK
  <1>2. ASSUME \A s \in Slots :
                 \/ cont'[s].root = FALSE
                 \/ SameRoot(s) /\ (cont'[s].at = "doomed" \/ cont[s].at # "doomed")
        PROVE  RootsAreOpen'
    BY <1>2 DEF RootsAreOpen, SameRoot
  <1>3. CASE UNCHANGED cont
    BY <1>3 DEF RootsAreOpen
  <1>4. CASE \/ Initialize \/ InitializeSafeMode \/ StartCycle \/ Fatal \/ Api \/ Menu
             \/ UNCHANGED vars
    <2>1. UNCHANGED cont
      BY <1>4, ApiEffect, MenuEffect
      DEF Initialize, InitializeSafeMode, StartCycle, StartFromDirectory, StartWithReload,
          StartUnchanged, Fatal, vars
    <2> QED BY <1>3, <2>1
  <1>5. ASSUME NEW e \in queue, Match(e) PROVE RootsAreOpen'
    <2>1. ASSUME NEW k \in Slots, cont' = [cont EXCEPT ![k].at = "kept"], cont[k].at = "loaded"
          PROVE  RootsAreOpen'
      <3>1. \A s \in Slots : SameRoot(s) /\ (s # k => cont'[s].at = cont[s].at)
        BY <1>1, <2>1 DEF SameRoot, TypeInv, TypeOK, Container
      <3> QED BY <1>2, <2>1, <3>1
    <2> QED BY <1>3, <1>5, <2>1 DEF Match, Loaded, At
  <1>6. CASE MatchDone
    <2>1. \A s \in Slots : SameRoot(s) /\ (cont'[s].at = "doomed" \/ cont[s].at # "doomed")
      BY <1>1, <1>6 DEF MatchDone, SameRoot, Container
    <2> QED BY <1>2, <2>1
  <1>7. CASE DeinitPlugins
    <2>1. \A s \in Slots : SameRoot(s) /\ cont'[s].at = cont[s].at
      BY <1>1, <1>7 DEF DeinitPlugins, DeinitHooksFor, SameRoot, Container
    <2> QED BY <1>2, <2>1
  <1>8. CASE RestoreFunctionPatches
    <2>1. ASSUME NEW s \in Slots
          PROVE  /\ cont'[s].root = cont[s].root /\ cont'[s].data = cont[s].data
                 /\ cont'[s].at = cont[s].at
                 /\ cont[s].at # "doomed" => cont'[s].opened = cont[s].opened
      BY <1>1, <1>8 DEF RestoreFunctionPatches, LinkedAt, At, Container
    <2> QED BY <2>1 DEF RootsAreOpen
  <1>9. CASE DestroyDoomed
    <2>1. \A s \in Slots : cont'[s] = FreeSlot \/ cont'[s] = cont[s]
      BY <1>9 DEF DestroyDoomed, Destroyed
    <2>2. FreeSlot.root = FALSE
      BY DEF FreeSlot
    <2>3. ASSUME NEW s \in Slots, cont'[s] = cont[s]
          PROVE  SameRoot(s) /\ (cont'[s].at = "doomed" \/ cont[s].at # "doomed")
      BY <2>3 DEF SameRoot
    <2> QED BY <1>2, <2>1, <2>2, <2>3
  <1>10. ASSUME NEW e \in queue, LoadOne(e) PROVE RootsAreOpen'
    <2>1. \/ UNCHANGED cont
          \/ \E linked \in BOOLEAN : AddContainer(e, linked)
      BY <1>10 DEF LoadOne, LoadUnparsable, LoadInactive, LoadRefused, LoadActive
    <2>2. ASSUME NEW linked \in BOOLEAN, AddContainer(e, linked) PROVE RootsAreOpen'
      <3>1. \A s \in Slots : cont'[s] = NewContainer(e, linked) \/ cont'[s] = cont[s]
        BY <2>2 DEF AddContainer, At, TypeInv, TypeOK
      <3>2. NewContainer(e, linked).root = FALSE
        BY DEF NewContainer
      <3> QED BY <1>2, <3>1, <3>2 DEF SameRoot
    <2> QED BY <1>3, <2>1, <2>2
  <1>11. CASE LoadDone
    <2>1. ASSUME NEW s \in Slots
          PROVE  \/ cont'[s].root = FALSE
                 \/ SameRoot(s) /\ (cont'[s].at = "doomed" <=> cont[s].at = "doomed")
      BY <1>1, <1>11 DEF LoadDone, SameRoot, FreeSlot, Container
    <2> QED BY <1>2, <2>1
  <1>12. CASE Relocate
    <2>1. ASSUME NEW s \in Slots
          PROVE  SameRoot(s) /\ (cont'[s].at = "doomed" \/ cont[s].at # "doomed")
      BY <1>1, <1>12 DEF Relocate, SameRoot, At, Container
    <2> QED BY <1>2, <2>1
  <1>13. CASE OpenStorage
    BY <1>13, OpenStorageKeeps DEF RootsAreOpen
  <1>14. CASE InitHooks
    <2>1. \A s \in Slots : SameRoot(s) /\ cont'[s].at = cont[s].at
      BY <1>1, <1>14 DEF InitHooks, SameRoot, Container
    <2> QED BY <1>2, <2>1
  <1>15. CASE StartHooks
    <2>1. \A s \in Slots : SameRoot(s) /\ cont'[s].at = cont[s].at
      BY <1>1, <1>15 DEF StartHooks, SameRoot, Container
    <2> QED BY <1>2, <2>1
  <1>16. CASE ApplicationEnds
    <2>1. \A s \in Slots : SameRoot(s) /\ cont'[s].at = cont[s].at
      BY <1>1, <1>16 DEF ApplicationEnds, SameRoot, Container
    <2> QED BY <1>2, <2>1
  <1>17. CASE Reboot
    BY <1>2, <1>17 DEF Reboot, FreeSlot
  <1> QED
    BY <1>4, <1>5, <1>6, <1>7, <1>8, <1>9, <1>10, <1>11, <1>12, <1>13, <1>14, <1>15, <1>16, <1>17
    DEF Next, LoaderStep, VisitOne, LoadOne

\* While an application runs, every container there is has come through all of
\* APPLICATION_STARTS: no loop, failure or reload leaves one half-way.
THEOREM RunningSafe == Spec => []RunningMeansReady
  <1>1. ASSUME RunInv PROVE RunningMeansReady
    <2> SUFFICES ASSUME phase = "running"
                 PROVE  /\ \A s \in Slots \ At("free") :
                              /\ cont[s].at = "loaded" /\ cont[s].initDone
                              /\ cont[s].started = cont[s].linked
                              /\ cont[s].life = (IF cont[s].linked THEN "inited" ELSE "none")
                              /\ cont[s].root => cont[s].opened > 0 /\ cont[s].data.img \in Storing
                              /\ cont[s].linked /\ cont[s].data.img \in Storing =>
                                    cont[s].root \/ "nostorage" \in LoadFaults
                        /\ patches = LinkedAt("loaded") /\ queue = {} /\ toLoad = {}
      BY DEF RunningMeansReady
    <2>1. queue = {} /\ toLoad = {}
      BY <1>1 DEF RunInv, RunParts, ListsAreDone
    <2>2. \A s \in Slots : cont[s] \in Container /\ cont[s].at \in {"free", "loaded"}
      BY <1>1 DEF RunInv, RunParts, NewFollowPhase, ContractInv, LifeInv, ListsFollowPhase,
                  TypeInv, TypeOK, Container, Places
    <2>3. ASSUME NEW s \in Slots, cont[s].at = "loaded"
          PROVE  /\ cont[s].initDone /\ cont[s].started = cont[s].linked
                 /\ cont[s].life = (IF cont[s].linked THEN "inited" ELSE "none")
                 /\ cont[s].root => cont[s].opened > 0 /\ cont[s].data.img \in Storing
                 /\ cont[s].linked /\ cont[s].data.img \in Storing =>
                       cont[s].root \/ "nostorage" \in LoadFaults
      <3>1. cont[s].initDone
        BY <1>1, <2>3 DEF RunInv, ContractInv, LifeInv, InitDoneIsLate
      <3>2. cont[s].life = (IF cont[s].linked THEN "inited" ELSE "none")
        BY <1>1, <2>3, <3>1 DEF RunInv, ContractInv, LifeInv, StubIsUnhooked, LoadedIsInited
      <3>3. /\ cont[s].linked /\ cont[s].data.img \in Storing =>
                  cont[s].root \/ "nostorage" \in LoadFaults
            /\ cont[s].root => cont[s].data.img \in Storing /\ cont[s].opened # 0
        BY <1>1, <2>3 DEF RunInv, RunParts, StorageIsOpen, RootsAreOpen
      <3>5. cont[s].opened # 0 => cont[s].opened > 0
        BY <2>2, ConstantsAssumption DEF Container
      <3>4. cont[s].started = cont[s].linked
        BY <1>1, <2>3 DEF RunInv, RunParts, AllAreStarted
      <3> QED BY <3>1, <3>2, <3>3, <3>4, <3>5
    <2>4. patches = LinkedAt("loaded")
      BY <1>1, <2>2 DEF RunInv, ContractInv, PatchesPointIntoPlugins, PatchedWhileAlive, LinkedAt,
                        At, TypeInv, TypeOK
    <2> QED BY <2>1, <2>2, <2>3, <2>4 DEF At
  <1>2. Init => RunInv
    BY RunInit, ContractInit, RootsInit DEF RunInv
  <1>3. RunInv /\ [Next]_vars => RunInv'
    BY RunStep, ContractStep, RootsStep DEF RunInv, ContractInv
  <1> QED BY <1>1, <1>2, <1>3, PTL DEF Spec

-----------------------------------------------------------------------------
(* Safe mode.  What was enabled before is gone with the reset, and what is  *)
(* read from the directory follows settings that switch third parties off:  *)
(* in memory, and on the card once they are written.                        *)

ThirdParty == Files \ BaseFiles

Harmless(d) == OnSD(d) => d.img \in BaseFiles

BootIsBlank ==
    phase = "boot" =>
        /\ \A s \in Slots : cont[s] = FreeSlot
        /\ queue = {} /\ toLoad = {} /\ next = {}

SafeSettings ==
    safe => /\ ThirdParty \subseteq settings.inactive
            /\ file.valid => ThirdParty \subseteq file.inactive

SafeLists ==
    safe => /\ \A e \in queue \cup toLoad \cup next : e.link => Harmless(e.data)
            /\ \A s \in Slots : cont[s].linked => Harmless(cont[s].data)

SafeInv == BootIsBlank /\ SafeSettings /\ SafeLists

\* Where writes work, what is dirty gets to the card.
LEMMA Saves ==
    ASSUME IoFaults \subseteq {"unread"}, NEW mem \in Settings, NEW f \in SettingsFile,
           NEW r \in SaveSettings(mem, f)
    PROVE  /\ r.mem.inactive = mem.inactive
           /\ IF mem.dirty THEN r.file = ToFile(mem) ELSE r.file = f
  <1>1. CASE ~mem.dirty
    BY <1>1 DEF SaveSettings
  <1>2. CASE mem.dirty
    <2>1. r = [mem |-> Clean(mem), file |-> ToFile(mem)]
      BY <1>2 DEF SaveSettings
    <2> QED BY <1>2, <2>1 DEF Clean
  <1> QED BY <1>1, <1>2

LEMMA SaveIsSafe ==
    ASSUME IoFaults \subseteq {"unread"}, NEW mem \in Settings, NEW f \in SettingsFile,
           NEW r \in SaveSettings(mem, f), ThirdParty \subseteq mem.inactive,
           f.valid /\ ~mem.dirty => ThirdParty \subseteq f.inactive
    PROVE  /\ ThirdParty \subseteq r.mem.inactive
           /\ r.file.valid => ThirdParty \subseteq r.file.inactive
  <1>1. r.mem.inactive = mem.inactive /\ r.file = IF mem.dirty THEN ToFile(mem) ELSE f
    BY Saves
  <1>2. ToFile(mem).inactive = mem.inactive
    BY DEF ToFile
  <1>3. mem.dirty \in BOOLEAN
    BY SettingsFields
  <1> QED BY <1>1, <1>2, <1>3

LEMMA LoadIsSafe ==
    ASSUME NEW mem \in Settings, NEW f \in SettingsFile, NEW r \in LoadSettings(mem, f),
           ThirdParty \subseteq mem.inactive, f.valid => ThirdParty \subseteq f.inactive
    PROVE  r \in Settings /\ ThirdParty \subseteq r.inactive
  <1>1. r \in Settings /\ (r = mem \/ (f.valid /\ r = FromFile(f)))
    BY LoadedSettings
  <1> QED BY <1>1 DEF FromFile

LEMMA SafeInit == Init => SafeInv
  BY FreeSlotIs DEF Init, Blank, SafeInv, BootIsBlank, SafeSettings, SafeLists

LEMMA DirectoryIsSafe ==
    ASSUME TypeInv, SafeInv, StartFromDirectory, safe
    PROVE  /\ ThirdParty \subseteq settings'.inactive
           /\ \A e \in queue' : e.link => Harmless(e.data)
  <1>1. PICK mem \in LoadSettings(settings, file) :
           /\ settings' \in LoadSettings(mem, file)
           /\ \E readable \in SUBSET Files : \E h \in Injection(readable, FreshHandles) :
                queue' = {[data |-> [img |-> f, h |-> h[f]], link |-> f \notin mem.inactive,
                           track |-> FALSE, call |-> 0, item |-> h[f]] : f \in readable}
    BY DEF StartFromDirectory
  <1>2. settings \in Settings /\ file \in SettingsFile
    BY DEF TypeInv, TypeOK
  <1>3. mem \in Settings /\ ThirdParty \subseteq mem.inactive
    BY <1>2, LoadIsSafe DEF SafeInv, SafeSettings
  <1>4. ThirdParty \subseteq settings'.inactive
    BY <1>1, <1>2, <1>3, LoadIsSafe DEF SafeInv, SafeSettings
  <1>5. PICK readable \in SUBSET Files : \E h \in Injection(readable, FreshHandles) :
           queue' = {[data |-> [img |-> f, h |-> h[f]], link |-> f \notin mem.inactive,
                      track |-> FALSE, call |-> 0, item |-> h[f]] : f \in readable}
    BY <1>1
  <1>6. PICK h \in Injection(readable, FreshHandles) :
           queue' = {[data |-> [img |-> f, h |-> h[f]], link |-> f \notin mem.inactive,
                      track |-> FALSE, call |-> 0, item |-> h[f]] : f \in readable}
    BY <1>5
  <1>7. ASSUME NEW e \in queue', e.link PROVE Harmless(e.data)
    <2>1. PICK f \in readable : e = [data |-> [img |-> f, h |-> h[f]], link |-> f \notin mem.inactive,
                                     track |-> FALSE, call |-> 0, item |-> h[f]]
      BY <1>6
    <2>2. e.link = (f \notin mem.inactive) /\ e.data.img = f
      BY <2>1
    <2>3. f \notin mem.inactive /\ f \in Files
      BY <1>7, <2>2
    <2> QED BY <2>2, <2>3, <1>3 DEF Harmless, ThirdParty
  <1> QED BY <1>4, <1>7

LEMMA SafeStep ==
    ASSUME IoFaults \subseteq {"unread"}
    PROVE  TypeInv /\ SafeInv /\ [Next]_vars => SafeInv'
  <1> SUFFICES ASSUME TypeInv, SafeInv, [Next]_vars PROVE SafeInv'
    OBVIOUS
  <1>0. settings \in Settings /\ file \in SettingsFile
    BY DEF TypeInv, TypeOK
  <1> USE DEF SafeInv, BootIsBlank, SafeSettings, SafeLists
  <1>1. CASE Initialize
    BY <1>1 DEF Initialize, requestVars, settingVars, history
  <1>2. CASE InitializeSafeMode
    <2>1. PICK mem \in LoadSettings(settings, file) :
            \E r \in SaveSettings(SetInactivePluginFilenames(
                        mem, mem.inactive \cup (Files \ BaseFiles)), file) :
                settings' = r.mem /\ file' = r.file
      BY <1>2 DEF InitializeSafeMode
    <2> DEFINE fs == mem.inactive \cup (Files \ BaseFiles)
    <2> DEFINE new == SetInactivePluginFilenames(mem, fs)
    <2>2. mem \in Settings
      BY <1>0, LoadedSettings
    <2>3. new \in Settings
      BY <2>2, SettingsFields, SetSettings
    <2>4. new.inactive = fs /\ (~new.dirty => fs = {})
      BY DEF SetInactivePluginFilenames
    <2>5. PICK r \in SaveSettings(new, file) : settings' = r.mem /\ file' = r.file
      BY <2>1
    <2>6. ThirdParty \subseteq new.inactive /\ (file.valid /\ ~new.dirty => ThirdParty \subseteq file.inactive)
      BY <2>4 DEF ThirdParty
    <2> HIDE DEF fs, new
    <2>7. /\ ThirdParty \subseteq settings'.inactive
          /\ file'.valid => ThirdParty \subseteq file'.inactive
      BY <1>0, <2>3, <2>5, <2>6, SaveIsSafe
    <2>8. phase = "boot" /\ phase' = "stopped" /\ UNCHANGED <<cont, queue, toLoad, next>>
      BY <1>2 DEF InitializeSafeMode, requestVars
    <2>9. SafeLists'
      BY <2>8, FreeSlotIs
    <2> QED BY <2>7, <2>8, <2>9
  <1>3. CASE StartFromDirectory
    <2>1. phase' = "loaddir" /\ UNCHANGED <<cont, toLoad, next, file, safe>>
      BY <1>3 DEF StartFromDirectory, requestVars, history
    <2> QED BY <1>3, <2>1, DirectoryIsSafe
  <1>4. CASE StartWithReload
    BY <1>4 DEF StartWithReload, BeginReload, Filtered, requestVars, settingVars
  <1>5. CASE StartUnchanged
    BY <1>5 DEF StartUnchanged, requestVars, settingVars, history
  <1>6. ASSUME NEW e \in queue, Match(e) PROVE SafeInv'
    <2>1. /\ phase' = "match" /\ UNCHANGED <<next, safe, settings, file>>
          /\ queue' \cup toLoad' \subseteq queue \cup toLoad
      BY <1>6, MatchEffect
    <2>2. \A s \in Slots : SameCode(s)
      BY <1>6, MatchEffect, Alike
    <2> QED BY <2>1, <2>2 DEF SameCode
  <1>7. CASE MatchDone
    BY <1>7, MatchDoneEffect DEF SameCode
  <1>8. CASE DeinitPlugins
    BY <1>8, DeinitEffect DEF SameCode
  <1>9. CASE RestoreFunctionPatches
    BY <1>9, RestoreEffect DEF SameCode
  <1>10. CASE DestroyDoomed
    <2>1. /\ phase' = "load" /\ queue' = toLoad /\ toLoad' = {} /\ UNCHANGED <<next, safe, file>>
          /\ \A s \in Slots : cont'[s] = FreeSlot \/ cont'[s] = cont[s]
      BY <1>10, DestroyEffect
    <2>2. SafeSettings'
      BY <1>0, <1>10, <2>1, LoadIsSafe DEF DestroyDoomed
    <2> QED BY <2>1, <2>2, FreeSlotIs
  <1>11. ASSUME NEW e \in queue, LoadOne(e) PROVE SafeInv'
    <2>1. /\ phase' # "boot" /\ UNCHANGED <<toLoad, next, safe, file>> /\ queue' \subseteq queue
      BY <1>11, LoadEffect
    <2>2. settings.inactive \subseteq settings'.inactive
      <3>1. \A f : AddInactivePluginFilename(AddBrokenReentPluginFilename(settings, f), f).inactive
                     = settings.inactive \cup {f}
        BY DEF AddInactivePluginFilename, AddBrokenReentPluginFilename
      <3>2. \A f : RemoveBrokenReentPluginFilename(settings, f).inactive = settings.inactive
        BY DEF RemoveBrokenReentPluginFilename
      <3>3. CASE LoadRefused(e)
        BY <3>1, <3>3 DEF LoadRefused
      <3>4. CASE LoadActive(e)
        BY <3>2, <3>4 DEF LoadActive
      <3> QED BY <1>11, <3>3, <3>4 DEF LoadOne, LoadUnparsable, LoadInactive
    <2>3. \A s \in Slots : \/ cont'[s] = cont[s]
                           \/ cont'[s].data = e.data /\ (cont'[s].linked => e.link)
      BY <1>11, LoadEffect, AddEffect
    <2> QED BY <2>1, <2>2, <2>3
  <1>12. CASE LoadDone
    <2>1. PICK r \in SaveSettings(settings, file) : settings' = r.mem /\ file' = r.file
      BY <1>12 DEF LoadDone
    <2>2. UNCHANGED <<toLoad, next, safe>> /\ queue' \subseteq queue \cup next /\ phase' # "boot"
      BY <1>12, LoadDoneEffect DEF Filtered
    <2>3. SafeSettings'
      BY <1>0, <2>1, <2>2, SaveIsSafe
    <2>4. \A s \in Slots : cont'[s] = FreeSlot \/ SameCode(s)
      BY <1>12, LoadDoneEffect, Alike
    <2> QED BY <2>2, <2>3, <2>4, FreeSlotIs DEF SameCode
  <1>13. CASE Fatal
    BY <1>13 DEF Fatal, requestVars, settingVars, history
  <1>14. CASE Relocate
    BY <1>14, RelocateEffect DEF SameCode
  <1>15. CASE OpenStorage
    BY <1>15, OpenEffect DEF SameCode
  <1>16. CASE InitHooks
    BY <1>16, InitHooksEffect DEF SameCode
  <1>17. CASE StartHooks
    BY <1>17, StartHooksEffect DEF SameCode
  <1>18. CASE ApplicationEnds
    BY <1>18, EndsEffect DEF SameCode
  <1>19. CASE Reboot
    BY <1>19 DEF Reboot
  <1>20. CASE Api
    <2>1. UNCHANGED <<phase, cont, patches, queue, toLoad, settings, file, plan>>
      BY <1>20, ApiEffect
    <2>2. phase # "boot" /\ (UNCHANGED <<next, safe>> \/ safe' = FALSE)
      BY <1>20, ApiEffect
    <2>3. CASE UNCHANGED <<next, safe>>
      BY <2>1, <2>2, <2>3
    <2>4. CASE safe' = FALSE
      BY <2>1, <2>2, <2>4
    <2> QED BY <2>2, <2>3, <2>4
  <1>21. CASE Menu
    BY <1>21, MenuEffect
  <1>22. CASE UNCHANGED vars
    BY <1>22 DEF vars, requestVars, settingVars, history
  <1> QED
    BY <1>1, <1>2, <1>3, <1>4, <1>5, <1>6, <1>7, <1>8, <1>9, <1>10, <1>11, <1>12, <1>13, <1>14,
       <1>15, <1>16, <1>17, <1>18, <1>19, <1>20, <1>21, <1>22
    DEF Next, StartCycle, LoaderStep, VisitOne, LoadOne

\* "Any 3rd party plugins have been disabled!" (main.cpp:100) is true until somebody
\* enables one, if the settings can be written: whatever was linked before, whatever
\* reads fail, and over all applications that are started in that boot.
THEOREM SafeModeSafe ==
    ASSUME IoFaults \subseteq {"unread"}
    PROVE  Spec => []SafeModeDisables
  <1>1. SafeInv => SafeModeDisables
    BY DEF SafeInv, SafeLists, SafeModeDisables, Harmless, LinkedAt, At
  <1> QED BY <1>1, SafeInit, InitType, TypeStep, SafeStep, PTL DEF Spec
-----------------------------------------------------------------------------
(* A reload does what was asked: what every phase of it still owes.         *)

ReloadPhases == {"match", "deinit", "restore", "destroy", "load", "relocate", "storage"}

\* Where the containers are that the reload has taken on so far.
Holders ==
    CASE phase = "match" -> {"kept"}
      [] phase \in {"deinit", "restore", "destroy"} -> {"loaded"}
      [] phase = "load" -> {"loaded", "fresh"}
      [] OTHER -> {"loaded", "new"}

Held == {s \in Slots : cont[s].at \in Holders}

PlanIsUsed == plan # {} => phase \in ReloadPhases \cup {"halted"}

EntriesAsked == phase \in ReloadPhases => queue \cup toLoad \subseteq plan

KeptAsAsked == \A s \in At("kept") : \E e \in plan : NeedsNoReload(cont[s], e)

AskedIn(entries, c) == \E e \in entries : e.data = c.data /\ (c.linked => e.link)

HeldAsAsked == phase \in ReloadPhases /\ plan # {} => \A s \in Held : AskedIn(plan, cont[s])

\* A request to keep a plugin unlinked is met, or its turn is still to come.
MetBy(e, c) == c.data = e.data /\ ~c.linked

UnlinkedPending ==
    phase \in ReloadPhases =>
        \A e \in Filtered(plan) : ~e.link =>
            e \in queue \cup toLoad \/ \E s \in Held : MetBy(e, cont[s])

ReloadParts == PlanIsUsed /\ EntriesAsked /\ KeptAsAsked /\ HeldAsAsked /\ UnlinkedPending

ReloadInv == RunInv /\ ReloadParts

LEMMA AskedSame ==
    ASSUME NEW s \in Slots, SameCode(s)
    PROVE  /\ \A e : NeedsNoReload(cont'[s], e) <=> NeedsNoReload(cont[s], e)
           /\ \A e : MetBy(e, cont'[s]) <=> MetBy(e, cont[s])
           /\ \A entries : AskedIn(entries, cont'[s]) <=> AskedIn(entries, cont[s])
  BY DEF SameCode, NeedsNoReload, MetBy, AskedIn

\* What is held and what is still to come only changes places.
LEMMA ReloadMoves ==
    ASSUME ReloadParts, plan' = plan, phase \in ReloadPhases, phase' \in ReloadPhases,
           queue' \cup toLoad' = queue \cup toLoad,
           \A s \in Slots : s \in Held' <=> s \in Held,
           \A s \in Held : SameCode(s),
           \A s \in Slots : cont'[s].at = "kept" => cont[s].at = "kept" /\ SameCode(s)
    PROVE  ReloadParts'
  <1>1. PlanIsUsed' /\ EntriesAsked'
    BY DEF ReloadParts, PlanIsUsed, EntriesAsked
  <1>2. KeptAsAsked'
    <2>1. ASSUME NEW s \in Slots, cont'[s].at = "kept"
          PROVE  \E e \in plan : NeedsNoReload(cont'[s], e)
      <3>1. PICK e \in plan : NeedsNoReload(cont[s], e)
        BY <2>1 DEF ReloadParts, KeptAsAsked, At
      <3> QED BY <2>1, <3>1, AskedSame
    <2> QED BY <2>1 DEF KeptAsAsked, At
  <1>3. HeldAsAsked'
    <2>1. ASSUME NEW s \in Held, plan # {} PROVE AskedIn(plan, cont'[s])
      <3>1. AskedIn(plan, cont[s]) /\ SameCode(s) /\ s \in Slots
        BY <2>1 DEF ReloadParts, HeldAsAsked, Held
      <3> QED BY <3>1, AskedSame
    <2>2. \A s \in Held' : s \in Held
      BY DEF Held
    <2> QED BY <2>1, <2>2 DEF HeldAsAsked
  <1>4. UnlinkedPending'
    <2>1. ASSUME NEW e \in Filtered(plan), ~e.link
          PROVE  e \in queue' \cup toLoad' \/ \E s \in Held' : MetBy(e, cont'[s])
      <3>1. CASE e \in queue \cup toLoad
        BY <3>1
      <3>2. ASSUME NEW s \in Held, MetBy(e, cont[s])
            PROVE  \E u \in Held' : MetBy(e, cont'[u])
        <4>1. s \in Slots /\ s \in Held'
          BY DEF Held
        <4> QED BY <3>2, <4>1, AskedSame
      <3> QED BY <2>1, <3>1, <3>2 DEF ReloadParts, UnlinkedPending
    <2> QED BY <2>1 DEF UnlinkedPending, Filtered
  <1> QED BY <1>1, <1>2, <1>3, <1>4 DEF ReloadParts

LEMMA NothingAsked ==
    ASSUME plan' = {}, phase' \in ReloadPhases => queue' = {} /\ toLoad' = {},
           \A s \in Slots : cont'[s].at # "kept"
    PROVE  ReloadParts'
  BY DEF ReloadParts, PlanIsUsed, EntriesAsked, KeptAsAsked, HeldAsAsked, UnlinkedPending,
         Filtered, At

LEMMA ReloadBegins ==
    ASSUME plan' \subseteq Entry, phase' = "match", queue' = Filtered(plan'),
           \A s \in Slots : cont'[s].at # "kept", toLoad' = {}
    PROVE  ReloadParts'
  <1>1. Filtered(plan') \subseteq plan' /\ Filtered(plan)' = Filtered(plan')
    BY DEF Filtered
  <1>2. PlanIsUsed' /\ EntriesAsked' /\ UnlinkedPending'
    BY <1>1 DEF PlanIsUsed, EntriesAsked, UnlinkedPending, ReloadPhases
  <1>3. KeptAsAsked' /\ HeldAsAsked'
    BY DEF KeptAsAsked, HeldAsAsked, Held, Holders, At
  <1> QED BY <1>2, <1>3 DEF ReloadParts

LEMMA ReloadInit == Init => ReloadParts
  <1> SUFFICES ASSUME Init PROVE ReloadParts
    OBVIOUS
  <1>1. plan = {} /\ phase \notin ReloadPhases /\ \A s \in Slots : cont[s].at # "kept"
    BY FreeSlotIs DEF Init, Blank, ReloadPhases
  <1> QED BY <1>1 DEF ReloadParts, PlanIsUsed, EntriesAsked, KeptAsAsked, HeldAsAsked,
                      UnlinkedPending, At

\* A wrapper is matched: what it asks for is kept, or will be loaded.
LEMMA MatchMeets ==
    ASSUME ReloadParts, TypeInv, NEW e \in queue, Match(e)
    PROVE  ReloadParts'
  <1>1. /\ phase = "match" /\ phase' = "match" /\ plan' = plan /\ queue' = queue \ {e}
        /\ \/ /\ toLoad' = toLoad
              /\ \E k \in Slots :
                    /\ cont[k].at = "loaded" /\ NeedsNoReload(cont[k], e)
                    /\ cont'[k].at = "kept" /\ SameCode(k)
                    /\ \A s \in Slots \ {k} : cont'[s] = cont[s]
           \/ toLoad' = toLoad \cup {e} /\ UNCHANGED cont
    BY MatchEffect
  <1>2. Held = At("kept") /\ Held' = At("kept")'
    BY <1>1 DEF Held, Holders, At
  <1>3. e \in plan /\ queue \cup toLoad \subseteq plan
    BY <1>1 DEF ReloadParts, EntriesAsked, ReloadPhases
  <1>4. PlanIsUsed' /\ EntriesAsked'
    BY <1>1, <1>3 DEF PlanIsUsed, EntriesAsked, ReloadPhases
  <1>5. \A s \in At("kept") : s \in At("kept")' /\ cont'[s] = cont[s]
    BY <1>1 DEF At
  <1>6. KeptAsAsked'
    <2>1. ASSUME NEW s \in Slots, cont'[s].at = "kept"
          PROVE  \E o \in plan : NeedsNoReload(cont'[s], o)
      <3>1. CASE cont'[s] = cont[s]
        BY <2>1, <3>1 DEF ReloadParts, KeptAsAsked, At
      <3>2. CASE SameCode(s) /\ NeedsNoReload(cont[s], e)
        BY <1>3, <3>2, AskedSame
      <3> QED BY <1>1, <3>1, <3>2
    <2> QED BY <1>1, <2>1 DEF KeptAsAsked, At
  <1>7. HeldAsAsked'
    BY <1>1, <1>2, <1>6 DEF HeldAsAsked, KeptAsAsked, NeedsNoReload, AskedIn
  <1>8. UnlinkedPending'
    <2>1. ASSUME NEW o \in Filtered(plan), ~o.link
          PROVE  o \in queue' \cup toLoad' \/ \E s \in At("kept")' : MetBy(o, cont'[s])
      <3>1. o \in queue \cup toLoad \/ \E s \in At("kept") : MetBy(o, cont[s])
        BY <1>1, <1>2, <2>1 DEF ReloadParts, UnlinkedPending, ReloadPhases
      <3>2. CASE \E s \in At("kept") : MetBy(o, cont[s])
        BY <1>5, <3>2
      <3>3. CASE o # e /\ o \in queue \cup toLoad
        BY <1>1, <3>3
      <3>4. CASE o = e
        <4>1. ASSUME NEW k \in Slots, NeedsNoReload(cont[k], e), cont'[k].at = "kept", SameCode(k)
              PROVE  k \in At("kept")' /\ MetBy(o, cont'[k])
          BY <2>1, <3>4, <4>1 DEF At, NeedsNoReload, MetBy, SameCode
        <4> QED BY <1>1, <3>4, <4>1
      <3> QED BY <3>1, <3>2, <3>3, <3>4
    <2> QED BY <1>1, <1>2, <2>1 DEF UnlinkedPending, Filtered
  <1> QED BY <1>4, <1>6, <1>7, <1>8 DEF ReloadParts

\* A wrapper is loaded: one that asks for a plugin that is not linked cannot fail,
\* its meta data was read when the list was filtered.
LEMMA LoadMeets ==
    ASSUME ReloadInv, NEW e \in queue, LoadOne(e)
    PROVE  ReloadParts'
  <1>0. ReloadParts /\ TypeInv /\ \A s \in Slots : cont[s].at = "kept" => phase = "match"
    BY DEF ReloadInv, RunInv, ContractInv, LifeInv, ListsFollowPhase
  <1>1. /\ phase \in {"loaddir", "load"} /\ queue' = queue \ {e}
        /\ UNCHANGED <<phase, toLoad, plan>>
    BY <1>0, LoadEffect
  <1>2. \/ UNCHANGED cont /\ (e.link \/ e.data.img \in Unparsable)
        \/ \E k \in Slots :
              /\ cont[k].at = "free" /\ cont'[k].at = "fresh" /\ cont'[k].data = e.data
              /\ cont'[k].linked => e.link
              /\ \A s \in Slots \ {k} : cont'[s] = cont[s]
    <2>1. CASE UNCHANGED cont /\ (e.link \/ e.data.img \in Unparsable)
      BY <2>1
    <2>2. ASSUME NEW linked \in BOOLEAN, AddContainer(e, linked), linked => e.link
          PROVE  \E k \in Slots :
                    /\ cont[k].at = "free" /\ cont'[k].at = "fresh" /\ cont'[k].data = e.data
                    /\ cont'[k].linked => e.link
                    /\ \A s \in Slots \ {k} : cont'[s] = cont[s]
      BY <1>0, <2>2, AddEffect
    <2>3. \/ UNCHANGED cont /\ (e.link \/ e.data.img \in Unparsable)
          \/ \E linked \in BOOLEAN : AddContainer(e, linked) /\ (linked => e.link)
      BY <1>0, LoadEffect
    <2> QED BY <2>1, <2>2, <2>3
  <1>3. \A s \in Slots : cont'[s].at # "kept"
    BY <1>0, <1>1, <1>2
  <1>4. CASE phase = "loaddir"
    <2>1. plan' = {} /\ phase' \notin ReloadPhases
      BY <1>0, <1>1, <1>4 DEF ReloadParts, PlanIsUsed, ReloadPhases
    <2> QED BY <1>3, <2>1, NothingAsked
  <1>5. CASE phase = "load"
    <2>1. Held = At("loaded") \cup At("fresh") /\ Held' = At("loaded")' \cup At("fresh")'
      BY <1>1, <1>5 DEF Held, Holders, At
    <2>2. queue \cup toLoad \subseteq plan /\ e \in plan /\ plan # {}
      BY <1>0, <1>5 DEF ReloadParts, EntriesAsked, ReloadPhases
    <2>3. PlanIsUsed' /\ EntriesAsked' /\ KeptAsAsked'
      BY <1>1, <1>3, <1>5, <2>2 DEF PlanIsUsed, EntriesAsked, KeptAsAsked, ReloadPhases, At
    <2>4. \A s \in Held : s \in Held' /\ cont'[s] = cont[s]
      BY <1>2, <2>1 DEF At
    <2>5. HeldAsAsked'
      <3>1. ASSUME NEW s \in Held' PROVE AskedIn(plan, cont'[s])
        <4>1. CASE s \in Held
          BY <1>0, <1>5, <2>2, <2>4, <4>1 DEF ReloadParts, HeldAsAsked, ReloadPhases
        <4>2. CASE cont'[s].data = e.data /\ (cont'[s].linked => e.link)
          BY <2>2, <4>2 DEF AskedIn
        <4> QED BY <1>2, <2>1, <4>1, <4>2 DEF At
      <3> QED BY <1>1, <3>1 DEF HeldAsAsked
    <2>6. UnlinkedPending'
      <3>1. ASSUME NEW o \in Filtered(plan), ~o.link
            PROVE  o \in queue' \cup toLoad' \/ \E s \in Held' : MetBy(o, cont'[s])
        <4>1. o \in queue \cup toLoad \/ \E s \in Held : MetBy(o, cont[s])
          BY <1>0, <1>5, <3>1 DEF ReloadParts, UnlinkedPending, ReloadPhases
        <4>2. CASE \E s \in Held : MetBy(o, cont[s])
          BY <2>4, <4>2
        <4>3. CASE o # e /\ o \in queue \cup toLoad
          BY <1>1, <4>3
        <4>4. CASE o = e
          <5>1. o.data.img \notin Unparsable
            BY <3>1 DEF Filtered
          <5>2. PICK k \in Slots : cont'[k].at = "fresh" /\ cont'[k].data = e.data
                                   /\ (cont'[k].linked => e.link)
            BY <1>2, <3>1, <4>4, <5>1
          <5> QED BY <2>1, <3>1, <4>4, <5>2 DEF At, MetBy
        <4> QED BY <4>1, <4>2, <4>3, <4>4
      <3> QED BY <1>1, <3>1 DEF UnlinkedPending, Filtered
    <2> QED BY <2>3, <2>5, <2>6 DEF ReloadParts
  <1> QED BY <1>1, <1>4, <1>5

LEMMA ReloadStep == ReloadInv /\ [Next]_vars => ReloadParts'
  <1> SUFFICES ASSUME ReloadInv, [Next]_vars PROVE ReloadParts'
    OBVIOUS
  <1>0. /\ ReloadParts /\ TypeInv /\ ListsAreDone /\ NewFollowPhase
        /\ plan # {} => phase \in ReloadPhases \cup {"halted"}
        /\ \A s \in Slots : cont[s].at = "kept" => phase = "match"
    BY DEF ReloadInv, RunInv, RunParts, ContractInv, LifeInv, ListsFollowPhase, ReloadParts, PlanIsUsed
  <1>1. CASE Initialize \/ InitializeSafeMode \/ StartFromDirectory
    <2>1. phase \in {"boot", "stopped"} /\ phase' \in {"stopped", "loaddir"} /\ UNCHANGED <<cont, plan>>
      BY <1>1 DEF Initialize, InitializeSafeMode, StartFromDirectory, history
    <2> QED BY <1>0, <2>1, NothingAsked DEF ReloadPhases
  <1>2. CASE StartWithReload
    <2>1. phase = "stopped" /\ phase' = "match" /\ queue' = Filtered(next) /\ plan' = next
          /\ UNCHANGED <<cont, toLoad>>
      BY <1>2 DEF StartWithReload, BeginReload
    <2>2. toLoad = {} /\ next \subseteq Entry
      BY <1>0, <2>1 DEF ListsAreDone, TypeInv, TypeOK
    <2> QED BY <1>0, <2>1, <2>2, ReloadBegins
  <1>3. CASE StartUnchanged
    <2>1. phase = "stopped" /\ UNCHANGED <<cont, plan, queue, toLoad>>
      BY <1>3 DEF StartUnchanged, history
    <2> QED BY <1>0, <2>1, NothingAsked DEF ReloadPhases, ListsAreDone
  <1>4. ASSUME NEW e \in queue, Match(e) PROVE ReloadParts'
    BY <1>0, <1>4, MatchMeets
  <1>5. CASE MatchDone
    <2>1. /\ phase = "match" /\ phase' = "deinit"
          /\ UNCHANGED <<queue, toLoad, plan>>
          /\ \A s \in Slots : SameCode(s) /\ cont'[s].at \in MatchedPlaces(cont[s].at)
      BY <1>0, <1>5, MatchDoneEffect
    <2>2. Held = At("kept") /\ Held' = At("loaded")'
      BY <2>1 DEF Held, Holders, At
    <2>3. \A s \in Slots : /\ cont'[s].at = "loaded" <=> cont[s].at = "kept"
                           /\ cont'[s].at # "kept"
      BY <2>1 DEF MatchedPlaces
    <2>4. \A s \in Slots : s \in Held' <=> s \in Held
      BY <2>2, <2>3 DEF At
    <2>5. \A s \in Held : SameCode(s)
      BY <2>1 DEF Held
    <2> QED BY <1>0, <2>1, <2>3, <2>4, <2>5, ReloadMoves DEF ReloadPhases
  <1>6. CASE DeinitPlugins \/ RestoreFunctionPatches
    <2>1. /\ phase \in {"deinit", "restore"} /\ phase' \in {"restore", "destroy"}
          /\ UNCHANGED <<queue, toLoad, plan>>
          /\ \A s \in Slots : SameCode(s) /\ cont'[s].at = cont[s].at
      BY <1>0, <1>6, DeinitEffect, RestoreEffect
    <2>2. \A s \in Slots : s \in Held' <=> s \in Held
      BY <2>1 DEF Held, Holders
    <2>3. \A s \in Held : SameCode(s)
      BY <2>1 DEF Held
    <2> QED BY <1>0, <2>1, <2>2, <2>3, ReloadMoves DEF ReloadPhases
  <1>7. CASE DestroyDoomed
    <2>1. /\ phase = "destroy" /\ phase' = "load" /\ queue' = toLoad /\ toLoad' = {} /\ plan' = plan
          /\ \A s \in Slots : IF cont[s].at = "doomed" THEN cont'[s] = FreeSlot
                                                      ELSE cont'[s] = cont[s]
      BY <1>0, <1>7, DestroyEffect
    <2>2. queue = {}
      BY <1>0, <2>1 DEF ListsAreDone
    <2>3. Held = At("loaded") /\ Held' = At("loaded")' \cup At("fresh")'
      BY <2>1 DEF Held, Holders, At
    <2>4. ASSUME NEW s \in Slots
          PROVE  /\ s \in Held' <=> s \in Held
                 /\ s \in Held => SameCode(s)
                 /\ cont'[s].at # "kept"
      <3>1. cont[s].at # "fresh" /\ cont[s].at # "kept"
        BY <1>0, <2>1 DEF NewFollowPhase
      <3> QED BY <2>1, <2>3, <3>1, FreeSlotIs, Alike DEF At
    <2>5. \A s \in Held : SameCode(s)
      BY <2>4 DEF Held
    <2> QED BY <1>0, <2>1, <2>2, <2>4, <2>5, ReloadMoves DEF ReloadPhases
  <1>8. ASSUME NEW e \in queue, LoadOne(e) PROVE ReloadParts'
    BY <1>8, LoadMeets
  <1>9. CASE LoadDone
    <2>1. /\ phase \in {"loaddir", "load"} /\ queue = {} /\ toLoad' = toLoad
          /\ \/ phase = "loaddir" /\ phase' = "match" /\ queue' = Filtered(next) /\ plan' = next
             \/ phase' = "relocate" /\ UNCHANGED <<queue, plan>>
      BY <1>0, <1>9, LoadDoneEffect
    <2>2. \A s \in Slots :
             /\ cont[s].at = "new" => cont'[s] = FreeSlot
             /\ cont[s].at = "fresh" => SameCode(s) /\ cont'[s].at = "new"
             /\ cont[s].at \notin {"new", "fresh"} => cont'[s] = cont[s]
      BY <1>0, <1>9, LoadDoneEffect
    <2>3. \A s \in Slots : cont'[s].at # "kept"
      BY <1>0, <2>1, <2>2, FreeSlotIs
    <2>4. toLoad = {}
      BY <1>0, <2>1 DEF ListsAreDone
    <2>5. CASE phase' = "match"
      <3>1. plan' = next /\ queue' = Filtered(next) /\ next \subseteq Entry
        BY <1>0, <2>1, <2>5 DEF TypeInv, TypeOK
      <3> QED BY <2>1, <2>3, <2>4, <2>5, <3>1, ReloadBegins
    <2>6. CASE phase = "loaddir" /\ phase' = "relocate"
      <3>1. plan' = {} /\ queue' = {} /\ toLoad' = {}
        BY <1>0, <2>1, <2>4, <2>6 DEF ReloadPhases
      <3> QED BY <2>3, <3>1, NothingAsked
    <2>7. CASE phase = "load"
      <3>1. phase' = "relocate" /\ UNCHANGED <<queue, toLoad, plan>>
        BY <2>1, <2>7
      <3>2. Held = At("loaded") \cup At("fresh") /\ Held' = At("loaded")' \cup At("new")'
        BY <2>7, <3>1 DEF Held, Holders, At
      <3>3. ASSUME NEW s \in Slots
            PROVE  (s \in Held' <=> s \in Held) /\ (s \in Held => SameCode(s))
        BY <2>2, <3>2, FreeSlotIs, Alike DEF At
      <3>4. \A s \in Held : SameCode(s)
        BY <3>3 DEF Held
      <3> QED BY <1>0, <2>3, <2>7, <3>1, <3>3, <3>4, ReloadMoves DEF ReloadPhases
    <2> QED BY <2>1, <2>5, <2>6, <2>7
  <1>10. CASE Fatal
    <2>1. phase' = "halted" /\ UNCHANGED <<cont, plan>>
      BY <1>10 DEF Fatal, history
    <2> QED BY <1>0, <2>1 DEF ReloadParts, PlanIsUsed, EntriesAsked, KeptAsAsked, HeldAsAsked,
                              UnlinkedPending, ReloadPhases, At
  <1>11. CASE Relocate
    <2>1. /\ phase = "relocate" /\ UNCHANGED <<queue, toLoad>>
          /\ (phase' = "running" /\ plan' = {}) \/ (phase' = "storage" /\ plan' = plan)
          /\ \A s \in Slots :
                SameCode(s) /\ cont'[s].at = IF cont[s].at = "new" THEN "loaded" ELSE cont[s].at
      BY <1>0, <1>11, RelocateEffect
    <2>2. \A s \in Slots : cont'[s].at # "kept"
      BY <1>0, <2>1
    <2>3. CASE phase' = "running" /\ plan' = {}
      BY <2>2, <2>3, NothingAsked DEF ReloadPhases
    <2>4. CASE phase' = "storage" /\ plan' = plan
      <3>1. Held = At("loaded") \cup At("new") /\ Held' = At("loaded")' \cup At("new")'
        BY <2>1, <2>4 DEF Held, Holders, At
      <3>2. \A s \in Slots : s \in Held' <=> s \in Held
        BY <2>1, <3>1 DEF At
      <3>3. \A s \in Held : SameCode(s)
        BY <2>1 DEF Held
      <3> QED BY <1>0, <2>1, <2>2, <2>4, <3>2, <3>3, ReloadMoves DEF ReloadPhases
    <2> QED BY <2>1, <2>3, <2>4
  <1>12. CASE OpenStorage
    <2>1. phase = "storage" /\ phase' = "inithooks" /\ plan' = {}
          /\ \A s \in Slots : cont'[s].at = cont[s].at
      BY <1>0, <1>12, OpenEffect
    <2> QED BY <1>0, <2>1, NothingAsked DEF ReloadPhases
  <1>13. CASE InitHooks \/ StartHooks \/ ApplicationEnds
    <2>1. phase \in {"inithooks", "starthooks", "running"}
          /\ phase' \in {"starthooks", "running", "stopped"} /\ plan' = plan
          /\ \A s \in Slots : cont'[s].at = cont[s].at
      BY <1>0, <1>13, InitHooksEffect, StartHooksEffect, EndsEffect
    <2> QED BY <1>0, <2>1, NothingAsked DEF ReloadPhases
  <1>14. CASE Reboot
    BY <1>14, FreeSlotIs, NothingAsked DEF Reboot, ReloadPhases
  <1>15. CASE Api
    <2>1. UNCHANGED <<phase, cont, queue, toLoad, plan>>
      BY <1>15, ApiEffect
    <2> QED BY <1>0, <2>1 DEF ReloadParts, PlanIsUsed, EntriesAsked, KeptAsAsked, HeldAsAsked,
                              UnlinkedPending, Held, Holders, Filtered, At
  <1>16. CASE Menu
    <2>1. UNCHANGED <<phase, cont, queue, toLoad, plan>>
      BY <1>16, MenuEffect
    <2> QED BY <1>0, <2>1 DEF ReloadParts, PlanIsUsed, EntriesAsked, KeptAsAsked, HeldAsAsked,
                              UnlinkedPending, Held, Holders, Filtered, At
  <1>17. CASE UNCHANGED vars
    <2>1. UNCHANGED <<phase, cont, queue, toLoad, plan>>
      BY <1>17 DEF vars, history
    <2> QED BY <1>0, <2>1 DEF ReloadParts, PlanIsUsed, EntriesAsked, KeptAsAsked, HeldAsAsked,
                              UnlinkedPending, Held, Holders, Filtered, At
  <1> QED
    BY <1>1, <1>2, <1>3, <1>4, <1>5, <1>6, <1>7, <1>8, <1>9, <1>10, <1>11, <1>12, <1>13, <1>14,
       <1>15, <1>16, <1>17
    DEF Next, StartCycle, LoaderStep, VisitOne, LoadOne

\* A reload does what gLoadOnNextLaunch asked for (ConfigUtils.cpp, exports.cpp,
\* main.cpp:137): whatever fails to load and whatever the hooks of the plugins
\* request meanwhile, what is kept is as it was asked to be, nothing is linked that
\* was not to be, and what was to stay unlinked is there, unlinked.
THEOREM ReloadDoesAsAsked == Spec => []ReloadFollowsRequest
  <1>1. ReloadInv => ReloadFollowsRequest
    <2> SUFFICES ASSUME ReloadInv PROVE ReloadFollowsRequest
      OBVIOUS
    <2>0. ReloadParts /\ ListsAreDone /\ NewFollowPhase
      BY DEF ReloadInv, RunInv, RunParts
    <2>1. \A s \in LinkedAt("kept") : \E e \in plan :
             e.data = cont[s].data /\ e.link /\ e.track = cont[s].track
      BY <2>0 DEF ReloadParts, KeptAsAsked, NeedsNoReload, LinkedAt, At
    <2>2. ASSUME phase = "storage", plan # {}
          PROVE  /\ \A s \in Loaded : AskedIn(plan, cont[s])
                 /\ \A e \in Filtered(plan) : ~e.link =>
                       \E s \in InactiveLoaded : cont[s].data = e.data
      <3>1. queue = {} /\ toLoad = {} /\ \A s \in Slots : cont[s].at # "new"
        BY <2>0, <2>2 DEF ListsAreDone, NewFollowPhase
      <3>2. Held = Loaded
        BY <2>2, <3>1 DEF Held, Holders, Loaded, At
      <3>3. \A s \in Loaded : AskedIn(plan, cont[s])
        BY <2>0, <2>2, <3>2 DEF ReloadParts, HeldAsAsked, ReloadPhases
      <3>4. \A e \in Filtered(plan) : ~e.link => \E s \in Loaded : MetBy(e, cont[s])
        BY <2>0, <2>2, <3>1, <3>2 DEF ReloadParts, UnlinkedPending, ReloadPhases
      <3> QED BY <3>3, <3>4 DEF MetBy, InactiveLoaded, LinkedAt, Loaded, At
    <2> QED BY <2>1, <2>2 DEF ReloadFollowsRequest, AskedIn
  <1>2. Init => ReloadInv
    BY RunInit, ContractInit, RootsInit, ReloadInit DEF ReloadInv, RunInv
  <1>3. ReloadInv /\ [Next]_vars => ReloadInv'
    BY RunStep, ContractStep, RootsStep, ReloadStep DEF ReloadInv, RunInv, ContractInv
  <1> QED BY <1>1, <1>2, <1>3, PTL DEF Spec
=============================================================================
