---------------------------- MODULE BackendSettings ----------------------------
(***************************************************************************)
(* The loader's persistent settings, source/utils/WUPSBackendSettings.cpp: *)
(* which plugin files of the SD card stay unlinked, and which of them were *)
(* found to be built with the reent bug.  The namespace keeps two sets of  *)
(* file names and a dirty flag in memory, and one JSON file on the card.   *)
(*                                                                         *)
(* The module only has operators: on the memory record, and on the pair    *)
(* memory/file for the two that do I/O.  Those return the SET of results   *)
(* that the outcomes in IoFaults allow.                                    *)
(***************************************************************************)
EXTENDS Integers, FiniteSets

CONSTANTS Files,     \* plugin file names on the SD card
          IoFaults   \* the I/O failures a run allows

\* "unread":  reading a good file fails            (ParseJsonFromFile)
\* "refused": the directory or file cannot be opened for writing
\* "torn":    the file was truncated, the write that follows fell short
AllIoFaults == {"unread", "refused", "torn"}

ASSUME IoFaultsAssumption == IoFaults \subseteq AllIoFaults

\* valid: ParseJsonFromFile succeeds.  The two sets are what it finds then.
Settings     == [inactive: SUBSET Files, broken: SUBSET Files, dirty: BOOLEAN]
SettingsFile == [valid: BOOLEAN, inactive: SUBSET Files, broken: SUBSET Files]

\* The statics of the namespace when the module is loaded.
NoSettings == [inactive |-> {}, broken |-> {}, dirty |-> FALSE]

\* No file, or an empty one: ParseJsonFromFile fails.
NoFile == [valid |-> FALSE, inactive |-> {}, broken |-> {}]

\* Not JSON: the parser throws nothing, its result has neither list.
GarbledFile == [valid |-> TRUE, inactive |-> {}, broken |-> {}]

\* What a write that fell short leaves behind.
TornFiles == {NoFile, GarbledFile}

-----------------------------------------------------------------------------
(* LoadSettings: a file that cannot be read leaves the memory as it was.   *)
FromFile(file) ==
    [inactive |-> file.inactive, broken |-> file.broken, dirty |-> FALSE]

LoadSettings(mem, file) ==
    (IF file.valid THEN {FromFile(file)} ELSE {mem})
        \cup (IF "unread" \in IoFaults THEN {mem} ELSE {})

(* SaveSettings: nothing to do unless dirty; a failure keeps the flag.     *)
ToFile(mem) == [valid |-> TRUE, inactive |-> mem.inactive, broken |-> mem.broken]

Clean(mem) == [inactive |-> mem.inactive, broken |-> mem.broken, dirty |-> FALSE]

SaveSettings(mem, file) ==
    IF ~mem.dirty
    THEN {[mem |-> mem, file |-> file]}
    ELSE {[mem |-> Clean(mem), file |-> ToFile(mem)]}
         \cup (IF "refused" \in IoFaults THEN {[mem |-> mem, file |-> file]} ELSE {})
         \cup (IF "torn" \in IoFaults
               THEN {[mem |-> mem, file |-> torn] : torn \in TornFiles}
               ELSE {})

-----------------------------------------------------------------------------
(* The setters only raise the dirty flag when a set changes.               *)
AddInactivePluginFilename(mem, f) ==
    [inactive |-> mem.inactive \cup {f},
     broken   |-> mem.broken,
     dirty    |-> mem.dirty \/ f \notin mem.inactive]

AddBrokenReentPluginFilename(mem, f) ==
    [inactive |-> mem.inactive,
     broken   |-> mem.broken \cup {f},
     dirty    |-> mem.dirty \/ f \notin mem.broken]

RemoveBrokenReentPluginFilename(mem, f) ==
    [inactive |-> mem.inactive,
     broken   |-> mem.broken \ {f},
     dirty    |-> mem.dirty \/ f \in mem.broken]

\* Clear, then Add one by one: dirty unless it was empty and stays empty.
SetInactivePluginFilenames(mem, fs) ==
    [inactive |-> fs,
     broken   |-> mem.broken,
     dirty    |-> mem.dirty \/ mem.inactive \cup fs # {}]
=============================================================================
