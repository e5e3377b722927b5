----------------------------- MODULE PluginContract -----------------------------
(***************************************************************************)
(* What the loader promises to the author of a plugin.  INIT_PLUGIN is the *)
(* first hook the plugin sees and DEINIT_PLUGIN the last, each is called   *)
(* once; every APPLICATION_STARTS between them is followed by its          *)
(* APPLICATION_ENDS before anything else happens to the plugin; and from   *)
(* before INIT_PLUGIN until after DEINIT_PLUGIN its functions are patched. *)
(* Several plugins may take such a step at once.                           *)
(***************************************************************************)
CONSTANT Plugins

VARIABLES
    stage,   \* how far the life of each plugin has gone
    patched  \* the plugins whose functions are patched

vars == <<stage, patched>>

\* "none": not in memory, or only its meta data; "loaded": no hook ran yet;
\* "idle": initialised, but no application runs; "active": in an
\* application; "over": after DEINIT_PLUGIN.
Stages == {"none", "loaded", "idle", "active", "over"}

Init ==
    /\ stage = [p \in Plugins |-> "none"]
    /\ patched = {}

Becomes(p, to, isPatched) ==
    /\ stage'[p] = to
    /\ p \in patched' <=> isPatched

Load(p) == stage[p] = "none" /\ Becomes(p, "loaded", FALSE)

Patch(p) == stage[p] = "loaded" /\ p \notin patched /\ Becomes(p, "loaded", TRUE)

InitHook(p) == stage[p] = "loaded" /\ p \in patched /\ Becomes(p, "idle", TRUE)

StartHook(p) == stage[p] = "idle" /\ p \in patched /\ Becomes(p, "active", TRUE)

EndHook(p) == stage[p] = "active" /\ p \in patched /\ Becomes(p, "idle", TRUE)

DeinitHook(p) == stage[p] = "idle" /\ p \in patched /\ Becomes(p, "over", TRUE)

Restore(p) == stage[p] = "over" /\ p \in patched /\ Becomes(p, "over", FALSE)

\* A plugin that saw no hook may go at any time.
Unload(p) ==
    /\ stage[p] = "loaded" \/ (stage[p] = "over" /\ p \notin patched)
    /\ Becomes(p, "none", FALSE)

Same(p) == Becomes(p, stage[p], p \in patched)

Step(p) ==
    \/ Load(p) \/ Patch(p)
    \/ InitHook(p) \/ StartHook(p) \/ EndHook(p) \/ DeinitHook(p)
    \/ Restore(p) \/ Unload(p) \/ Same(p)

\* The console is switched off, or crashes.
PowerOff ==
    /\ stage' = [p \in Plugins |-> "none"]
    /\ patched' = {}

Next ==
    \/ PowerOff
    \/ /\ stage' \in [Plugins -> Stages]
       /\ patched' \subseteq Plugins
       /\ \A p \in Plugins : Step(p)

Spec == Init /\ [][Next]_vars
=============================================================================
