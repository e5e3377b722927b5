------------------------------ MODULE MenuThreads ------------------------------
(***************************************************************************)
(* How the config menu opens and closes among the threads of an application: *)
(* the function patches of source/patcher/hooks_patcher_static.cpp,          *)
(* RenderScreen of source/utils/DrawUtils.cpp and the loop of displayMenu in *)
(* source/utils/config/ConfigUtils.cpp.                                      *)
(*                                                                         *)
(* The thread that swaps the scan buffers runs the menu inside of that call. *)
(* Other threads go on reading pads, and the system goes on sending          *)
(* messages.  They share flags without a lock.                              *)
(***************************************************************************)
EXTENDS Naturals

CONSTANTS
    Threads,        \* the threads of the application that read pads
    Render,         \* the one of them that calls GX2SwapScanBuffers
    NoThread,
    Cooldown,       \* stands for 0x3C and 0xFF reads
    SleepingTitle   \* the title is one whose reading threads wait for the menu

ASSUME MenuAssumption ==
    /\ Render \in Threads
    /\ NoThread \notin Threads
    /\ Cooldown \in Nat \ {0}
    /\ SleepingTitle \in BOOLEAN

VARIABLES
    menu,           \* where the rendering thread is
    opened,         \* gConfigMenuOpened
    shouldClose,    \* gConfigMenuShouldClose
    wants,          \* sWantsToOpenConfigMenu
    accept,         \* gOnlyAcceptFromThread
    cooldown,       \* sVpadPressCooldown
    pad,            \* per thread: where it is in VPADRead or WPADRead
    sending,        \* OSSendMessage has seen a release and an open menu
    stored,         \* gStoredTVBuffer, gStoredDRCBuffer: "none", "own" of the
                    \* application that runs, "old" of one before
    target,         \* the buffers RenderScreen draws to
    held            \* what else RenderScreen has to give back

shared == <<opened, shouldClose, wants, accept>>
drawing == <<stored, target, held>>
menuVars == <<menu, shared, cooldown, pad, sending, drawing>>

\* "loop": at the start of a frame, "frame": in the rest of it.
Places == {"idle", "opened", "buffers", "font", "loading", "loop", "frame", "saving",
           "restore", "closing", "reset"}

NoScreen == [tv |-> "none", drc |-> "none"]

\* No read, or one that will store what it makes of the cooldown it saw.
Reads(at, seen) == [at |-> at, seen |-> seen]
Idle == Reads("idle", 0)

MenuInit ==
    /\ menu = "idle"
    /\ opened = FALSE /\ shouldClose = FALSE /\ wants = FALSE
    /\ accept = NoThread
    /\ cooldown = Cooldown
    /\ pad = [t \in Threads |-> Idle]
    /\ sending = FALSE
    /\ stored = NoScreen
    /\ target = NoScreen
    /\ held = {}

-----------------------------------------------------------------------------
(* GX2SwapScanBuffers and RenderScreen                                     *)

Goes(from, to) == menu = from /\ pad[Render] = Idle /\ menu' = to

\* Mutant: a menu is not opened while one should close.
OpenUnlessClosing ==
    /\ wants /\ ~opened /\ ~shouldClose
    /\ Goes("idle", "opened")
    /\ opened' = TRUE
    /\ UNCHANGED <<shouldClose, wants, accept, cooldown, pad, sending, drawing>>

OpenMenu ==
    /\ wants /\ ~opened
    /\ Goes("idle", "opened")
    /\ opened' = TRUE
    /\ UNCHANGED <<shouldClose, wants, accept, cooldown, pad, sending, drawing>>

RenderScreen ==
    /\ Goes("opened", "buffers")
    /\ accept' = Render
    /\ UNCHANGED <<opened, shouldClose, wants, cooldown, pad, sending, drawing>>

\* One of the allocations may fail, and the stored buffer may be too small.
Buffers(name) ==
    {"heap", "none"} \cup IF stored[name] = "none" THEN {} ELSE {"stored"}

AllocateBuffers ==
    /\ menu = "buffers" /\ pad[Render] = Idle
    /\ \E tv \in Buffers("tv"), drc \in Buffers("drc") :
          /\ target' = [tv |-> tv, drc |-> drc]
          /\ menu' = IF "none" \in {tv, drc} THEN "restore" ELSE "font"
    /\ UNCHANGED <<shared, cooldown, pad, sending, stored, held>>

InitFont ==
    \/ /\ Goes("font", "loading")
       /\ \E kpad \in SUBSET {"kpad"} : held' = {"font", "home"} \cup kpad
       /\ UNCHANGED <<shared, cooldown, pad, sending, stored, target>>
    \/ /\ Goes("font", "restore")
       /\ UNCHANGED <<shared, cooldown, pad, sending, drawing>>

\* Mutant: displayMenu clears the flag before its loop.
LoadConfigsAfresh ==
    /\ Goes("loading", "loop")
    /\ accept' = Render
    /\ shouldClose' = FALSE
    /\ UNCHANGED <<opened, wants, cooldown, pad, sending, drawing>>

LoadConfigs ==
    /\ Goes("loading", "loop")
    /\ accept' = Render
    /\ UNCHANGED <<opened, shouldClose, wants, cooldown, pad, sending, drawing>>

\* The flag is looked at once in a frame, before the pads are read.
CloseForRelease ==
    /\ shouldClose
    /\ Goes("loop", "saving")
    /\ shouldClose' = FALSE
    /\ UNCHANGED <<opened, wants, accept, cooldown, pad, sending, drawing>>

StartFrame ==
    /\ ~shouldClose
    /\ Goes("loop", "frame")
    /\ UNCHANGED <<shared, cooldown, pad, sending, drawing>>

EndFrame ==
    /\ Goes("frame", "loop")
    /\ UNCHANGED <<shared, cooldown, pad, sending, drawing>>

\* Update returned with something else than SUB_STATE_RUNNING: a message that came
\* in this frame stays.
CloseByUser ==
    /\ Goes("frame", "saving")
    /\ UNCHANGED <<shared, cooldown, pad, sending, drawing>>

\* Mutant: nothing but the font is given back.
SaveConfigsOnly ==
    /\ Goes("saving", "restore")
    /\ held' = held \ {"font"}
    /\ UNCHANGED <<shared, cooldown, pad, sending, stored, target>>

\* The rest of displayMenu, and of RenderScreen up to error_exit.
SaveConfigs ==
    /\ Goes("saving", "restore")
    /\ held' = {}
    /\ UNCHANGED <<shared, cooldown, pad, sending, stored, target>>

RestoreScreen ==
    /\ Goes("restore", "closing")
    /\ target' = NoScreen
    /\ accept' = NoThread
    /\ UNCHANGED <<opened, shouldClose, wants, cooldown, pad, sending, stored, held>>

CloseMenu ==
    /\ Goes("closing", "reset")
    /\ opened' = FALSE
    /\ UNCHANGED <<shouldClose, wants, accept, cooldown, pad, sending, drawing>>

ResetWants ==
    /\ Goes("reset", "idle")
    /\ wants' = FALSE
    /\ UNCHANGED <<opened, shouldClose, accept, cooldown, pad, sending, drawing>>

-----------------------------------------------------------------------------
(* VPADRead, WPADRead                                                      *)

\* The rendering thread reads pads for the application, or for the menu.
MayRead(t) == pad[t] = Idle /\ (t = Render => menu \in {"idle", "frame"})

Refused(t) == opened /\ accept # t

BeginRead(t) ==
    /\ MayRead(t) /\ ~Refused(t)
    /\ \E buttons \in {"combo", "other"} : pad' = [pad EXCEPT ![t] = Reads(buttons, 0)]
    /\ UNCHANGED <<menu, shared, cooldown, sending, drawing>>

Sleep(t) ==
    /\ SleepingTitle
    /\ MayRead(t) /\ Refused(t)
    /\ pad' = [pad EXCEPT ![t] = Reads("asleep", 0)]
    /\ UNCHANGED <<menu, shared, cooldown, sending, drawing>>

WakeUp(t) ==
    /\ pad[t].at = "asleep" /\ ~opened
    /\ pad' = [pad EXCEPT ![t] = Idle]
    /\ UNCHANGED <<menu, shared, cooldown, sending, drawing>>

CheckCombo(t) ==
    /\ pad[t].at \in {"combo", "other"}
    /\ pad' = [pad EXCEPT ![t] =
                 IF pad[t].at = "combo" /\ cooldown = 0 /\ ~opened
                 THEN Reads("asks", Cooldown) ELSE Reads("store", cooldown)]
    /\ UNCHANGED <<menu, shared, cooldown, sending, drawing>>

AskForMenu(t) ==
    /\ pad[t].at = "asks"
    /\ wants' = TRUE
    /\ cooldown' = IF pad[t].seen = 0 THEN cooldown ELSE pad[t].seen
    /\ pad' = [pad EXCEPT ![t] = Idle]
    /\ UNCHANGED <<menu, opened, shouldClose, accept, sending, drawing>>

StoreCooldown(t) ==
    /\ pad[t].at = "store"
    /\ cooldown' = IF pad[t].seen = 0 THEN cooldown ELSE pad[t].seen - 1
    /\ pad' = [pad EXCEPT ![t] = Idle]
    /\ UNCHANGED <<menu, shared, sending, drawing>>

\* WPADRead saw its buttons and no open menu.
WPADRead(t) ==
    /\ MayRead(t) /\ ~opened
    /\ pad' = [pad EXCEPT ![t] = Reads("asks", 0)]
    /\ UNCHANGED <<menu, shared, cooldown, sending, drawing>>

-----------------------------------------------------------------------------
(* The system and the application                                          *)

SendRelease ==
    /\ opened /\ ~sending
    /\ sending' = TRUE
    /\ UNCHANGED <<menu, shared, cooldown, pad, drawing>>

OSSendMessage ==
    /\ sending
    /\ sending' = FALSE
    /\ shouldClose' = TRUE
    /\ UNCHANGED <<menu, opened, wants, accept, cooldown, pad, drawing>>

\* GX2SetTVBuffer, GX2SetDRCBuffer
SetBuffer(name) ==
    /\ menu = "idle"
    /\ stored' = [stored EXCEPT ![name] = "own"]
    /\ UNCHANGED <<menu, shared, cooldown, pad, sending, target, held>>

Aged(name) == IF stored[name] = "none" THEN "none" ELSE "old"

\* WUMS_APPLICATION_STARTS, after the threads of the last application ended.
StartApplication ==
    /\ menu = "idle" /\ ~sending /\ \A t \in Threads : pad[t] = Idle
    /\ shouldClose' = FALSE
    /\ stored' = [tv |-> "none", drc |-> Aged("drc")]
    /\ UNCHANGED <<menu, opened, wants, accept, cooldown, pad, sending, target, held>>

-----------------------------------------------------------------------------
Loop == CloseForRelease \/ StartFrame \/ EndFrame \/ CloseByUser

Menu ==
    \/ OpenMenu \/ RenderScreen \/ AllocateBuffers \/ InitFont \/ LoadConfigs \/ Loop
    \/ SaveConfigs \/ RestoreScreen \/ CloseMenu \/ ResetWants

Read(t) ==
    \/ BeginRead(t) \/ Sleep(t) \/ WakeUp(t) \/ CheckCombo(t) \/ AskForMenu(t)
    \/ StoreCooldown(t) \/ WPADRead(t)

System ==
    \/ SendRelease \/ OSSendMessage \/ StartApplication
    \/ \E name \in {"tv", "drc"} : SetBuffer(name)

MenuNext == Menu \/ System \/ \E t \in Threads : Read(t)

MenuSpec == MenuInit /\ [][MenuNext]_menuVars

\* The menu's thread goes on, but the user need not leave the menu.  A frame reads
\* each pad once and takes about 33 ms: it ends, whatever reads it has begun.
Progress ==
    \/ OpenMenu \/ RenderScreen \/ AllocateBuffers \/ InitFont \/ LoadConfigs
    \/ CloseForRelease \/ StartFrame \/ EndFrame \/ SaveConfigs \/ RestoreScreen \/ CloseMenu \/ ResetWants

MenuFairSpec ==
    /\ MenuSpec
    /\ SF_menuVars(Progress)
    /\ \A t \in Threads : WF_menuVars(CheckCombo(t) \/ AskForMenu(t) \/ StoreCooldown(t) \/ WakeUp(t))

-----------------------------------------------------------------------------
(* Properties                                                              *)

MenuTypeOK ==
    /\ menu \in Places
    /\ opened \in BOOLEAN /\ shouldClose \in BOOLEAN /\ wants \in BOOLEAN
    /\ accept \in {Render, NoThread}
    /\ cooldown \in 0..Cooldown
    /\ pad \in [Threads -> [at: {"idle", "asleep", "combo", "other", "asks", "store"},
                            seen: 0..Cooldown]]
    /\ sending \in BOOLEAN
    /\ stored \in [tv: {"none", "own", "old"}, drc: {"none", "own", "old"}]
    /\ target \in [tv: {"none", "heap", "stored"}, drc: {"none", "heap", "stored"}]
    /\ held \subseteq {"font", "home", "kpad"}

\* The TV buffer the menu borrows belongs to the application it runs in.
DrawsOnOwnTV == target.tv = "stored" => stored.tv = "own"

\* The loop of the menu gets the pads, has two buffers and a font to draw with,
\* and the home button is off; outside of the menu none of it is left behind,
\* whichever part of the preparation failed.  A TV buffer that is borrowed is one of
\* this application; of the DRC buffer that is not so, main.cpp:178 resets the other only.
GivenBack ==
    /\ DrawsOnOwnTV
    /\ menu \in {"loop", "frame"} =>
          opened /\ ~Refused(Render) /\ "none" \notin {target.tv, target.drc}
          /\ {"font", "home"} \subseteq held
    /\ menu = "idle" => ~opened /\ accept = NoThread /\ target = NoScreen /\ held = {}

\* A menu that is asked to close before its loop ended closes, also if the user
\* does nothing and wherever its preparation is.
ReleaseCloses == shouldClose /\ opened ~> ~opened

\* Buttons that asked for the menu open it, although the request is forgotten
\* when a menu closes.
RequestServed == wants /\ menu = "idle" ~> opened
=============================================================================
