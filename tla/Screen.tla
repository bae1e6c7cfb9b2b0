------------------------------- MODULE Screen -------------------------------
(***************************************************************************)
(* The display of the product build: the panel driver                      *)
(* (components/display/display_gc9a01.cpp), the LVGL adapter               *)
(* (components/lvgl_adapter/lvgl_adapter.cpp) and the three tasks that     *)
(* draw: GUI and SYSTEM of main/app_main.cpp and the console's             *)
(* display_test (components/command/command_registry.cpp).  The end of a   *)
(* transfer is an interrupt; it comes between any two steps.               *)
(*                                                                         *)
(* LVGL, esp_lcd and the panel are external.  A call to the panel that     *)
(* succeeds waits for the transfers before it, and a draw then starts its  *)
(* own and returns; one that fails has waited or not.  LVGL lends its      *)
(* buffer to the driver until flush_ready and waits for it before the next *)
(* flush_cb: with two buffers it may render the second meanwhile, but      *)
(* never has two flushes pending, whatever the adapter's comment provides  *)
(* for (lvgl_adapter.cpp:31).  All that a frame redraws is one transfer    *)
(* here.  A lock waits 200 ms: it may give up whenever another task is the *)
(* owner.                                                                  *)
(***************************************************************************)
EXTENDS Naturals, FiniteSets, Dashboard

CONSTANTS
  Reports,     \* what the services may report
  MaxFaults    \* bound: failures of each kind of driver call

ASSUME ScreenAssumption == Reports \subseteq Report /\ Reports # {} /\ MaxFaults \in Nat

VARIABLES
  boot,      \* progress of GC9A01Display::init and of LvglRuntime::init
  lit,       \* the panel shows its memory (DISPON)
  gram,      \* what its memory holds: noise, the test pattern, or a dashboard's look
  dma,       \* the transfer under way: "none", "flush" or "fill"
  pending,   \* pending_flush_count_
  flushing,  \* LVGL: its buffer is lent to the driver
  buffer,    \* what LVGL last rendered
  dirty,     \* LVGL: something is invalidated
  look,      \* the widgets; Created until create has run, then see created
  created,   \* created_ of the dashboard
  owner,     \* lvgl_mutex
  pc,        \* each task's place
  report,    \* what the services report now
  ui,        \* system_thread's copy
  faults,    \* history: how many fills, flushes and DISPONs failed
  bare       \* history: tasks that touched LVGL while another owned its lock

panelVars == <<boot, lit, gram, dma>>
lvglVars == <<pending, flushing, buffer, dirty, look, created>>
taskVars == <<owner, pc, ui>>
vars == <<panelVars, lvglVars, taskVars, report, faults, bare>>

Task == {"GUI", "SYSTEM", "COMMAND"}
Pc == {"start", "create", "idle", "read", "update", "fill", "strip", "drain", "refresh", "render", "draw", "unlock"}
Call == {"fill", "on", "flush"}

\* A picture: of the dashboard with some look, or of something else.
Picture == [of : {"random", "pattern", "dashboard"}, look : Look]
Dashboard(l) == [of |-> "dashboard", look |-> l]
Random == [of |-> "random", look |-> Created]
Pattern == [of |-> "pattern", look |-> Created]

TypeOK ==
  /\ boot \in {"setup", "fill", "on", "black", "init", "up", "dead"} /\ lit \in BOOLEAN
  /\ gram \in Picture
  /\ dma \in {"none", "flush", "fill"}
  /\ pending \in 0..2 /\ flushing \in BOOLEAN /\ dirty \in BOOLEAN /\ created \in BOOLEAN
  /\ look \in Look /\ buffer \in Look
  /\ owner \in Task \cup {"none"}
  /\ pc \in [Task -> Pc]
  /\ report \in Reports /\ ui \in Reports
  /\ faults \in [Call -> 0..MaxFaults]
  /\ bare \in SUBSET Task

Init ==
  /\ boot = "setup" /\ lit = FALSE /\ gram = Random /\ dma = "none"
  /\ pending = 0 /\ flushing = FALSE /\ dirty = FALSE /\ created = FALSE
  /\ look = Created /\ buffer = Created
  /\ owner = "none"
  /\ pc = [GUI |-> "start", SYSTEM |-> "idle", COMMAND |-> "idle"]
  /\ report \in Reports /\ ui \in Reports
  /\ faults = [c \in Call |-> 0] /\ bare = {}

At(t, p) == boot = "up" /\ pc[t] = p
Goto(t, p) == pc' = [pc EXCEPT ![t] = p]
Fault(c) == faults[c] < MaxFaults /\ faults' = [faults EXCEPT ![c] = @ + 1]
NoFault == UNCHANGED faults

-----------------------------------------------------------------------------
(* Boot, before the tasks run                                              *)

\* The module's init table; an error ends the start.
PanelSetup ==
  /\ boot = "setup"
  /\ boot' \in {"fill", "dead"}
  /\ UNCHANGED <<lit, gram, dma, lvglVars, taskVars, report, faults, bare>>

\* A fill in red, later in black.  Its failure is only logged: some strips may have been
\* drawn, and the last may still be on its way.
BootFill(here, next) ==
  /\ boot = here /\ boot' = next
  /\ \/ dma = "none" /\ gram' = Pattern /\ UNCHANGED dma /\ NoFault
     \/ gram' \in {gram, Pattern} /\ dma' \in {dma, "fill"} /\ Fault("fill")
  /\ UNCHANGED <<lit, lvglVars, taskVars, report, bare>>

\* DISPON; its failure is logged too, and the panel stays dark.
DisplayOn ==
  /\ boot = "on" /\ boot' = "black"
  /\ \/ dma = "none" /\ lit' = TRUE /\ NoFault
     \/ UNCHANGED lit /\ Fault("on")
  /\ UNCHANGED <<gram, dma, lvglVars, taskVars, report, bare>>

\* The adapter's init; an error ends the start.
LvglInit ==
  /\ boot = "init"
  /\ boot' \in {"up", "dead"}
  /\ UNCHANGED <<lit, gram, dma, lvglVars, taskVars, report, faults, bare>>

-----------------------------------------------------------------------------
(* LVGL's lock                                                             *)

Lock(t) == owner = "none" /\ owner' = t /\ UNCHANGED bare

\* LvglLockGuard whose locked() nobody asks: the task goes on without the lock.
GoOn(t) == owner # "none" /\ UNCHANGED owner /\ bare' = bare \cup {t}

Unlock(t) ==
  /\ At(t, "unlock")
  /\ owner' = IF owner = t THEN "none" ELSE owner
  /\ Goto(t, "idle")
  /\ UNCHANGED <<panelVars, lvglVars, ui, report, faults, bare>>

-----------------------------------------------------------------------------
(* A refresh: lv_timer_handler and lv_refr_now with flush_cb               *)

NothingToDo(t) ==
  /\ At(t, "render") /\ ~dirty
  /\ Goto(t, "unlock")
  /\ UNCHANGED <<panelVars, lvglVars, owner, ui, report, faults, bare>>

\* LVGL renders once the buffer is back; flush_cb counts before it draws.
Render(t) ==
  /\ At(t, "render") /\ dirty /\ ~flushing
  /\ buffer' = look /\ dirty' = FALSE /\ flushing' = TRUE
  /\ pending' = pending + 1
  /\ Goto(t, "draw")
  /\ UNCHANGED <<panelVars, look, created, owner, ui, report, faults, bare>>

Acknowledge == pending' = pending - 1 /\ flushing' = FALSE

\* Mutant of Draw: a failed draw is left to the interrupt that never comes.
DrawSilent(t) ==
  /\ At(t, "draw")
  /\ \/ dma = "none" /\ dma' = "flush" /\ NoFault
     \/ Fault("flush") /\ UNCHANGED dma
  /\ Goto(t, "unlock")
  /\ UNCHANGED <<boot, lit, gram, pending, flushing, buffer, dirty, look, created, owner, ui, report, bare>>

Draw(t) ==
  /\ At(t, "draw")
  /\ \/ dma = "none" /\ dma' = "flush" /\ UNCHANGED <<pending, flushing>> /\ NoFault
     \/ Fault("flush") /\ UNCHANGED dma
        /\ flushing' = FALSE /\ pending' = IF pending > 0 THEN pending - 1 ELSE 0
  /\ Goto(t, "unlock")
  /\ UNCHANGED <<boot, lit, gram, buffer, dirty, look, created, owner, ui, report, bare>>

\* Mutant of TransferDone: the interrupt does not count down.
TransferUncounted ==
  /\ dma # "none"
  /\ gram' = IF dma = "fill" THEN Pattern ELSE Dashboard(buffer)
  /\ dma' = "none" /\ flushing' = FALSE
  /\ UNCHANGED <<boot, lit, pending, buffer, dirty, look, created, taskVars, report, faults, bare>>

\* color_trans_done_cb, in the interrupt, for fills and flushes alike.
TransferDone ==
  /\ dma # "none"
  /\ gram' = IF dma = "fill" THEN Pattern ELSE Dashboard(buffer)
  /\ dma' = "none"
  /\ IF pending > 0 THEN Acknowledge ELSE UNCHANGED <<pending, flushing>>
  /\ UNCHANGED <<boot, lit, buffer, dirty, look, created, taskVars, report, faults, bare>>

-----------------------------------------------------------------------------
(* gui_thread                                                              *)

GuiFirstLock ==
  /\ At("GUI", "start")
  /\ Lock("GUI") \/ GoOn("GUI")
  /\ Goto("GUI", "create")
  /\ UNCHANGED <<panelVars, lvglVars, ui, report, faults>>

GuiCreate ==
  /\ At("GUI", "create")
  /\ look' = Created /\ created' = TRUE /\ dirty' = TRUE
  /\ Goto("GUI", "render")
  /\ UNCHANGED <<panelVars, pending, flushing, buffer, owner, ui, report, faults, bare>>

\* handle_timer; when the lock is not to be had the frame is skipped.
GuiFrame ==
  /\ At("GUI", "idle")
  /\ Lock("GUI")
  /\ Goto("GUI", "render")
  /\ UNCHANGED <<panelVars, lvglVars, ui, report, faults>>

Gui == GuiFirstLock \/ GuiCreate \/ GuiFrame

-----------------------------------------------------------------------------
(* system_thread                                                           *)

SystemRead ==
  /\ At("SYSTEM", "idle")
  /\ ui' = report
  /\ Goto("SYSTEM", "read")
  /\ UNCHANGED <<panelVars, lvglVars, owner, report, faults, bare>>

SystemLock ==
  /\ At("SYSTEM", "read")
  /\ Lock("SYSTEM") \/ GoOn("SYSTEM")
  /\ Goto("SYSTEM", "update")
  /\ UNCHANGED <<panelVars, lvglVars, ui, report, faults>>

SystemUpdate ==
  /\ At("SYSTEM", "update")
  /\ \/ created /\ look' = Updated(look, ui) /\ dirty' = TRUE
     \/ ~created /\ UNCHANGED <<look, dirty>>
  /\ Goto("SYSTEM", "unlock")
  /\ UNCHANGED <<panelVars, pending, flushing, buffer, created, owner, ui, report, faults, bare>>

System == SystemRead \/ SystemLock \/ SystemUpdate

-----------------------------------------------------------------------------
(* display_test in the console; a lock that times out answers BUSY         *)

TestLock ==
  /\ At("COMMAND", "idle")
  /\ Lock("COMMAND")
  /\ Goto("COMMAND", "fill")
  /\ UNCHANGED <<panelVars, lvglVars, ui, report, faults>>

Filling == At("COMMAND", "fill") \/ At("COMMAND", "strip")

\* Mutant of TestFill: the buffer is freed once the last strip is queued.
TestFillFrees ==
  /\ Filling
  /\ \/ /\ dma = "none" /\ dma' = "fill" /\ NoFault
        /\ \E p \in {"strip", "refresh"} : Goto("COMMAND", p)
     \/ UNCHANGED dma /\ Goto("COMMAND", "refresh") /\ Fault("fill")
  /\ UNCHANGED <<boot, lit, gram, lvglVars, owner, ui, report, bare>>

\* A strip of a fill.  The colour buffer lives from the first strip to the drain, but a
\* strip that fails frees it at once, and ends the test.
TestFill ==
  /\ Filling
  /\ \/ /\ dma = "none" /\ dma' = "fill" /\ NoFault
        /\ \E p \in {"strip", "drain"} : Goto("COMMAND", p)
     \/ UNCHANGED dma /\ Goto("COMMAND", "refresh") /\ Fault("fill")
  /\ UNCHANGED <<boot, lit, gram, lvglVars, owner, ui, report, bare>>

\* The NOP that waits for the strips, or fails; the buffer is freed either way.  Then the
\* next colour, or the end.
TestDrain ==
  /\ At("COMMAND", "drain")
  /\ \/ dma = "none" /\ (\E p \in {"fill", "refresh"} : Goto("COMMAND", p)) /\ NoFault
     \/ Goto("COMMAND", "refresh") /\ Fault("fill")
  /\ UNCHANGED <<panelVars, lvglVars, owner, ui, report, bare>>

\* Mutant of TestRefresh: nothing is invalidated.
TestRefreshStale ==
  /\ At("COMMAND", "refresh")
  /\ Goto("COMMAND", "render")
  /\ UNCHANGED <<panelVars, lvglVars, owner, ui, report, faults, bare>>

TestRefresh ==
  /\ At("COMMAND", "refresh")
  /\ dirty' = TRUE
  /\ Goto("COMMAND", "render")
  /\ UNCHANGED <<panelVars, pending, flushing, buffer, look, created, owner, ui, report, faults, bare>>

TestStep == TestFill \/ TestDrain \/ TestRefresh

-----------------------------------------------------------------------------
\* What the services report changes; they are modelled in Connectivity.
ReportChanges ==
  /\ boot = "up"
  /\ report' \in Reports \ {report}
  /\ UNCHANGED <<panelVars, lvglVars, taskVars, faults, bare>>

Boot == PanelSetup \/ BootFill("fill", "on") \/ DisplayOn \/ BootFill("black", "init") \/ LvglInit
Refresh(t) == NothingToDo(t) \/ Render(t) \/ Draw(t) \/ Unlock(t)

Next ==
  \/ Boot \/ TransferDone \/ ReportChanges \/ Gui \/ System \/ TestLock \/ TestStep
  \/ \E t \in Task : Refresh(t)

Spec == Init /\ [][Next]_vars

\* Tasks and the interrupt go on.  Nothing is said of GUI's frames: the lock is polled,
\* has no queue, and may be taken by others whenever GUI looks.
FairSpec ==
  /\ Spec
  /\ WF_vars(Boot) /\ WF_vars(TransferDone) /\ WF_vars(System) /\ WF_vars(TestStep)
  /\ WF_vars(GuiFirstLock \/ GuiCreate)
  /\ \A t \in Task : WF_vars(Refresh(t))

-----------------------------------------------------------------------------
(* Properties                                                              *)

\* The driver's claims in fill_color and flush_cb, also when flushes and DISPON fail: what
\* pending_flush_count_ counts is the flush that LVGL waits for; and unless a fill has
\* failed, a transfer's buffer is kept while it runs, by fill_color or by LVGL.  A fill
\* that fails frees its buffer at once, drained or not (display_gc9a01.cpp:118, 128).
BuffersKept ==
  /\ pending = IF flushing THEN 1 ELSE 0
  /\ bare = {} /\ faults["fill"] = 0 =>
       /\ dma = "fill" => At("COMMAND", "strip") \/ At("COMMAND", "drain")
       /\ dma = "flush" => flushing

\* Between commands the test pattern is not left on the screen, unless a flush failed, but
\* also when fills did and strips were late: the panel holds a drawn dashboard, or one is
\* on its way.
OnItsWay == dirty \/ dma = "flush" \/ \E t \in Task : At(t, "draw")
PatternGone ==
  bare = {} /\ faults["flush"] = 0 /\ created /\ pc["COMMAND"] = "idle" =>
    (gram.of = "dashboard" /\ dma # "fill") \/ OnItsWay

\* Every flush is acknowledged, also when tasks have gone on without the lock: no
\* task spins for ever in LVGL with the lock (lvgl_adapter.cpp:25-56).
FlushAcknowledged == flushing ~> ~flushing

\* If GUI gets the lock again and again, a report reaches the glass: the chip takes its
\* colour on a lit panel, or the report changes first; but DISPON must not have failed.
Shown(r) == lit /\ gram.of = "dashboard" /\ gram.look.chip = ChipColour(r)
ReportIsShown ==
  []<>(owner = "GUI") =>
    \A r \in Reports :
      boot = "up" /\ report = r ~>
        report # r \/ bare # {} \/ faults["on"] > 0 \/ Shown(r)

\* The guard's promise: one task at a time is inside LVGL.
Inside(t) == pc[t] \in {"create", "update", "fill", "strip", "drain", "refresh", "render", "draw"}
OneInLvgl == Cardinality({t \in Task : Inside(t)}) <= 1

=============================================================================
