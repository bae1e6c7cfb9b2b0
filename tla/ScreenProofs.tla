---------------------------- MODULE ScreenProofs ----------------------------
(***************************************************************************)
(* What the two dashboards show.  The display of the product build, for    *)
(* any set of reports and any number of failing driver calls: the flush    *)
(* count is exact, no buffer is given back while a transfer reads it until *)
(* a fill fails, and the test pattern is painted over until a flush does.  *)
(* The pills of the demonstration program, for any number of callbacks     *)
(* owed: they are true of its radios.                                      *)
(***************************************************************************)
EXTENDS Screen, MCDemoRadio, SequenceTheorems, TLAPS

\* What pending_flush_count_ counts, also when a task goes on without the lock.
Counted == pending = IF flushing THEN 1 ELSE 0

\* The variables by the kind of value they hold.
Flags == lit \in BOOLEAN /\ flushing \in BOOLEAN /\ dirty \in BOOLEAN /\ created \in BOOLEAN
Pictures == gram \in Picture /\ look \in Look /\ buffer \in Look /\ report \in Reports /\ ui \in Reports
Others ==
  /\ boot \in {"setup", "fill", "on", "black", "init", "up", "dead"}
  /\ dma \in {"none", "flush", "fill"}
  /\ owner \in Task \cup {"none"}
  /\ faults \in [Call -> 0..MaxFaults]
  /\ bare \in SUBSET Task
Places == pc \in [Task -> Pc]
Typed == Flags /\ Pictures /\ Others /\ Places /\ Counted

\* The parts together are the type invariant.
LEMMA TypedParts == Typed => TypeOK
BY DEF Typed, TypeOK, Flags, Pictures, Others, Places, Counted

-----------------------------------------------------------------------------
(* Types                                                                   *)

\* An update of the dashboard gives every widget one of its colours.
LEMMA LookTypes ==
  /\ Created \in Look
  /\ \A l \in Look, r \in Report : Updated(l, r) \in Look
<1>1. Created \in Look
  BY DEF Created, Look, Colour
<1>2. ASSUME NEW l \in Look, NEW r \in Report PROVE Updated(l, r) \in Look
  <2>1. ChipColour(r) \in Colour
    BY DEF ChipColour, SystemStatus, Report, Colour
  <2>2. [off |-> "red", advertising |-> "orange", connected |-> "green"][r.ble] \in Colour
    BY DEF Report, Colour
  <2>3. l.dot \in Colour
    BY DEF Look
  <2>4. (IF r.joined THEN "green" ELSE IF r.ap THEN "orange" ELSE "red") \in Colour
    BY DEF Colour
  <2>5. QED
    BY <2>1, <2>2, <2>3, <2>4 DEF Updated, Look
<1>3. QED
  BY <1>1, <1>2

\* Every picture the panel may be given is one.
LEMMA PictureTypes ==
  Random \in Picture /\ Pattern \in Picture /\ \A l \in Look : Dashboard(l) \in Picture
BY LookTypes DEF Random, Pattern, Dashboard, Picture

\* The variables are well typed and the count exact at boot.
LEMMA InitTyped == Init => Typed
<1> SUFFICES ASSUME Init PROVE Typed
  OBVIOUS
<1>1. Flags
  BY Zenon DEF Init, Flags
<1>2. Pictures
  BY LookTypes, PictureTypes DEF Init, Pictures
<1>3. Others
  BY ScreenAssumption DEF Init, Others, Task
<1>4. Places
  BY DEF Init, Places, Task, Pc
<1>5. Counted
  BY DEF Init, Counted
<1>6. QED
  BY <1>1, <1>2, <1>3, <1>4, <1>5 DEF Typed

\* A task's next place is a place.
LEMMA GotoTyped ==
  ASSUME Places, NEW t \in Task, NEW p \in Pc, Goto(t, p)
  PROVE  Places'
BY DEF Places, Goto

\* A fault more, or none, is counted.
LEMMA FaultTyped ==
  ASSUME faults \in [Call -> 0..MaxFaults], NEW c \in Call, Fault(c) \/ NoFault
  PROVE  faults' \in [Call -> 0..MaxFaults]
BY ScreenAssumption DEF Fault, NoFault

\* Boot keeps the types: no task runs, nothing is drawn through LVGL.
LEMMA BootTyped == Typed /\ Boot => Typed'
<1> SUFFICES ASSUME Typed, Boot PROVE Typed'
  OBVIOUS
<1> USE DEF Typed, Boot, PanelSetup, BootFill, DisplayOn, LvglInit, lvglVars, taskVars
<1>1. Flags'
  BY Zenon DEF Flags
<1>2. Pictures'
  BY PictureTypes DEF Pictures
<1>3. Others'
  BY FaultTyped DEF Others, NoFault, Call
<1>4. Places'
  BY DEF Places
<1>5. Counted'
  BY DEF Counted
<1>6. QED
  BY <1>1, <1>2, <1>3, <1>4, <1>5

\* The end of a transfer keeps them, whoever started it.
LEMMA TransferTyped == Typed /\ TransferDone => Typed'
<1> SUFFICES ASSUME Typed, TransferDone PROVE Typed'
  OBVIOUS
<1> USE DEF Typed, TransferDone, taskVars
<1>1. Flags'
  BY Zenon DEF Flags, Acknowledge
<1>2. Pictures'
  BY PictureTypes DEF Pictures
<1>3. Others'
  BY DEF Others
<1>4. Places'
  BY DEF Places
<1>5. Counted'
  BY DEF Counted, Flags, Acknowledge
<1>6. QED
  BY <1>1, <1>2, <1>3, <1>4, <1>5

\* So do the steps of GUI.
LEMMA GuiTyped == Typed /\ Gui => Typed'
<1> SUFFICES ASSUME Typed, Gui PROVE Typed'
  OBVIOUS
<1> USE DEF Typed, Gui, GuiFirstLock, GuiCreate, GuiFrame, panelVars, lvglVars
<1>1. Flags'
  BY Zenon DEF Flags
<1>2. Pictures'
  BY LookTypes DEF Pictures
<1>3. Others'
  BY DEF Others, Lock, GoOn, Task
<1>4. Places'
  BY GotoTyped DEF Task, Pc
<1>5. Counted'
  BY DEF Counted
<1>6. QED
  BY <1>1, <1>2, <1>3, <1>4, <1>5

\* So do those of SYSTEM, whose copy of the state is a report.
LEMMA SystemTyped == Typed /\ System => Typed'
<1> SUFFICES ASSUME Typed, System PROVE Typed'
  OBVIOUS
<1> USE DEF Typed, System, SystemRead, SystemLock, SystemUpdate, panelVars, lvglVars
<1>1. Flags'
  BY Zenon DEF Flags
<1>2. Pictures'
  BY LookTypes, ScreenAssumption DEF Pictures
<1>3. Others'
  BY DEF Others, Lock, GoOn, Task
<1>4. Places'
  BY GotoTyped DEF Task, Pc
<1>5. Counted'
  BY DEF Counted
<1>6. QED
  BY <1>1, <1>2, <1>3, <1>4, <1>5

\* So do those of display_test.
LEMMA TestTyped == Typed /\ (TestLock \/ TestStep) => Typed'
<1> SUFFICES ASSUME Typed, TestLock \/ TestStep PROVE Typed'
  OBVIOUS
<1> USE DEF Typed, TestLock, TestStep, TestFill, TestDrain, TestRefresh, panelVars, lvglVars
<1>1. Flags'
  BY Zenon DEF Flags
<1>2. Pictures'
  BY DEF Pictures
<1>3. Others'
  <2>1. CASE TestLock
    BY <2>1 DEF Others, Lock, Task
  <2>2. CASE TestStep
    BY <2>2, FaultTyped DEF Others, NoFault, Call
  <2>3. QED
    BY <2>1, <2>2
<1>4. Places'
  BY GotoTyped DEF Task, Pc
<1>5. Counted'
  BY DEF Counted
<1>6. QED
  BY <1>1, <1>2, <1>3, <1>4, <1>5

\* So does a refresh, which LVGL begins only with its buffer back.
LEMMA RefreshTyped == ASSUME NEW t \in Task, Typed, Refresh(t) PROVE Typed'
<1> USE DEF Typed, Refresh, NothingToDo, Render, Draw, Unlock, panelVars, lvglVars
<1>1. Flags'
  BY Zenon DEF Flags, Acknowledge
<1>2. Pictures'
  BY DEF Pictures
<1>3. Others'
  BY FaultTyped DEF Others, NoFault, Call
<1>4. Places'
  BY GotoTyped DEF Pc
<1>5. Counted'
  BY DEF Counted, Flags, Acknowledge
<1>6. QED
  BY <1>1, <1>2, <1>3, <1>4, <1>5

LEMMA StepTyped == Typed /\ [Next]_vars => Typed'
<1> SUFFICES ASSUME Typed, [Next]_vars PROVE Typed'
  OBVIOUS
<1>1. CASE ReportChanges
  BY <1>1 DEF ReportChanges, Typed, Flags, Pictures, Others, Places, Counted,
              panelVars, lvglVars, taskVars
<1>2. CASE UNCHANGED vars
  BY <1>2 DEF vars, Typed, Flags, Pictures, Others, Places, Counted,
              panelVars, lvglVars, taskVars
<1>3. QED
  BY <1>1, <1>2, BootTyped, TransferTyped, GuiTyped, SystemTyped, TestTyped, RefreshTyped DEF Next

\* Every variable keeps its type, and the count of pending flushes is one exactly while
\* LVGL waits for one, also when a task has gone on without the lock (lvgl_adapter.cpp:33-52).
THEOREM ScreenTypes == Spec => [](TypeOK /\ Counted)
<1>1. Typed => TypeOK /\ Counted
  BY TypedParts DEF Typed
<1>2. QED
  BY <1>1, InitTyped, StepTyped, PTL DEF Spec

-----------------------------------------------------------------------------
(* Buffers and pictures                                                    *)

\* Where a task is between taking LVGL's lock and giving it back.
Busy == {"create", "update", "fill", "strip", "drain", "refresh", "render", "draw", "unlock"}

\* As long as every task that went on had the lock, the busy one owns it ...
BusyOwns == bare = {} => \A t \in Task : pc[t] \in Busy => owner = t

\* ... so that, until a fill fails, nothing is transferred while a flush is about to be
\* drawn ...
Drawing == \E t \in Task : pc[t] = "draw"
DrawReady == bare = {} /\ faults["fill"] = 0 /\ Drawing => dma = "none" /\ flushing

\* ... and every transfer under way has its buffer.
Kept ==
  bare = {} /\ faults["fill"] = 0 =>
    /\ dma = "fill" => pc["COMMAND"] \in {"strip", "drain"}
    /\ dma = "flush" => flushing

\* The dashboard and display_test come after boot.  Once there is a dashboard the pattern is
\* on the glass, or will be, only inside display_test, or with something to cover it.
CreatedUp == created \/ pc["COMMAND"] # "idle" => boot = "up"
Covered ==
  faults["flush"] = 0 /\ created =>
    \/ gram.of = "dashboard" /\ dma # "fill"
    \/ dirty \/ dma = "flush" \/ Drawing
    \/ pc["COMMAND"] \in {"fill", "strip", "drain", "refresh"}

DrawInv == Typed /\ BusyOwns /\ DrawReady /\ Kept /\ CreatedUp /\ Covered

LEMMA InitDraw == Init => DrawInv
<1> SUFFICES ASSUME Init PROVE DrawInv
  OBVIOUS
<1>1. Typed
  BY InitTyped
<1>2. BusyOwns /\ DrawReady
  BY DEF Init, BusyOwns, DrawReady, Drawing, Busy, Task
<1>3. Kept /\ CreatedUp /\ Covered
  BY Zenon DEF Init, Kept, CreatedUp, Covered, Drawing
<1>4. QED
  BY <1>1, <1>2, <1>3 DEF DrawInv

\* A failure is remembered.
LEMMA FaultKnown ==
  ASSUME Typed, NEW c \in Call, Fault(c)
  PROVE  faults'[c] > 0 /\ \A d \in Call : faults'[d] = 0 => faults[d] = 0
BY DEF Typed, Others, Fault

\* Before the tasks run nothing is drawn but what boot draws.
LEMMA BootDraw == DrawInv /\ Boot => DrawInv'
<1> SUFFICES ASSUME DrawInv, Boot PROVE DrawInv'
  OBVIOUS
<1> USE DEF DrawInv, Boot, PanelSetup, BootFill, DisplayOn, LvglInit, lvglVars, taskVars
<1>1. Typed'
  BY BootTyped
<1>2. ~created /\ ~created' /\ pc["COMMAND"] = "idle" /\ UNCHANGED <<bare, flushing, pc, owner>>
  BY DEF CreatedUp
<1>3. faults'["fill"] = 0 => faults["fill"] = 0 /\ dma' = dma
  BY FaultKnown DEF NoFault, Call
<1>4. BusyOwns' /\ DrawReady' /\ Kept'
  BY <1>2, <1>3 DEF BusyOwns, DrawReady, Drawing, Kept
<1>5. CreatedUp' /\ Covered'
  BY <1>2 DEF CreatedUp, Covered, Drawing
<1>6. QED
  BY <1>1, <1>4, <1>5

\* The end of a transfer leaves a dashboard, or the pattern inside display_test.
LEMMA TransferDraw == DrawInv /\ TransferDone => DrawInv'
<1> SUFFICES ASSUME DrawInv, TransferDone PROVE DrawInv'
  OBVIOUS
<1> USE DEF DrawInv, TransferDone, taskVars
<1>1. Typed'
  BY TransferTyped
<1>2. BusyOwns' /\ CreatedUp' /\ Kept'
  BY DEF BusyOwns, CreatedUp, Kept
<1>3. DrawReady'
  BY DEF DrawReady, Drawing
<1>4. Covered'
  BY DEF Covered, Drawing, Kept, Typed, Others, Dashboard
<1>5. QED
  BY <1>1, <1>2, <1>3, <1>4

LEMMA GuiDraw == DrawInv /\ Gui => DrawInv'
<1> SUFFICES ASSUME DrawInv, Gui PROVE DrawInv'
  OBVIOUS
<1> USE DEF DrawInv, Gui, GuiFirstLock, GuiCreate, GuiFrame, panelVars, lvglVars, Goto, At, Lock,
  GoOn
<1>1. Typed'
  BY GuiTyped
<1>2. BusyOwns'
  BY DEF BusyOwns, Busy, Task, Typed, Places
<1>3. DrawReady' /\ Kept'
  BY DEF DrawReady, Drawing, Kept, Task, Typed, Places
<1>4. CreatedUp' /\ Covered'
  BY DEF CreatedUp, Covered, Drawing, Task, Typed, Places
<1>5. QED
  BY <1>1, <1>2, <1>3, <1>4

LEMMA SystemDraw == DrawInv /\ System => DrawInv'
<1> SUFFICES ASSUME DrawInv, System PROVE DrawInv'
  OBVIOUS
<1> USE DEF DrawInv, System, SystemRead, SystemLock, SystemUpdate, panelVars, lvglVars, Goto, At,
  Lock, GoOn
<1>1. Typed'
  BY SystemTyped
<1>2. BusyOwns'
  BY DEF BusyOwns, Busy, Task, Typed, Places
<1>3. DrawReady' /\ Kept'
  BY DEF DrawReady, Drawing, Kept, Task, Typed, Places
<1>4. CreatedUp' /\ Covered'
  BY DEF CreatedUp, Covered, Drawing, Task, Typed, Places
<1>5. QED
  BY <1>1, <1>2, <1>3, <1>4

\* display_test fills only with the lock, and ends by making everything dirty.
LEMMA TestDraw == DrawInv /\ (TestLock \/ TestStep) => DrawInv'
<1> SUFFICES ASSUME DrawInv, TestLock \/ TestStep PROVE DrawInv'
  OBVIOUS
<1> USE DEF DrawInv, TestStep, panelVars, lvglVars, At, Goto
<1>1. Typed'
  BY TestTyped
<1>2. pc \in [Task -> Pc] /\ "COMMAND" \in Task
  BY DEF Typed, Places, Task
<1>3. /\ \A t \in Task : t # "COMMAND" => pc'[t] = pc[t]
      /\ pc'["COMMAND"] \notin {"idle", "draw"} /\ boot = "up"
      /\ UNCHANGED <<boot, gram, created, flushing, bare>>
  BY <1>2 DEF TestLock, TestFill, Filling, TestDrain, TestRefresh, Lock
<1>4. \/ owner = "none" /\ owner' = "COMMAND"
      \/ pc["COMMAND"] \in Busy /\ owner' = owner
  BY DEF TestLock, TestFill, Filling, TestDrain, TestRefresh, Lock, Busy
<1>5. BusyOwns'
  BY <1>2, <1>3, <1>4 DEF BusyOwns, Busy, Task
<1>6. pc["COMMAND"] # "draw" /\ (Drawing' <=> Drawing)
  BY <1>2, <1>3 DEF Drawing, TestLock, TestFill, Filling, TestDrain, TestRefresh
<1>7. faults'["fill"] = 0 => faults["fill"] = 0 /\ NoFault
  BY FaultKnown DEF NoFault, Call, TestLock, TestFill, Filling, TestDrain, TestRefresh
<1>8. DrawReady'
  <2>1. CASE TestFill
    <3>1. bare = {} /\ Drawing => FALSE
      BY <1>2, <2>1 DEF TestFill, Filling, Drawing, BusyOwns, Busy
    <3>2. QED
      BY <1>3, <1>6, <3>1 DEF DrawReady
  <2>2. CASE ~TestFill
    <3>1. dma' = dma
      BY <2>2 DEF TestLock, TestDrain, TestRefresh
    <3>2. QED
      BY <1>3, <1>6, <1>7, <3>1 DEF DrawReady
  <2>3. QED
    BY <2>1, <2>2
<1>9. Kept'
  <2>1. CASE faults'["fill"] = 0
    <3>1. ~Fault("fill")
      BY <2>1, FaultKnown DEF Call
    <3>2. \/ dma' # "fill"
          \/ dma' = dma /\ pc["COMMAND"] \notin {"strip", "drain"}
          \/ pc'["COMMAND"] \in {"strip", "drain"}
      <4>1. CASE TestFill
        <5>1. PICK p \in {"strip", "drain"} : pc' = [pc EXCEPT !["COMMAND"] = p]
          BY <3>1, <4>1 DEF TestFill
        <5>2. QED
          BY <1>2, <5>1
      <4>2. CASE TestDrain
        BY <3>1, <4>2 DEF TestDrain
      <4>3. CASE TestLock \/ TestRefresh
        BY <4>3 DEF TestLock, TestRefresh
      <4>4. QED
        BY <4>1, <4>2, <4>3
    <3>3. dma' = "flush" => dma = "flush"
      BY DEF TestLock, TestFill, TestDrain, TestRefresh
    <3>4. QED
      BY <1>3, <1>7, <3>2, <3>3 DEF Kept
  <2>2. CASE faults'["fill"] # 0
    BY <2>2 DEF Kept
  <2>3. QED
    BY <2>1, <2>2
<1>10. CreatedUp'
  BY <1>3 DEF CreatedUp
<1>11. Covered'
  BY <1>2 DEF Covered, TestLock, TestFill, TestDrain, TestRefresh
<1>12. QED
  BY <1>1, <1>5, <1>8, <1>9, <1>10, <1>11

\* A refresh turns what is dirty into a flush, and a failed flush is a fault.
LEMMA RefreshDraw == ASSUME NEW t \in Task, DrawInv, Refresh(t) PROVE DrawInv'
<1> USE DEF DrawInv, Refresh, NothingToDo, Render, Draw, Unlock, panelVars, lvglVars, Goto, At
<1>1. Typed'
  BY RefreshTyped
<1>2. BusyOwns'
  BY DEF BusyOwns, Busy, Task, Typed, Places
<1>3. /\ bare' = bare /\ faults'["fill"] = faults["fill"]
      /\ faults'["flush"] = 0 => faults["flush"] = 0
  BY DEF NoFault, Fault, Call, Typed, Others
<1>4. pc \in [Task -> Pc] /\ pc[t] \in Busy
      /\ \A u \in Task : u # t => pc'[u] = pc[u]
  BY DEF Typed, Places, Busy
<1>5. bare = {} => \A u \in Task : u # t => pc[u] \notin Busy
  BY <1>4, ScreenAssumption DEF BusyOwns, Task
<1>6. dma \in {"none", "flush", "fill"}
  BY DEF Typed, Others
<1>7. CASE Render(t)
  <2>1. ~flushing /\ flushing' /\ dma' = dma /\ Drawing' /\ pc[t] = "render" /\ created' = created
        /\ gram' = gram /\ boot = "up" /\ boot' = boot
    BY <1>4, <1>7 DEF Drawing
  <2>2. bare = {} => pc["COMMAND"] \notin {"strip", "drain"}
    BY <1>5, <2>1 DEF Busy, Task
  <2>3. DrawReady' /\ Kept'
    BY <1>3, <1>6, <2>1, <2>2 DEF DrawReady, Kept
  <2>4. CreatedUp' /\ Covered'
    BY <2>1 DEF CreatedUp, Covered
  <2>5. QED
    BY <1>1, <1>2, <2>3, <2>4
<1>8. CASE Draw(t)
  <2>1. pc[t] = "draw" /\ pc'[t] = "unlock" /\ Drawing /\ boot = "up"
        /\ UNCHANGED <<boot, gram, dirty, created>>
    BY <1>4, <1>8 DEF Drawing
  <2>2. bare = {} => ~Drawing'
    BY <1>4, <1>5, <2>1 DEF Drawing, Busy
  <2>3. bare = {} /\ faults["fill"] = 0 => dma = "none" /\ flushing
    BY <2>1 DEF DrawReady
  <2>4. (dma' = "flush" /\ flushing' = flushing) \/ (faults'["flush"] # 0 /\ dma' = dma)
    BY <1>8 DEF Fault, Call, Typed, Others
  <2>5. DrawReady' /\ Kept'
    BY <1>3, <2>2, <2>3, <2>4 DEF DrawReady, Kept
  <2>6. CreatedUp' /\ Covered'
    BY <1>3, <2>1, <2>4 DEF CreatedUp, Covered
  <2>7. QED
    BY <1>1, <1>2, <2>5, <2>6
<1>9. CASE NothingToDo(t) \/ Unlock(t)
  <2>1. UNCHANGED <<boot, gram, dma, flushing, dirty, created>> /\ boot = "up"
        /\ pc[t] \notin {"draw", "fill", "strip", "drain", "refresh"} /\ pc'[t] \notin {"draw"}
    BY <1>4, <1>9
  <2>2. Drawing' <=> Drawing
    BY <1>4, <2>1 DEF Drawing
  <2>3. pc["COMMAND"] \in {"fill", "strip", "drain", "refresh"} => pc'["COMMAND"] = pc["COMMAND"]
    BY <1>4, <2>1 DEF Task
  <2>4. QED
    BY <1>1, <1>2, <1>3, <2>1, <2>2, <2>3 DEF DrawReady, Kept, CreatedUp, Covered
<1>10. QED
  BY <1>7, <1>8, <1>9

LEMMA StepDraw == DrawInv /\ [Next]_vars => DrawInv'
<1> SUFFICES ASSUME DrawInv, [Next]_vars PROVE DrawInv'
  OBVIOUS
<1>1. CASE ReportChanges
  <2>1. Typed'
    BY <1>1, StepTyped DEF DrawInv, Next
  <2>2. QED
    BY <1>1, <2>1 DEF ReportChanges, DrawInv, BusyOwns, DrawReady, Drawing, Kept, CreatedUp, Covered,
                      panelVars, lvglVars, taskVars
<1>2. CASE UNCHANGED vars
  <2>1. Typed'
    BY <1>2, StepTyped DEF DrawInv
  <2>2. QED
    BY <1>2, <2>1 DEF vars, DrawInv, BusyOwns, DrawReady, Drawing, Kept, CreatedUp, Covered,
                      panelVars, lvglVars, taskVars
<1>3. QED
  BY <1>1, <1>2, BootDraw, TransferDraw, GuiDraw, SystemDraw, TestDraw, RefreshDraw DEF Next

\* LVGL's count is always the flush it waits for, and as long as no fill has failed and no
\* task has gone on without the lock, the buffer of a transfer under way is kept, by
\* display_test until its drain or by LVGL (display_gc9a01.cpp:101-150,
\* lvgl_adapter.cpp:25-56).  A fill that fails frees it at once (:118, :128).
THEOREM BuffersSafe == Spec => []BuffersKept
<1>1. DrawInv => BuffersKept
  BY DEF DrawInv, Kept, CreatedUp, Typed, Counted, BuffersKept, At
<1>2. QED
  BY <1>1, InitDraw, StepDraw, PTL DEF Spec

\* After display_test the dashboard is on the glass or on its way there, unless a flush
\* failed, and also when strips failed with others under way (command_registry.cpp's
\* display_test, display_gc9a01.cpp:101-132).
THEOREM PatternCovered == Spec => []PatternGone
<1>1. DrawInv => PatternGone
  BY DEF DrawInv, CreatedUp, Covered, Drawing, PatternGone, OnItsWay, At
<1>2. QED
  BY <1>1, InitDraw, StepDraw, PTL DEF Spec

-----------------------------------------------------------------------------
(* The radios of the demonstration program                                 *)

\* The console is inside a Bluetooth command; SYSTEM has not begun to start Bluetooth, or
\* has begun and not advertised, or not marked it.
Commanding == cli \in {"start", "started", "stop", "stopped"}
Asleep == ~sys.ble /\ ~Radio!Server
Waking == sys.at = "server"
Starting == sys.at = "marking"

\* Until then nothing happens, whatever the console tries.
Sleeping == Asleep => ~ctl.adv /\ ~ctl.link /\ owed = <<>> /\ ~Commanding

\* No callback is due: the flags agree with the controller, but for the one that a start
\* or a command is about to set.
Calm ==
  /\ owed = <<>> /\ callback = "idle"
  /\ Waking => ~sys.ble /\ ~ctl.adv /\ ~ctl.link /\ ~ble.conn /\ ~ble.adv /\ ~Commanding
  /\ Starting => ~sys.ble /\ ctl.adv /\ ~ctl.link /\ ~ble.conn /\ ~ble.adv /\ ~Commanding
  /\ Commanding => /\ ~ctl.link /\ ~ble.conn
                   /\ ctl.adv <=> cli \in {"started", "stop"}
                   /\ ble.adv <=> cli \in {"stop", "stopped"}
  /\ ~Starting /\ ~Commanding => (ble.conn <=> ctl.link) /\ (ble.adv <=> ctl.adv)
  /\ ctl.link => ~ctl.adv

\* Nothing else is under way while callbacks are due.
Alone == ~Commanding /\ ~Asleep /\ ~Waking /\ ~Starting

\* A connect callback is due, or half way; whatever the flags were, it sets them.
Coming ==
  /\ \/ owed = <<"connect">> /\ ctl.link
     \/ owed = <<"connect", "disconnect">> /\ ~ctl.link
  /\ callback \in {"idle", "connected", "silent"} /\ ~ctl.adv
  /\ callback # "idle" => ble.conn
  /\ callback = "silent" => ~ble.adv
  /\ Alone

\* A disconnect callback is due, or half way; once it advertises, a client may come, and go.
Going ==
  /\ \/ owed = <<"disconnect">> /\ ~ctl.link /\ (ctl.adv <=> callback = "restarted")
     \/ owed = <<"disconnect", "connect">> /\ callback = "restarted" /\ ctl.link /\ ~ctl.adv
     \/ /\ owed = <<"disconnect", "connect", "disconnect">> /\ callback = "restarted"
        /\ ~ctl.link /\ ~ctl.adv
  /\ callback \in {"idle", "left", "restarted"}
  /\ callback # "idle" => ~ble.conn
  /\ Alone

BleFollows == Sleeping /\ (tidy => Calm \/ Coming \/ Going)

\* What SYSTEM has read of the station and the mode since the last change is still true.
WifiFollows ==
  /\ wifi.phone => wifi.mode # "off"
  /\ polled \in {"polling", "yes"} => (flag.ap <=> wifi.mode # "off")
  /\ polled = "polling" =>
       /\ sys.at \in {"notify", "status", "up", "down"}
       /\ sys.at = "up" => wifi.sta = "up"
       /\ sys.at = "down" => wifi.sta # "up"
  /\ polled = "yes" =>
       /\ sys.at \in {"start", "server", "marking", "hotspot", "poll"}
       /\ flag.conn <=> wifi.sta = "up"

\* The variables by the kind of value they hold; a callback that has begun is still owed.
Ctl == [adv : BOOLEAN, link : BOOLEAN]
BleFlags == [conn : BOOLEAN, adv : BOOLEAN, hello : BOOLEAN]
Wifi == [mode : {"off", "ap", "apsta"}, sta : {"down", "joining", "up"}, phone : BOOLEAN]
WifiFlags == [conn : BOOLEAN, ing : BOOLEAN, ap : BOOLEAN]
Sys == [at : {"start", "server", "marking", "hotspot", "poll", "notify", "status", "up", "down"},
        ble : BOOLEAN, wifi : BOOLEAN]

CtlTyped == ctl \in Ctl
BleTyped == ble \in BleFlags
OwedTyped ==
  /\ owed \in Seq({"connect", "disconnect"}) /\ Len(owed) <= MaxBleEvents
  /\ callback \in {"idle", "connected", "silent", "left", "restarted"}
  /\ callback # "idle" => owed # <<>>
HistoryTyped == greeted \in BOOLEAN /\ tidy \in BOOLEAN
WifiTyped == wifi \in Wifi /\ polled \in {"no", "polling", "yes"}
FlagTyped == flag \in WifiFlags
SysTyped == sys \in Sys
CliTyped == cli \in {"idle", "start", "started", "stop", "stopped", "mode", "begin", "left"}
RadioTyped ==
  /\ CtlTyped /\ BleTyped /\ OwedTyped /\ HistoryTyped
  /\ WifiTyped /\ FlagTyped /\ SysTyped /\ CliTyped

\* The parts together are the type invariant.
LEMMA RadioParts == RadioTyped => Radio!TypeOK
BY DEF RadioTyped, Radio!TypeOK, CtlTyped, BleTyped, OwedTyped, HistoryTyped, WifiTyped, FlagTyped,
  SysTyped, CliTyped, Ctl, BleFlags, Wifi, WifiFlags, Sys

\* Setting a field keeps the type.
LEMMA SetField ==
  /\ \A r \in Ctl, b \in BOOLEAN : [r EXCEPT !.adv = b] \in Ctl /\ [r EXCEPT !.link = b] \in Ctl
  /\ \A r \in BleFlags, b \in BOOLEAN :
       /\ [r EXCEPT !.conn = b] \in BleFlags /\ [r EXCEPT !.adv = b] \in BleFlags
       /\ [r EXCEPT !.hello = b] \in BleFlags
  /\ \A r \in WifiFlags, b \in BOOLEAN :
       /\ [r EXCEPT !.conn = b] \in WifiFlags /\ [r EXCEPT !.ing = b] \in WifiFlags
       /\ [r EXCEPT !.ap = b] \in WifiFlags
       /\ \A c \in BOOLEAN : [r EXCEPT !.conn = b, !.ing = c] \in WifiFlags
  /\ \A r \in Wifi :
       /\ \A s \in {"down", "joining", "up"} : [r EXCEPT !.sta = s] \in Wifi
       /\ [r EXCEPT !.mode = "apsta", !.sta = "joining"] \in Wifi
       /\ \A b \in BOOLEAN : [r EXCEPT !.phone = b] \in Wifi
  /\ \A m \in {"ap", "apsta"}, a \in {"down", "joining", "up"}, b \in BOOLEAN :
       [mode |-> m, sta |-> a, phone |-> b] \in Wifi
  /\ [adv |-> FALSE, link |-> TRUE] \in Ctl
  /\ \A r \in Sys, a \in {"start", "server", "marking", "hotspot", "poll", "notify", "status", "up", "down"} :
       /\ [r EXCEPT !.at = a] \in Sys
       /\ [r EXCEPT !.at = a, !.ble = TRUE] \in Sys
       /\ [r EXCEPT !.at = a, !.wifi = TRUE] \in Sys
BY Zenon DEF Ctl, BleFlags, WifiFlags, Wifi, Sys

LEMMA RadioInitTyped == Radio!Init => RadioTyped
<1> SUFFICES ASSUME Radio!Init PROVE RadioTyped
  OBVIOUS
<1> USE DEF Radio!Init
<1>1. CtlTyped /\ BleTyped /\ HistoryTyped
  BY DEF CtlTyped, BleTyped, HistoryTyped, Ctl, BleFlags
<1>2. OwedTyped
  BY RadioAssumption DEF OwedTyped
<1>3. WifiTyped /\ FlagTyped
  BY DEF WifiTyped, FlagTyped, Wifi, WifiFlags
<1>4. SysTyped /\ CliTyped
  BY DEF SysTyped, CliTyped, Sys
<1>5. QED
  BY <1>1, <1>2, <1>3, <1>4 DEF RadioTyped

\* A client that comes or goes owes one more callback.
LEMMA ClientTyped == RadioTyped /\ Radio!Client => RadioTyped'
<1> SUFFICES ASSUME RadioTyped, Radio!Client PROVE RadioTyped'
  OBVIOUS
<1> USE DEF RadioTyped, Radio!Client, Radio!ClientJoins, Radio!ClientLeaves, Radio!wifiVars
<1>1. CtlTyped'
  BY SetField DEF CtlTyped
<1>2. OwedTyped'
  <2>1. \A c \in {"connect", "disconnect"} :
          /\ Append(owed, c) \in Seq({"connect", "disconnect"}) /\ Append(owed, c) # <<>>
          /\ Len(Append(owed, c)) = Len(owed) + 1 /\ Len(owed) \in Nat
    BY AppendProperties DEF OwedTyped
  <2>2. Len(owed) < MaxBleEvents /\ callback' = callback
        /\ \E c \in {"connect", "disconnect"} : owed' = Append(owed, c)
    BY Zenon
  <2>3. QED
    BY <2>1, <2>2, RadioAssumption DEF OwedTyped
<1>3. HistoryTyped'
  BY Zenon DEF HistoryTyped
<1>4. BleTyped' /\ WifiTyped' /\ FlagTyped' /\ SysTyped' /\ CliTyped'
  BY DEF BleTyped, WifiTyped, FlagTyped, SysTyped, CliTyped
<1>5. QED
  BY <1>1, <1>2, <1>3, <1>4

\* A callback that is over is owed no more.
LEMMA CallbackOverTyped == RadioTyped /\ callback # "idle" /\ Radio!CallbackOver => OwedTyped'
BY HeadTailProperties, RadioAssumption DEF RadioTyped, OwedTyped, Radio!CallbackOver

LEMMA CallbacksTyped == RadioTyped /\ Radio!Callbacks => RadioTyped'
<1> SUFFICES ASSUME RadioTyped, Radio!Callbacks PROVE RadioTyped'
  OBVIOUS
<1> USE DEF RadioTyped, Radio!Callbacks, Radio!OnConnect, Radio!OnDisconnect, Radio!wifiVars
<1>1. CtlTyped'
  BY SetField DEF CtlTyped
<1>2. BleTyped'
  BY SetField DEF BleTyped
<1>3. OwedTyped'
  <2>1. CASE callback # "idle" /\ Radio!CallbackOver
    BY <2>1, CallbackOverTyped
  <2>2. CASE UNCHANGED owed /\ owed # <<>>
    BY <2>2 DEF OwedTyped, Radio!CallbackOver
  <2>3. QED
    BY <2>1, <2>2 DEF OwedTyped
<1>4. WifiTyped' /\ FlagTyped' /\ SysTyped' /\ CliTyped' /\ HistoryTyped'
  BY Zenon DEF WifiTyped, FlagTyped, SysTyped, CliTyped, HistoryTyped
<1>5. QED
  BY <1>1, <1>2, <1>3, <1>4

LEMMA DriverTyped == RadioTyped /\ Radio!Driver => RadioTyped'
<1> SUFFICES ASSUME RadioTyped, Radio!Driver PROVE RadioTyped'
  OBVIOUS
<1> USE DEF RadioTyped, Radio!Driver, Radio!StationUp, Radio!StationFails, Radio!StationLost,
  Radio!StationRetries, Radio!Station, Radio!Phone, Radio!Join, Radio!bleVars
<1>1. WifiTyped'
  BY SetField DEF WifiTyped
<1>2. CtlTyped' /\ BleTyped' /\ OwedTyped' /\ HistoryTyped' /\ FlagTyped' /\ SysTyped' /\ CliTyped'
  BY DEF CtlTyped, BleTyped, OwedTyped, HistoryTyped, FlagTyped, SysTyped, CliTyped
<1>3. QED
  BY <1>1, <1>2

\* A hotspot that is started.
LEMMA HotspotTyped ==
  ASSUME RadioTyped, NEW w \in Wifi, Radio!Hotspot(w, flag, "no") PROVE WifiTyped' /\ FlagTyped'
<1>1. w.sta \in {"down", "joining", "up"} /\ w.phone \in BOOLEAN
  BY DEF Wifi
<1>2. PICK m \in {"ap", "apsta"}, a \in {"down", "joining", "up"}, ok \in BOOLEAN, b \in BOOLEAN :
        Radio!Join([mode |-> m, sta |-> a, phone |-> b], [flag EXCEPT !.ap = ok], "no")
  BY <1>1, Zenon DEF Radio!Hotspot
<1>3. wifi' \in Wifi /\ polled' = "no"
  BY <1>2, SetField DEF Radio!Join
<1>4. flag' \in WifiFlags
  BY <1>2, SetField DEF RadioTyped, FlagTyped, Radio!Join
<1>5. QED
  BY <1>3, <1>4 DEF WifiTyped, FlagTyped

LEMMA RadioSystemTyped == RadioTyped /\ Radio!System => RadioTyped'
<1> SUFFICES ASSUME RadioTyped, Radio!System PROVE RadioTyped'
  OBVIOUS
<1> USE DEF RadioTyped, Radio!System, Radio!SysStart, Radio!SysAdvertises, Radio!SysMarks,
  Radio!SysHotspot, Radio!SysPoll,
  Radio!SysNotify, Radio!SysStatus, Radio!SysShows, Radio!SysGoto, Radio!bleVars, Radio!wifiVars
<1>1. CtlTyped' /\ BleTyped'
  BY SetField DEF CtlTyped, BleTyped
<1>2. OwedTyped' /\ CliTyped'
  BY Zenon DEF OwedTyped, CliTyped
<1>3. HistoryTyped'
  BY Zenon DEF HistoryTyped
<1>4. WifiTyped' /\ FlagTyped'
  <2>1. CASE Radio!SysHotspot
    BY <2>1, HotspotTyped DEF WifiTyped
  <2>2. CASE ~Radio!SysHotspot
    BY <2>2, SetField DEF WifiTyped, FlagTyped, Radio!Join
  <2>3. QED
    BY <2>1, <2>2
<1>5. SysTyped'
  BY SetField DEF SysTyped
<1>6. QED
  BY <1>1, <1>2, <1>3, <1>4, <1>5

LEMMA CommandTyped == RadioTyped /\ (Radio!Command \/ Radio!Acts) => RadioTyped'
<1> SUFFICES ASSUME RadioTyped, Radio!Command \/ Radio!Acts PROVE RadioTyped'
  OBVIOUS
<1> USE DEF RadioTyped, Radio!Command, Radio!Acts, Radio!BleCommand, Radio!BleActs,
  Radio!WifiCommand,
  Radio!WifiActs, Radio!bleVars, Radio!wifiVars
<1>1. CtlTyped' /\ BleTyped'
  BY SetField DEF CtlTyped, BleTyped
<1>2. OwedTyped' /\ SysTyped'
  BY Zenon DEF OwedTyped, SysTyped
<1>3. HistoryTyped'
  BY Zenon DEF HistoryTyped, Radio!Clean
<1>4. WifiTyped' /\ FlagTyped'
  <2>1. CASE Radio!Hotspot([wifi EXCEPT !.sta = "down"], flag, "no")
    BY <2>1, HotspotTyped, SetField DEF WifiTyped
  <2>2. CASE ~Radio!Hotspot([wifi EXCEPT !.sta = "down"], flag, "no")
    BY <2>2, SetField DEF WifiTyped, FlagTyped, Radio!Join
  <2>3. QED
    BY <2>1, <2>2
<1>5. CliTyped'
  BY Zenon DEF CliTyped
<1>6. QED
  BY <1>1, <1>2, <1>3, <1>4, <1>5

LEMMA RadioStepTyped == RadioTyped /\ [Radio!Next]_(Radio!vars) => RadioTyped'
<1> SUFFICES ASSUME RadioTyped, UNCHANGED Radio!vars PROVE RadioTyped'
  BY ClientTyped, CallbacksTyped, DriverTyped, RadioSystemTyped, CommandTyped DEF Radio!Next
<1>1. QED
  BY DEF RadioTyped, CtlTyped, BleTyped, OwedTyped, HistoryTyped, WifiTyped, FlagTyped, SysTyped,
    CliTyped,
    Radio!vars, Radio!bleVars, Radio!wifiVars

-----------------------------------------------------------------------------
(* What the flags follow                                                   *)

RadioInv == RadioTyped /\ BleFollows /\ WifiFollows

LEMMA RadioInit == Radio!Init => RadioInv
<1> SUFFICES ASSUME Radio!Init PROVE RadioInv
  OBVIOUS
<1>1. RadioTyped
  BY RadioInitTyped
<1>2. BleFollows
  BY DEF Radio!Init, BleFollows, Sleeping, Calm, Asleep, Radio!Server, Commanding, Waking, Starting
<1>3. WifiFollows
  BY DEF Radio!Init, WifiFollows
<1>4. QED
  BY <1>1, <1>2, <1>3 DEF RadioInv

\* A step that leaves Bluetooth alone.
LEMMA BleKept ==
  ASSUME BleFollows, UNCHANGED <<ctl, owed, callback, tidy>>,
         ble'.conn <=> ble.conn, ble'.adv <=> ble.adv,
         Asleep' <=> Asleep, Waking' <=> Waking, Starting' <=> Starting,
         (Commanding' <=> Commanding) /\ (cli' = cli \/ ~Commanding),
         Waking \/ Starting => (sys'.ble <=> sys.ble)
  PROVE  BleFollows'
BY DEF BleFollows, Sleeping, Calm, Coming, Going, Alone

\* A sequence of one, or two, with one more.
LEMMA TwoOf == ASSUME NEW S, NEW a \in S, NEW b \in S PROVE Append(<<a>>, b) = <<a, b>>
<1>1. Append(<<a>>, b) \in Seq(S) /\ <<a, b>> \in Seq(S)
  OBVIOUS
<1>2. Len(Append(<<a>>, b)) = 2 /\ Len(<<a, b>>) = 2
  OBVIOUS
<1>3. \A k \in 1 .. 2 : Append(<<a>>, b)[k] = <<a, b>>[k]
  OBVIOUS
<1>4. QED
  BY <1>1, <1>2, <1>3, SeqEqual

LEMMA ThreeOf ==
  ASSUME NEW S, NEW a \in S, NEW b \in S, NEW c \in S PROVE Append(<<a, b>>, c) = <<a, b, c>>
<1>1. Append(<<a, b>>, c) \in Seq(S) /\ <<a, b, c>> \in Seq(S)
  OBVIOUS
<1>2. Len(Append(<<a, b>>, c)) = 3 /\ Len(<<a, b, c>>) = 3
  OBVIOUS
<1>3. \A k \in 1 .. 3 : Append(<<a, b>>, c)[k] = <<a, b, c>>[k]
  OBVIOUS
<1>4. QED
  BY <1>1, <1>2, <1>3, SeqEqual

\* The few sequences of callbacks that are owed.
LEMMA OwedSeqs ==
  /\ Append(<<>>, "connect") = <<"connect">>
  /\ Append(<<"connect">>, "disconnect") = <<"connect", "disconnect">>
  /\ Append(<<"disconnect">>, "connect") = <<"disconnect", "connect">>
  /\ Append(<<"disconnect", "connect">>, "disconnect") = <<"disconnect", "connect", "disconnect">>
  /\ Tail(<<"connect">>) = <<>> /\ Tail(<<"disconnect">>) = <<>>
  /\ Tail(<<"connect", "disconnect">>) = <<"disconnect">>
  /\ Tail(<<"disconnect", "connect">>) = <<"connect">>
  /\ Tail(<<"disconnect", "connect", "disconnect">>) = <<"connect", "disconnect">>
  /\ Head(<<"connect">>) = "connect" /\ Head(<<"disconnect">>) = "disconnect"
  /\ Head(<<"connect", "disconnect">>) = "connect"
  /\ Head(<<"disconnect", "connect">>) = "disconnect"
  /\ Head(<<"disconnect", "connect", "disconnect">>) = "disconnect"
<1> DEFINE Cb == {"connect", "disconnect"}
<1>1. /\ Append(<<>>, "connect") = <<"connect">>
      /\ Append(<<"connect">>, "disconnect") = <<"connect", "disconnect">>
      /\ Append(<<"disconnect">>, "connect") = <<"disconnect", "connect">>
  <2>1. Append(<<>>, "connect") = <<"connect">>
    OBVIOUS
  <2>2. "connect" \in Cb /\ "disconnect" \in Cb
    OBVIOUS
  <2>3. QED
    BY <2>1, <2>2, TwoOf
<1>2. Append(<<"disconnect", "connect">>, "disconnect") = <<"disconnect", "connect", "disconnect">>
  <2>1. "connect" \in Cb /\ "disconnect" \in Cb
    OBVIOUS
  <2>2. QED
    BY <2>1, ThreeOf
<1>3. Tail(<<"connect">>) = <<>> /\ Tail(<<"disconnect">>) = <<>>
  OBVIOUS
<1>4. Tail(<<"connect", "disconnect">>) = <<"disconnect">>
      /\ Tail(<<"disconnect", "connect">>) = <<"connect">>
  OBVIOUS
<1>5. Tail(<<"disconnect", "connect", "disconnect">>) = <<"connect", "disconnect">>
  OBVIOUS
<1>6. Head(<<"connect">>) = "connect" /\ Head(<<"disconnect">>) = "disconnect"
      /\ Head(<<"connect", "disconnect">>) = "connect"
      /\ Head(<<"disconnect", "connect">>) = "disconnect"
      /\ Head(<<"disconnect", "connect", "disconnect">>) = "disconnect"
  OBVIOUS
<1>7. QED
  BY <1>1, <1>2, <1>3, <1>4, <1>5, <1>6

\* A client comes only when there is advertising, and the stack stops it.  With nothing
\* under way it does not matter how well the flags have followed until then.
LEMMA ClientFollows == RadioTyped /\ BleFollows /\ Radio!Client => BleFollows'
<1> SUFFICES ASSUME RadioTyped, BleFollows, Radio!Client PROVE BleFollows'
  OBVIOUS
<1>1. UNCHANGED <<callback, ble, sys, cli>> /\ (ctl.adv \/ ctl.link)
  BY DEF Radio!Client, Radio!ClientJoins, Radio!ClientLeaves
<1>2. ~Asleep /\ ~Asleep'
  BY <1>1 DEF BleFollows, Sleeping, Asleep, Radio!Server
<1>3. Sleeping'
  BY <1>2 DEF Sleeping
<1>4. SUFFICES ASSUME tidy' PROVE Calm' \/ Coming' \/ Going'
  BY <1>3 DEF BleFollows
<1>5. ~Radio!Marking /\ (Radio!Clean \/ tidy)
  BY <1>4, Zenon DEF Radio!Client, Radio!ClientJoins, Radio!ClientLeaves, Radio!Clean
<1>6. Alone /\ Alone'
  BY <1>1, <1>2, <1>5 DEF Alone, Radio!Marking, Radio!Server, Commanding, Waking, Starting
<1>7. owed = <<>> => callback = "idle"
  BY DEF RadioTyped, OwedTyped
<1>8. CASE Radio!ClientJoins
  <2>1. ctl.adv /\ ~ctl.link /\ owed' = Append(owed, "connect") /\ ~ctl'.adv /\ ctl'.link
    BY <1>8 DEF Radio!ClientJoins
  <2>2. CASE owed = <<>>
    BY <1>1, <1>6, <1>7, <2>1, <2>2, OwedSeqs DEF Coming
  <2>3. CASE owed # <<>>
    <3>1. Going
      BY <1>5, <2>1, <2>3 DEF BleFollows, Calm, Coming, Radio!Clean
    <3>2. QED
      BY <1>1, <1>6, <2>1, <3>1, OwedSeqs DEF Going
  <2>4. QED
    BY <2>2, <2>3
<1>9. CASE Radio!ClientLeaves
  <2>1. ctl.link /\ owed' = Append(owed, "disconnect") /\ ctl' = [ctl EXCEPT !.link = FALSE]
        /\ ((owed = <<>> /\ ~ctl.adv) \/ tidy)
    BY <1>4, <1>9, Zenon DEF Radio!ClientLeaves, Radio!Clean
  <2>2. ~ctl.adv
    BY <2>1 DEF BleFollows, Calm, Coming, Going
  <2>3. ~ctl'.link /\ ~ctl'.adv
    BY <2>1, <2>2 DEF RadioTyped, CtlTyped, Ctl
  <2>4. CASE owed = <<>>
    BY <1>1, <1>6, <1>7, <2>1, <2>3, <2>4, OwedSeqs DEF Going
  <2>5. CASE Coming
    BY <1>1, <1>6, <2>1, <2>3, <2>5, OwedSeqs DEF Coming
  <2>6. CASE Going
    BY <1>1, <1>6, <2>1, <2>2, <2>3, <2>6, OwedSeqs DEF Going
  <2>7. QED
    BY <2>1, <2>4, <2>5, <2>6 DEF BleFollows, Calm
<1>10. QED
  BY <1>8, <1>9 DEF Radio!Client

\* Callbacks are owed only when Bluetooth runs.
LEMMA CallbackAwake ==
  ASSUME RadioTyped, BleFollows, Radio!OnConnect \/ Radio!OnDisconnect PROVE Sleeping'
<1>1. owed # <<>> /\ UNCHANGED <<sys, cli>>
  BY DEF Radio!OnConnect, Radio!OnDisconnect, RadioTyped, OwedTyped
<1>2. QED
  BY <1>1 DEF BleFollows, Sleeping, Asleep, Radio!Server

\* The connect callback: the flag of the link, then that of the advertising.
LEMMA ConnectFollows == RadioTyped /\ BleFollows /\ Radio!OnConnect => BleFollows'
<1> SUFFICES ASSUME RadioTyped, BleFollows, Radio!OnConnect, tidy' PROVE BleFollows'
  BY CallbackAwake DEF BleFollows
<1>1. Sleeping'
  BY CallbackAwake
<1>2. UNCHANGED <<ctl, sys, cli, tidy>> /\ tidy
  BY DEF Radio!OnConnect
<1>3. Coming
  BY <1>2, OwedSeqs DEF Radio!OnConnect, BleFollows, Calm, Coming, Going
<1>4. ble.conn \in BOOLEAN /\ ble.adv \in BOOLEAN /\ ble \in BleFlags
  BY DEF RadioTyped, BleTyped, BleFlags
<1>5. CASE callback = "idle"
  <2>1. ble' = [ble EXCEPT !.conn = TRUE] /\ callback' = "connected" /\ owed' = owed
    BY <1>5 DEF Radio!OnConnect
  <2>2. ble'.conn
    BY <1>4, <2>1 DEF BleFlags
  <2>3. QED
    BY <1>1, <1>2, <1>3, <2>1, <2>2
    DEF BleFollows, Coming, Alone, Asleep, Radio!Server, Waking, Starting, Commanding
<1>6. CASE callback = "connected"
  <2>1. ble' = [ble EXCEPT !.adv = FALSE] /\ callback' = "silent" /\ owed' = owed
    BY <1>6 DEF Radio!OnConnect
  <2>2. ble'.conn /\ ~ble'.adv
    BY <1>3, <1>4, <1>6, <2>1 DEF Coming, BleFlags
  <2>3. QED
    BY <1>1, <1>2, <1>3, <2>1, <2>2
    DEF BleFollows, Coming, Alone, Asleep, Radio!Server, Waking, Starting, Commanding
<1>7. CASE callback = "silent"
  <2>1. ble' = [ble EXCEPT !.hello = TRUE] /\ callback' = "idle" /\ owed' = Tail(owed)
    BY <1>7 DEF Radio!OnConnect, Radio!CallbackOver
  <2>2. ble'.conn /\ ~ble'.adv
    BY <1>3, <1>4, <1>7, <2>1 DEF Coming, BleFlags
  <2>3. CASE owed = <<"connect">>
    BY <1>1, <1>2, <1>3, <2>1, <2>2, <2>3, OwedSeqs
    DEF BleFollows, Coming, Calm, Alone, Asleep, Radio!Server, Waking, Starting, Commanding
  <2>4. CASE owed # <<"connect">>
    BY <1>1, <1>2, <1>3, <2>1, <2>2, <2>4, OwedSeqs
    DEF BleFollows, Coming, Going, Alone, Asleep, Radio!Server, Waking, Starting, Commanding
  <2>5. QED
    BY <2>3, <2>4
<1>8. QED
  BY <1>5, <1>6, <1>7 DEF Radio!OnConnect

\* The disconnect callback: the flag of the link, the advertising, and its flag.
LEMMA DisconnectFollows == RadioTyped /\ BleFollows /\ Radio!OnDisconnect => BleFollows'
<1> SUFFICES ASSUME RadioTyped, BleFollows, Radio!OnDisconnect, tidy' PROVE BleFollows'
  BY CallbackAwake DEF BleFollows
<1>1. Sleeping'
  BY CallbackAwake
<1>2. UNCHANGED <<sys, cli, tidy>> /\ tidy
  BY DEF Radio!OnDisconnect
<1>3. Going
  BY <1>2, OwedSeqs DEF Radio!OnDisconnect, BleFollows, Calm, Coming, Going
<1>4. ble.conn \in BOOLEAN /\ ble.adv \in BOOLEAN /\ ble \in BleFlags /\ ctl \in Ctl
  BY DEF RadioTyped, BleTyped, BleFlags, CtlTyped
<1>5. CASE callback = "idle"
  <2>1. ble' = [ble EXCEPT !.conn = FALSE] /\ callback' = "left" /\ owed' = owed /\ ctl' = ctl
    BY <1>5 DEF Radio!OnDisconnect
  <2>2. ~ble'.conn
    BY <1>3, <1>4, <1>5, <2>1 DEF Going, BleFlags
  <2>3. QED
    BY <1>1, <1>2, <1>3, <1>5, <2>1, <2>2
    DEF BleFollows, Going, Alone, Asleep, Radio!Server, Waking, Starting, Commanding
<1>6. CASE callback = "left"
  <2>1. ctl' = [ctl EXCEPT !.adv = TRUE] /\ callback' = "restarted" /\ owed' = owed /\ ble' = ble
    BY <1>6 DEF Radio!OnDisconnect
  <2>2. ctl'.adv /\ (ctl'.link <=> ctl.link)
    BY <1>4, <2>1 DEF Ctl
  <2>3. QED
    BY <1>1, <1>2, <1>3, <1>6, <2>1, <2>2
    DEF BleFollows, Going, Alone, Asleep, Radio!Server, Waking, Starting, Commanding
<1>7. CASE callback = "restarted"
  <2>1. ble' = [ble EXCEPT !.adv = TRUE] /\ callback' = "idle" /\ owed' = Tail(owed) /\ ctl' = ctl
    BY <1>7 DEF Radio!OnDisconnect, Radio!CallbackOver
  <2>2. ~ble'.conn /\ ble'.adv
    BY <1>3, <1>4, <1>7, <2>1 DEF Going, BleFlags
  <2>3. CASE owed = <<"disconnect">>
    BY <1>1, <1>2, <1>3, <1>7, <2>1, <2>2, <2>3, OwedSeqs
    DEF BleFollows, Going, Calm, Alone, Asleep, Radio!Server, Waking, Starting, Commanding
  <2>4. CASE owed # <<"disconnect">>
    BY <1>1, <1>2, <1>3, <1>7, <2>1, <2>2, <2>4, OwedSeqs
    DEF BleFollows, Coming, Going, Alone, Asleep, Radio!Server, Waking, Starting, Commanding
  <2>5. QED
    BY <2>3, <2>4
<1>8. QED
  BY <1>5, <1>6, <1>7 DEF Radio!OnDisconnect

\* SYSTEM starts the advertising and sets its flag; a command that meets this is noted.
LEMMA SystemFollows == RadioTyped /\ BleFollows /\ Radio!System => BleFollows'
<1> SUFFICES ASSUME RadioTyped, BleFollows, Radio!System PROVE BleFollows'
  OBVIOUS
<1> USE DEF Radio!System, Radio!SysStart, Radio!SysAdvertises, Radio!SysMarks, Radio!SysHotspot,
  Radio!SysPoll, Radio!SysNotify, Radio!SysStatus, Radio!SysShows, Radio!SysGoto, Radio!bleVars
<1>1. UNCHANGED <<owed, callback, tidy, cli>> /\ sys \in Sys
  BY Zenon DEF RadioTyped, SysTyped
<1>2. CASE Asleep /\ sys'.at = "server"
  <2>1. ctl' = ctl /\ ble' = ble /\ sys'.ble = sys.ble /\ ~sys.ble /\ ~Asleep'
    BY <1>1, <1>2 DEF Asleep, Sys, Radio!Server
  <2>2. ~tidy \/ Calm
    BY <1>2 DEF BleFollows, Coming, Going, Alone
  <2>3. ~Starting /\ ~Commanding /\ ~Starting' /\ ~Commanding' /\ ~ctl.adv /\ ~ctl.link
    BY <1>1, <1>2 DEF BleFollows, Sleeping, Asleep, Radio!Server, Starting, Commanding
  <2>4. QED
    BY <1>1, <2>1, <2>2, <2>3 DEF BleFollows, Sleeping, Calm, Waking
<1>3. CASE Radio!SysAdvertises
  <2>1. ctl' = [ctl EXCEPT !.adv = TRUE] /\ ble' = ble /\ sys'.ble = sys.ble /\ sys'.at = "marking"
        /\ Waking /\ ~Asleep /\ ~Asleep'
    BY <1>1, <1>3 DEF Asleep, Waking, Sys, Radio!Server
  <2>2. ctl'.adv /\ (ctl'.link <=> ctl.link)
    BY <2>1 DEF RadioTyped, CtlTyped, Ctl
  <2>3. ~tidy \/ Calm
    BY <2>1 DEF BleFollows, Coming, Going, Alone
  <2>4. QED
    BY <1>1, <2>1, <2>2, <2>3 DEF BleFollows, Sleeping, Calm, Waking, Starting, Commanding
<1>4. CASE Radio!SysMarks
  <2>1. ctl' = ctl /\ ble' = [ble EXCEPT !.adv = TRUE] /\ sys'.ble /\ sys'.at = "start"
        /\ Starting /\ ~Asleep'
    BY <1>1, <1>4 DEF Sys, Asleep, Starting
  <2>2. ble'.adv /\ (ble'.conn <=> ble.conn)
    BY <2>1 DEF RadioTyped, BleTyped, BleFlags
  <2>3. ~tidy \/ Calm
    BY <2>1 DEF BleFollows, Coming, Going, Alone
  <2>4. QED
    BY <1>1, <2>1, <2>2, <2>3 DEF BleFollows, Sleeping, Calm, Waking, Starting, Commanding
<1>5. CASE ~(Asleep /\ sys'.at = "server") /\ ~Radio!SysAdvertises /\ ~Radio!SysMarks
  <2>1. /\ ctl' = ctl /\ (Asleep' <=> Asleep) /\ (Waking' <=> Waking) /\ (Starting' <=> Starting)
        /\ Waking \/ Starting => (sys'.ble <=> sys.ble)
    BY <1>1, <1>5 DEF Asleep, Radio!Server, Waking, Starting, Sys
  <2>2. (ble'.adv <=> ble.adv) /\ (ble'.conn <=> ble.conn)
    BY <1>5 DEF RadioTyped, BleTyped, BleFlags
  <2>3. QED
    BY <1>1, <2>1, <2>2, BleKept DEF Commanding
<1>6. QED
  BY <1>2, <1>3, <1>4, <1>5

\* A command to the Bluetooth radio sets the controller, then the flag; unless it met
\* something, nothing is due meanwhile.
LEMMA CommandFollows == RadioTyped /\ BleFollows /\ (Radio!BleCommand \/ Radio!BleActs) => BleFollows'
<1>1. ASSUME RadioTyped, BleFollows, Radio!BleCommand \/ Radio!BleActs PROVE Sleeping'
  BY <1>1 DEF Radio!BleCommand, Radio!BleActs, BleFollows, Sleeping, Asleep, Radio!Server,
    Commanding
<1> SUFFICES ASSUME RadioTyped, BleFollows, Radio!BleCommand \/ Radio!BleActs,
  tidy' PROVE BleFollows'
  BY <1>1 DEF BleFollows
<1>2. UNCHANGED <<owed, callback, sys>> /\ tidy
  BY Zenon DEF Radio!BleCommand, Radio!BleActs
<1>3. ctl \in Ctl /\ ble \in BleFlags
  BY DEF RadioTyped, CtlTyped, BleTyped
<1>4. CASE Radio!BleCommand
  <2>1. owed = <<>> /\ ~Waking /\ ~Starting /\ ~Asleep /\ ~Commanding /\ UNCHANGED <<ctl, ble>>
    BY <1>4, Zenon DEF Radio!BleCommand, Radio!Clean, Radio!Marking, Radio!Server, Waking, Starting,
      Asleep, Commanding
  <2>2. Calm
    BY <1>2, <2>1 DEF BleFollows, Coming, Going
  <2>3. \/ ~ble.adv /\ ~ble.conn /\ cli' = "start"
        \/ ble.adv /\ cli' = "stop"
    BY <1>4 DEF Radio!BleCommand
  <2>4. QED
    BY <1>1, <1>2, <2>1, <2>2, <2>3 DEF BleFollows, Calm, Waking, Starting, Commanding
<1>5. CASE Radio!BleActs
  <2>1. Commanding
    BY <1>5 DEF Radio!BleActs, Commanding
  <2>2. Calm /\ ~Starting /\ ~Waking
    BY <1>2, <2>1 DEF BleFollows, Calm, Coming, Going, Alone
  <2>3. CASE cli = "start"
    <3>1. ctl' = [ctl EXCEPT !.adv = TRUE] /\ cli' = "started" /\ ble' = ble
      BY <1>5, <2>3 DEF Radio!BleActs
    <3>2. ctl'.adv /\ (ctl'.link <=> ctl.link)
      BY <1>3, <3>1 DEF Ctl
    <3>3. QED
      BY <1>1, <1>2, <2>1, <2>2, <2>3, <3>1, <3>2 DEF BleFollows, Calm, Waking, Starting, Commanding
  <2>4. CASE cli = "stop"
    <3>1. ctl' = [ctl EXCEPT !.adv = FALSE] /\ cli' = "stopped" /\ ble' = ble
      BY <1>5, <2>4 DEF Radio!BleActs
    <3>2. ~ctl'.adv /\ (ctl'.link <=> ctl.link)
      BY <1>3, <3>1 DEF Ctl
    <3>3. QED
      BY <1>1, <1>2, <2>1, <2>2, <2>4, <3>1, <3>2 DEF BleFollows, Calm, Waking, Starting, Commanding
  <2>5. CASE cli = "started"
    <3>1. ble' = [ble EXCEPT !.adv = TRUE] /\ cli' = "idle" /\ ctl' = ctl
      BY <1>5, <2>5 DEF Radio!BleActs
    <3>2. ble'.adv /\ (ble'.conn <=> ble.conn)
      BY <1>3, <3>1 DEF BleFlags
    <3>3. QED
      BY <1>1, <1>2, <2>1, <2>2, <2>5, <3>1, <3>2 DEF BleFollows, Calm, Waking, Starting, Commanding
  <2>6. CASE cli = "stopped"
    <3>1. ble' = [ble EXCEPT !.adv = FALSE] /\ cli' = "idle" /\ ctl' = ctl
      BY <1>5, <2>6 DEF Radio!BleActs
    <3>2. ~ble'.adv /\ (ble'.conn <=> ble.conn)
      BY <1>3, <3>1 DEF BleFlags
    <3>3. QED
      BY <1>1, <1>2, <2>1, <2>2, <2>6, <3>1, <3>2 DEF BleFollows, Calm, Waking, Starting, Commanding
  <2>7. QED
    BY <2>1, <2>3, <2>4, <2>5, <2>6 DEF Commanding
<1>6. QED
  BY <1>4, <1>5

\* Wi-Fi has nothing to do with Bluetooth.
LEMMA OthersFollow ==
  ASSUME RadioTyped, BleFollows,
         Radio!Driver \/ Radio!WifiCommand \/ Radio!WifiActs \/ UNCHANGED Radio!vars
  PROVE  BleFollows'
<1>1. UNCHANGED <<ctl, owed, callback, ble, tidy, sys>>
  BY Zenon DEF Radio!Driver, Radio!StationUp, Radio!StationFails, Radio!StationLost,
    Radio!StationRetries, Radio!Station, Radio!Phone, Radio!WifiCommand, Radio!WifiActs,
    Radio!vars, Radio!bleVars
<1>2. (Commanding' <=> Commanding) /\ (cli' = cli \/ ~Commanding)
  BY Zenon DEF Radio!Driver, Radio!StationUp, Radio!StationFails, Radio!StationLost,
    Radio!StationRetries, Radio!Station, Radio!Phone, Radio!WifiCommand, Radio!WifiActs,
    Radio!vars, Commanding
<1>3. QED
  BY <1>1, <1>2, BleKept DEF Asleep, Radio!Server, Waking, Starting

LEMMA BleStep == RadioTyped /\ BleFollows /\ [Radio!Next]_(Radio!vars) => BleFollows'
BY ClientFollows, ConnectFollows, DisconnectFollows, SystemFollows, CommandFollows, OthersFollow
DEF Radio!Next, Radio!Callbacks, Radio!Command, Radio!Acts

\* What SYSTEM reads of the station counts until the radio changes.
LEMMA WifiStep == RadioTyped /\ WifiFollows /\ [Radio!Next]_(Radio!vars) => WifiFollows'
<1> SUFFICES ASSUME RadioTyped, WifiFollows, [Radio!Next]_(Radio!vars) PROVE WifiFollows'
  OBVIOUS
<1>1. ASSUME polled' = "no", wifi'.phone => wifi'.mode # "off" PROVE WifiFollows'
  BY <1>1 DEF WifiFollows
<1>2. ASSUME UNCHANGED <<wifi, flag, polled, sys>> PROVE WifiFollows'
  BY <1>2 DEF WifiFollows
<1>3. CASE Radio!Client \/ Radio!Callbacks \/ Radio!BleCommand \/ Radio!BleActs \/ UNCHANGED Radio!vars
  <2>1. UNCHANGED <<wifi, flag, polled, sys>>
    BY <1>3, Zenon DEF Radio!Client, Radio!ClientJoins, Radio!ClientLeaves, Radio!Callbacks,
      Radio!OnConnect, Radio!OnDisconnect, Radio!BleCommand, Radio!BleActs, Radio!vars,
      Radio!wifiVars
  <2>2. QED
    BY <1>2, <2>1
<1>4. sys \in Sys /\ wifi \in Wifi /\ flag \in WifiFlags
  BY DEF RadioTyped, SysTyped, WifiTyped, FlagTyped
<1>5. ASSUME NEW w, Radio!Hotspot(w, flag, "no") PROVE WifiFollows'
  <2>1. polled' = "no" /\ wifi'.mode # "off"
    BY <1>5 DEF Radio!Hotspot, Radio!Join
  <2>2. QED
    BY <1>1, <2>1
<1>6. CASE \E there \in BOOLEAN : Radio!Phone(there)
  <2>1. /\ wifi.mode # "off" /\ UNCHANGED <<flag, polled, sys>>
        /\ wifi'.mode = wifi.mode /\ wifi'.sta = wifi.sta
    BY <1>4, <1>6 DEF Radio!Phone, Radio!Join, Wifi
  <2>2. QED
    BY <2>1 DEF WifiFollows
<1>7. CASE Radio!Driver \/ Radio!WifiCommand \/ Radio!WifiActs
  <2>1. CASE Radio!Driver
    <3>1. CASE \E to \in {"down", "joining", "up"} : Radio!Station(to)
      <4>1. polled' = "no" /\ wifi'.phone = wifi.phone /\ wifi'.mode = wifi.mode
        BY <1>4, <3>1 DEF Radio!Station, Radio!Join, Wifi
      <4>2. QED
        BY <1>1, <4>1 DEF WifiFollows
    <3>2. QED
      BY <1>6, <2>1, <3>1 DEF Radio!Driver, Radio!StationUp, Radio!StationFails, Radio!StationLost,
        Radio!StationRetries
  <2>2. CASE Radio!WifiCommand
    <3>1. polled' = "no" /\ wifi'.phone = wifi.phone /\ wifi'.mode = wifi.mode
      BY <1>4, <2>2 DEF Radio!WifiCommand, Radio!Join, Wifi
    <3>2. QED
      BY <1>1, <3>1 DEF WifiFollows
  <2>3. CASE Radio!WifiActs
    <3>1. CASE Radio!Hotspot([wifi EXCEPT !.sta = "down"], flag, "no")
      BY <1>5, <3>1
    <3>2. CASE ~Radio!Hotspot([wifi EXCEPT !.sta = "down"], flag, "no")
      <4>1. polled' = "no" /\ wifi'.phone = wifi.phone /\ (wifi'.mode = wifi.mode \/ wifi'.mode = "apsta")
        BY <1>4, <2>3, <3>2 DEF Radio!WifiActs, Radio!Join, Wifi
      <4>2. QED
        BY <1>1, <4>1 DEF WifiFollows
    <3>3. QED
      BY <3>1, <3>2
  <2>4. QED
    BY <1>7, <2>1, <2>2, <2>3
<1>8. CASE Radio!SysStart
  <2>1. CASE polled' = "no"
    <3>1. wifi'.phone => wifi'.mode # "off"
      BY <1>8 DEF Radio!SysStart, Radio!Join, Radio!wifiVars, WifiFollows
    <3>2. QED
      BY <1>1, <2>1, <3>1
  <2>2. CASE polled' # "no"
    <3>1. UNCHANGED <<wifi, flag, polled>> /\ sys.at = "start" /\ sys'.at \in {"server", "poll"}
      BY <1>4, <1>8, <2>2 DEF Radio!SysStart, Radio!Join, Radio!SysGoto, Radio!wifiVars, Sys
    <3>2. QED
      BY <3>1 DEF WifiFollows
  <2>3. QED
    BY <2>1, <2>2
<1>9. CASE Radio!SysAdvertises \/ Radio!SysMarks
  <2>1. /\ UNCHANGED <<wifi, flag, polled>> /\ sys.at \in {"server", "marking"}
        /\ sys'.at \in {"marking", "start"}
    BY <1>4, <1>9 DEF Radio!SysAdvertises, Radio!SysMarks, Radio!SysGoto, Radio!wifiVars, Sys
  <2>2. QED
    BY <2>1 DEF WifiFollows
<1>10. CASE Radio!SysHotspot
  BY <1>10, <1>5 DEF Radio!SysHotspot
<1>11. CASE Radio!SysPoll
  <2>1. /\ polled' = "polling" /\ sys'.at \in {"notify", "status"} /\ wifi' = wifi
        /\ flag'.ap <=> wifi.mode # "off"
    BY <1>4, <1>11 DEF Radio!SysPoll, Radio!Join, Radio!SysGoto, Sys, WifiFlags
  <2>2. QED
    BY <2>1 DEF WifiFollows
<1>12. CASE Radio!SysNotify
  <2>1. UNCHANGED <<wifi, flag, polled>> /\ sys.at = "notify" /\ sys'.at = "status"
    BY <1>4, <1>12 DEF Radio!SysNotify, Radio!SysGoto, Radio!wifiVars, Sys
  <2>2. QED
    BY <2>1 DEF WifiFollows
<1>13. CASE Radio!SysStatus
  <2>1. /\ UNCHANGED <<wifi, flag, polled>> /\ sys.at = "status"
        /\ sys'.at = IF wifi.sta = "up" THEN "up" ELSE "down"
    BY <1>4, <1>13 DEF Radio!SysStatus, Radio!SysGoto, Radio!wifiVars, Sys
  <2>2. QED
    BY <2>1 DEF WifiFollows
<1>14. CASE Radio!SysShows
  <2>1. sys'.at = "start" /\ sys.at \in {"up", "down"} /\ wifi' = wifi
        /\ polled' = IF polled = "polling" THEN "yes" ELSE polled
    BY <1>4, <1>14 DEF Radio!SysShows, Radio!Join, Radio!SysGoto, Sys
  <2>2. (flag'.conn <=> sys.at = "up") /\ (flag'.ap <=> flag.ap)
    BY <1>4, <1>14, <2>1 DEF Radio!SysShows, Radio!Join, WifiFlags
  <2>3. QED
    BY <2>1, <2>2 DEF WifiFollows
<1>15. QED
  BY <1>3, <1>7, <1>8, <1>9, <1>10, <1>11, <1>12, <1>13, <1>14
  DEF Radio!Next, Radio!System, Radio!Command, Radio!Acts

\* The two pills of the demonstration program's dashboard, however callbacks, polls, the
\* console and the start of the radios fall and however many callbacks are owed.  After a
\* whole poll Wi-Fi is green exactly for a joined router or a phone on the hotspot.
\* Bluetooth is right whenever no callback is due, but from a command that met a callback
\* to the next client that comes or goes alone (main.cpp:188-204, 363-378, 655-690).
THEOREM PillsStayTrue == RadioSpec => []RadioSound
<1>1. RadioInv => RadioSound
  <2> SUFFICES ASSUME RadioInv PROVE RadioSound
    OBVIOUS
  <2>1. Radio!TypeOK
    BY RadioParts DEF RadioInv
  <2>2. tidy /\ owed = <<>> /\ ~Radio!Marking => (ble.conn <=> ctl.link) /\ (ble.adv <=> ctl.adv)
    BY DEF RadioInv, BleFollows, Calm, Coming, Going, Radio!Marking, Radio!Server, Starting,
      Commanding
  <2>3. polled = "yes" =>
          /\ flag.conn <=> wifi.sta = "up"
          /\ (flag.ap /\ wifi.phone) <=> wifi.phone
    BY DEF RadioInv, WifiFollows, RadioTyped, WifiTyped, Wifi
  <2>4. QED
    BY <2>1, <2>2, <2>3 DEF RadioSound, Radio!PillsTrue, Radio!BlePill, Radio!WifiPill
<1>2. RadioInv /\ [Radio!Next]_(Radio!vars) => RadioInv'
  BY RadioStepTyped, BleStep, WifiStep DEF RadioInv
<1>3. QED
  BY <1>1, <1>2, RadioInit, PTL DEF RadioSpec, Radio!FairSpec, Radio!Spec

=============================================================================
