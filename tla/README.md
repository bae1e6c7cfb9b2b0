# Nexos-RT: TLA+ models, checks and proofs

Nexos-RT is firmware for an ESP32-S3 device with a round display: a small kernel layer
(`components/microkernel`) that keeps its own accounting of tasks, priorities, locks, queues
and watchdogs on top of FreeRTOS, and services (display, Wi-Fi, BLE, update, console, storage)
built on it; a second build for Arduino (`src/main.cpp`) uses the kernel layer and drives radios
and display itself. This directory models the parts where the order of steps decides whether
the firmware is right, checks them with TLC and proves the central results with TLAPS.

In short, for the reader in a hurry:

| part | module | what holds | where the code and its documents differ |
|---|---|---|---|
| ready queues, tick | `ReadyQueue`, `Scheduler` | lists exact, sleepers in order, implements a FIFO per priority (`PriorityFifo`; all proved) | |
| registry, launch gate, boot | `TaskTable` | lists and counts exact, one owner per slot (proved) | a task may run before it is registered |
| mutex | `PiMutex` | implements a recursive lock (`RecursiveLock`, proved) | |
| watchdogs, health, crash record | `Watchdog` | one pass at a time, no marked stall lost (proved) | |
| message queue | `MsgQueue` | nothing lost or doubled, implements a bounded channel (`BoundedChannel`; proved) | |
| Wi-Fi service, automatic connection | `WifiService`, `Connectivity` | an address exactly while the link is up, once events are handled; only a joined network is saved (both proved); a link lost after a call that joined is joined again unless the driver refuses | a link lost after a scan or a late join is given up |
| display, LVGL, dashboard | `Screen`, `Dashboard` | buffers outlive their transfers unless a fill fails (proved), every flush is acknowledged, reports reach the lit glass as long as GUI gets the lock | the lock's guard does not keep a second task out; a fill that fails frees its buffer under its transfers |
| settings | `SettingsStore` | a clean save survives resets (proved) | |
| BLE service | `BleService` | status tells the truth when no command meets an event (proved), back on air after a client | |
| Arduino radios, Arduino screen | `DemoRadio`, `DemoScreen` | the pills tell what the radios do once all is handled (proved), a client that stays is sent its greeting, a frame settles on its theme | green is also a joined router |

## 1. Inventory

Sources are under `src/`; `mk/` stands for `components/microkernel`. Both cores share one
nested spinlock, `mk_port_enter_critical` (`mk/port`), except where an object has its own.
A *critical section* below is what lies between its entry and exit; everything else may
interleave, on two cores and by preemption.

| component | state | operations | hard part | correct when |
|---|---|---|---|---|
| Scheduler, `mk/core/mk_scheduler.c` | linked ready list per priority, bitmap, ready count, sleep list, current task, ticks | add, remove, pick, block, unblock, sleep, wake, tick | intrusive lists shared by ready and sleep queues; quantum rotation | each queue lists exactly its tasks, bitmap and count agree, FIFO order |
| Task registry, `mk/core/mk_task.c` | 16 slots with a lifecycle, task count | create, delete, self, suspend, resume | creation and deletion are several critical sections with FreeRTOS calls between | no slot with two owners, no lost reservation, accounting exact |
| Launch gate, `mk/core/mk_kernel.c` | kernel state, start event | init, start, wait for start | tasks created before and after start | boot tasks do not run before they are registered, and then all do |
| Boot supervisors, `src/kernel_manager.cpp`, `main/app_main.cpp` | list of created tasks | create, start, roll back | failure half way | rollback leaves nothing behind |
| Mutex, `mk/ipc/mk_mutex.c` | owner, nesting count, original priority | lock, try, timed lock, unlock | polling waiters, boosts applied outside the critical section | exclusion; no boost without a reason |
| Message queue, `mk/ipc/mk_queue.c` | ring buffer | send, receive, peek, send from interrupt | polling with timeouts, wrap-around | bounded FIFO, nothing lost or doubled |
| Event bus, `components/event_bus` | queue of 64 events, subscriber list | publish, subscribe, process | publishers wait at a full queue, then drop | nobody subscribes in the product |
| Semaphore, event group, pool, timer, `mk/ipc`, `mk/memory`, `mk/time` | counter; bit set; free list; armed flag | take/give; set/wait/clear; alloc/free; start/stop | polling, clear on exit | only the event group is used |
| Watchdogs, health, crash record, `mk/core/mk_diagnostics.c`, `mk_health.c`, `mk_crash.c` | 8 watchdog slots, pass flag, health text, score and mode, record in RTC memory | register, feed, deregister, tick, recover, save | a pass in four pieces called from several tasks; unsigned ages | stalls marked, shown and recorded |
| Wi-Fi, `components/connectivity/wifi_service.cpp` | status, wish to be connected, event bits | connect, scan, event handler | events of an earlier attempt; status written by several tasks | the address follows the link; CONNECTED is not left behind; only what was joined is saved |
| BLE, `components/connectivity/ble_service.cpp` | status flags | sync, GAP callback, start, stop | advertising ends by itself with a connection | flags follow the controller; the device stays findable |
| Update, `components/ota` | in-progress flag, job | start, download, finish | check then act; a job that ends itself | one update at a time |
| Storage, `components/storage` | settings in RAM, NVS keys | load, save, factory reset | keys written one by one, two tasks, resets | after a clean save nothing is lost |
| Console, `components/command` | line buffer | read, dispatch | its commands run beside callbacks and other tasks | see the services it acts on |
| GUI, `components/gui`, `lvgl_adapter`, `display` | widgets, LVGL lock, pending flushes, panel memory | update, refresh, flush, test pattern, done callback | callback from the SPI transfer, lock given up after 200 ms | buffers kept, flushes acknowledged, reports shown |
| Time, reports, HAL, board | clock source; none | sync; read | | |
| Arduino program, `src/main.cpp` | atomic flags, theme, its copy in flash | three loops, BLE callbacks, commands | flags set apart from the calls they stand for | pills, greeting and theme right |
| Simulator, tools, tests | | | outside the firmware | |

How they interact: the services call the registry (spawn and end jobs), the watchdogs (by task
name), the event bus (over the message queue) and, through the display, the LVGL lock. The
mutex calls into the scheduler (it reorders the owner) and the port (it sets FreeRTOS
priorities). The tick timer calls the scheduler from its own task. The system task, the
console and `KernelManager` all run the diagnostics pass, which calls the health score and the
crash recorder. The system task copies the status of Wi-Fi, BLE and time into the dashboard.
The console and `WIFI_CONN` both connect and both save settings.

The hazards this leads to, each at its line with the properties aimed at it, are listed in
`PROJECT.json`.

## 2. How the project is organised

Modules were written from the inside out, and each plan entry below is done:

1. the kernel: `ReadyQueue` and its client `Scheduler`; `TaskTable` and `PiMutex` over
   `ReadyQueue`; `Watchdog`; `MsgQueue`;
2. the services: `WifiService`, composed with its callers in `Connectivity`; `BleService`;
   `SettingsStore`;
3. the display: `Dashboard` (what a report looks like) extended by `Screen` (how it gets there);
4. the Arduino build: `DemoRadio` and `DemoScreen`.

Three of them are refinements: `Scheduler` implements `PriorityFifo`, `PiMutex` implements
`RecursiveLock`, `MsgQueue` implements `BoundedChannel`, each with an INSTANCE under a
refinement mapping; `BleService`, `SettingsStore` and `DemoScreen` are small and share no state,
so `MCParts` checks the three in one run, one part per behaviour.
No module declares a RECURSIVE operator: lists are followed by position functions and
quantifiers, loops by recursive functions.

What would come next: `mk_task_suspend` and `mk_task_resume`, should a caller appear.

## 3. The modules

`ReadyQueue` — the functions of `mk_scheduler.c` on one record `sch`: `head`, `tail` per
priority, `next`, `prev`, `state`, `prio`, ... per control block, `bitmap`, `count`, `current`,
`sleep` as in the source. Each C function is an operator from record to record (`AddReady`,
`RemoveReady`, `SleepTask`, `Tick`, ...), so that the modules below can call it inside their
own critical sections. `Queued(sch, S)` says that the lists, bitmap and count describe exactly
the set S.

`Scheduler` — those functions behind a client that keeps to their contract, one action per
function since each runs in one critical section. `PriorityFifo` is what it promises: a
sequence per priority and an ordered list of sleepers, no links, no bitmap.
`ImplementsFifo` is the refinement; the mapping reads each list from its head.

`TaskTable` — `mk_task.c`, `mk_kernel.c` and the two boot sequences. A *context* is the boot
thread or a port task; `op[c].pc` is where it is inside a call. `mk_task_create_ext` is
`CreateReserve` (lines 49-80), `CreatePort` or `CreatePortFails` (82-85, unlocked), then
`CreatePublish` or `CreateUndo`; `mk_task_delete` is `DeleteLock` or `DeleteRefused`,
`DeletePort`, `DeleteReclaim`, and it ends at `DeletePort` for a task that deletes itself,
because the FreeRTOS call does not return: its slot stays DELETING for good, as in the code.
The wrapper `mk_port_task_wrapper` is `PassGate`, `MarkRunning`, `MarkCurrent`, the body, and
`JobEnds`/`WrapperDelete`. FreeRTOS hands out handles of dead tasks again, so a handle of a
finished job may reappear in any later creation. A port task function that returns restarts
the chip (`Reset`, external).

`PiMutex` — `mk_mutex.c` over `ReadyQueue`. A call is `LockCall` (it reads `s_current_task`
before the lock), one of `LockFree`, `LockAgain`, `LockTry`, `LockContend`, then any number of
looks `PollFree`/`PollContend`, each with its `ApplyBoost` after the critical section, and
`TimedOut` or `PollAgain`. `held` records what the results have told each task; nothing in the
code reads it. `RecursiveLock` is the promise: exclusion, and as many unlocks as locks.

`Watchdog` — the slots `wd`, the flag `running`, and for each scanner its place in
`mk_diagnostics_tick`: `Enter`/`Refused`, `Stamp` (the time, unlocked), `CheckHeap`,
`ScanDogs` (locked), then `Fault` and `Save` per notice, `Recover`, `Close`. Instants are
ages, so the state space is finite without bounding time. A feed between `Stamp` and
`ScanDogs` has an age smaller than the stamp's: the unsigned difference wraps and is beyond
every timeout (`Expired`).

`MsgQueue` — the ring `buf`, `head`, `tail`, `count`; one action per look, `Send`, `Receive`,
`Peek`, `Refused`, then `TimedOut` or `LookAgain`; `SendIsr` from an interrupt. The clients
number their items and send the same one again after a timeout, so that a loss, a duplicate
or a reordering shows in `log`. `BoundedChannel` is the promise.

`WifiService` — `wifi_service.cpp` with the driver it talks to. The driver (external) has a link
that is down, joining or up, a configured network, and events posted in order; `ConnectAnswers`
is what `esp_wifi_connect` may do, a refusal included: `connect` then fails, while the handler
ignores it and leaves CONNECTING (`Noted` remembers it). `connect` is `ConnectBegin`, `ConnectMark`, `ConnectClear`,
`ConnectRadio`, `ConnectWait`, `ConnectStore`; the pieces end where the task can block or meet
a write of the handler. `ConnectWait` takes whatever bits are set, because the wait may end by
its timeout at any moment. The handler is `OnStart`, `OnDisconnected` with `OnRetry`, `OnGotIp`,
`OnAccessPoint`, `OnScanDone`; the half of `OnDisconnected` before `publish` is a step of its own.
`Connectivity` adds the callers: `WIFI_CONN` (`AutoTask`), which joins the saved network once, and the
console (`Console`, `ConsoleStep`).

`BleService` — `ble_service.cpp` with the controller: advertising, links, and the events it owes
the host. `OnSync`, `OnConnected`, `OnDisconnected`, `OnAdvOver` are the cases of the GAP
callback; `start_advertising` is `HostStart`/`HostFlag` from the callback and `BleStart`/`BleMark`
from the console, since the flag is set after the call.

`SettingsStore` — `settings_store.cpp` over `nvs_store.cpp`: RAM, flash, and per task the key it is
at. A save is `SaveRead` and `SaveWrite` per key, in the order of the code; a write may fail and
the save goes on. `WIFI_CONN` looks for a saved name before it connects (`AutoTries`) and saves what
it joined after (`AutoConnected`). `Reset` comes between any two steps and reloads.

`Screen` with `Dashboard` — `Dashboard` maps what the services report to the colours of the
widgets, as `update` does, with its leftover dot. The start of the panel is `PanelSetup`, two fills
(`BootFill`), `DisplayOn` and `LvglInit`; a fill or a DISPON that fails is logged and the start goes on,
with strips possibly still on their way or the panel dark (`lit`). `Screen` has the panel memory `gram`, one
transfer under way `dma`, LVGL's lent buffer `flushing` and the driver's count
`pending`, the lock's owner, and the places of GUI, SYSTEM and the console's `display_test`.
`Render`/`Draw` are `lv_refr_now` or `lv_timer_handler` with `flush_cb`; `TransferDone` is the
interrupt, which runs the same callback for fills and flushes; `TestFill` (one strip), `TestDrain`,
`TestRefresh` are the test pattern. Any strip, drain or flush may fail, with the transfers before it
ended or not, as esp_lcd may fail before or after it has waited. Where the code takes the lock with a guard and does
not ask whether it has it, there are two actions, `Lock` and `GoOn`.

`DemoRadio` — the radios of `src/main.cpp`: the BLE callbacks (`OnConnect`, `OnDisconnect`, each in
three steps, one per flag or call), SYSTEM's start, poll and notification (`SysStart` ...
`SysShows`; the server exists before `SysAdvertises`, and the console may command from then on), the
commands in two or more steps, and a phone that comes to the hotspot and goes. `DemoScreen` — its GUI task: the look at the
theme, the clearing, the three parts of a frame that each read the theme, the splash and colour
test, and the theme's copy in flash.

Some modules carry a *history* variable (`held`, `log`, `orderly`, `outcome`, `tidy`, `clean`,
`faults`, `bare`, `polled`, `greeted`) that no code reads; a property uses it to say under which
circumstances it claims anything.

Each `MC*` module only names model values and small sets, `MCParts` puts three parts side by
side and `MCDemoRadio` instantiates the radios under their own names; a definition called a mutant in its comment is a faulty variant used to see that the
properties can fail.

## 4. The runs

Every run that passes is a complete search. Deadlock is checked in each run but those of
`Screen`, where a failed start of the panel stops everything.

| run | module, cfg | size | shows |
|---|---|---|---|
| `scheduler` | `MCScheduler` | 3 tasks, 2 levels, quantum 2, 2 ticks | `TypeOK`, `ReadyQueuesExact`, `SleepersInOrder`, and the refinement `ImplementsFifo` |
| `registry` | `MCTaskTable` | 5 slots, 4 handles, 3 boot services, jobs spawned by services | `TypeOK`, `ReadyListsExact`, `ReservationsOwned`, `LiveOwned`, `RollbackClean`, `CurrentOccupied`, `SlotLifecycle` with jobs, failures, rollback, aborts |
| `registry_live` | `MCTaskTableLive` | 3 slots, 3 handles, a service and a job, services delete others | `TasksStart` |
| `launch_gate` | `MCTaskTableGate` | 3 slots, 3 handles, a service and a job | violated: `NoRunBeforeRegister` |
| `pi_mutex` | `MCPiMutex` | GUI 7, CLI 6, SYSTEM 3, one mutex, nesting 2 | `TypeOK`, `OwnerExact`, `BoostHasReason`, `ImplementsLock` |
| `watchdog` | `MCWatchdog` | 2 slots, 3 names, 2 scanners | `TypeOK`, `OnePass`, `ModeMatchesScore`, `StallLeavesRecord`, `OverdueIsMarked`, `StallIsShown` |
| `msg_queue` | `MCMsgQueue` | 2 tasks, 1 interrupt, ring of 2, 2 items each | `TypeOK`, `RingExact`, `NothingLost`, `ImplementsChannel` |
| `connectivity` | `MCConnectivity` | 2 callers, 2 networks, 2 events in hand | `Sound`, `SavedWasJoined`, `LostIsRejoined` |
| `screen` | `MCScreen` | 3 tasks, 2 reports, 1 failure each of fills, flushes and DISPON | `TypeOK`, `BuffersKept`, `PatternGone`, `FlushAcknowledged`, `ReportIsShown` |
| `lvgl_guard` | `MCScreenGuard` | the same | violated: `OneInLvgl` |
| `parts` | `MCParts` | 2 values, 3 keys, 2 savers; 2 links, 2 events; 2 themes, 1 reset | `StoreSound`, `BleSound`, `BackOnAir`, `ThemeSettles` |
| `demo_radio` | `MCDemoRadio` | 1 client at a time, 2 callbacks owed | `RadioSound`, `HelloReaches` |

Why these bounds are enough to be interesting:

* Scheduler: two levels and one request out of range exercise clamping and the bitmap; three
  tasks give head, middle and tail of a list; a quantum of two distinguishes "counted down"
  from "expired".
* Registry: five slots let three services and two jobs run, so that the table fills up with
  tombstones and `CreateFull` happens; four handles are one fewer than the slots, so a handle
  is reused while an old slot still names it. In `registry` running tasks end only themselves,
  as in the product, and the boot thread rolls back (`AppDeletes` FALSE); `registry_live` lets
  services delete any other task, in the middle of whatever it does.
* Mutex: three tasks are needed for an owner, a waiter and a third that is `s_current_task`;
  nesting two separates the two branches of unlock. `MaxDepth` is the only bound on a counter.
* Watchdog: two slots and three names make the table full; the scale 5/2/4/3/2 of
  score, penalty and thresholds is a coarser 100/20/80/60/40 on which every mode is reached from
  above and from below and a fault at a low score has to stop at zero. `MaxScan` bounds how far a pass lags
  behind its stamp, `MaxAge` is an age past every comparison.
* Message queue: six items over a ring of two wrap it three times, with both ends at every
  index; three clients race for the last slot.
* Connectivity: two networks tell a join to the right one from a join to another; two unhandled
  events are a loss that crosses a success. A driver that would need a third waits, which
  delays it and excludes no order of the two.
* Screen: one report makes every colour good and the other makes the chip red, so that both
  branches of `update` run; one failure of each kind, at any call, and any combination of the three.
  `bare` is never bounded.
* Parts: two values and an absent key are enough to see a mixture; two links are what a second
  client needs; two themes, with one reset in the middle of a store.
* Demonstration: with two callbacks owed a client has come and gone, or another came, before the
  first was handled.

Fairness. Safety needs none. `registry_live` assumes weak fairness of the steps of calls
under way (creation, deletion, the wrapper, boot): FreeRTOS schedules every ready task of the two
cores, and none of these steps waits for anything but the gate. `watchdog` assumes that
time passes, that some scanner begins a pass when none is under way (the system task's loop runs
one every 50 ms at most) and that a pass begun is finished (it contains no wait).
`connectivity`, `parts` and `demo_radio` assume that tasks and callbacks that can go on do, and
nothing of the radio, of clients or of the console's user. `screen` assumes the same of its tasks
and of the interrupt. No fairness is assumed of the polling loops of mutex and queue, because the code
gives none: a waiter sleeps a millisecond between looks and may always find the object taken, so neither
starvation-freedom nor delivery is claimed there. LVGL's lock is such a mutex. GUI may find it taken at
every frame, and `ReportIsShown` therefore has as its hypothesis, and not as an assumption on the
program, that GUI owns the lock again and again.

### What the violated runs say

* `launch_gate`: after `mk_start` a task spawned by a service passes the open gate before its
  creator has published its slot. The gate only protects tasks created at boot.
* `lvgl_guard`: the guard of the LVGL lock waits 200 ms, and the test pattern holds the lock
  for longer. GUI's first frame and SYSTEM's update never ask `locked()`, so they go on
  inside LVGL beside the owner.

Each is quoted against the document or comment it contradicts in `PROJECT.json`.

### What the code does that a reader may not expect

These follow from the definitions, or from experiments with them; each is a fact of the
source, and no run is kept for it.

Kernel:

* `LockCall` takes `sch.current` for the caller's block (`mk_mutex.c:45`), and `s_current_task` is
  the task that *started* last (`MarkCurrent` in `TaskTable`), so a waiter's own priority may never
  be compared with the owner's.
* A boost is applied after the critical section (`mk_mutex.c:79-80, 105-106`); if the owner unlocks
  in between it keeps the raised FreeRTOS priority. The boost also changes the priority before it
  unlinks the owner (`mk_mutex.c:76-78`) and links a running task that was in no queue, so the kernel's
  ready queues no longer list exactly the ready tasks. FreeRTOS schedules without reading them.
* `MapPort` (`mk_kernel.c:55-71`) is not monotone: 3 maps to 12 but 6 to 10, so a boost can lower
  the owner's FreeRTOS priority.
* A feed between the stamp (`mk_diagnostics.c:173`) and the locked scan lies in the pass's future;
  its unsigned age wraps and a task that has just fed is marked. The COMMAND watchdog (4000 ms)
  is also marked while `wifi connect` or `wifi scan` blocks, since the console does not feed meanwhile.
* `Recover` (`mk_health.c:86-99`) looks at the elapsed time only: the score rises while a task is
  marked stalled. `ScanDogs` skips a watchdog that was never fed (`mk_diagnostics.c:195`), and the
  update job registers one and never feeds it: it cannot be marked however long it hangs.
* A task deleted by another in the middle of its own creation call leaves the slot it had reserved
  reserved for ever; a task that deletes itself leaves its slot DELETING.
* Suspending twice, resuming a task that is not suspended, or deleting a sleeping one unbalances
  the ready count or the lists. Nothing in the product calls suspend or resume.

Services:

* `connect` or `scan` called into another call or before an event is handled may leave a status that
  is not true until the next event (`orderly` is false then).
* A scan on a live link leaves IDLE (`wifi_service.cpp:253`) and a join that comes up after its
  call's timeout leaves FAILED (`:214`), so `wifi status` shows no connection though there is an
  address. Should that link be lost, the test at `:46-48` fails and nothing joins it again. A retry
  that the driver refuses (`:55`) is not looked at: the state stays CONNECTING and no event will
  change it. `LostIsRejoined` claims nothing of these three.
* Overlapping saves lose updates; a reset in the middle of one may keep a new name with an old
  password; `factory_reset` does not look at the result of its save; the stored brightness is never
  applied at boot.
* `ble start` while a client is connected lets a second one in; one disconnect then shows no
  client though a link is up (`tidy` is false then).
* A second `ota update` is accepted until the job has set the flag (`ota_service.cpp:92`).
* A strip of a fill that fails (`display_gc9a01.cpp:117-119`), or its drain (`:126-129`), frees the colour
  buffer while strips queued before may still be read, against the comment at `:123-125`; in the model
  `dma` is then "fill" with `display_test` past its drain. `BuffersKept` speaks of the buffers only as long
  as no fill has failed; its count of flushes holds whatever fails, and so does `PatternGone` when fills do.
* DISPON is sent even if the fill before it failed, and if DISPON fails (`display_gc9a01.cpp:223`) the panel
  stays dark for good with everything else going on; a failed flush is acknowledged as if drawn; the
  dashboard shows a green "SYSTEM OK" before anything is known; the status dot keeps its colour
  when the chip turns red. `Gui::initialize` is never called, so `Gui::update_state` returns at once
  and what `CommandOverlay` records never reaches the screen.
* `ReportIsShown` is claimed only while DISPON has not failed and no task has gone on without the lock: after that an endless
  series of `display_test` can keep a task that lost its turn from the screen. `FlushAcknowledged` holds
  even then.

Arduino build:

* `Client-Demo-Presentation.md:96` has green for a phone on the hotspot, and `:125` has the pill turn
  green as a phone joins; the code paints it green for a joined router as well (`main.cpp:370`), with no
  phone there. `:99` has a red pill for "off"; the code paints it dim grey.
  Orange stays after a join that failed (`g_wifi_connecting` is cleared by a success or
  `disconnect` only), and a reconnection between two polls keeps the old address on the screen.
* A failure of `softAP` is covered up by the poll, which takes the hotspot's flag from the mode
  (`main.cpp:658-660`). A command that meets a callback leaves the BLE flags wrong until a client
  comes or goes with nothing else under way. "(saved)" is printed whatever `putUChar` answers.

## 5. The proofs

Checked by TLAPS for all values of the constants that satisfy the named assumptions
(`QueueAssumption` of `ReadyQueue` and of `MsgQueue`, `SchedulerAssumption`, `TaskTableAssumption`,
`MutexAssumption`, `WatchdogAssumption`, `ScreenAssumption`, `StoreAssumption`, `PartsAssumption`,
`RadioAssumption`, each in the module that declares the constants; TLC evaluates them in the
runs; the theorems about `Connectivity` need none). Every safety invariant and every action
property of the runs is proved, and the three refinements. What an inductive invariant says of
states TLC can enumerate was first checked as an invariant of the run it belongs to, and the
refinements as properties of theirs.

* `ReadyQueueProofs`: what each function of the scheduler object does to any record in `Sched`.
  `AddReady`, `RemoveReady` and `Tick` turn `Queued(sch, S)` into the same for S with or without the
  task; `Queued` speaks of each task's neighbours and of the ends, so the lemmas need to look only at
  the task that moves, its neighbours and the ends of its queue. `Chain` numbers the tasks of a list
  along its links, and `SleepList` the sleepers in order of their wake ticks. Ready queues and sleep
  list use the same link fields: the argument for each operation on one list shows which links it
  writes and that none belongs to a task of the other.
  Two operations loop. The walk to the place of a new sleeper (`mk_scheduler.c:124-129`) ends where the
  sorted list first has a later task; the loop that wakes everyone whose time has come
  (`mk_scheduler.c:178-186`) is followed turn by turn (`WakeExpiredTurns`), with the invariant that the
  tasks woken so far are a prefix of the list. A lemma on well-founded sets (`LeastNat`,
  `TurnInduction`) provides the induction on the number of turns.
* `SchedulerProofs`: `TypeOK`, `ReadyQueuesExact` and `SleepersInOrder`, with tasks asleep, from
  `SchedInv`: the queues are `Queued` for the ready tasks, and the sleep list numbers the sleepers,
  all of them later than now. The two must be proved together because they share the links.
  `ImplementsFifo` adds `FifoInv`: the links of every level number its ready tasks from head to tail
  (`Lines`; being neighbours, as `Queued` has it, would also allow a ring beside the list), and only
  queued tasks are marked running, which is why waking a sleeper leaves the set of running tasks alone.
  A list read along its links is then the function that numbers it (`Queue`, `Dozers`), and each
  function of the C code changes that function as the abstract scheduler changes its sequence: an
  `Append`, a `RemoveAt`, an `InsertAt`, a rotation. For the tick, `Risen` describes the record
  after any number of turns of the waking loop, and `JoinedUp` the queues the sleepers woken so far have
  joined, so that both are compared turn by turn; `Charges` then gives the accounting of the quantum.
* `TaskTableProofs`: `TypeOK`, `ReadyListsExact`, `LiveOwned` and `SlotLifecycle`.
  `ReadyListsExact` is not inductive: a publication must know that its slot is still RESERVED
  and in no queue, hence `QueueInv` adds `Pointers` (a context in a call works on a slot),
  `Reservations` (one creator per slot being created), and `Dormant` (nothing before
  `mk_init`). `OwnInv` adds, for each living port task, that the slot it was given is
  reserved by its creator, live and naming it, or being deleted; a reused handle then cannot
  meet a live slot of its former bearer.
  For `AppDeletes` FALSE, as in the run `registry`, also `ReservationsOwned`, `CurrentOccupied` and
  `RollbackClean`. They need to know who acts when: `Roles` says that the boot thread alone acts
  until `mk_start` and that afterwards a port task deletes nobody but itself, so that no step
  stops a creator half-way or frees the current task's slot; `Tenancy` says that a port task
  stays with its slot, and the slot with it, from before the publication until the task ends, which
  is also what makes the handle a task finds in its slot its own; `BooksKept` says that before
  `mk_start` every used slot is in the list the rollback walks, or is the one at hand.
* `PiMutexProofs`: `TypeOK`, `OwnerExact` and `ImplementsLock`, from `LockInv`: types, `Shaped`
  (a locked mutex has an owner and a count of at least one; a boost about to be applied has a
  victim) and `OwnerExact` itself, which is what makes a successful lock by one task exclude a
  positive `held` of another. `BoostHasReason` assumes that every base priority is below `NPrio`
  (queueing a task clamps it to the last level, which would look like a change), as all the
  product's are, and needs `Known`: the blocks that calls and mutexes refer to are those of
  admitted tasks, even where a caller took another task's block for its own.
* `WatchdogProofs`: `TypeOK`, `OnePass`, `ModeMatchesScore` and `StallLeavesRecord`, from
  `WatchInv`. `StallLeavesRecord` says of every step that a pass which marks a slot then holds a
  notice, and that a notice held goes nowhere but into the crash record; mark, report and save are
  several steps of a pass, so the invariant has `NoticesInHand`: only a scanner between the scan and
  its last save holds notices, so nobody drops one on the way. `ModeMatchesScore` holds for every penalty and all
  thresholds with Poor <= Fair <= Good, by showing that lowering and raising, which each leave the mode
  alone in one range, do so only where it is right already.
* `MsgQueueProofs`: `TypeOK`, `RingExact`, `NothingLost` and `ImplementsChannel`, from `QueueInv`: head,
  tail and count agree modulo the capacity, and every slot from head to tail holds an item. The
  refinement maps the ring to the sequence of the items under way, `Contents`. `NothingLost` speaks of
  `log \o Contents`: a receipt moves an item across the seam of the two (`HandOver`), a store appends
  the next number of its client (`SetOff`, `TellOneMore`), and no other step, a timeout included,
  changes either.
* `ScreenProofs`: `TypeOK` (with the stronger fact that `pending` is one exactly while LVGL waits,
  even when a task goes on without the lock), `BuffersKept` and `PatternGone`, from `DrawInv`, for any
  number of failures. What `BuffersKept` says of transfers holds as long as no fill has failed, and it needs `BusyOwns` (as long as nobody went on without the lock, a task inside LVGL owns
  it) and `DrawReady` (a task about to draw has the buffer lent and no transfer of it yet), or a
  second flush could be counted; `PatternGone` holds when fills fail too and needs `Covered`,
  which follows the pattern, and strips that are late, from the fill to the invalidation and the flush
  that replaces it.
  `RadioSound`, of the demonstration program's dashboard, follows from `RadioInv`. While no command met
  a callback, the callbacks owed are one of six short sequences whatever bound there is on them, because
  a client can come only after the callback of the one before has restarted the advertising: `Calm`,
  `Coming` and `Going` give for each what the controller and the flags are at every place inside a
  callback, a command and the start. `WifiFollows` carries what SYSTEM has read of the station from the
  middle of a poll to its end. Its half about Wi-Fi is of the pill as it is: green is a joined router or a
  phone on the hotspot.
* `ServicesProofs`, the settings: `StoreSound`, from `SaveInv`. The invariant follows a save that is
  alone and has met no failure: `Progress` says that the keys before the one it is at are in flash as
  they are in RAM and that the value at hand is RAM's; `CleanIsSaved` says the same of the end.
  BLE: `BleSound`. Types follow from the bounds. Its truth needs `TellInv`: advertising is a token that
  is with the controller, in one queued event or with the host's task, so that of all sequences of
  events only the five situations `Starting`, `Over`, `Came`, `CameAndWent` and `Went` occur while no
  command interferes. Both are proved of the part alone and of the run's specification, where a step
  of one part leaves the others' state alone.
* `ServicesProofs`, Wi-Fi: `Sound` and `SavedWasJoined`, from `NetInv`, for any networks and any number
  of events in hand. `Sound` speaks of the moments without events, so `Ends` says what must hold with
  some: the last queued event that tells of the address agrees with the link, or there is none and
  the status does. The half about CONNECTED and all of `SavedWasJoined` hold for orderly calls
  only, and need four facts about these: `OneCaller`; `Mine` (the driver keeps the network of the task
  that connects, and any sign of success it may still see, a queued event, a set bit or the bits it
  took, means that this network came up); `LossSeen` (a link that goes down while the status
  says CONNECTED, or a task may still write that, has an event or a retry ahead of it, unless the driver
  refused one); `Unset` (before the
  first call nothing joins).

Only model-checked: every liveness property (`TasksStart`, `OverdueIsMarked`, `StallIsShown`,
`LostIsRejoined`, `FlushAcknowledged`, `ReportIsShown`, `BackOnAir`, `ThemeSettles`, `HelloReaches`),
since fairness and ENABLED are beyond the prover.

## 6. What is not modelled

* Drawing, formatting, logging, the command parser and the commands that only report, HAL and
  board code: no control that the properties could depend on.
* The FreeRTOS fallbacks (`MK_NATIVE_KERNEL` 0): thin calls to FreeRTOS objects.
* Context switching (`mk_context.S`) and FreeRTOS's scheduler: external. The port priority is
  state, its effect on scheduling is not. `mk_task_suspend`, `mk_task_resume` and
  `mk_scheduler_sleep_task` through the registry, which the product never calls.
* Memory exhaustion in the constructors of mutex and queue, and deletion of either while in
  use, which the code does not defend against. Semaphore, pool and software timer: no caller.
* Event bus: its queue is `MsgQueue`; nobody subscribes, so delivery has no effect. Publishers wait up
  to 10 ms at a full queue, which `WifiService` allows for.
* In `Watchdog`: stall callbacks (always null), feed tokens, `mk_crash_clear` and `mk_health_set_mode` (no caller), CPU load, the memory
  and network scores, reset and reboot counting, and a reset between the stores of `mk_crash_save`.
* The download of an update (the library's) and the time client (one flag, an input of `Screen`).
* In `WifiService`: signal strength, the hotspot's name and clients, `stop` and `disconnect` (no caller).
  In `BleService`: the host's reset and the sync that follows it. In `SettingsStore`: keys that nothing changes at run time. In `Screen`: brightness, layout and
  text. In `DemoRadio`: the echo service, the clock, and of the hotspot's stations all but whether there is one.
* What the properties leave open. `HelloReaches` says that the greeting is sent; whether the client has
  subscribed to notifications, and so receives it, is not modelled. `ThemeSettles` speaks of what a frame
  paints; that nothing of the old theme remains between those parts rests on the clearing at
  `main.cpp:601-605`. Where a task goes on without LVGL's lock, `FlushAcknowledged` rests on `Render` being
  one step: LVGL itself, entered twice, is not modelled. The adapter's comment (`lvgl_adapter.cpp:31-32`)
  provides for two flushes in flight; here `pending` stays at most one, because LVGL, which is external,
  waits for `flush_ready` before it calls `flush_cb` again, and only renders into its second buffer meanwhile.
* The simulator, the build scripts and the tests: they run on the host.
