----------------------------- MODULE TaskTable ------------------------------
(***************************************************************************)
(* The task registry: mk_task.c over the scheduler of mk_scheduler.c, the  *)
(* launch gate of mk_kernel.c, and the boot sequence that uses them        *)
(* (KernelManager::startTasks, SystemController::start).                   *)
(*                                                                         *)
(* A context is a thread of control: the boot thread or a port (FreeRTOS)  *)
(* task.  Each critical section is one action, and so is each unlocked     *)
(* access: other contexts, on either core, run between them.               *)
(***************************************************************************)
EXTENDS ReadyQueue, SequencesExt

CONSTANTS
  Handles,     \* port task handles; a dead task's handle may be given out again
  NoHandle,    \* the null port handle
  Boot,        \* the thread that runs setup() or app_main()
  BootList,    \* the tasks it spawns, in order: [prio, entry, required]
  JobPrio,     \* priority of the jobs that services spawn while running (OTA)
  AppDeletes   \* whether services also delete tasks other than themselves

Slots == Tasks              \* s_tasks, in index order where it matters
Entries == {"service", "job"}   \* an entry function that loops, or returns
Item == [prio : Nat, entry : Entries, required : BOOLEAN]
Contexts == Handles \cup {Boot}

ASSUME TaskTableAssumption ==
  /\ Tasks \subseteq Nat
  /\ NoHandle \notin Contexts /\ Boot \notin Handles
  /\ BootList \in Seq(Item)
  /\ JobPrio \in Nat
  /\ AppDeletes \in BOOLEAN

VARIABLES
  sch,        \* scheduler variables and task control blocks
  slot,       \* slot_state of each slot
  handle,     \* port_handle
  entry,      \* entry
  liveCount,  \* s_task_count
  kernel,     \* s_initialized and s_running (with the start bit of the gate)
  op,         \* where each context is in the call it is making
  arg,        \* the slot the port task's wrapper was given
  boot        \* progress of the boot thread

vars == <<sch, slot, handle, entry, liveCount, kernel, op, arg, boot>>

SlotState == {"FREE", "RESERVED", "LIVE", "DELETING"}
Pc == { "none", "gate", "mark", "current", "body",      \* the wrapper
        "port", "publish",                              \* inside mk_task_create_ext
        "unport", "reclaim",                            \* inside mk_task_delete
        "exit", "abort" }                               \* the wrapper's own delete, its return
Call == [ pc : Pc, target : Link, port : Handles \cup {NoHandle},
          back : {"body", "exit", "abort"} ]     \* back: where the caller continues
Phase == {"init", "spawn", "rollback", "up", "failed"}

Live == {s \in Slots : slot[s] = "LIVE"}
Free == {s \in Slots : slot[s] = "FREE"}
First(S) == {s \in S : \A u \in S : s <= u}    \* what a search in index order finds
Alive(h) == op[h].pc # "none"
At(p, s) == [pc |-> p, target |-> s, port |-> NoHandle, back |-> "body"]
Gone == At("none", NoTask)
AtBody == At("body", NoTask)

TypeOK ==
  /\ sch \in Sched
  /\ slot \in [Slots -> SlotState]
  /\ handle \in [Slots -> Handles \cup {NoHandle}]
  /\ entry \in [Slots -> Entries \cup {"none"}]
  /\ liveCount \in Nat
  /\ kernel \in {"off", "ready", "running"}
  /\ op \in [Contexts -> Call]
  /\ arg \in [Handles -> Link]
  /\ boot \in [phase : Phase, next : Nat \ {0}, made : Seq(Slots)]

Init ==
  /\ sch = InitSched
  /\ slot = [s \in Slots |-> "FREE"]
  /\ handle = [s \in Slots |-> NoHandle]
  /\ entry = [s \in Slots |-> "none"]
  /\ liveCount = 0
  /\ kernel = "off"
  /\ op = [c \in Contexts |-> IF c = Boot THEN AtBody ELSE Gone]
  /\ arg = [h \in Handles |-> NoTask]
  /\ boot = [phase |-> "init", next |-> 1, made |-> <<>>]

\* A slot zeroed by memset.
Zero(s, newState) ==
  /\ slot' = [slot EXCEPT ![s] = newState]
  /\ handle' = [handle EXCEPT ![s] = NoHandle]
  /\ entry' = [entry EXCEPT ![s] = "none"]
  /\ sch' = BlankTcb(sch, s)

-----------------------------------------------------------------------------
(* mk_task_create_ext: reserve a slot, create the port task outside the    *)
(* lock, publish the slot.                                                 *)

\* Mutant of Created: the returned handle is kept without looking for null.
CreatedUnchecked(c, s) ==
  boot' = IF c # Boot THEN boot ELSE [boot EXCEPT !.next = @ + 1, !.made = Append(@, s)]

\* What the boot thread does with the handle, or null, that creation returns.
Created(c, s) ==
  boot' = IF c # Boot THEN boot
          ELSE IF s = NoTask /\ BootList[boot.next].required
               THEN [boot EXCEPT !.phase = "rollback"]
               ELSE [boot EXCEPT !.next = @ + 1,
                                 !.made = IF s = NoTask THEN @ ELSE Append(@, s)]

CreateReserve(c, p, e) ==
  /\ op[c].pc = "body" /\ kernel # "off"
  /\ \E s \in First(Free) :
       /\ slot' = [slot EXCEPT ![s] = "RESERVED"]
       /\ handle' = [handle EXCEPT ![s] = NoHandle]
       /\ entry' = [entry EXCEPT ![s] = e]
       /\ sch' = NewTcb(sch, s, p)
       /\ op' = [op EXCEPT ![c] = At("port", s)]
  /\ UNCHANGED <<liveCount, kernel, arg, boot>>

\* No slot is free: null, and nothing has changed.
CreateFull(c) ==
  /\ op[c].pc = "body" /\ kernel # "off" /\ Free = {}
  /\ Created(c, NoTask)
  /\ UNCHANGED <<sch, slot, handle, entry, liveCount, kernel, op, arg>>

\* mk_port_task_create: the new port task may run at once, on either core.
CreatePort(c, h) ==
  /\ op[c].pc = "port" /\ ~Alive(h)
  /\ op' = [op EXCEPT ![c] = [At("publish", op[c].target) EXCEPT !.port = h],
                       ![h] = At("gate", NoTask)]
  /\ arg' = [arg EXCEPT ![h] = op[c].target]
  /\ UNCHANGED <<sch, slot, handle, entry, liveCount, kernel, boot>>

CreatePortFails(c) ==
  /\ op[c].pc = "port"
  /\ op' = [op EXCEPT ![c].pc = "publish"]
  /\ UNCHANGED <<sch, slot, handle, entry, liveCount, kernel, arg, boot>>

CreatePublish(c) ==
  LET s == op[c].target
  IN  /\ op[c].pc = "publish" /\ op[c].port # NoHandle
      /\ handle' = [handle EXCEPT ![s] = op[c].port]
      /\ slot' = [slot EXCEPT ![s] = "LIVE"]
      /\ liveCount' = liveCount + 1
      /\ sch' = AddReady(sch, s)
      /\ op' = [op EXCEPT ![c] = AtBody]
      /\ Created(c, s)
      /\ UNCHANGED <<entry, kernel, arg>>

\* Mutant of CreateUndo: the reservation is not given back.
CreateUndoForgets(c) ==
  /\ op[c].pc = "publish" /\ op[c].port = NoHandle
  /\ op' = [op EXCEPT ![c] = AtBody]
  /\ Created(c, NoTask)
  /\ UNCHANGED <<sch, slot, handle, entry, liveCount, kernel, arg>>

CreateUndo(c) ==
  /\ op[c].pc = "publish" /\ op[c].port = NoHandle
  /\ Zero(op[c].target, "FREE")
  /\ op' = [op EXCEPT ![c] = AtBody]
  /\ Created(c, NoTask)
  /\ UNCHANGED <<liveCount, kernel, arg>>

-----------------------------------------------------------------------------
(* mk_task_delete: mark and unlink the slot, delete the port task outside  *)
(* the lock, reclaim the slot unless the task deleted itself.              *)

\* Rollback forgets a handle once its delete has returned.
Deleted(c) == boot' = IF c = Boot THEN [boot EXCEPT !.made = Front(@)] ELSE boot

\* Mutants of DeleteLock: it takes any slot in use, it frees the slot at once, it
\* leaves the slot live until the port task is gone.
DeleteLockAnyUsed(c, s, back) ==
  /\ slot[s] # "FREE"
  /\ slot' = [slot EXCEPT ![s] = "DELETING"]
  /\ liveCount' = IF liveCount > 0 THEN liveCount - 1 ELSE 0
  /\ sch' = RemoveReady([sch EXCEPT !.state[s] = "DELETED"], s)
  /\ op' = [op EXCEPT ![c] = [pc |-> "unport", target |-> s, port |-> handle[s], back |-> back]]
  /\ UNCHANGED <<handle, entry, kernel, arg, boot>>

DeleteLockFrees(c, s, back) ==
  /\ slot[s] = "LIVE"
  /\ slot' = [slot EXCEPT ![s] = "FREE"]
  /\ liveCount' = IF liveCount > 0 THEN liveCount - 1 ELSE 0
  /\ sch' = RemoveReady([sch EXCEPT !.state[s] = "DELETED"], s)
  /\ op' = [op EXCEPT ![c] = [pc |-> "unport", target |-> s, port |-> handle[s], back |-> back]]
  /\ UNCHANGED <<handle, entry, kernel, arg, boot>>

DeleteLockLate(c, s, back) ==
  /\ slot[s] = "LIVE"
  /\ op' = [op EXCEPT ![c] = [pc |-> "unport", target |-> s, port |-> handle[s], back |-> back]]
  /\ UNCHANGED <<sch, slot, handle, entry, liveCount, kernel, arg, boot>>

DeleteLock(c, s, back) ==
  /\ slot[s] = "LIVE"
  /\ slot' = [slot EXCEPT ![s] = "DELETING"]
  /\ liveCount' = IF liveCount > 0 THEN liveCount - 1 ELSE 0
  /\ sch' = RemoveReady([sch EXCEPT !.state[s] = "DELETED"], s)
  /\ op' = [op EXCEPT ![c] = [pc |-> "unport", target |-> s, port |-> handle[s], back |-> back]]
  /\ UNCHANGED <<handle, entry, kernel, arg, boot>>

\* MK_ERR_BAD_STATE
DeleteRefused(c, s, back) ==
  /\ slot[s] # "LIVE"
  /\ op' = [op EXCEPT ![c] = At(back, NoTask)]
  /\ Deleted(c)
  /\ UNCHANGED <<sch, slot, handle, entry, liveCount, kernel, arg>>

Delete(c, s, back) == DeleteLock(c, s, back) \/ DeleteRefused(c, s, back)

\* vTaskDelete: the victim stops wherever it is.  A task that deletes itself
\* leaves its slot DELETING for good.
DeletePort(c) ==
  LET h == op[c].port
  IN  /\ op[c].pc = "unport"
      /\ op' = IF h = c THEN [op EXCEPT ![c] = Gone]
               ELSE IF h = NoHandle THEN [op EXCEPT ![c].pc = "reclaim"]
               ELSE [op EXCEPT ![h] = Gone, ![c].pc = "reclaim"]
      /\ arg' = [x \in Handles |-> IF x = h THEN NoTask ELSE arg[x]]
      /\ UNCHANGED <<sch, slot, handle, entry, liveCount, kernel, boot>>

DeleteReclaim(c) ==
  LET s == op[c].target
  IN  /\ op[c].pc = "reclaim"
      /\ IF slot[s] = "DELETING" /\ handle[s] = op[c].port
         THEN Zero(s, "FREE")
         ELSE UNCHANGED <<sch, slot, handle, entry>>
      /\ op' = [op EXCEPT ![c] = At(op[c].back, NoTask)]
      /\ Deleted(c)
      /\ UNCHANGED <<liveCount, kernel, arg>>

-----------------------------------------------------------------------------
(* The port task: mk_port_task_wrapper                                     *)

\* mk_task_self: the live slot whose port handle is the caller's.
Self(h) ==
  LET mine == First({s \in Live : handle[s] = h})
  IN  IF mine = {} THEN NoTask ELSE CHOOSE s \in mine : TRUE

\* mk_wait_start polls the gate until the start bit is set.
PassGate(h) ==
  /\ op[h].pc = "gate" /\ kernel = "running"
  /\ op' = [op EXCEPT ![h].pc = "mark"]
  /\ UNCHANGED <<sch, slot, handle, entry, liveCount, kernel, arg, boot>>

\* Two stores outside any lock.
MarkRunning(h) ==
  /\ op[h].pc = "mark"
  /\ sch' = [sch EXCEPT !.state[arg[h]] = "RUNNING"]
  /\ op' = [op EXCEPT ![h].pc = "current"]
  /\ UNCHANGED <<slot, handle, entry, liveCount, kernel, arg, boot>>

MarkCurrent(h) ==
  /\ op[h].pc = "current"
  /\ sch' = [sch EXCEPT !.current = arg[h]]
  /\ op' = [op EXCEPT ![h].pc = "body"]
  /\ UNCHANGED <<slot, handle, entry, liveCount, kernel, arg, boot>>

\* A job ends by deleting the task mk_task_self finds, or by returning when it
\* finds none.  The look-up and the delete are two critical sections; whoever came
\* between them could only end the slot's life, and then both ways lead to "exit".
JobEnds(h) ==
  /\ op[h].pc = "body" /\ entry[arg[h]] = "job"
  /\ IF Self(h) # NoTask
     THEN Delete(h, Self(h), "exit")
     ELSE /\ op' = [op EXCEPT ![h].pc = "exit"]
          /\ UNCHANGED <<sch, slot, handle, entry, liveCount, kernel, arg, boot>>

\* The wrapper deletes its own slot; when that call returns so does the wrapper,
\* and a FreeRTOS task function that returns aborts the program.
WrapperDelete(h) == op[h].pc = "exit" /\ Delete(h, arg[h], "abort")

ServiceSpawns(h) ==
  /\ op[h].pc = "body" /\ entry[arg[h]] = "service"
  /\ CreateReserve(h, JobPrio, "job") \/ CreateFull(h)

ServiceDeletes(h) ==
  /\ AppDeletes
  /\ op[h].pc = "body" /\ entry[arg[h]] = "service"
  /\ \E s \in Slots : Delete(h, s, "body")

-----------------------------------------------------------------------------
(* The boot thread                                                         *)

\* mk_init; without memory for the gate the program stops here.
BootInit ==
  /\ boot.phase = "init"
  /\ \/ kernel' = "ready" /\ sch' = InitSched /\ boot' = [boot EXCEPT !.phase = "spawn"]
     \/ UNCHANGED <<kernel, sch>> /\ boot' = [boot EXCEPT !.phase = "failed"]
  /\ UNCHANGED <<slot, handle, entry, liveCount, op, arg>>

BootSpawn ==
  /\ boot.phase = "spawn" /\ boot.next <= Len(BootList)
  /\ \/ CreateReserve(Boot, BootList[boot.next].prio, BootList[boot.next].entry)
     \/ CreateFull(Boot)

\* Mutant of BootStart: the start bit is not set.
BootStartSilent ==
  /\ boot.phase = "spawn" /\ boot.next > Len(BootList)
  /\ boot' = [boot EXCEPT !.phase = "up"]
  /\ UNCHANGED <<sch, slot, handle, entry, liveCount, kernel, op, arg>>

\* mk_start: s_running, the start bit, the tick timer.
BootStart ==
  /\ boot.phase = "spawn" /\ boot.next > Len(BootList)
  /\ kernel' = "running"
  /\ boot' = [boot EXCEPT !.phase = "up"]
  /\ UNCHANGED <<sch, slot, handle, entry, liveCount, op, arg>>

\* Mutant of BootRollback: an index loop that stops before the first task.
BootRollbackShort ==
  /\ boot.phase = "rollback" /\ op[Boot].pc = "body"
  /\ IF Len(boot.made) > 1 THEN Delete(Boot, Last(boot.made), "body")
     ELSE /\ boot' = [boot EXCEPT !.phase = "failed"]
          /\ UNCHANGED <<sch, slot, handle, entry, liveCount, kernel, op, arg>>

\* The tasks already made are deleted, the last one first.
BootRollback ==
  /\ boot.phase = "rollback" /\ op[Boot].pc = "body"
  /\ IF boot.made # <<>> THEN Delete(Boot, Last(boot.made), "body")
     ELSE /\ boot' = [boot EXCEPT !.phase = "failed"]
          /\ UNCHANGED <<sch, slot, handle, entry, liveCount, kernel, op, arg>>

\* loop() after a failed start.
BootIdle == boot.phase = "failed" /\ UNCHANGED vars

-----------------------------------------------------------------------------
\* A port task function returned: FreeRTOS calls abort(), which restarts the chip;
\* the other core runs on until it does.
Aborted == \E h \in Handles : op[h].pc = "abort"

Reset ==
  /\ Aborted
  /\ sch' = InitSched
  /\ slot' = [s \in Slots |-> "FREE"]
  /\ handle' = [s \in Slots |-> NoHandle]
  /\ entry' = [s \in Slots |-> "none"]
  /\ liveCount' = 0
  /\ kernel' = "off"
  /\ op' = [c \in Contexts |-> IF c = Boot THEN AtBody ELSE Gone]
  /\ arg' = [h \in Handles |-> NoTask]
  /\ boot' = [phase |-> "init", next |-> 1, made |-> <<>>]

\* The 1 kHz timer, running since mk_start.  Nothing sleeps in the scheduler, so
\* the tick count does not matter.
SystemTick ==
  /\ kernel = "running"
  /\ sch' = Tick(sch, 0)
  /\ UNCHANGED <<slot, handle, entry, liveCount, kernel, op, arg, boot>>

\* The steps a context takes without deciding anything: the call it is in.
Proceed(c) ==
  \/ \E h \in Handles : CreatePort(c, h)
  \/ CreatePortFails(c)
  \/ CreatePublish(c) \/ CreateUndo(c)
  \/ DeletePort(c) \/ DeleteReclaim(c)

Wrapper(h) == PassGate(h) \/ MarkRunning(h) \/ MarkCurrent(h) \/ WrapperDelete(h)

BootStep == BootInit \/ BootSpawn \/ BootStart \/ BootRollback \/ BootIdle

Next ==
  \/ \E c \in Contexts : Proceed(c)
  \/ \E h \in Handles : Wrapper(h) \/ JobEnds(h) \/ ServiceSpawns(h) \/ ServiceDeletes(h)
  \/ BootStep
  \/ SystemTick
  \/ Reset

Spec == Init /\ [][Next]_vars

\* No context is stopped for ever in the middle of a call, the polling tasks are
\* scheduled again and again, and a restarted chip boots.  Spawning, deleting and
\* ending stay free choices.
Fairness ==
  /\ \A c \in Contexts : WF_vars(Proceed(c))
  /\ \A h \in Handles : WF_vars(Wrapper(h))
  /\ WF_vars(BootStep)
  /\ WF_vars(Reset)

FairSpec == Spec /\ Fairness

-----------------------------------------------------------------------------
PastGate(h) == op[h].pc \notin {"none", "gate"}
CreatorsOf(s) == {c \in Contexts : op[c].pc \in {"port", "publish"} /\ op[c].target = s}

\* The ready lists, their bitmap and both counts describe exactly the live slots,
\* whatever creations and deletions are under way (mk_task.c:94-97, 119-125): a
\* slot is never linked twice, unlinked twice, or zeroed while it is linked.
ReadyListsExact == Queued(sch, Live) /\ liveCount = Cardinality(Live)

\* A slot between its reservation and its publication has one creator at work on
\* it, which no other call disturbs (mk_task.c:53-98), and none is left behind without
\* one: it would never be free again.  Deleting a task in the middle of a creation
\* does leave one, so this supposes that no task is deleted by another.
ReservationsOwned ==
  /\ \A c \in Contexts :
       op[c].pc \in {"port", "publish"} =>
         slot[op[c].target] = "RESERVED" /\ CreatorsOf(op[c].target) = {c}
  /\ \A s \in Slots : slot[s] = "RESERVED" => CreatorsOf(s) # {}

\* Every live slot belongs to the one running port task that was given it, so
\* mk_task_self finds the caller's own control block or none (mk_task.c:146-158),
\* also when FreeRTOS gives a dead task's handle out again.
LiveOwned ==
  /\ \A s \in Live : handle[s] \in Handles /\ Alive(handle[s]) /\ arg[handle[s]] = s
  /\ \A h \in Handles : Alive(h) => Self(h) \in {NoTask, arg[h]}

\* "Launch gate: tasks block until mk_start() (no run-before-register race)"
\* (README.md:145): a task past the gate has a published slot.
NoRunBeforeRegister ==
  \A h \in Handles : PastGate(h) => slot[arg[h]] \in {"LIVE", "DELETING"}

\* A boot that fails leaves nothing behind: no slot, no queue entry, no port task
\* (kernel_manager.cpp:65-90, app_main.cpp:230-244).
RollbackClean ==
  boot.phase = "failed" =>
    /\ \A s \in Slots : slot[s] = "FREE"
    /\ Queued(sch, {}) /\ liveCount = 0
    /\ \A h \in Handles : ~Alive(h)

\* s_current_task, which the tick dereferences (mk_scheduler.c:189-213), is never a
\* slot that was given back: a self-deleted task's slot is kept for that reason.
CurrentOccupied == sch.current # NoTask => slot[sch.current] # "FREE"

\* SLOT_FREE -> SLOT_RESERVED -> SLOT_LIVE -> SLOT_DELETING
\* (architecture_microkernel.md:36): no step of any context takes another way.
SlotLifecycle ==
  [][~Reset => \A s \in Slots :
       slot'[s] # slot[s] =>
         <<slot[s], slot'[s]>> \in { <<"FREE", "RESERVED">>, <<"RESERVED", "LIVE">>,
                                     <<"RESERVED", "FREE">>, <<"LIVE", "DELETING">>,
                                     <<"DELETING", "FREE">> }]_vars

\* Once mk_start has run, every task that waits at the gate reaches its entry function,
\* unless it is deleted or an abort restarts the chip first (mk_kernel.c:105-108).
TasksStart ==
  \A h \in Handles :
    boot.phase = "up" /\ op[h].pc = "gate" ~>
      Aborted \/ op[h].pc \notin {"gate", "mark", "current"}
=============================================================================
