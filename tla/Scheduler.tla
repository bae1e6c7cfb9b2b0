----------------------------- MODULE Scheduler ------------------------------
(***************************************************************************)
(* The scheduler object behind a client that keeps to its contract: a task *)
(* is added only when it is in no list, removed or put to sleep only from  *)
(* a ready queue, woken only from the sleep list.  Every function of       *)
(* mk_scheduler.c holds the kernel critical section from its first access  *)
(* to its last, so each is one action.                                     *)
(***************************************************************************)
EXTENDS ReadyQueue

CONSTANTS
  Requests,   \* priorities a task may be created with (some out of range)
  Delays,     \* arguments of mk_scheduler_sleep_task, in milliseconds
  MaxTick     \* bound on s_system_ticks

ASSUME SchedulerAssumption ==
  Requests \subseteq Nat /\ Delays \subseteq Nat /\ MaxTick \in Nat

VARIABLES
  sch,        \* the scheduler's variables and the control blocks
  now,        \* s_system_ticks
  place       \* where the client last put each task

vars == <<sch, now, place>>

Place == {"out", "ready", "asleep", "blocked"}
At(where) == {t \in Tasks : place[t] = where}

TypeOK ==
  /\ sch \in Sched
  /\ now \in 0 .. MaxTick
  /\ place \in [Tasks -> Place]

Init ==
  /\ sch = InitSched
  /\ now = 0
  /\ place = [t \in Tasks |-> "out"]

Move(t, from, to) == place[t] = from /\ place' = [place EXCEPT ![t] = to]

\* mk_task_create_ext fills a zeroed control block and queues it.
Admit(t, p) ==
  /\ Move(t, "out", "ready")
  /\ sch' = AddReady(NewTcb(sch, t, p), t)
  /\ UNCHANGED now

\* mk_task_delete of another task marks the control block, unlinks it and, once
\* the port task is gone, zeroes it.
Retire(t) ==
  /\ Move(t, "ready", "out")
  /\ sch' = BlankTcb(RemoveReady([sch EXCEPT !.state[t] = "DELETED"], t), t)
  /\ UNCHANGED now

\* mk_port_task_wrapper makes the starting task the current one.
Launch(t) ==
  /\ place[t] = "ready"
  /\ sch' = [sch EXCEPT !.state[t] = "RUNNING", !.current = t]
  /\ UNCHANGED <<now, place>>

Pick == sch' = PickNext(sch) /\ UNCHANGED <<now, place>>

Block(t) == Move(t, "ready", "blocked") /\ sch' = BlockTask(sch, t) /\ UNCHANGED now

Unblock(t) == Move(t, "blocked", "ready") /\ sch' = UnblockTask(sch, t) /\ UNCHANGED now

AtLeastOne(ms) == IF ms = 0 THEN 1 ELSE ms

Sleep(t, ms) ==
  /\ now + AtLeastOne(ms) <= MaxTick
  /\ Move(t, "ready", "asleep")
  /\ sch' = SleepTask(sch, t, now + AtLeastOne(ms))
  /\ UNCHANGED now

Wake(t) == Move(t, "asleep", "ready") /\ sch' = WakeTask(sch, t) /\ UNCHANGED now

\* Past MaxTick the counter stays and only the quantum goes on.
SystemTick ==
  LET after == IF now < MaxTick THEN now + 1 ELSE now
  IN  /\ now' = after
      /\ sch' = Tick(sch, after)
      /\ place' = [t \in Tasks |-> IF place[t] = "asleep" /\ sch.wake[t] <= after
                                   THEN "ready" ELSE place[t]]

Next ==
  \/ \E t \in Tasks : \/ \E p \in Requests : Admit(t, p)
                      \/ Retire(t) \/ Launch(t) \/ Block(t) \/ Unblock(t) \/ Wake(t)
                      \/ \E ms \in Delays : Sleep(t, ms)
  \/ Pick
  \/ SystemTick

Spec == Init /\ [][Next]_vars

-----------------------------------------------------------------------------
\* The ready lists, the bitmap and s_ready_count describe exactly the tasks the
\* client left ready, each linked once, in both directions, at its own priority
\* (mk_scheduler.c:41-88; the sleep list shares the same link fields).
ReadyQueuesExact == Queued(sch, At("ready"))

\* Walking the sleep list meets every sleeping task once, in order of wake tick,
\* and none that should already be awake (mk_scheduler.c:118-133, 178-186).
SleepersInOrder ==
  LET list == NodesFrom(sch, sch.sleep)
  IN  /\ {list[i] : i \in 1 .. Len(list)} = At("asleep")
      /\ Len(list) = Cardinality(At("asleep"))
      /\ \A i, j \in 1 .. Len(list) : i < j => sch.wake[list[i]] <= sch.wake[list[j]]
      /\ \A i \in 1 .. Len(list) : sch.wake[list[i]] > now

\* The lists read from their heads are the queues of the abstract scheduler, and
\* every function does to them what the abstract scheduler allows: first in, first
\* out within a priority, the highest priority first, rotation at quantum's end.
Fifo == INSTANCE PriorityFifo WITH
  ready <- [p \in Prio |-> NodesFrom(sch, sch.head[p])],
  asleep <- NodesFrom(sch, sch.sleep),
  level <- [t \in Tasks |-> Clamp(sch.prio[t])],
  wakeAt <- sch.wake,
  current <- sch.current,
  running <- {t \in Tasks : sch.state[t] = "RUNNING"},
  left <- sch.slice,
  Delays <- {AtLeastOne(ms) : ms \in Delays}

ImplementsFifo == Fifo!Spec
=============================================================================
