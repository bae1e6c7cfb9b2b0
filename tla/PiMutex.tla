------------------------------ MODULE PiMutex -------------------------------
(***************************************************************************)
(* The priority-inheriting, recursive mutex of ipc/mk_mutex.c, over the    *)
(* ready queues it reorders and the port priorities it sets.  A task is in *)
(* a call between two of its critical sections; what it read before one    *)
(* (the current task, the owner's port handle) it uses after.              *)
(*                                                                         *)
(* The quantum tick is left out: it reorders a level, which no step here   *)
(* looks at.                                                               *)
(***************************************************************************)
EXTENDS ReadyQueue

CONSTANTS
  Mutexes,
  Base,        \* base_priority of each task
  MaxDepth     \* bound on the nesting of locks by one task

ASSUME MutexAssumption ==
  /\ Base \in [Tasks -> Nat \ {0}]     \* MK_PRIO_IDLE, the lowest, is 1
  /\ MaxDepth \in Nat
  /\ Mutexes # {}

VARIABLES
  sch,     \* the ready queues and the control blocks
  mx,      \* each mutex
  port,    \* the priority each task really runs at, given by the port
  call,    \* where each task is in the call it is making
  held     \* what the results of its calls have told each task it holds

vars == <<sch, mx, port, call, held>>

Mutex == [locked : BOOLEAN, count : Nat, owner : Link, tcb : Link, original : Nat]
Wait == {"try", "timed", "forever"}     \* timeout_ms: 0, a number, 0xFFFFFFFF
Pc == {"out", "made", "run", "enter", "boost", "poll", "check", "unboost"}
Call == [ pc : Pc, m : Mutexes, wait : Wait, self : Link,
          victim : Link, then : {"poll", "check"}, prio : Nat ]

\* The port priority of a kernel priority.
MapPort(p) ==
  CASE p = 1 -> 2 [] p = 2 -> 3 [] p = 3 -> 12 [] p = 4 -> 5
    [] p = 5 -> 8 [] p = 6 -> 10 [] p = 7 -> 16 [] OTHER -> 8

NoCall == [ pc |-> "out", m |-> CHOOSE m \in Mutexes : TRUE, wait |-> "try", self |-> NoTask,
            victim |-> NoTask, then |-> "poll", prio |-> 0 ]
Idle(t) == [NoCall EXCEPT !.pc = "run"]

TypeOK ==
  /\ sch \in Sched
  /\ mx \in [Mutexes -> Mutex]
  /\ port \in [Tasks -> Nat]
  /\ call \in [Tasks -> Call]
  /\ held \in [Tasks -> [Mutexes -> Nat]]

Init ==
  /\ sch = InitSched
  /\ mx = [m \in Mutexes |-> [locked |-> FALSE, count |-> 0, owner |-> NoTask,
                              tcb |-> NoTask, original |-> 0]]
  /\ port = [t \in Tasks |-> 0]
  /\ call = [t \in Tasks |-> NoCall]
  /\ held = [t \in Tasks |-> [m \in Mutexes |-> 0]]

\* mk_task_create_ext, and mk_port_task_wrapper once the gate is open.
Admit(t) ==
  /\ call[t].pc = "out"
  /\ sch' = AddReady(NewTcb(sch, t, Base[t]), t)
  /\ port' = [port EXCEPT ![t] = MapPort(Base[t])]
  /\ call' = [call EXCEPT ![t].pc = "made"]
  /\ UNCHANGED <<mx, held>>

Launch(t) ==
  /\ call[t].pc = "made"
  /\ sch' = [sch EXCEPT !.state[t] = "RUNNING", !.current = t]
  /\ call' = [call EXCEPT ![t].pc = "run"]
  /\ UNCHANGED <<mx, port, held>>

-----------------------------------------------------------------------------
(* mk_mutex_lock                                                           *)

\* s_current_task is taken for the caller's control block, before the lock.
LockCall(t, m, wait) ==
  /\ call[t].pc = "run" /\ held[t][m] < MaxDepth
  /\ call' = [call EXCEPT ![t] = [NoCall EXCEPT !.pc = "enter", !.m = m, !.wait = wait,
                                                !.self = sch.current]]
  /\ UNCHANGED <<sch, mx, port, held>>

Return(t) == call' = [call EXCEPT ![t] = Idle(t)]

\* Mutant of Take: the poll loop that takes the mutex without looking at it again.
TakeUnchecked(t, original) ==
  LET m == call[t].m
  IN  /\ mx' = [mx EXCEPT ![m] = [locked |-> TRUE, count |-> 1, owner |-> t, tcb |-> call[t].self,
                                  original |-> original]]
      /\ held' = [held EXCEPT ![t][m] = @ + 1]
      /\ Return(t)
      /\ UNCHANGED <<sch, port>>

Take(t, original) ==
  LET m == call[t].m
  IN  /\ ~mx[m].locked
      /\ mx' = [mx EXCEPT ![m] = [locked |-> TRUE, count |-> 1, owner |-> t, tcb |-> call[t].self,
                                  original |-> IF call[t].self = NoTask THEN @.original
                                               ELSE original]]
      /\ held' = [held EXCEPT ![t][m] = @ + 1]
      /\ Return(t)
      /\ UNCHANGED <<sch, port>>

LockFree(t) ==
  call[t].pc = "enter" /\ Take(t, IF call[t].self = NoTask THEN 0 ELSE sch.prio[call[t].self])

LockAgain(t) ==
  LET m == call[t].m
  IN  /\ call[t].pc = "enter" /\ mx[m].locked /\ mx[m].owner = t
      /\ mx' = [mx EXCEPT ![m].count = @ + 1]
      /\ held' = [held EXCEPT ![t][m] = @ + 1]
      /\ Return(t)
      /\ UNCHANGED <<sch, port>>

Contended(t) == mx[call[t].m].locked /\ mx[call[t].m].owner # t

LockTry(t) ==
  /\ call[t].pc = "enter" /\ Contended(t) /\ call[t].wait = "try"
  /\ Return(t)
  /\ UNCHANGED <<sch, mx, port, held>>

\* A task's priority is changed, and it is moved to the tail of its new level.
Reprioritise(s, t, p) == AddReady(RemoveReady([s EXCEPT !.prio[t] = p], t), t)

\* The boost, if the block taken for the caller's has the higher priority; the
\* port priority follows outside the critical section.
BoostOwner(t, then) ==
  LET me == call[t].self
      o == mx[call[t].m].tcb
  IN  IF me # NoTask /\ o # NoTask /\ sch.prio[me] > sch.prio[o]
      THEN /\ sch' = Reprioritise(sch, o, sch.prio[me])
           /\ call' = [call EXCEPT ![t].pc = "boost", ![t].then = then,
                                   ![t].victim = mx[call[t].m].owner]
      ELSE /\ call' = [call EXCEPT ![t].pc = then]
           /\ UNCHANGED sch

LockContend(t) ==
  /\ call[t].pc = "enter" /\ Contended(t) /\ call[t].wait # "try"
  /\ BoostOwner(t, "poll")
  /\ UNCHANGED <<mx, port, held>>

PollFree(t) == call[t].pc = "poll" /\ Take(t, IF call[t].self = NoTask THEN 0 ELSE Base[call[t].self])

PollContend(t) ==
  /\ call[t].pc = "poll" /\ mx[call[t].m].locked
  /\ BoostOwner(t, "check")
  /\ UNCHANGED <<mx, port, held>>

\* mk_port_task_set_priority on the owner remembered from the critical section.
ApplyBoost(t) ==
  /\ call[t].pc = "boost"
  /\ port' = [port EXCEPT ![call[t].victim] = MapPort(sch.prio[call[t].self])]
  /\ call' = [call EXCEPT ![t].pc = call[t].then, ![t].victim = NoTask, ![t].then = "poll"]
  /\ UNCHANGED <<sch, mx, held>>

TimedOut(t) ==
  /\ call[t].pc = "check" /\ call[t].wait = "timed"
  /\ Return(t)
  /\ UNCHANGED <<sch, mx, port, held>>

PollAgain(t) ==
  /\ call[t].pc = "check"
  /\ call' = [call EXCEPT ![t].pc = "poll"]
  /\ UNCHANGED <<sch, mx, port, held>>

-----------------------------------------------------------------------------
(* mk_mutex_unlock                                                         *)

UnlockRefused(t, m) ==
  /\ call[t].pc = "run" /\ (~mx[m].locked \/ mx[m].owner # t)
  /\ UNCHANGED vars

\* Mutants of UnlockNested: the nesting off by one, and one that forgets the owner.
UnlockNestedEarly(t, m) ==
  /\ call[t].pc = "run" /\ mx[m].locked /\ mx[m].owner = t /\ mx[m].count >= 1
  /\ mx' = [mx EXCEPT ![m].count = @ - 1]
  /\ held' = [held EXCEPT ![t][m] = @ - 1]
  /\ UNCHANGED <<sch, port, call>>

UnlockNestedAnyone(t, m) ==
  /\ call[t].pc = "run" /\ mx[m].locked /\ mx[m].count > 1
  /\ mx' = [mx EXCEPT ![m].count = @ - 1]
  /\ held' = [held EXCEPT ![t][m] = @ - 1]
  /\ UNCHANGED <<sch, port, call>>

UnlockNested(t, m) ==
  /\ call[t].pc = "run" /\ mx[m].locked /\ mx[m].owner = t /\ mx[m].count > 1
  /\ mx' = [mx EXCEPT ![m].count = @ - 1]
  /\ held' = [held EXCEPT ![t][m] = @ - 1]
  /\ UNCHANGED <<sch, port, call>>

\* Mutant of UnlockLast: the boosted priority stays.
UnlockLastBoosted(t, m) ==
  /\ call[t].pc = "run" /\ mx[m].locked /\ mx[m].owner = t /\ mx[m].count <= 1
  /\ mx' = [mx EXCEPT ![m] = [locked |-> FALSE, count |-> 0, owner |-> NoTask,
                              tcb |-> NoTask, original |-> @.original]]
  /\ held' = [held EXCEPT ![t][m] = @ - 1]
  /\ UNCHANGED <<sch, port, call>>

\* The owner's control block gets its base priority back.
UnlockLast(t, m) ==
  LET o == mx[m].tcb
      target == IF Base[o] # 0 THEN Base[o] ELSE mx[m].original
      boosted == o # NoTask /\ sch.prio[o] # target
  IN  /\ call[t].pc = "run" /\ mx[m].locked /\ mx[m].owner = t /\ mx[m].count <= 1
      /\ sch' = IF boosted THEN Reprioritise(sch, o, target) ELSE sch
      /\ mx' = [mx EXCEPT ![m] = [locked |-> FALSE, count |-> 0, owner |-> NoTask,
                                  tcb |-> NoTask, original |-> @.original]]
      /\ held' = [held EXCEPT ![t][m] = @ - 1]
      /\ call' = [call EXCEPT ![t].pc = IF boosted THEN "unboost" ELSE "run",
                              ![t].prio = IF boosted THEN target ELSE 0]
      /\ UNCHANGED port

RestorePort(t) ==
  /\ call[t].pc = "unboost"
  /\ port' = [port EXCEPT ![t] = MapPort(call[t].prio)]
  /\ Return(t)
  /\ UNCHANGED <<sch, mx, held>>

-----------------------------------------------------------------------------
Lock(t) ==
  \/ LockFree(t) \/ LockAgain(t) \/ LockTry(t) \/ LockContend(t)
  \/ PollFree(t) \/ PollContend(t) \/ ApplyBoost(t) \/ TimedOut(t) \/ PollAgain(t)

Unlock(t, m) == UnlockRefused(t, m) \/ UnlockNested(t, m) \/ UnlockLast(t, m)

Next ==
  \E t \in Tasks :
    \/ Admit(t) \/ Launch(t)
    \/ \E m \in Mutexes : (\E w \in Wait : LockCall(t, m, w)) \/ Unlock(t, m)
    \/ Lock(t) \/ RestorePort(t)

Spec == Init /\ [][Next]_vars

-----------------------------------------------------------------------------
Admitted == {t \in Tasks : call[t].pc # "out"}
Waiting(t) == call[t].pc \in {"poll", "check"}

\* The mutex keeps account of exactly what its users have been told: the owner and
\* the count are those of the one task that locked without unlocking, through
\* nested locks, refused unlocks, timeouts and concurrent waits.
OwnerExact ==
  \A m \in Mutexes, t \in Tasks :
    held[t][m] = IF mx[m].locked /\ mx[m].owner = t THEN mx[m].count ELSE 0

\* Seen by its users it is a recursive lock: while one task holds it, no call of
\* another returns MK_OK (mk_mutex.c:42-160).
Abstract == INSTANCE RecursiveLock
ImplementsLock == Abstract!Spec

\* A raised priority in the bookkeeping always has a reason: a locked mutex whose
\* owner block it is, and a block of that higher priority (mk_mutex.c:74-78, 142-149).
BoostHasReason ==
  \A t \in Admitted :
    sch.prio[t] # Base[t] =>
      /\ sch.prio[t] \in {Base[u] : u \in Admitted}
      /\ sch.prio[t] > Base[t]
      /\ \E m \in Mutexes : mx[m].locked /\ mx[m].tcb = t
=============================================================================
