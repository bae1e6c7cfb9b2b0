----------------------------- MODULE ReadyQueue -----------------------------
(***************************************************************************)
(* The functions of components/microkernel/core/mk_scheduler.c as          *)
(* operators on one record: the scheduler's static variables together with *)
(* the task-control-block fields the scheduler reads and writes.  Every    *)
(* function of the file runs inside the one (recursive) kernel critical    *)
(* section, so callers compose these operators within a single action.     *)
(*                                                                         *)
(* The ready bitmap is the set of its bits.  The counters kept only for    *)
(* reports (context switches, runtime ticks, tick jitter) are left out.    *)
(***************************************************************************)
EXTENDS Integers, FiniteSets, Sequences

CONSTANTS
  Tasks,      \* the task control blocks
  NoTask,     \* the null pointer
  NPrio,      \* MK_CONFIG_MAX_PRIORITIES
  Quantum     \* MK_QUANTUM_TICKS

ASSUME QueueAssumption ==
  /\ NoTask \notin Tasks
  /\ IsFiniteSet(Tasks)
  /\ NPrio \in Nat \ {0}
  /\ Quantum \in Nat \ {0}

Prio == 0 .. NPrio - 1
Link == Tasks \cup {NoTask}
TaskState == {"READY", "RUNNING", "BLOCKED", "SLEEPING", "SUSPENDED", "DELETED"}

Sched ==
  [ head : [Prio -> Link], tail : [Prio -> Link], bitmap : SUBSET Prio,
    count : Nat, sleep : Link, current : Link,
    next : [Tasks -> Link], prev : [Tasks -> Link], prio : [Tasks -> Nat],
    state : [Tasks -> TaskState], slice : [Tasks -> Nat], wake : [Tasks -> Nat] ]

\* mk_scheduler_init, with the task table still zero-filled (READY is 0).
InitSched ==
  [ head |-> [p \in Prio |-> NoTask], tail |-> [p \in Prio |-> NoTask],
    bitmap |-> {}, count |-> 0, sleep |-> NoTask, current |-> NoTask,
    next |-> [t \in Tasks |-> NoTask], prev |-> [t \in Tasks |-> NoTask],
    prio |-> [t \in Tasks |-> 0], state |-> [t \in Tasks |-> "READY"],
    slice |-> [t \in Tasks |-> 0], wake |-> [t \in Tasks |-> 0] ]

\* The control block a memset leaves, then the fields mk_task_create_ext sets.
BlankTcb(s, t) ==
  [s EXCEPT !.next[t] = NoTask, !.prev[t] = NoTask, !.prio[t] = 0,
            !.state[t] = "READY", !.slice[t] = 0, !.wake[t] = 0]

NewTcb(s, t, p) == [BlankTcb(s, t) EXCEPT !.prio[t] = p, !.slice[t] = Quantum]

Clamp(p) == IF p >= NPrio THEN NPrio - 1 ELSE p

-----------------------------------------------------------------------------
(* Ready queues                                                            *)

\* mk_scheduler_add_ready: append to the tail of the task's level.
AddReady(s, t) ==
  LET p == Clamp(s.prio[t])
      last == s.tail[p]
  IN  [s EXCEPT !.prio[t] = p,
                !.slice[t] = IF @ = 0 THEN Quantum ELSE @,
                !.prev[t] = last,
                !.next = IF last = NoTask THEN [@ EXCEPT ![t] = NoTask]
                                          ELSE [@ EXCEPT ![t] = NoTask, ![last] = t],
                !.head[p] = IF last = NoTask THEN t ELSE @,
                !.tail[p] = t,
                !.bitmap = @ \cup {p},
                !.count = @ + 1,
                !.state[t] = "READY"]

\* Mutant of RemoveReady: the bit of an emptied level stays set.
RemoveReadyKeepsBit(s, t) ==
  LET p == Clamp(s.prio[t])
      before == s.prev[t]
      after == s.next[t]
  IN  [s EXCEPT !.next = IF before = NoTask THEN [@ EXCEPT ![t] = NoTask]
                                            ELSE [@ EXCEPT ![before] = after, ![t] = NoTask],
                !.prev = IF after = NoTask THEN [@ EXCEPT ![t] = NoTask]
                                           ELSE [@ EXCEPT ![after] = before, ![t] = NoTask],
                !.head[p] = IF before = NoTask THEN after ELSE @,
                !.tail[p] = IF after = NoTask THEN before ELSE @,
                !.count = IF @ > 0 THEN @ - 1 ELSE 0]

\* mk_scheduler_remove_ready: unlink from the level the task's priority names,
\* trusting the task's own links.
RemoveReady(s, t) ==
  LET p == Clamp(s.prio[t])
      before == s.prev[t]
      after == s.next[t]
      newHead == IF before = NoTask THEN after ELSE s.head[p]
  IN  [s EXCEPT !.next = IF before = NoTask THEN [@ EXCEPT ![t] = NoTask]
                                            ELSE [@ EXCEPT ![before] = after, ![t] = NoTask],
                !.prev = IF after = NoTask THEN [@ EXCEPT ![t] = NoTask]
                                           ELSE [@ EXCEPT ![after] = before, ![t] = NoTask],
                !.head[p] = newHead,
                !.tail[p] = IF after = NoTask THEN before ELSE @,
                !.bitmap = IF newHead = NoTask THEN @ \ {p} ELSE @,
                !.count = IF @ > 0 THEN @ - 1 ELSE 0]

\* mk_scheduler_pick_next: the head of the highest level whose bit is set.
PickNext(s) ==
  IF s.bitmap = {} THEN s
  ELSE LET top == CHOOSE p \in s.bitmap : \A q \in s.bitmap : q <= p
           next == s.head[top]
       IN  [s EXCEPT !.current = next,
                     !.state = IF next = NoTask THEN @
                                                ELSE [@ EXCEPT ![next] = "RUNNING"]]

BlockTask(s, t) == [RemoveReady(s, t) EXCEPT !.state[t] = "BLOCKED"]

UnblockTask(s, t) == AddReady(s, t)

-----------------------------------------------------------------------------
(* The list of sleeping tasks, sorted by wake tick                         *)

\* The nodes met from first along the next links.
NodesFrom(s, first) ==
  LET size == Cardinality(Tasks)
      node[k \in 1 .. size] ==
        IF k = 1 THEN first
        ELSE IF node[k - 1] = NoTask THEN NoTask ELSE s.next[node[k - 1]]
      met == {k \in 1 .. size : node[k] # NoTask}
  IN  [k \in 1 .. Cardinality(met) |-> node[k]]

\* mk_scheduler_sleep_task: leave the ready queue, enter the sleep list behind
\* every task that wakes no later.
SleepTask(s, t, wakeAt) ==
  LET r == [RemoveReady(s, t) EXCEPT !.state[t] = "SLEEPING", !.wake[t] = wakeAt]
      first == r.sleep
      list == NodesFrom(r, first)
      Stops(k) == k = Len(list) \/ r.wake[list[k + 1]] > wakeAt
      cur == list[CHOOSE k \in 1 .. Len(list) :
                    Stops(k) /\ \A j \in 1 .. k - 1 : ~Stops(j)]
      after == r.next[cur]
  IN  IF first = NoTask \/ wakeAt < r.wake[first]
      THEN [r EXCEPT !.next[t] = first, !.sleep = t,
                     !.prev = IF first = NoTask THEN [@ EXCEPT ![t] = NoTask]
                                                ELSE [@ EXCEPT ![t] = NoTask, ![first] = t]]
      ELSE [r EXCEPT !.next = [@ EXCEPT ![t] = after, ![cur] = t],
                     !.prev = IF after = NoTask THEN [@ EXCEPT ![t] = cur]
                                                ELSE [@ EXCEPT ![t] = cur, ![after] = t]]

\* mk_scheduler_wake_task: unlink from the sleep list, append to the ready level.
WakeTask(s, t) ==
  LET before == s.prev[t]
      after == s.next[t]
  IN  AddReady([s EXCEPT !.sleep = IF before = NoTask /\ @ = t THEN after ELSE @,
                         !.next = IF before = NoTask THEN [@ EXCEPT ![t] = NoTask]
                                    ELSE [@ EXCEPT ![before] = after, ![t] = NoTask],
                         !.prev = IF after = NoTask THEN [@ EXCEPT ![t] = NoTask]
                                    ELSE [@ EXCEPT ![after] = before, ![t] = NoTask]],
               t)

-----------------------------------------------------------------------------
(* The tick                                                                *)

HeadExpired(s, now) == s.sleep # NoTask /\ s.wake[s.sleep] <= now

\* One turn of the waking loop of mk_scheduler_tick.
WakeHead(s) ==
  LET t == s.sleep
      rest == s.next[t]
  IN  AddReady([s EXCEPT !.sleep = rest,
                         !.prev = IF rest = NoTask THEN [@ EXCEPT ![t] = NoTask]
                                    ELSE [@ EXCEPT ![rest] = NoTask, ![t] = NoTask],
                         !.next[t] = NoTask], t)

\* Mutant of WakeExpired: one sleeper a tick, an if where the code has a loop.
WakeExpiredOnce(s, now) == IF HeadExpired(s, now) THEN WakeHead(s) ELSE s

WakeExpired(s, now) ==
  IF ~HeadExpired(s, now) THEN s
  ELSE LET turn[k \in 0 .. Cardinality(Tasks)] ==
             IF k = 0 THEN s
             ELSE IF HeadExpired(turn[k - 1], now) THEN WakeHead(turn[k - 1])
                                                   ELSE turn[k - 1]
       IN  turn[Cardinality(Tasks)]

\* The head of level p becomes its tail.
RotateHead(s, p) ==
  LET first == s.head[p]
      second == s.next[first]
      last == s.tail[p]
  IN  [s EXCEPT !.head[p] = second, !.tail[p] = first,
                !.prev = [@ EXCEPT ![second] = NoTask, ![first] = last],
                !.next = [@ EXCEPT ![last] = first, ![first] = NoTask]]

\* Mutants of Account: a quantum that is never reloaded, and one whose end lets the
\* current task stay ahead of its peers.
AccountNoReload(s) ==
  LET c == s.current
  IN  IF c = NoTask \/ s.state[c] # "RUNNING" THEN s ELSE [s EXCEPT !.slice[c] = @ - 1]

AccountNoRotation(s) ==
  LET c == s.current
  IN  IF c = NoTask \/ s.state[c] # "RUNNING" THEN s
      ELSE [s EXCEPT !.slice[c] = IF @ > 1 THEN @ - 1 ELSE Quantum]

\* The quantum of the current task, and the rotation when it is used up.
Account(s) ==
  LET c == s.current
      left == IF s.slice[c] > 0 THEN s.slice[c] - 1 ELSE 0
      p == s.prio[c]
      r == [s EXCEPT !.slice[c] = Quantum]
  IN  IF c = NoTask \/ s.state[c] # "RUNNING" THEN s
      ELSE IF left > 0 THEN [s EXCEPT !.slice[c] = left]
      ELSE IF p < NPrio /\ s.head[p] # s.tail[p] /\ s.head[p] = c /\ s.next[c] # NoTask
           THEN RotateHead(r, p)
           ELSE r

\* mk_scheduler_tick, with now the already incremented s_system_ticks.
Tick(s, now) == Account(WakeExpired(s, now))

-----------------------------------------------------------------------------
(* What it means for the links, the bitmap and the count to describe       *)
(* exactly the tasks of q, each queued at its own priority.                *)

LevelsWellFormed(s, q) ==
  \A p \in Prio :
    /\ s.head[p] = NoTask <=> s.tail[p] = NoTask
    /\ s.head[p] # NoTask => s.head[p] \in q /\ s.prio[s.head[p]] = p
                             /\ s.prev[s.head[p]] = NoTask
    /\ s.tail[p] # NoTask => s.tail[p] \in q /\ s.prio[s.tail[p]] = p
                             /\ s.next[s.tail[p]] = NoTask

LinksWellFormed(s, q) ==
  \A t \in q :
    /\ s.prio[t] \in Prio
    /\ IF s.prev[t] = NoTask THEN s.head[s.prio[t]] = t
       ELSE s.prev[t] \in q /\ s.next[s.prev[t]] = t /\ s.prio[s.prev[t]] = s.prio[t]
    /\ IF s.next[t] = NoTask THEN s.tail[s.prio[t]] = t
       ELSE s.next[t] \in q /\ s.prev[s.next[t]] = t /\ s.prio[s.next[t]] = s.prio[t]

BitmapExact(s) == s.bitmap = {p \in Prio : s.head[p] # NoTask}

CountExact(s, q) == s.count = Cardinality(q)

Queued(s, q) ==
  LevelsWellFormed(s, q) /\ LinksWellFormed(s, q) /\ BitmapExact(s) /\ CountExact(s, q)
=============================================================================
