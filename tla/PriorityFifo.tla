---------------------------- MODULE PriorityFifo ----------------------------
(***************************************************************************)
(* What the scheduler object promises, without links, bitmap or counts:    *)
(* one first-in-first-out queue per priority, a list of sleepers in waking *)
(* order, and a quantum after which the current task goes behind its peers *)
(* of the same priority.                                                   *)
(***************************************************************************)
EXTENDS Integers, Sequences, SequencesExt

CONSTANTS Tasks, NoTask, NPrio, Quantum, Requests, Delays, MaxTick

VARIABLES
  ready,     \* the queue of each priority
  asleep,    \* sleepers, earliest first, equal wake ticks in order of arrival
  level,     \* the priority of each task
  wakeAt,    \* the tick at which each task was last asked to wake
  current,   \* the task the quantum is charged to
  running,   \* the tasks that were given the processor since last queued
  left,      \* what is left of each task's quantum
  now        \* ticks so far

vars == <<ready, asleep, level, wakeAt, current, running, left, now>>

Prio == 0 .. NPrio - 1
InReady(t) == \E k \in 1 .. Len(ready[level[t]]) : ready[level[t]][k] = t
Refill(n) == IF n = 0 THEN Quantum ELSE n

Init ==
  /\ ready = [p \in Prio |-> << >>]
  /\ asleep = << >>
  /\ level = [t \in Tasks |-> 0]
  /\ wakeAt = [t \in Tasks |-> 0]
  /\ current = NoTask
  /\ running = {}
  /\ left = [t \in Tasks |-> 0]
  /\ now = 0

Enqueue(t, p) ==
  /\ ready' = [ready EXCEPT ![p] = Append(@, t)]
  /\ level' = [level EXCEPT ![t] = p]
  /\ running' = running \ {t}

Dequeue(t) ==
  /\ \E k \in 1 .. Len(ready[level[t]]) :
       /\ ready[level[t]][k] = t
       /\ ready' = [ready EXCEPT ![level[t]] = RemoveAt(@, k)]
  /\ running' = running \ {t}

\* A request above the highest priority is served at the highest.
Admit(t, p) ==
  /\ Enqueue(t, IF p < NPrio THEN p ELSE NPrio - 1)
  /\ left' = [left EXCEPT ![t] = Quantum]
  /\ wakeAt' = [wakeAt EXCEPT ![t] = 0]
  /\ UNCHANGED <<asleep, current, now>>

Withdraw(t) ==
  /\ Dequeue(t)
  /\ level' = [level EXCEPT ![t] = 0]
  /\ wakeAt' = [wakeAt EXCEPT ![t] = 0]
  /\ left' = [left EXCEPT ![t] = 0]
  /\ UNCHANGED <<asleep, current, now>>

Block(t) == Dequeue(t) /\ UNCHANGED <<asleep, level, wakeAt, current, left, now>>

Requeue(t) ==
  /\ Enqueue(t, level[t])
  /\ left' = [left EXCEPT ![t] = Refill(@)]
  /\ UNCHANGED <<asleep, wakeAt, current, now>>

Launch(t) ==
  /\ InReady(t)
  /\ current' = t
  /\ running' = running \cup {t}
  /\ UNCHANGED <<ready, asleep, level, wakeAt, left, now>>

\* The oldest task of the highest non-empty priority.
Pick ==
  \E p \in Prio :
    /\ ready[p] # << >>
    /\ \A q \in Prio : q > p => ready[q] = << >>
    /\ current' = Head(ready[p])
    /\ running' = running \cup {current'}
    /\ UNCHANGED <<ready, asleep, level, wakeAt, left, now>>

\* The first k sleepers are those that wake by w.
WakeBy(k, w) == \A i \in 1 .. Len(asleep) : wakeAt[asleep[i]] <= w <=> i <= k

\* Behind every task that wakes no later.
Sleep(t, ticks) ==
  /\ Dequeue(t)
  /\ \E k \in 0 .. Len(asleep) :
       WakeBy(k, now + ticks) /\ asleep' = InsertAt(asleep, k + 1, t)
  /\ wakeAt' = [wakeAt EXCEPT ![t] = now + ticks]
  /\ UNCHANGED <<level, current, left, now>>

Wake(t) ==
  /\ \E k \in 1 .. Len(asleep) : asleep[k] = t /\ asleep' = RemoveAt(asleep, k)
  /\ Enqueue(t, level[t])
  /\ left' = [left EXCEPT ![t] = Refill(@)]
  /\ UNCHANGED <<wakeAt, current, now>>

\* The queues once the first k sleepers have joined them, one after the other.
Joined(k) ==
  LET joined[j \in 0 .. k] ==
        IF j = 0 THEN ready
        ELSE [joined[j - 1] EXCEPT ![level[asleep[j]]] = Append(@, asleep[j])]
  IN  joined[k]

\* Sleepers whose time has come join their queues in waking order; then the
\* current task is charged, and goes behind its peers when its quantum ends.
SystemTick ==
  /\ now' = IF now < MaxTick THEN now + 1 ELSE now
  /\ \E k \in 0 .. Len(asleep) :
       LET fed == [t \in Tasks |-> IF \E i \in 1 .. k : asleep[i] = t
                                   THEN Refill(left[t]) ELSE left[t]]
           charged == current # NoTask /\ current \in running
           spent == charged /\ fed[current] <= 1
           mine == Joined(k)[level[current]]
       IN  /\ WakeBy(k, now')
           /\ asleep' = SubSeq(asleep, k + 1, Len(asleep))
           /\ left' = IF charged
                      THEN [fed EXCEPT ![current] = IF spent THEN Quantum ELSE @ - 1]
                      ELSE fed
           /\ ready' = IF spent /\ mine # << >> /\ Head(mine) = current
                       THEN [Joined(k) EXCEPT ![level[current]] = Append(Tail(@), current)]
                       ELSE Joined(k)
  /\ UNCHANGED <<level, wakeAt, current, running>>

Next ==
  \/ \E t \in Tasks : \/ \E p \in Requests : Admit(t, p)
                      \/ Withdraw(t) \/ Block(t) \/ Requeue(t) \/ Launch(t) \/ Wake(t)
                      \/ \E d \in Delays : Sleep(t, d)
  \/ Pick
  \/ SystemTick

Spec == Init /\ [][Next]_vars
=============================================================================
