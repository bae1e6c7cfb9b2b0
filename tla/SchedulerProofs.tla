--------------------------- MODULE SchedulerProofs ---------------------------
(***************************************************************************)
(* The scheduler object with tasks asleep, for any number of tasks and     *)
(* priorities: the ready queues stay exact, the sleep list holds the       *)
(* sleepers in waking order, and every function does to the queues what    *)
(* the abstract scheduler PriorityFifo allows.                             *)
(*                                                                         *)
(* A list read along its links is the function that numbers its tasks, so  *)
(* each change of links becomes an Append, RemoveAt, InsertAt or Tail.     *)
(***************************************************************************)
EXTENDS Scheduler, ReadyQueueProofs, SequenceTheorems

-----------------------------------------------------------------------------
(* The invariant                                                           *)

\* The ready queues and the sleep list hold exactly the tasks the client left in them,
\* and no sleeper is due.
Accounted(s, R, A, tick) ==
  /\ s \in Sched /\ Queued(s, R) /\ Sleepers(s, A)
  /\ \A t \in A : s.wake[t] > tick

SchedInv == TypeOK /\ Accounted(sch, At("ready"), At("asleep"), now)

\* What every step shows: the scheduler accounts for the lists the client now has.
LEMMA Reaccounted ==
  ASSUME TypeOK, now' \in 0 .. MaxTick, place' \in [Tasks -> Place],
         NEW R, R = {t \in Tasks : place'[t] = "ready"},
         NEW A, A = {t \in Tasks : place'[t] = "asleep"},
         Accounted(sch', R, A, now')
  PROVE  SchedInv'
BY DEF SchedInv, TypeOK, Accounted, At

\* A move of one task between two of the client's places.
LEMMA Moved ==
  ASSUME TypeOK, NEW t \in Tasks, NEW from \in Place, NEW to \in Place, from # to,
         Move(t, from, to)
  PROVE  /\ place' \in [Tasks -> Place] /\ t \in At(from)
         /\ {u \in Tasks : place'[u] = from} = At(from) \ {t}
         /\ {u \in Tasks : place'[u] = to} = At(to) \cup {t}
         /\ \A w \in Place \ {from, to} : {u \in Tasks : place'[u] = w} = At(w)
BY DEF TypeOK, Move, At

\* What is left of the sleepers is accounted for when their links and ticks stay.
LEMMA AccountedFrame ==
  ASSUME NEW s \in Sched, NEW r \in Sched, NEW R, NEW A \in SUBSET Tasks, NEW tick,
         Sleepers(s, A), \A t \in A : s.wake[t] > tick, SameSleepers(r, s, A), Queued(r, R)
  PROVE  Accounted(r, R, A, tick)
BY SleepersFrame DEF Accounted, SameSleepers

LEMMA SameSleepersTrans ==
  ASSUME NEW s, NEW r, NEW x, NEW A, SameSleepers(r, s, A), SameSleepers(x, r, A)
  PROVE  SameSleepers(x, s, A)
BY DEF SameSleepers

\* A change of state names touches no list.
LEMMA StateSleepers ==
  ASSUME NEW s \in Sched, NEW R \in SUBSET Tasks, NEW A \in SUBSET Tasks, Queued(s, R),
         NEW t \in Tasks, NEW name \in TaskState
  PROVE  /\ [s EXCEPT !.state[t] = name] \in Sched /\ Queued([s EXCEPT !.state[t] = name], R)
         /\ SameSleepers([s EXCEPT !.state[t] = name], s, A)
<1>1. [s EXCEPT !.state[t] = name] \in Sched /\ Queued([s EXCEPT !.state[t] = name], R)
  BY StateFrame
<1>2. SameSleepers([s EXCEPT !.state[t] = name], s, A)
  BY DEF SameSleepers, Sched
<1>3. QED
  BY <1>1, <1>2

LEMMA InitAccounted == Accounted(InitSched, {}, {}, 0)
<1> DEFINE q == [i \in 1 .. 0 |-> NoTask]
<1>1. InitSched \in Sched
  BY QueueAssumption DEF InitSched, Sched, Link, TaskState
<1>2. Queued(InitSched, {})
  <2>1. Cardinality({}) = 0
    BY FS_EmptySet
  <2>2. QED
    BY <2>1 DEF InitSched, Queued, LevelsWellFormed, LinksWellFormed, BitmapExact, CountExact
<1>3. SleepList(InitSched, {}, 0, q)
  <2>1. 0 \in Nat /\ q \in [1 .. 0 -> Tasks] /\ InitSched.sleep = NoTask
    BY DEF InitSched
  <2>2. Chain(InitSched.next, InitSched.prev, InitSched.sleep, 0, q)
    BY <2>1 DEF Chain
  <2>3. QED
    BY <2>2 DEF SleepList, OnList
<1>4. QED
  BY <1>1, <1>2, <1>3 DEF Accounted, Sleepers

LEMMA AdmitAccounted ==
  ASSUME NEW s, NEW R \in SUBSET Tasks, NEW A \in SUBSET Tasks, R \cap A = {}, NEW tick,
         Accounted(s, R, A, tick), NEW t \in Tasks, t \notin R, t \notin A, NEW p \in Nat
  PROVE  Accounted(AddReady(NewTcb(s, t, p), t), R \cup {t}, A, tick)
<1> DEFINE b == NewTcb(s, t, p)
           r == AddReady(b, t)
<1>1. s \in Sched /\ Queued(s, R) /\ Sleepers(s, A) /\ \A u \in A : s.wake[u] > tick
  BY DEF Accounted
<1>2. b \in Sched /\ Queued(b, R) /\ SameSleepers(b, s, A)
  BY <1>1, NewTcbFields, TcbQueued, TcbSleepers
<1> HIDE DEF b
<1>3. r \in Sched /\ Queued(r, R \cup {t}) /\ SameSleepers(r, b, A)
  BY <1>2, AddReadyType, AddReadyQueued, AddReadySleepers
<1> HIDE DEF r
<1>4. SameSleepers(r, s, A)
  BY <1>2, <1>3, SameSleepersTrans
<1>5. Accounted(r, R \cup {t}, A, tick)
  BY <1>1, <1>3, <1>4, AccountedFrame
<1>6. QED
  BY <1>5 DEF r, b

LEMMA RetireAccounted ==
  ASSUME NEW s, NEW R \in SUBSET Tasks, NEW A \in SUBSET Tasks, R \cap A = {}, NEW tick,
         Accounted(s, R, A, tick), NEW t \in R
  PROVE  Accounted(BlankTcb(RemoveReady([s EXCEPT !.state[t] = "DELETED"], t), t), R \ {t}, A, tick)
<1> DEFINE a == [s EXCEPT !.state[t] = "DELETED"]
           b == RemoveReady(a, t)
           r == BlankTcb(b, t)
           R1 == R \ {t}
<1>1. s \in Sched /\ Queued(s, R) /\ Sleepers(s, A) /\ \A u \in A : s.wake[u] > tick
  BY DEF Accounted
<1>2. a \in Sched /\ Queued(a, R) /\ SameSleepers(a, s, A)
  <2>1. "DELETED" \in TaskState
    BY DEF TaskState
  <2>2. QED
    BY <1>1, <2>1, StateSleepers
<1> HIDE DEF a
<1>3. b \in Sched /\ Queued(b, R1) /\ SameSleepers(b, a, A)
  BY <1>2, RemoveReadyType, RemoveReadyQueued, RemoveReadySleepers
<1>4. R1 \in SUBSET Tasks /\ t \notin R1 /\ t \notin A /\ t \in Tasks /\ 0 \in Nat
  OBVIOUS
<1> HIDE DEF b, R1
<1>5. r \in Sched /\ Queued(r, R1) /\ SameSleepers(r, b, A)
  BY <1>3, <1>4, BlankTcbFields, TcbQueued, TcbSleepers
<1> HIDE DEF r
<1>6. SameSleepers(r, s, A)
  BY <1>2, <1>3, <1>5, SameSleepersTrans
<1>7. Accounted(r, R1, A, tick)
  BY <1>1, <1>5, <1>6, AccountedFrame
<1>8. QED
  BY <1>7 DEF r, b, a, R1

LEMMA BlockAccounted ==
  ASSUME NEW s, NEW R \in SUBSET Tasks, NEW A \in SUBSET Tasks, R \cap A = {}, NEW tick,
         Accounted(s, R, A, tick), NEW t \in R
  PROVE  Accounted(BlockTask(s, t), R \ {t}, A, tick)
<1> DEFINE b == RemoveReady(s, t)
           r == [b EXCEPT !.state[t] = "BLOCKED"]
           R1 == R \ {t}
<1>1. s \in Sched /\ Queued(s, R) /\ Sleepers(s, A) /\ \A u \in A : s.wake[u] > tick
  BY DEF Accounted
<1>2. b \in Sched /\ Queued(b, R1) /\ SameSleepers(b, s, A)
  BY <1>1, RemoveReadyType, RemoveReadyQueued, RemoveReadySleepers
<1>3. R1 \in SUBSET Tasks /\ "BLOCKED" \in TaskState
  BY DEF TaskState
<1> HIDE DEF b, R1
<1>4. r \in Sched /\ Queued(r, R1) /\ SameSleepers(r, b, A)
  BY <1>2, <1>3, StateSleepers
<1> HIDE DEF r
<1>5. SameSleepers(r, s, A)
  BY <1>2, <1>4, SameSleepersTrans
<1>6. Accounted(r, R1, A, tick)
  BY <1>1, <1>4, <1>5, AccountedFrame
<1>7. QED
  BY <1>6 DEF BlockTask, r, b, R1

LEMMA UnblockAccounted ==
  ASSUME NEW s, NEW R \in SUBSET Tasks, NEW A \in SUBSET Tasks, R \cap A = {}, NEW tick,
         Accounted(s, R, A, tick), NEW t \in Tasks, t \notin R, t \notin A
  PROVE  Accounted(UnblockTask(s, t), R \cup {t}, A, tick)
<1>1. s \in Sched /\ Queued(s, R) /\ Sleepers(s, A) /\ \A u \in A : s.wake[u] > tick
  BY DEF Accounted
<1> DEFINE r == AddReady(s, t)
<1>2. r \in Sched /\ Queued(r, R \cup {t}) /\ SameSleepers(r, s, A)
  BY <1>1, AddReadyType, AddReadyQueued, AddReadySleepers
<1> HIDE DEF r
<1>3. Accounted(r, R \cup {t}, A, tick)
  BY <1>1, <1>2, AccountedFrame
<1>4. QED
  BY <1>3 DEF UnblockTask, r

LEMMA SleepAccounted ==
  ASSUME NEW s, NEW R \in SUBSET Tasks, NEW A \in SUBSET Tasks, R \cap A = {}, NEW tick,
         Accounted(s, R, A, tick), NEW t \in R, NEW wakeAt \in Nat, wakeAt > tick
  PROVE  Accounted(SleepTask(s, t, wakeAt), R \ {t}, A \cup {t}, tick)
<1>1. s \in Sched /\ Queued(s, R) /\ Sleepers(s, A) /\ \A u \in A : s.wake[u] > tick
  BY DEF Accounted
<1> DEFINE r == SleepTask(s, t, wakeAt)
<1>2. /\ r \in Sched /\ Queued(r, R \ {t}) /\ Sleepers(r, A \cup {t})
      /\ r.wake = [s.wake EXCEPT ![t] = wakeAt]
  <2>1. Slept(SleepTask(s, t, wakeAt), s, R, A, t, wakeAt)
    BY <1>1, SleepTaskSleepers
  <2>2. QED
    BY <2>1 DEF Slept
<1> HIDE DEF r
<1>3. \A u \in A \cup {t} : r.wake[u] > tick
  BY <1>1, <1>2 DEF Sched
<1>4. QED
  BY <1>2, <1>3 DEF Accounted, r

LEMMA WakeAccounted ==
  ASSUME NEW s, NEW R \in SUBSET Tasks, NEW A \in SUBSET Tasks, R \cap A = {}, NEW tick,
         Accounted(s, R, A, tick), NEW t \in A
  PROVE  Accounted(WakeTask(s, t), R \cup {t}, A \ {t}, tick)
<1>1. s \in Sched /\ Queued(s, R) /\ Sleepers(s, A) /\ \A u \in A : s.wake[u] > tick
  BY DEF Accounted
<1> DEFINE r == WakeTask(s, t)
<1>2. /\ r \in Sched /\ Queued(r, R \cup {t}) /\ Sleepers(r, A \ {t}) /\ r.wake = s.wake
  <2>1. PICK n, q : \E k \in 1 .. n : q[k] = t /\ Roused(r, s, R, A, n, q, k)
    BY <1>1, WakeTaskSleepers
  <2> HIDE DEF r
  <2>2. PICK k \in 1 .. n : q[k] = t /\ Roused(r, s, R, A, n, q, k)
    BY <2>1
  <2>3. QED
    BY <2>2 DEF Roused, Sleepers
<1> HIDE DEF r
<1>3. QED
  BY <1>1, <1>2 DEF Accounted, r

LEMMA TickAccounted ==
  ASSUME NEW s, NEW R \in SUBSET Tasks, NEW A \in SUBSET Tasks, R \cap A = {}, NEW tick,
         Accounted(s, R, A, tick), NEW after \in Nat, NEW D, D = Due(s, A, after)
  PROVE  Accounted(Tick(s, after), R \cup D, A \ D, after)
<1>1. s \in Sched /\ Queued(s, R) /\ Sleepers(s, A)
  BY DEF Accounted
<1> DEFINE r == Tick(s, after)
<1>2. /\ r \in Sched /\ Queued(r, R \cup D) /\ Sleepers(r, A \ D)
      /\ \A t \in A \ D : r.wake[t] = s.wake[t]
  BY <1>1, TickSleepers
<1> HIDE DEF r
<1>3. \A t \in A \ D : s.wake[t] > after
  <2> TAKE t \in A \ D
  <2>1. s.wake[t] \in Nat /\ ~ (s.wake[t] <= after)
    BY <1>1 DEF Sched, Due
  <2>2. QED
    BY <2>1
<1>4. QED
  BY <1>2, <1>3 DEF Accounted, r

LEMMA RunAccounted ==
  ASSUME NEW s, NEW R \in SUBSET Tasks, NEW A \in SUBSET Tasks, R \cap A = {}, NEW tick,
         Accounted(s, R, A, tick), NEW t \in Tasks
  PROVE  /\ Accounted(PickNext(s), R, A, tick)
         /\ Accounted([s EXCEPT !.state[t] = "RUNNING", !.current = t], R, A, tick)
<1>1. s \in Sched /\ Queued(s, R) /\ Sleepers(s, A) /\ \A u \in A : s.wake[u] > tick
  BY DEF Accounted
<1>2. Accounted(PickNext(s), R, A, tick)
  BY <1>1, PickNextSleepers, AccountedFrame
<1> DEFINE state == [s.state EXCEPT ![t] = "RUNNING"]
           r == [s EXCEPT !.state = state, !.current = t]
<1>3. state \in [Tasks -> TaskState] /\ t \in Link
  BY <1>1 DEF Sched, TaskState, Link
<1>4. [s EXCEPT !.state[t] = "RUNNING", !.current = t] = r
  BY <1>1 DEF Sched
<1> HIDE DEF r, state
<1>5. r \in Sched /\ Queued(r, R) /\ SameSleepers(r, s, A)
  BY <1>1, <1>3, RunFrame DEF r
<1>6. Accounted(r, R, A, tick)
  BY <1>1, <1>5, AccountedFrame
<1>7. QED
  BY <1>2, <1>4, <1>6

THEOREM SchedulerInvariant == Spec => []SchedInv
<1>1. Init => SchedInv
  <2> SUFFICES ASSUME Init
               PROVE  SchedInv
    OBVIOUS
  <2>1. TypeOK
    <3>1. InitSched \in Sched
      BY InitAccounted DEF Accounted
    <3>2. QED
      BY <3>1, SchedulerAssumption DEF Init, TypeOK, Place
  <2>2. At("ready") = {} /\ At("asleep") = {}
    BY DEF Init, At
  <2>3. QED
    BY <2>1, <2>2, InitAccounted DEF Init, SchedInv
<1>2. SchedInv /\ [Next]_vars => SchedInv'
  <2> SUFFICES ASSUME SchedInv, [Next]_vars
               PROVE  SchedInv'
    OBVIOUS
  <2> DEFINE R == At("ready")
             A == At("asleep")
             R1 == {t \in Tasks : place'[t] = "ready"}
             A1 == {t \in Tasks : place'[t] = "asleep"}
  <2>1. /\ TypeOK /\ Accounted(sch, R, A, now) /\ sch \in Sched
        /\ R \in SUBSET Tasks /\ A \in SUBSET Tasks /\ R \cap A = {}
        /\ now \in 0 .. MaxTick /\ now \in Nat /\ place \in [Tasks -> Place] /\ MaxTick \in Nat
    BY SchedulerAssumption DEF SchedInv, TypeOK, At
  <2>2. ASSUME now' = now, place' \in [Tasks -> Place], Accounted(sch', R1, A1, now)
        PROVE  SchedInv'
    BY <2>1, <2>2, Reaccounted
  <2>3. ASSUME now' = now, place' = place, Accounted(sch', R, A, now)
        PROVE  SchedInv'
    <3>1. R1 = R /\ A1 = A
      BY <2>3 DEF At
    <3> HIDE DEF R, A, R1, A1
    <3>2. QED
      BY <2>1, <2>2, <2>3, <3>1
  <2>4. \A t \in Tasks : (t \in R <=> place[t] = "ready") /\ (t \in A <=> place[t] = "asleep")
    BY DEF At
  <2> HIDE DEF R, A
  <2>5. ASSUME NEW t \in Tasks, NEW p \in Requests, Admit(t, p)
        PROVE  SchedInv'
    <3>1. /\ place' \in [Tasks -> Place] /\ R1 = R \cup {t} /\ A1 = A /\ t \notin R /\ t \notin A
      <4>1. Move(t, "out", "ready")
        BY <2>5 DEF Admit
      <4>2. QED
        BY <2>1, <2>4, <4>1, Moved DEF Place, R, A, Move
    <3>2. p \in Nat /\ now' = now /\ sch' = AddReady(NewTcb(sch, t, p), t)
      BY <2>5, SchedulerAssumption DEF Admit
    <3> HIDE DEF R1, A1
    <3>3. Accounted(sch', R \cup {t}, A, now)
      BY <2>1, <3>1, <3>2, AdmitAccounted
    <3>4. QED
      BY <2>2, <3>1, <3>2, <3>3
  <2>6. ASSUME NEW t \in Tasks, Retire(t)
        PROVE  SchedInv'
    <3>1. /\ place' \in [Tasks -> Place] /\ R1 = R \ {t} /\ A1 = A /\ t \in R
      <4>1. Move(t, "ready", "out")
        BY <2>6 DEF Retire
      <4>2. QED
        BY <2>1, <2>4, <4>1, Moved DEF Place, R, A, Move
    <3>2. /\ now' = now
          /\ sch' = BlankTcb(RemoveReady([sch EXCEPT !.state[t] = "DELETED"], t), t)
      BY <2>6 DEF Retire
    <3> HIDE DEF R1, A1
    <3>3. Accounted(sch', R \ {t}, A, now)
      BY <2>1, <3>1, <3>2, RetireAccounted
    <3>4. QED
      BY <2>2, <3>1, <3>2, <3>3
  <2>7. ASSUME NEW t \in Tasks, Launch(t)
        PROVE  SchedInv'
    <3>1. now' = now /\ place' = place
          /\ sch' = [sch EXCEPT !.state[t] = "RUNNING", !.current = t]
      BY <2>7 DEF Launch
    <3>2. Accounted(sch', R, A, now)
      BY <2>1, <3>1, RunAccounted
    <3>3. QED
      BY <2>3, <3>1, <3>2
  <2>8. ASSUME NEW t \in Tasks, Block(t)
        PROVE  SchedInv'
    <3>1. /\ place' \in [Tasks -> Place] /\ R1 = R \ {t} /\ A1 = A /\ t \in R
      <4>1. Move(t, "ready", "blocked")
        BY <2>8 DEF Block
      <4>2. QED
        BY <2>1, <2>4, <4>1, Moved DEF Place, R, A, Move
    <3>2. now' = now /\ sch' = BlockTask(sch, t)
      BY <2>8 DEF Block
    <3> HIDE DEF R1, A1
    <3>3. Accounted(sch', R \ {t}, A, now)
      BY <2>1, <3>1, <3>2, BlockAccounted
    <3>4. QED
      BY <2>2, <3>1, <3>2, <3>3
  <2>9. ASSUME NEW t \in Tasks, Unblock(t)
        PROVE  SchedInv'
    <3>1. /\ place' \in [Tasks -> Place] /\ R1 = R \cup {t} /\ A1 = A /\ t \notin R /\ t \notin A
      <4>1. Move(t, "blocked", "ready")
        BY <2>9 DEF Unblock
      <4>2. QED
        BY <2>1, <2>4, <4>1, Moved DEF Place, R, A, Move
    <3>2. now' = now /\ sch' = UnblockTask(sch, t)
      BY <2>9 DEF Unblock
    <3> HIDE DEF R1, A1
    <3>3. Accounted(sch', R \cup {t}, A, now)
      BY <2>1, <3>1, <3>2, UnblockAccounted
    <3>4. QED
      BY <2>2, <3>1, <3>2, <3>3
  <2>10. ASSUME NEW t \in Tasks, Wake(t)
         PROVE  SchedInv'
    <3>1. /\ place' \in [Tasks -> Place] /\ R1 = R \cup {t} /\ A1 = A \ {t} /\ t \in A
      <4>1. Move(t, "asleep", "ready")
        BY <2>10 DEF Wake
      <4>2. QED
        BY <2>1, <2>4, <4>1, Moved DEF Place, R, A, Move
    <3>2. now' = now /\ sch' = WakeTask(sch, t)
      BY <2>10 DEF Wake
    <3> HIDE DEF R1, A1
    <3>3. Accounted(sch', R \cup {t}, A \ {t}, now)
      BY <2>1, <3>1, <3>2, WakeAccounted
    <3>4. QED
      BY <2>2, <3>1, <3>2, <3>3
  <2>11. ASSUME NEW t \in Tasks, NEW ms \in Delays, Sleep(t, ms)
         PROVE  SchedInv'
    <3>1. /\ place' \in [Tasks -> Place] /\ R1 = R \ {t} /\ A1 = A \cup {t} /\ t \in R
      <4>1. Move(t, "ready", "asleep")
        BY <2>11 DEF Sleep
      <4>2. QED
        BY <2>1, <2>4, <4>1, Moved DEF Place, R, A, Move
    <3> DEFINE wakeAt == now + AtLeastOne(ms)
    <3>2. now' = now /\ sch' = SleepTask(sch, t, wakeAt)
      BY <2>11 DEF Sleep
    <3>3. wakeAt \in Nat /\ wakeAt > now
      <4>1. ms \in Nat
        BY SchedulerAssumption
      <4>2. QED
        BY <2>1, <4>1 DEF AtLeastOne
    <3> HIDE DEF R1, A1, wakeAt
    <3>4. Accounted(sch', R \ {t}, A \cup {t}, now)
      BY <2>1, <3>1, <3>2, <3>3, SleepAccounted
    <3>5. QED
      BY <2>2, <3>1, <3>2, <3>4
  <2>12. CASE Pick
    <3>1. now' = now /\ place' = place /\ sch' = PickNext(sch)
      BY <2>12 DEF Pick
    <3>2. Accounted(sch', R, A, now)
      <4>1. CASE \E t \in Tasks : TRUE
        BY <2>1, <3>1, <4>1, RunAccounted
      <4>2. CASE Tasks = {}
        <5>1. \A u \in A : sch.wake[u] > now
          BY <2>1, <4>2
        <5>2. Queued(sch, R) /\ Sleepers(sch, A)
          BY <2>1 DEF Accounted
        <5>3. QED
          BY <2>1, <3>1, <5>1, <5>2, PickNextSleepers, AccountedFrame
      <4>3. QED
        BY <4>1, <4>2
    <3>3. QED
      BY <2>3, <3>1, <3>2
  <2>13. CASE SystemTick
    <3> DEFINE after == IF now < MaxTick THEN now + 1 ELSE now
               D == Due(sch, A, after)
    <3>1. /\ now' = after /\ sch' = Tick(sch, after)
          /\ place' = [t \in Tasks |-> IF place[t] = "asleep" /\ sch.wake[t] <= after
                                       THEN "ready" ELSE place[t]]
      BY <2>13 DEF SystemTick
    <3>2. after \in Nat /\ after \in 0 .. MaxTick
      BY <2>1
    <3> HIDE DEF after
    <3>3. place' \in [Tasks -> Place] /\ R1 = R \cup D /\ A1 = A \ D
      <4>1. "ready" \in Place
        BY DEF Place
      <4>2. \A t \in Tasks : t \in D <=> place[t] = "asleep" /\ sch.wake[t] <= after
        BY <2>4 DEF Due
      <4>3. D \in SUBSET Tasks
        BY <2>1 DEF Due
      <4> HIDE DEF D
      <4>4. QED
        BY <2>1, <2>4, <3>1, <4>1, <4>2, <4>3
    <3> HIDE DEF D, R1, A1
    <3>4. Accounted(sch', R \cup D, A \ D, after)
      BY <2>1, <3>1, <3>2, TickAccounted DEF D
    <3>5. QED
      <4>1. Accounted(sch', R1, A1, now') /\ now' \in 0 .. MaxTick
        BY <3>1, <3>2, <3>3, <3>4
      <4>2. QED
        BY <2>1, <3>3, <4>1, Reaccounted DEF R1, A1
  <2>14. CASE UNCHANGED vars
    <3>1. now' = now /\ place' = place /\ sch' = sch
      BY <2>14 DEF vars
    <3>2. QED
      BY <2>1, <2>3, <3>1
  <2>15. QED
    BY <2>5, <2>6, <2>7, <2>8, <2>9, <2>10, <2>11, <2>12, <2>13, <2>14 DEF Next
<1>3. QED
  BY <1>1, <1>2, PTL DEF Spec

\* The tasks of the sleep list, read along the links, are exactly the sleepers.
LEMMA AccountedInOrder ==
  ASSUME SchedInv
  PROVE  SleepersInOrder
<1> DEFINE list == NodesFrom(sch, sch.sleep)
           A == At("asleep")
<1>1. /\ sch \in Sched /\ Sleepers(sch, A) /\ A \in SUBSET Tasks
      /\ \A t \in A : sch.wake[t] > now
  BY DEF SchedInv, Accounted, At
<1> HIDE DEF A
<1>2. PICK n, q : SleepList(sch, A, n, q)
  BY <1>1 DEF Sleepers
<1>3. Chain(sch.next, sch.prev, sch.sleep, n, q) /\ n \in Nat /\ q \in [1 .. n -> Tasks]
  BY <1>2 DEF SleepList, Chain
<1>4. list = q /\ Len(q) = n
  <2>1. list = q
    BY <1>1, <1>3, NodesOfChain
  <2>2. Len(q) = n
    BY <1>3, LenOf
  <2>3. QED
    BY <2>1, <2>2
<1> HIDE DEF list
<1>5. \A i \in 1 .. n : q[i] \in A
  BY <1>2, <1>3 DEF SleepList, OnList
<1>6. \A t \in A : \E i \in 1 .. n : q[i] = t
  BY <1>1, <1>2 DEF SleepList, OnList
<1>7. {list[i] : i \in 1 .. Len(list)} = A
  BY <1>4, <1>5, <1>6
<1>8. Cardinality(A) = n
  <2>1. q \in Bijection(1 .. n, A)
    <3>1. q \in [1 .. n -> A]
      BY <1>3, <1>5
    <3>2. \A i, j \in 1 .. n : q[i] = q[j] => i = j
      BY <1>3 DEF Chain
    <3>3. QED
      BY <3>1, <3>2, <1>6 DEF Bijection, Injection, Surjection, IsInjective
  <2>2. IsFiniteSet(1 .. n) /\ Cardinality(1 .. n) = n
    BY <1>3, FS_Interval
  <2>3. \E f : f \in Bijection(1 .. n, A)
    BY <2>1
  <2>4. ExistsBijection(1 .. n, A)
    BY <2>3 DEF ExistsBijection
  <2>5. QED
    BY <2>2, <2>4, FS_Bijection
<1>9. \A i, j \in 1 .. n : i < j => sch.wake[q[i]] <= sch.wake[q[j]]
  BY <1>2 DEF SleepList
<1>10. QED
  BY <1>1, <1>4, <1>5, <1>7, <1>8, <1>9 DEF SleepersInOrder, list, A

\* The scheduler's variables keep their types.
THEOREM SchedulerTypes == Spec => []TypeOK
<1>1. SchedInv => TypeOK
  BY DEF SchedInv
<1>2. QED
  BY <1>1, SchedulerInvariant, PTL

\* The ready lists, the bitmap and the count describe exactly the ready tasks, whatever
\* was admitted, retired, put to sleep and woken before (mk_scheduler.c:41-88).
THEOREM ReadyQueuesStayExact == Spec => []ReadyQueuesExact
<1>1. SchedInv => ReadyQueuesExact
  BY DEF SchedInv, Accounted, ReadyQueuesExact
<1>2. QED
  BY <1>1, SchedulerInvariant, PTL

\* The sleep list holds every sleeper once, in waking order, and none that is due
\* (mk_scheduler.c:118-133, 178-186).
THEOREM SleepersStayInOrder == Spec => []SleepersInOrder
<1>1. SchedInv => SleepersInOrder
  BY AccountedInOrder
<1>2. QED
  BY <1>1, SchedulerInvariant, PTL

-----------------------------------------------------------------------------
(* The ready queues as sequences                                           *)

\* The lists of the ready levels, read from their heads.
Queue(s) == [p \in Prio |-> NodesFrom(s, s.head[p])]

\* The n tasks of q are the ready tasks of level p, linked in that order.
Line(s, R, p, n, q) ==
  /\ Chain(s.next, s.prev, s.head[p], n, q)
  /\ s.tail[p] = IF n = 0 THEN NoTask ELSE q[n]
  /\ \A t \in Tasks : OnList(n, q, t) <=> t \in R /\ s.prio[t] = p

Lines(s, R) == \A p \in Prio : \E n, q : Line(s, R, p, n, q)

\* A numbered list is a sequence, and the operations of the abstract scheduler on
\* sequences are those of the proofs on numbered lists.
LEMMA ListEqual ==
  ASSUME NEW n \in Nat, NEW q \in [1 .. n -> Tasks], NEW x \in Seq(Tasks), Len(x) = n,
         \A i \in 1 .. n : x[i] = q[i]
  PROVE  x = q
<1>1. x \in [1 .. n -> Tasks]
  BY LenProperties
<1>2. QED
  BY <1>1

LEMMA DroppedList ==
  ASSUME NEW n \in Nat, NEW q \in [1 .. n -> Tasks], NEW k \in 1 .. n
  PROVE  n - 1 \in Nat /\ Dropped(q, n, k) \in [1 .. n - 1 -> Tasks]
BY DEF Dropped

LEMMA InsertedList ==
  ASSUME NEW n \in Nat, NEW q \in [1 .. n -> Tasks], NEW k \in 0 .. n, NEW t \in Tasks
  PROVE  n + 1 \in Nat /\ Inserted(q, n, k, t) \in [1 .. n + 1 -> Tasks]
BY DEF Inserted

LEMMA ListAppend ==
  ASSUME NEW n \in Nat, NEW q \in [1 .. n -> Tasks], NEW t \in Tasks
  PROVE  Append(q, t) = Inserted(q, n, n, t)
<1>1. q \in Seq(Tasks) /\ Len(q) = n
  OBVIOUS
<1> DEFINE x == Append(q, t)
<1>2. x \in Seq(Tasks) /\ Len(x) = n + 1
  BY <1>1
<1>3. \A i \in 1 .. n + 1 : x[i] = IF i <= n THEN q[i] ELSE t
  BY <1>1
<1> HIDE DEF x
<1>4. \A i \in 1 .. n + 1 : x[i] = Inserted(q, n, n, t)[i]
  BY <1>3 DEF Inserted
<1>5. n + 1 \in Nat /\ Inserted(q, n, n, t) \in [1 .. n + 1 -> Tasks]
  BY InsertedList
<1>6. x = Inserted(q, n, n, t)
  BY <1>2, <1>4, <1>5, ListEqual
<1>7. QED
  BY <1>6 DEF x

LEMMA ListSlice ==
  ASSUME NEW n \in Nat, NEW q \in [1 .. n -> Tasks], NEW i \in 1 .. n + 1, NEW j \in 0 .. n, i <= j + 1
  PROVE  /\ SubSeq(q, i, j) \in Seq(Tasks) /\ Len(SubSeq(q, i, j)) = (j - i) + 1
         /\ \A a \in 1 .. (j - i) + 1 : SubSeq(q, i, j)[a] = q[(i + a) - 1]
OBVIOUS

LEMMA ListRemove ==
  ASSUME NEW n \in Nat, NEW q \in [1 .. n -> Tasks], NEW k \in 1 .. n
  PROVE  Fifo!RemoveAt(q, k) = Dropped(q, n, k)
<1>1. q \in Seq(Tasks) /\ Len(q) = n
  OBVIOUS
<1> DEFINE a == SubSeq(q, 1, k - 1)
           b == SubSeq(q, k + 1, n)
           x == a \o b
<1>2. a \in Seq(Tasks) /\ Len(a) = k - 1 /\ \A i \in 1 .. k - 1 : a[i] = q[i]
  BY ListSlice
<1>3. b \in Seq(Tasks) /\ Len(b) = n - k /\ \A i \in 1 .. n - k : b[i] = q[i + k]
  BY ListSlice
<1> HIDE DEF a, b
<1>4. x \in Seq(Tasks) /\ Len(x) = n - 1
      /\ \A i \in 1 .. n - 1 : x[i] = IF i <= k - 1 THEN a[i] ELSE b[i - (k - 1)]
  <2>1. Len(a) + Len(b) = n - 1
    BY <1>2, <1>3
  <2>2. x \in Seq(Tasks) /\ Len(x) = Len(a) + Len(b)
        /\ \A i \in 1 .. Len(a) + Len(b) : x[i] = IF i <= Len(a) THEN a[i] ELSE b[i - Len(a)]
    BY <1>2, <1>3, ConcatProperties
  <2> HIDE DEF x
  <2>3. QED
    BY <1>2, <2>1, <2>2
<1> HIDE DEF x
<1>5. \A i \in 1 .. n - 1 : x[i] = Dropped(q, n, k)[i]
  <2> TAKE i \in 1 .. n - 1
  <2>1. CASE i <= k - 1
    BY <2>1, <1>2, <1>4 DEF Dropped
  <2>2. CASE ~ (i <= k - 1)
    <3>1. i - (k - 1) \in 1 .. n - k /\ (i - (k - 1)) + k = i + 1
      BY <2>2
    <3>2. x[i] = q[i + 1]
      BY <2>2, <3>1, <1>3, <1>4
    <3>3. QED
      BY <2>2, <3>2 DEF Dropped
  <2>3. QED
    BY <2>1, <2>2
<1>6. x = Dropped(q, n, k)
  BY <1>4, <1>5, DroppedList, ListEqual
<1>7. QED
  BY <1>1, <1>6 DEF Fifo!RemoveAt, a, b, x

LEMMA ListInsert ==
  ASSUME NEW n \in Nat, NEW q \in [1 .. n -> Tasks], NEW k \in 0 .. n, NEW t \in Tasks
  PROVE  Fifo!InsertAt(q, k + 1, t) = Inserted(q, n, k, t)
<1>1. q \in Seq(Tasks) /\ Len(q) = n
  OBVIOUS
<1> DEFINE a == SubSeq(q, 1, (k + 1) - 1)
           b == SubSeq(q, k + 1, n)
           c == a \o <<t>>
           x == c \o b
<1>2. a \in Seq(Tasks) /\ Len(a) = k /\ \A i \in 1 .. k : a[i] = q[i]
  <2>1. (k + 1) - 1 = k
    OBVIOUS
  <2>2. SubSeq(q, 1, k) \in Seq(Tasks) /\ Len(SubSeq(q, 1, k)) = k
        /\ \A i \in 1 .. k : SubSeq(q, 1, k)[i] = q[i]
    BY ListSlice
  <2>3. QED
    BY <2>1, <2>2
<1>3. b \in Seq(Tasks) /\ Len(b) = n - k /\ \A i \in 1 .. n - k : b[i] = q[i + k]
  BY ListSlice
<1> HIDE DEF a, b
<1>4. c \in Seq(Tasks) /\ Len(c) = k + 1 /\ \A i \in 1 .. k + 1 : c[i] = IF i <= k THEN a[i] ELSE t
  BY <1>2
<1> HIDE DEF c
<1>5. x \in Seq(Tasks) /\ Len(x) = n + 1
      /\ \A i \in 1 .. n + 1 : x[i] = IF i <= k + 1 THEN c[i] ELSE b[i - (k + 1)]
  <2>1. Len(c) + Len(b) = n + 1
    BY <1>4, <1>3
  <2>2. x \in Seq(Tasks) /\ Len(x) = Len(c) + Len(b)
        /\ \A i \in 1 .. Len(c) + Len(b) : x[i] = IF i <= Len(c) THEN c[i] ELSE b[i - Len(c)]
    BY <1>4, <1>3, ConcatProperties
  <2> HIDE DEF x
  <2>3. QED
    BY <1>4, <2>1, <2>2
<1> HIDE DEF x
<1>6. \A i \in 1 .. n + 1 : x[i] = Inserted(q, n, k, t)[i]
  <2> TAKE i \in 1 .. n + 1
  <2>1. CASE i <= k + 1
    BY <2>1, <1>2, <1>4, <1>5 DEF Inserted
  <2>2. CASE ~ (i <= k + 1)
    <3>1. i - (k + 1) \in 1 .. n - k /\ (i - (k + 1)) + k = i - 1
      BY <2>2
    <3>2. x[i] = q[i - 1]
      BY <2>2, <3>1, <1>3, <1>5
    <3>3. QED
      BY <2>2, <3>2 DEF Inserted
  <2>3. QED
    BY <2>1, <2>2
<1>7. x = Inserted(q, n, k, t)
  BY <1>5, <1>6, InsertedList, ListEqual
<1>8. QED
  BY <1>1, <1>7 DEF Fifo!InsertAt, a, b, c, x

LEMMA ListTail ==
  ASSUME NEW n \in Nat, NEW q \in [1 .. n -> Tasks], n # 0, NEW t \in Tasks
  PROVE  /\ q # << >> /\ Head(q) = q[1]
         /\ Append(Tail(q), t) = Inserted(Dropped(q, n, 1), n - 1, n - 1, t)
<1>1. q \in Seq(Tasks) /\ Len(q) = n /\ q # << >> /\ Head(q) = q[1]
  OBVIOUS
<1> DEFINE x == Tail(q)
<1>2. x \in Seq(Tasks) /\ Len(x) = n - 1 /\ \A i \in 1 .. n - 1 : x[i] = q[i + 1]
  BY <1>1
<1> HIDE DEF x
<1>3. \A i \in 1 .. n - 1 : x[i] = Dropped(q, n, 1)[i]
  BY <1>2 DEF Dropped
<1>4. n - 1 \in Nat /\ Dropped(q, n, 1) \in [1 .. n - 1 -> Tasks]
  BY DroppedList
<1>5. x = Dropped(q, n, 1)
  BY <1>2, <1>3, <1>4, ListEqual
<1>6. Append(x, t) = Inserted(Dropped(q, n, 1), n - 1, n - 1, t)
  BY <1>4, <1>5, ListAppend
<1>7. QED
  BY <1>1, <1>6 DEF x

\* The list of a level is the queue the refinement reads.
LEMMA LineView ==
  ASSUME NEW s \in Sched, NEW R, NEW p \in Prio, NEW n, NEW q, Line(s, R, p, n, q)
  PROVE  Queue(s)[p] = q /\ Len(q) = n /\ n \in Nat /\ q \in [1 .. n -> Tasks]
<1>1. Chain(s.next, s.prev, s.head[p], n, q) /\ n \in Nat /\ q \in [1 .. n -> Tasks]
  BY DEF Line, Chain
<1>2. NodesFrom(s, s.head[p]) = q
  BY <1>1, NodesOfChain
<1>3. Len(q) = n
  BY <1>1, LenOf
<1>4. QED
  BY <1>1, <1>2, <1>3 DEF Queue

\* Two queue functions that agree level by level are equal.
LEMMA QueueEqual ==
  ASSUME NEW s, NEW f, f = [p \in Prio |-> f[p]], \A p \in Prio : Queue(s)[p] = f[p]
  PROVE  Queue(s) = f
<1>1. Queue(s) = [p \in Prio |-> Queue(s)[p]]
  BY DEF Queue
<1> DEFINE g == Queue(s)
<1>2. g = [p \in Prio |-> g[p]] /\ \A p \in Prio : g[p] = f[p]
  BY <1>1
<1> HIDE DEF g
<1>3. g = f
  BY <1>2
<1>4. QED
  BY <1>3 DEF g

\* A change that leaves the links, ends and priorities of the ready tasks alone leaves
\* their queues as they were.
LEMMA LinesFrame ==
  ASSUME NEW s \in Sched, NEW r \in Sched, NEW R \in SUBSET Tasks, Lines(s, R), SameLines(r, s, R)
  PROVE  Lines(r, R) /\ Queue(r) = Queue(s)
<1>1. ASSUME NEW p \in Prio
      PROVE  (\E n, q : Line(r, R, p, n, q)) /\ Queue(r)[p] = Queue(s)[p]
  <2>1. PICK n, q : Line(s, R, p, n, q)
    BY DEF Lines
  <2>2. Chain(s.next, s.prev, s.head[p], n, q) /\ \A i \in 1 .. n : q[i] \in Tasks
    BY <2>1 DEF Line, Chain
  <2>3. \A i \in 1 .. n : q[i] \in R
    BY <2>1, <2>2 DEF Line, OnList
  <2>4. Chain(r.next, r.prev, s.head[p], n, q)
    <3>1. \A i \in 1 .. n : r.next[q[i]] = s.next[q[i]] /\ r.prev[q[i]] = s.prev[q[i]]
      BY <2>3 DEF SameLines
    <3>2. QED
      BY <2>2, <3>1, ChainFrame
  <2>5. Line(r, R, p, n, q)
    BY <2>1, <2>4 DEF Line, SameLines
  <2>6. Queue(r)[p] = q /\ Queue(s)[p] = q
    BY <2>1, <2>5, LineView
  <2>7. QED
    BY <2>5, <2>6
<1>2. Queue(r) = Queue(s)
  <2>1. Queue(s) = [p \in Prio |-> Queue(s)[p]]
    BY DEF Queue
  <2>2. QED
    BY <1>1, <2>1, QueueEqual
<1>3. QED
  BY <1>1, <1>2 DEF Lines

\* The tasks of a list, and its last one.
LEMMA LineTasks ==
  ASSUME NEW s, NEW R, NEW p, NEW n, NEW q, Line(s, R, p, n, q)
  PROVE  /\ Chain(s.next, s.prev, s.head[p], n, q) /\ n \in Nat /\ q \in [1 .. n -> Tasks]
         /\ \A i \in 1 .. n : q[i] \in R /\ s.prio[q[i]] = p
         /\ s.tail[p] = IF n = 0 THEN NoTask ELSE q[n]
         /\ s.head[p] = IF n = 0 THEN NoTask ELSE q[1]
         /\ s.tail[p] = NoTask <=> n = 0
         /\ s.head[p] = NoTask <=> n = 0
<1>1. Chain(s.next, s.prev, s.head[p], n, q) /\ n \in Nat /\ q \in [1 .. n -> Tasks]
  BY DEF Line, Chain
<1>2. \A i \in 1 .. n : OnList(n, q, q[i]) /\ q[i] \in Tasks
  BY <1>1 DEF OnList
<1>3. \A i \in 1 .. n : q[i] \in R /\ s.prio[q[i]] = p
  BY <1>2 DEF Line
<1>4. /\ s.tail[p] = IF n = 0 THEN NoTask ELSE q[n]
      /\ s.head[p] = IF n = 0 THEN NoTask ELSE q[1]
  BY <1>1 DEF Line, Chain
<1>5. n # 0 => q[n] # NoTask /\ q[1] # NoTask
  BY <1>1, QueueAssumption
<1>6. QED
  BY <1>1, <1>3, <1>4, <1>5

\* mk_scheduler_add_ready appends the task to the queue of its level.
LEMMA AddReadyLines ==
  ASSUME NEW s \in Sched, NEW R \in SUBSET Tasks, NEW t \in Tasks, t \notin R, Lines(s, R)
  PROVE  /\ Lines(AddReady(s, t), R \cup {t})
         /\ Queue(AddReady(s, t)) = [Queue(s) EXCEPT ![LevelOf(s, t)] = Append(@, t)]
<1> DEFINE p == LevelOf(s, t)
           last == LastOf(s, t)
           r == AddReady(s, t)
<1>1. /\ p \in Prio /\ last \in Link /\ last = s.tail[p]
      /\ r.prio = [s.prio EXCEPT ![t] = p]
      /\ r.prev = [s.prev EXCEPT ![t] = last]
      /\ r.next = IF last = NoTask THEN [s.next EXCEPT ![t] = NoTask]
                  ELSE [s.next EXCEPT ![t] = NoTask, ![last] = t]
      /\ r.head = IF last = NoTask THEN [s.head EXCEPT ![p] = t] ELSE s.head
      /\ r.tail = [s.tail EXCEPT ![p] = t]
  BY AddReadyFields DEF LastOf
<1>2. r \in Sched
  BY AddReadyType
<1>3. /\ s.head \in [Prio -> Link] /\ s.tail \in [Prio -> Link]
      /\ s.next \in [Tasks -> Link] /\ s.prev \in [Tasks -> Link]
      /\ s.prio \in [Tasks -> Nat]
  BY DEF Sched
<1> HIDE DEF p, last, r
<1>4. PICK n, q : Line(s, R, p, n, q)
  BY <1>1 DEF Lines
<1>5. /\ Chain(s.next, s.prev, s.head[p], n, q) /\ n \in Nat /\ q \in [1 .. n -> Tasks]
      /\ \A i \in 1 .. n : q[i] \in R /\ s.prio[q[i]] = p
      /\ last = IF n = 0 THEN NoTask ELSE q[n]
      /\ (last = NoTask <=> n = 0)
  BY <1>1, <1>4, LineTasks
<1>6. last # t /\ (last # NoTask => last \in R /\ s.prio[last] = p)
  BY <1>5, QueueAssumption
<1> DEFINE d == Inserted(q, n, n, t)
<1>7. Line(r, R \cup {t}, p, n + 1, d)
  <2>1. ~ OnList(n, q, t)
    BY <1>5 DEF OnList
  <2>2. Gap(n, q, n, last, NoTask)
    BY <1>5 DEF Gap
  <2>3. Links(r.next, r.prev, r.head[p], s.next, s.prev, s.head[p], t, last, NoTask)
    <3>1. r.next[t] = NoTask /\ r.prev[t] = last
      BY <1>1, <1>3, <1>6
    <3>2. \A u \in Tasks \ {t} : /\ r.next[u] = IF u = last THEN t ELSE s.next[u]
                                 /\ r.prev[u] = IF u = NoTask THEN t ELSE s.prev[u]
      BY <1>1, <1>3, <1>6, QueueAssumption
    <3>3. r.head[p] = IF last = NoTask THEN t ELSE s.head[p]
      BY <1>1, <1>3
    <3>4. QED
      BY <3>1, <3>2, <3>3 DEF Links
  <2>4. /\ Chain(r.next, r.prev, r.head[p], n + 1, d)
        /\ \A u \in Tasks : OnList(n + 1, d, u) <=> OnList(n, q, u) \/ u = t
    <3>1. Chain(s.next, s.prev, s.head[p], n, q)
      BY <1>5
    <3>2. QED
      BY <3>1, <2>1, <2>2, <2>3, ChainInsert
  <2>5. r.tail[p] = IF n + 1 = 0 THEN NoTask ELSE d[n + 1]
    BY <1>1, <1>3, <1>5 DEF Inserted
  <2>6. \A u \in Tasks : OnList(n + 1, d, u) <=> u \in R \cup {t} /\ r.prio[u] = p
    <3> HIDE DEF d
    <3> TAKE u \in Tasks
    <3>1. OnList(n, q, u) <=> u \in R /\ s.prio[u] = p
      BY <1>4 DEF Line
    <3>2. r.prio[u] = IF u = t THEN p ELSE s.prio[u]
      BY <1>1, <1>3
    <3>3. QED
      BY <2>4, <3>1, <3>2
  <2> HIDE DEF d
  <2>7. QED
    BY <2>4, <2>5, <2>6 DEF Line
<1>8. Append(q, t) = d
  BY <1>5, ListAppend
<1>14. Queue(s)[p] = q /\ Queue(r)[p] = d
  <2>1. p \in Prio
    BY <1>1
  <2> HIDE DEF d
  <2>2. QED
    BY <2>1, <1>2, <1>4, <1>7, LineView
<1> HIDE DEF d
<1> DEFINE f == [Queue(s) EXCEPT ![p] = Append(@, t)]
<1>9. ASSUME NEW k \in Prio
      PROVE  (\E m, x : Line(r, R \cup {t}, k, m, x)) /\ Queue(r)[k] = f[k]
  <2>1. CASE k = p
    <3>2. f[p] = Append(Queue(s)[p], t)
      BY <1>1 DEF Queue
    <3>3. QED
      BY <2>1, <3>2, <1>7, <1>8, <1>14
  <2>2. CASE k # p
    <3>1. PICK m, x : Line(s, R, k, m, x)
      BY DEF Lines
    <3>2. /\ Chain(s.next, s.prev, s.head[k], m, x) /\ m \in Nat /\ x \in [1 .. m -> Tasks]
          /\ \A i \in 1 .. m : x[i] \in R /\ s.prio[x[i]] = k
      BY <3>1, LineTasks
    <3>3. \A i \in 1 .. m : x[i] # t /\ x[i] # last /\ x[i] \in Tasks
      BY <2>2, <3>2, <1>6, QueueAssumption
    <3>4. \A i \in 1 .. m : r.next[x[i]] = s.next[x[i]] /\ r.prev[x[i]] = s.prev[x[i]]
      BY <3>3, <1>1, <1>3
    <3>5. Chain(r.next, r.prev, s.head[k], m, x)
      BY <3>2, <3>4, ChainFrame
    <3>6. r.head[k] = s.head[k] /\ r.tail[k] = s.tail[k]
      BY <2>2, <1>1, <1>3
    <3>7. \A u \in Tasks : OnList(m, x, u) <=> u \in R \cup {t} /\ r.prio[u] = k
      <4> TAKE u \in Tasks
      <4>1. OnList(m, x, u) <=> u \in R /\ s.prio[u] = k
        BY <3>1 DEF Line
      <4>2. r.prio[u] = IF u = t THEN p ELSE s.prio[u]
        BY <1>1, <1>3
      <4>3. QED
        BY <2>2, <4>1, <4>2
    <3>8. Line(r, R \cup {t}, k, m, x)
      BY <3>1, <3>5, <3>6, <3>7 DEF Line
    <3>9. Queue(r)[k] = x /\ Queue(s)[k] = x
      BY <3>1, <3>8, <1>2, LineView
    <3>10. f[k] = Queue(s)[k]
      BY <2>2 DEF Queue
    <3>11. QED
      BY <3>8, <3>9, <3>10
  <2>3. QED
    BY <2>1, <2>2
<1>10. Lines(r, R \cup {t})
  BY <1>9 DEF Lines
<1>11. f = [k \in Prio |-> f[k]]
  BY DEF Queue
<1> HIDE DEF f
<1>12. Queue(r) = f
  BY <1>9, <1>11, QueueEqual
<1>13. QED
  BY <1>10, <1>12 DEF f, r, p

\* mk_scheduler_remove_ready takes the task out of the queue of its level.
Takes(s, R, t, r) ==
  /\ Lines(r, R \ {t})
  /\ \E k \in 1 .. Len(Queue(s)[s.prio[t]]) :
       /\ Queue(s)[s.prio[t]][k] = t
       /\ Queue(r) = [Queue(s) EXCEPT ![s.prio[t]] = Fifo!RemoveAt(@, k)]

LEMMA RemoveReadyLines ==
  ASSUME NEW s \in Sched, NEW R \in SUBSET Tasks, NEW t \in R, Lines(s, R), s.prio[t] \in Prio
  PROVE  Takes(s, R, t, RemoveReady(s, t))
<1> DEFINE p == s.prio[t]
           r == RemoveReady(s, t)
<1>0. t \in Tasks /\ p \in Nat /\ LevelOf(s, t) = p
  <2>1. p \in Nat
    BY DEF Sched
  <2>2. QED
    BY <2>1, ClampInRange DEF LevelOf
<1>1. /\ r.prio = s.prio
      /\ r.next = IF s.prev[t] = NoTask THEN [s.next EXCEPT ![t] = NoTask]
                  ELSE [s.next EXCEPT ![s.prev[t]] = s.next[t], ![t] = NoTask]
      /\ r.prev = IF s.next[t] = NoTask THEN [s.prev EXCEPT ![t] = NoTask]
                  ELSE [s.prev EXCEPT ![s.next[t]] = s.prev[t], ![t] = NoTask]
      /\ r.head = [s.head EXCEPT ![p] = IF s.prev[t] = NoTask THEN s.next[t] ELSE @]
      /\ r.tail = [s.tail EXCEPT ![p] = IF s.next[t] = NoTask THEN s.prev[t] ELSE @]
  <2> DEFINE l == LevelOf(s, t)
  <2>1. /\ r.prio = s.prio
        /\ r.next = IF s.prev[t] = NoTask THEN [s.next EXCEPT ![t] = NoTask]
                    ELSE [s.next EXCEPT ![s.prev[t]] = s.next[t], ![t] = NoTask]
        /\ r.prev = IF s.next[t] = NoTask THEN [s.prev EXCEPT ![t] = NoTask]
                    ELSE [s.prev EXCEPT ![s.next[t]] = s.prev[t], ![t] = NoTask]
        /\ r.head = [s.head EXCEPT ![l] = IF s.prev[t] = NoTask THEN s.next[t] ELSE @]
        /\ r.tail = [s.tail EXCEPT ![l] = IF s.next[t] = NoTask THEN s.prev[t] ELSE @]
    BY <1>0, RemoveReadyFields
  <2> HIDE DEF r, l
  <2>2. l = p
    BY <1>0 DEF l
  <2>3. QED
    BY <2>1, <2>2
<1>2. r \in Sched
  BY <1>0, RemoveReadyType
<1>3. /\ s.head \in [Prio -> Link] /\ s.tail \in [Prio -> Link]
      /\ s.next \in [Tasks -> Link] /\ s.prev \in [Tasks -> Link]
      /\ s.prio \in [Tasks -> Nat]
  BY DEF Sched
<1> HIDE DEF r
<1>4. PICK n, q : Line(s, R, p, n, q)
  BY DEF Lines
<1>5. /\ Chain(s.next, s.prev, s.head[p], n, q) /\ n \in Nat /\ q \in [1 .. n -> Tasks]
      /\ \A i \in 1 .. n : q[i] \in R /\ s.prio[q[i]] = p
      /\ s.tail[p] = IF n = 0 THEN NoTask ELSE q[n]
  BY <1>4, LineTasks
<1>6. PICK k \in 1 .. n : q[k] = t
  BY <1>0, <1>4 DEF Line, OnList
<1>7. /\ s.next[t] = IF k = n THEN NoTask ELSE q[k + 1]
      /\ s.prev[t] = IF k = 1 THEN NoTask ELSE q[k - 1]
      /\ s.next[t] # t /\ s.prev[t] # t
      /\ (s.next[t] = NoTask <=> k = n) /\ (s.prev[t] = NoTask <=> k = 1)
  BY <1>5, <1>6, ChainAt
<1>8. /\ (s.next[t] # NoTask => s.next[t] \in R /\ s.prio[s.next[t]] = p)
      /\ (s.prev[t] # NoTask => s.prev[t] \in R /\ s.prio[s.prev[t]] = p)
  <2>1. k # n => k + 1 \in 1 .. n
    BY <1>5
  <2>2. k # 1 => k - 1 \in 1 .. n
    BY <1>5
  <2>3. QED
    BY <1>5, <1>7, <2>1, <2>2
<1> DEFINE d == Dropped(q, n, k)
<1>9. Line(r, R \ {t}, p, n - 1, d)
  <2>1. Unlinks(r.next, r.prev, r.head[p], s.next, s.prev, s.head[p], t)
    <3>1. \A u \in Tasks \ {t} : /\ r.next[u] = IF u = s.prev[t] THEN s.next[t] ELSE s.next[u]
                                 /\ r.prev[u] = IF u = s.next[t] THEN s.prev[t] ELSE s.prev[u]
      BY <1>1, <1>3, <1>7, QueueAssumption
    <3>2. r.head[p] = IF s.prev[t] = NoTask THEN s.next[t] ELSE s.head[p]
      BY <1>1, <1>3
    <3>3. QED
      BY <3>1, <3>2 DEF Unlinks
  <2>2. /\ Chain(r.next, r.prev, r.head[p], n - 1, d)
        /\ \A u \in Tasks : OnList(n - 1, d, u) <=> OnList(n, q, u) /\ u # q[k]
    <3>1. Chain(s.next, s.prev, s.head[p], n, q)
      BY <1>5
    <3>2. Unlinks(r.next, r.prev, r.head[p], s.next, s.prev, s.head[p], q[k])
      BY <2>1, <1>6
    <3>3. QED
      BY <3>1, <3>2, ChainUnlink
  <2>3. r.tail[p] = IF n - 1 = 0 THEN NoTask ELSE d[n - 1]
    <3>1. r.tail[p] = IF s.next[t] = NoTask THEN s.prev[t] ELSE s.tail[p]
      BY <1>1, <1>3
    <3>2. CASE k = n
      <4>1. r.tail[p] = s.prev[t]
        BY <3>1, <3>2, <1>7
      <4>2. CASE n = 1
        BY <4>1, <4>2, <3>2, <1>7
      <4>3. CASE n # 1
        <5>1. n - 1 \in 1 .. n - 1 /\ n - 1 < k /\ n - 1 # 0 /\ d[n - 1] = q[n - 1]
          BY <4>3, <3>2, <1>5 DEF Dropped
        <5>2. s.prev[t] = q[n - 1]
          BY <4>3, <3>2, <1>7
        <5>3. QED
          BY <4>1, <5>1, <5>2
      <4>4. QED
        BY <4>2, <4>3
    <3>3. CASE k # n
      <4>1. n - 1 \in 1 .. n - 1 /\ ~(n - 1 < k) /\ n # 0 /\ n - 1 # 0 /\ d[n - 1] = q[n]
        BY <3>3, <1>5 DEF Dropped
      <4>2. r.tail[p] = q[n]
        BY <3>1, <3>3, <1>5, <1>7, <4>1
      <4>3. QED
        BY <4>1, <4>2
    <3>4. QED
      BY <3>2, <3>3
  <2>4. \A u \in Tasks : OnList(n - 1, d, u) <=> u \in R \ {t} /\ r.prio[u] = p
    <3> HIDE DEF d
    <3> TAKE u \in Tasks
    <3>1. OnList(n, q, u) <=> u \in R /\ s.prio[u] = p
      BY <1>4 DEF Line
    <3>2. QED
      BY <2>2, <3>1, <1>1, <1>6
  <2> HIDE DEF d
  <2>5. QED
    BY <2>2, <2>3, <2>4 DEF Line
<1>10. Fifo!RemoveAt(q, k) = d
  BY <1>5, ListRemove
<1> HIDE DEF d
<1>11. Queue(s)[p] = q /\ Len(q) = n /\ Queue(r)[p] = d
  BY <1>2, <1>4, <1>9, LineView
<1> DEFINE f == [Queue(s) EXCEPT ![p] = Fifo!RemoveAt(@, k)]
<1>12. ASSUME NEW l \in Prio
       PROVE  (\E m, x : Line(r, R \ {t}, l, m, x)) /\ Queue(r)[l] = f[l]
  <2>1. CASE l = p
    <3>1. f[p] = Fifo!RemoveAt(Queue(s)[p], k)
      BY DEF Queue
    <3>2. QED
      BY <2>1, <3>1, <1>9, <1>10, <1>11
  <2>2. CASE l # p
    <3>1. PICK m, x : Line(s, R, l, m, x)
      BY DEF Lines
    <3>2. /\ Chain(s.next, s.prev, s.head[l], m, x) /\ m \in Nat /\ x \in [1 .. m -> Tasks]
          /\ \A i \in 1 .. m : x[i] \in R /\ s.prio[x[i]] = l
      BY <3>1, LineTasks
    <3>3. \A i \in 1 .. m : x[i] # t /\ x[i] # s.next[t] /\ x[i] # s.prev[t] /\ x[i] \in Tasks
      BY <2>2, <3>2, <1>8, QueueAssumption
    <3>4. \A i \in 1 .. m : r.next[x[i]] = s.next[x[i]] /\ r.prev[x[i]] = s.prev[x[i]]
      BY <3>3, <1>1, <1>3
    <3>5. Chain(r.next, r.prev, s.head[l], m, x)
      BY <3>2, <3>4, ChainFrame
    <3>6. r.head[l] = s.head[l] /\ r.tail[l] = s.tail[l]
      BY <2>2, <1>1, <1>3
    <3>7. \A u \in Tasks : OnList(m, x, u) <=> u \in R \ {t} /\ r.prio[u] = l
      <4> TAKE u \in Tasks
      <4>1. OnList(m, x, u) <=> u \in R /\ s.prio[u] = l
        BY <3>1 DEF Line
      <4>2. QED
        BY <2>2, <4>1, <1>1
    <3>8. Line(r, R \ {t}, l, m, x)
      BY <3>1, <3>5, <3>6, <3>7 DEF Line
    <3>9. Queue(r)[l] = x /\ Queue(s)[l] = x
      BY <3>1, <3>8, <1>2, LineView
    <3>10. f[l] = Queue(s)[l]
      BY <2>2 DEF Queue
    <3>11. QED
      BY <3>8, <3>9, <3>10
  <2>3. QED
    BY <2>1, <2>2
<1>13. Lines(r, R \ {t})
  BY <1>12 DEF Lines
<1>14. f = [l \in Prio |-> f[l]]
  BY DEF Queue
<1> HIDE DEF f
<1>15. Queue(r) = f
  BY <1>12, <1>14, QueueEqual
<1>16. k \in 1 .. Len(Queue(s)[p]) /\ Queue(s)[p][k] = t
  BY <1>6, <1>11
<1>17. QED
  BY <1>13, <1>15, <1>16 DEF Takes, f, r, p

\* The rotation moves the head of a level of two tasks or more behind the others.
LEMMA RotateHeadLines ==
  ASSUME NEW s \in Sched, NEW R \in SUBSET Tasks, Lines(s, R), NEW p \in Prio,
         s.head[p] # NoTask, s.head[p] # s.tail[p]
  PROVE  /\ RotateHead(s, p) \in Sched /\ Lines(RotateHead(s, p), R)
         /\ Queue(RotateHead(s, p)) = [Queue(s) EXCEPT ![p] = Append(Tail(@), s.head[p])]
<1> DEFINE c == s.head[p]
           second == s.next[c]
           last == s.tail[p]
           r == RotateHead(s, p)
<1>1. PICK n, q : Line(s, R, p, n, q)
  BY DEF Lines
<1>2. /\ Chain(s.next, s.prev, s.head[p], n, q) /\ n \in Nat /\ q \in [1 .. n -> Tasks]
      /\ \A i \in 1 .. n : q[i] \in R /\ s.prio[q[i]] = p
      /\ s.tail[p] = IF n = 0 THEN NoTask ELSE q[n]
      /\ s.head[p] = IF n = 0 THEN NoTask ELSE q[1]
  BY <1>1, LineTasks
<1>3. n # 0 /\ n # 1 /\ 1 \in 1 .. n /\ 2 \in 1 .. n /\ n \in 1 .. n /\ c = q[1] /\ last = q[n]
  BY <1>2
<1>4. /\ second = q[2] /\ s.prev[c] = NoTask /\ s.next[q[n]] = NoTask
  BY <1>2, <1>3 DEF Chain
<1>5. /\ c \in R /\ second \in R /\ last \in R
      /\ s.prio[c] = p /\ s.prio[second] = p /\ s.prio[last] = p
      /\ c # second /\ c # last
      /\ c \in Tasks /\ second \in Tasks /\ last \in Tasks
  <2>1. c # second
    BY <1>2, <1>3, <1>4 DEF Chain
  <2>2. QED
    BY <1>2, <1>3, <1>4, <2>1
<1>6. /\ r \in Sched /\ r.prio = s.prio
      /\ r.head = [s.head EXCEPT ![p] = second]
      /\ r.tail = [s.tail EXCEPT ![p] = c]
      /\ r.prev = [s.prev EXCEPT ![second] = NoTask, ![c] = last]
      /\ r.next = [s.next EXCEPT ![last] = c, ![c] = NoTask]
  BY <1>5, RotateHeadFields
<1>18. r \in Sched
  BY <1>6
<1>7. /\ s.head \in [Prio -> Link] /\ s.tail \in [Prio -> Link]
      /\ s.next \in [Tasks -> Link] /\ s.prev \in [Tasks -> Link]
      /\ s.prio \in [Tasks -> Nat]
  BY DEF Sched
<1> HIDE DEF c, second, last, r
<1> DEFINE e == Dropped(q, n, 1)
           d == Inserted(e, n - 1, n - 1, c)
           px == [s.prev EXCEPT ![second] = NoTask]
<1>8. /\ Chain(s.next, px, second, n - 1, e)
      /\ \A u \in Tasks : OnList(n - 1, e, u) <=> OnList(n, q, u) /\ u # c
  <2>1. Unlinks(s.next, px, second, s.next, s.prev, s.head[p], q[1])
    <3>1. \A u \in Tasks \ {c} : /\ s.next[u] = IF u = s.prev[c] THEN s.next[c] ELSE s.next[u]
                                 /\ px[u] = IF u = s.next[c] THEN s.prev[c] ELSE s.prev[u]
      BY <1>4, <1>5, <1>7, QueueAssumption DEF second
    <3>2. second = IF s.prev[c] = NoTask THEN s.next[c] ELSE s.head[p]
      BY <1>4 DEF second
    <3> HIDE DEF px
    <3>3. QED
      BY <3>1, <3>2, <1>3 DEF Unlinks
  <2>2. Chain(s.next, s.prev, s.head[p], n, q)
    BY <1>2
  <2> HIDE DEF px
  <2>3. QED
    BY <2>1, <2>2, <1>3, ChainUnlink
<1>9. n - 1 \in Nat /\ n - 1 # 0 /\ e \in [1 .. n - 1 -> Tasks] /\ e[n - 1] = last
  <2>1. n - 1 \in 1 .. n - 1 /\ ~ (n - 1 < 1)
    BY <1>2, <1>3
  <2>2. e[n - 1] = q[n]
    BY <1>2, <2>1 DEF Dropped
  <2>3. QED
    BY <1>2, <1>3, <2>1, <2>2, DroppedList
<1> HIDE DEF e
<1>10. Line(r, R, p, n, d)
  <2>1. ~ OnList(n - 1, e, c)
    BY <1>5, <1>8
  <2>2. Gap(n - 1, e, n - 1, last, NoTask)
    BY <1>9 DEF Gap
  <2>3. Links(r.next, r.prev, r.head[p], s.next, px, second, c, last, NoTask)
    <3>1. r.next[c] = NoTask /\ r.prev[c] = last
      BY <1>5, <1>6, <1>7
    <3>2. \A u \in Tasks \ {c} : /\ r.next[u] = IF u = last THEN c ELSE s.next[u]
                                 /\ r.prev[u] = IF u = NoTask THEN c ELSE px[u]
      BY <1>5, <1>6, <1>7, QueueAssumption
    <3>3. r.head[p] = second /\ last # NoTask
      BY <1>5, <1>6, <1>7, QueueAssumption
    <3> HIDE DEF px
    <3>4. QED
      BY <3>1, <3>2, <3>3 DEF Links
  <2>4. /\ Chain(r.next, r.prev, r.head[p], (n - 1) + 1, d)
        /\ \A u \in Tasks : OnList((n - 1) + 1, d, u) <=> OnList(n - 1, e, u) \/ u = c
    <3> HIDE DEF px
    <3>1. Chain(s.next, px, second, n - 1, e)
      BY <1>8
    <3>2. QED
      BY <3>1, <2>1, <2>2, <2>3, <1>5, ChainInsert
  <2>5. (n - 1) + 1 = n
    BY <1>2
  <2>6. r.tail[p] = IF n = 0 THEN NoTask ELSE d[n]
    <3>1. d[n] = c
      BY <1>2, <1>3, <2>5 DEF Inserted
    <3>2. QED
      BY <3>1, <1>3, <1>6, <1>7
  <2> HIDE DEF d, px
  <2>7. \A u \in Tasks : OnList(n, d, u) <=> u \in R /\ r.prio[u] = p
    <3> TAKE u \in Tasks
    <3>1. OnList(n, q, u) <=> u \in R /\ s.prio[u] = p
      BY <1>1 DEF Line
    <3>2. OnList(n, d, u) <=> OnList(n - 1, e, u) \/ u = c
      BY <2>4, <2>5
    <3>3. QED
      BY <3>1, <3>2, <1>5, <1>6, <1>8
  <2>8. QED
    BY <2>4, <2>5, <2>6, <2>7 DEF Line
<1>11. Append(Tail(q), c) = d
  BY <1>2, <1>3, <1>5, ListTail DEF e
<1> HIDE DEF d
<1>12. Queue(s)[p] = q /\ Queue(r)[p] = d
  BY <1>1, <1>18, <1>10, LineView
<1> DEFINE f == [Queue(s) EXCEPT ![p] = Append(Tail(@), c)]
<1>13. ASSUME NEW l \in Prio
       PROVE  (\E m, x : Line(r, R, l, m, x)) /\ Queue(r)[l] = f[l]
  <2>1. CASE l = p
    <3>1. f[p] = Append(Tail(Queue(s)[p]), c)
      BY DEF Queue
    <3>2. QED
      BY <2>1, <3>1, <1>10, <1>11, <1>12
  <2>2. CASE l # p
    <3>1. PICK m, x : Line(s, R, l, m, x)
      BY DEF Lines
    <3>2. /\ Chain(s.next, s.prev, s.head[l], m, x) /\ m \in Nat /\ x \in [1 .. m -> Tasks]
          /\ \A i \in 1 .. m : x[i] \in R /\ s.prio[x[i]] = l
      BY <3>1, LineTasks
    <3>3. \A i \in 1 .. m : x[i] # c /\ x[i] # second /\ x[i] # last /\ x[i] \in Tasks
      BY <2>2, <3>2, <1>5
    <3>4. \A i \in 1 .. m : r.next[x[i]] = s.next[x[i]] /\ r.prev[x[i]] = s.prev[x[i]]
      BY <3>3, <1>6, <1>7
    <3>5. Chain(r.next, r.prev, s.head[l], m, x)
      BY <3>2, <3>4, ChainFrame
    <3>6. r.head[l] = s.head[l] /\ r.tail[l] = s.tail[l]
      BY <2>2, <1>6, <1>7
    <3>8. Line(r, R, l, m, x)
      BY <3>1, <3>5, <3>6, <1>6 DEF Line
    <3>7. Queue(r)[l] = x
      BY <3>8, <1>18, LineView
    <3>9. Queue(s)[l] = x
      BY <3>1, LineView
    <3>10. f[l] = Queue(s)[l]
      BY <2>2 DEF Queue
    <3>11. QED
      BY <3>7, <3>8, <3>9, <3>10
  <2>3. QED
    BY <2>1, <2>2
<1>14. Lines(r, R)
  BY <1>13 DEF Lines
<1>15. f = [l \in Prio |-> f[l]]
  BY DEF Queue
<1> HIDE DEF f
<1>16. Queue(r) = f
  BY <1>13, <1>15, QueueEqual
<1>17. QED
  BY <1>6, <1>14, <1>16 DEF f, r, c

\* The current task is charged for the tick; its quantum ends with it.
Charged(s) == s.current # NoTask /\ s.state[s.current] = "RUNNING"
Spent(s) == Charged(s) /\ s.slice[s.current] <= 1

\* r is s after the charge: the current task has less left or a new quantum, and in
\* the second case goes behind its peers if it is the first of them.
Charges(r, s, R) ==
  /\ Lines(r, R)
  /\ r.prio = s.prio /\ r.state = s.state /\ r.wake = s.wake
  /\ r.current = s.current /\ r.sleep = s.sleep
  /\ r.slice = IF Charged(s)
               THEN [s.slice EXCEPT ![s.current] = IF Spent(s) THEN Quantum ELSE @ - 1]
               ELSE s.slice
  /\ Queue(r) = IF /\ Spent(s) /\ Queue(s)[s.prio[s.current]] # << >>
                   /\ Head(Queue(s)[s.prio[s.current]]) = s.current
                THEN [Queue(s) EXCEPT ![s.prio[s.current]] = Append(Tail(@), s.current)]
                ELSE Queue(s)

\* x is s with v left of the quantum of c.
WithSlice(s, c, v) == [s EXCEPT !.slice[c] = v]

Reloads(x, s, R, c, v) ==
  /\ x \in Sched /\ Lines(x, R) /\ Queue(x) = Queue(s)
  /\ x.prio = s.prio /\ x.state = s.state /\ x.wake = s.wake
  /\ x.current = s.current /\ x.sleep = s.sleep /\ x.head = s.head /\ x.tail = s.tail
  /\ x.slice = [s.slice EXCEPT ![c] = v]

LEMMA SliceLines ==
  ASSUME NEW s \in Sched, NEW R \in SUBSET Tasks, Lines(s, R), NEW c \in Tasks, NEW v \in Nat
  PROVE  Reloads(WithSlice(s, c, v), s, R, c, v)
<1> DEFINE x == WithSlice(s, c, v)
<1> DEFINE slice == [s.slice EXCEPT ![c] = v]
<1>1. slice \in [Tasks -> Nat]
  BY DEF Sched
<1>2. x = [s EXCEPT !.slice = slice]
  BY DEF WithSlice
<1> HIDE DEF slice, x
<1>3. /\ x \in Sched /\ x.slice = slice /\ x.next = s.next /\ x.prev = s.prev
      /\ x.prio = s.prio /\ x.state = s.state /\ x.wake = s.wake
      /\ x.current = s.current /\ x.sleep = s.sleep /\ x.head = s.head /\ x.tail = s.tail
  BY <1>1, <1>2 DEF Sched
<1>4. SameLines(x, s, R)
  BY <1>3 DEF SameLines
<1>5. Lines(x, R) /\ Queue(x) = Queue(s)
  BY <1>3, <1>4, LinesFrame
<1>6. QED
  BY <1>3, <1>5 DEF Reloads, slice, x

LEMMA AccountLines ==
  ASSUME NEW s \in Sched, NEW R \in SUBSET Tasks, Queued(s, R), Lines(s, R),
         Charged(s) => s.current \in R
  PROVE  Charges(Account(s), s, R)
<1> DEFINE c == s.current
           l == s.prio[c]
<1>1. CASE ~ Charged(s)
  <2>1. Account(s) = s
    BY <1>1 DEF Account, Charged
  <2>2. QED
    BY <1>1, <2>1 DEF Charges, Spent
<1>2. CASE Charged(s)
  <2>1. c \in R /\ c \in Tasks /\ l \in Prio /\ l < NPrio /\ s.slice[c] \in Nat
    BY <1>2, QueueAssumption DEF Queued, LinksWellFormed, Sched, Prio
  <2> DEFINE left == IF s.slice[c] > 0 THEN s.slice[c] - 1 ELSE 0
             x == WithSlice(s, c, left)
             y == WithSlice(s, c, Quantum)
             r == Account(s)
  <2>2. r = IF left > 0 THEN x
            ELSE IF l < NPrio /\ s.head[l] # s.tail[l] /\ s.head[l] = c /\ s.next[c] # NoTask
                 THEN RotateHead(y, l) ELSE y
    BY <1>2 DEF Account, Charged, WithSlice
  <2> HIDE DEF r
  <2>3. CASE left > 0
    <3>1. left \in Nat /\ ~ Spent(s) /\ left = s.slice[c] - 1
      BY <2>1, <2>3 DEF Spent
    <3>2. r = x
      BY <2>2, <2>3
    <3> HIDE DEF left
    <3>3. /\ Lines(x, R) /\ Queue(x) = Queue(s)
          /\ x.prio = s.prio /\ x.state = s.state /\ x.wake = s.wake
          /\ x.current = s.current /\ x.sleep = s.sleep
          /\ x.slice = [s.slice EXCEPT ![c] = left]
      BY <2>1, <3>1, SliceLines DEF Reloads
    <3> HIDE DEF x
    <3>4. Charges(r, s, R)
      BY <1>2, <3>1, <3>2, <3>3 DEF Charges
    <3>5. QED
      BY <3>4 DEF r
  <2>4. CASE ~ (left > 0)
    <3>1. Spent(s) /\ Quantum \in Nat
      BY <1>2, <2>1, <2>4, QueueAssumption DEF Spent
    <3> HIDE DEF left
    <3>2. /\ y \in Sched /\ Lines(y, R) /\ Queue(y) = Queue(s)
          /\ y.prio = s.prio /\ y.state = s.state /\ y.wake = s.wake
          /\ y.current = s.current /\ y.sleep = s.sleep
          /\ y.head = s.head /\ y.tail = s.tail
          /\ y.slice = [s.slice EXCEPT ![c] = Quantum]
      BY <2>1, <3>1, SliceLines DEF Reloads
    <3> HIDE DEF x, y
    <3>3. PICK n, q : Line(s, R, l, n, q)
      BY <2>1 DEF Lines
    <3>4. /\ Chain(s.next, s.prev, s.head[l], n, q) /\ n \in Nat /\ q \in [1 .. n -> Tasks]
          /\ s.tail[l] = IF n = 0 THEN NoTask ELSE q[n]
          /\ s.head[l] = IF n = 0 THEN NoTask ELSE q[1]
      BY <3>3, LineTasks
    <3>5. Queue(s)[l] = q
      BY <2>1, <3>3, LineView
    <3>6. n # 0
      BY <2>1, <3>3 DEF Line, OnList
    <3>7. q # << >> /\ Head(q) = q[1] /\ q[1] = s.head[l] /\ s.head[l] # NoTask
          /\ Append(Tail(q), c) = Inserted(Dropped(q, n, 1), n - 1, n - 1, c)
      <4>1. q # << >> /\ Head(q) = q[1]
            /\ Append(Tail(q), c) = Inserted(Dropped(q, n, 1), n - 1, n - 1, c)
        BY <2>1, <3>4, <3>6, ListTail
      <4>2. q[1] \in Tasks
        BY <3>4, <3>6
      <4>3. QED
        BY <3>4, <3>6, <4>1, <4>2, QueueAssumption
    <3>8. CASE s.head[l] = c /\ s.head[l] # s.tail[l]
      <4>1. s.next[c] # NoTask
        <5>1. 1 \in 1 .. n /\ n # 1 /\ c = q[1]
          BY <3>4, <3>6, <3>8
        <5>2. s.next[q[1]] = NoTask <=> 1 = n
          BY <3>4, <5>1, ChainAt
        <5>3. QED
          BY <5>1, <5>2
      <4>2. r = RotateHead(y, l)
        BY <2>1, <2>2, <2>4, <3>8, <4>1
      <4>3. /\ Lines(RotateHead(y, l), R)
            /\ Queue(RotateHead(y, l)) = [Queue(y) EXCEPT ![l] = Append(Tail(@), y.head[l])]
        <5>1. y \in Sched /\ Lines(y, R) /\ y.head[l] # NoTask /\ y.head[l] # y.tail[l]
          BY <3>2, <3>7, <3>8
        <5>2. l \in Prio
          BY <2>1
        <5> HIDE DEF l
        <5>3. QED
          BY <5>1, <5>2, RotateHeadLines
      <4>4. LET z == RotateHead(y, l)
            IN  /\ z.prio = y.prio /\ z.state = y.state /\ z.wake = y.wake /\ z.slice = y.slice
                /\ z.current = y.current /\ z.sleep = y.sleep
        BY <3>2 DEF RotateHead, Sched
      <4>5. Queue(r) = [Queue(s) EXCEPT ![l] = Append(Tail(@), c)]
        BY <3>2, <3>8, <4>2, <4>3
      <4>6. /\ r.prio = s.prio /\ r.state = s.state /\ r.wake = s.wake
            /\ r.current = s.current /\ r.sleep = s.sleep
            /\ r.slice = [s.slice EXCEPT ![c] = Quantum]
        BY <3>2, <4>2, <4>4
      <4>7. Queue(s)[l] # << >> /\ Head(Queue(s)[l]) = c
        BY <3>5, <3>7, <3>8
      <4>8. Lines(r, R)
        BY <4>2, <4>3
      <4>9. Charges(r, s, R)
        BY <1>2, <3>1, <4>5, <4>6, <4>7, <4>8 DEF Charges
      <4>10. QED
        BY <4>9 DEF r
    <3>9. CASE ~ (s.head[l] = c /\ s.head[l] # s.tail[l])
      <4>1. r = y
        BY <2>2, <2>4, <3>9
      <4>2. ASSUME Head(Queue(s)[l]) = c
            PROVE  [Queue(s) EXCEPT ![l] = Append(Tail(@), c)] = Queue(s)
        <5>1. n = 1 /\ q[1] = c
          <6>1. q[1] = c /\ q[n] = c
            BY <3>4, <3>5, <3>6, <3>7, <3>9, <4>2
          <6>2. 1 \in 1 .. n /\ n \in 1 .. n
            BY <3>4, <3>6
          <6>3. QED
            BY <3>4, <6>1, <6>2 DEF Chain
        <5>2. Inserted(Dropped(q, n, 1), n - 1, n - 1, c) = q
          <6>1. n - 1 \in Nat /\ Dropped(q, n, 1) \in [1 .. n - 1 -> Tasks] /\ n - 1 \in 0 .. n - 1
            <7>1. 1 \in 1 .. n
              BY <5>1
            <7>2. n - 1 \in Nat /\ Dropped(q, n, 1) \in [1 .. n - 1 -> Tasks]
              BY <3>4, <7>1, DroppedList
            <7>3. QED
              BY <7>2
          <6>2. Inserted(Dropped(q, n, 1), n - 1, n - 1, c) \in [1 .. (n - 1) + 1 -> Tasks]
            BY <2>1, <6>1, InsertedList
          <6>3. Inserted(Dropped(q, n, 1), n - 1, n - 1, c)[1] = c
            BY <5>1 DEF Inserted
          <6>4. (n - 1) + 1 = 1 /\ 1 .. 1 = {1}
            BY <5>1
          <6> DEFINE d == Inserted(Dropped(q, n, 1), n - 1, n - 1, c)
          <6>5. d \in [1 .. 1 -> Tasks] /\ q \in [1 .. 1 -> Tasks] /\ d[1] = q[1]
            BY <3>4, <5>1, <6>2, <6>3, <6>4
          <6> HIDE DEF d
          <6>6. d = q
            BY <6>5
          <6>7. QED
            BY <6>6 DEF d
        <5>3. Append(Tail(Queue(s)[l]), c) = Queue(s)[l]
          BY <3>5, <3>7, <5>2
        <5>4. QED
          BY <5>3 DEF Queue
      <4>3. Queue(r) = Queue(s)
        BY <3>2, <4>1
      <4>4. /\ r.prio = s.prio /\ r.state = s.state /\ r.wake = s.wake
            /\ r.current = s.current /\ r.sleep = s.sleep
            /\ r.slice = [s.slice EXCEPT ![c] = Quantum] /\ Lines(r, R)
        BY <3>2, <4>1
      <4>5. Charges(r, s, R)
        BY <1>2, <3>1, <4>2, <4>3, <4>4 DEF Charges
      <4>6. QED
        BY <4>5 DEF r
    <3>10. QED
      BY <3>8, <3>9
  <2>5. QED
    BY <2>3, <2>4
<1>3. QED
  BY <1>1, <1>2

-----------------------------------------------------------------------------
(* What each function does to the queues                                   *)

\* The other variables of the abstract scheduler.
Levels(s) == [t \in Tasks |-> Clamp(s.prio[t])]
Runs(s) == {t \in Tasks : s.state[t] = "RUNNING"}
Dozers(s) == NodesFrom(s, s.sleep)

\* The invariant of the refinement: the links are those of the queues, and no task runs
\* that is in none.
Fit(s, R, A, tick) == Accounted(s, R, A, tick) /\ Lines(s, R) /\ Runs(s) \subseteq R

\* The sleep list reads the same as long as its links do.
LEMMA DozersFrame ==
  ASSUME NEW s \in Sched, NEW r \in Sched, NEW A \in SUBSET Tasks, Sleepers(s, A),
         SameSleepers(r, s, A)
  PROVE  Dozers(r) = Dozers(s)
<1>1. PICK n, q : SleepList(s, A, n, q)
  BY DEF Sleepers
<1>2. SleepList(r, A, n, q)
  BY <1>1, SleepFrame
<1>3. Chain(s.next, s.prev, s.sleep, n, q) /\ Chain(r.next, r.prev, r.sleep, n, q)
  BY <1>1, <1>2 DEF SleepList
<1>4. NodesFrom(s, s.sleep) = q
  BY <1>3, NodesOfChain
<1>5. NodesFrom(r, r.sleep) = q
  BY <1>3, NodesOfChain
<1>6. QED
  BY <1>4, <1>5 DEF Dozers

\* r is s with t at the end of the queue of level p, its quantum refilled if empty.
Enqueued(r, s, t, p) ==
  /\ Queue(r) = [Queue(s) EXCEPT ![p] = Append(@, t)]
  /\ Levels(r) = [Levels(s) EXCEPT ![t] = p]
  /\ Runs(r) = Runs(s) \ {t}

Refilled(r, s, t) == r.slice = [s.slice EXCEPT ![t] = IF @ = 0 THEN Quantum ELSE @]

Added(r, s, R, t) ==
  /\ r \in Sched /\ Lines(r, R \cup {t}) /\ Enqueued(r, s, t, Clamp(s.prio[t]))
  /\ Refilled(r, s, t) /\ r.wake = s.wake /\ r.current = s.current

LEMMA AddReadyView ==
  ASSUME NEW s \in Sched, NEW R \in SUBSET Tasks, NEW t \in Tasks, t \notin R, Lines(s, R)
  PROVE  Added(AddReady(s, t), s, R, t)
<1> DEFINE r == AddReady(s, t)
           p == LevelOf(s, t)
<1>1. /\ r.slice = [s.slice EXCEPT ![t] = IF @ = 0 THEN Quantum ELSE @] /\ r.wake = s.wake
  BY DEF AddReady, Sched
<1>2. /\ p \in Prio /\ p \in Nat /\ r.prio = [s.prio EXCEPT ![t] = p]
      /\ r.state = [s.state EXCEPT ![t] = "READY"] /\ r.current = s.current
  <2>1. p \in Prio /\ r.prio = [s.prio EXCEPT ![t] = p]
        /\ r.state = [s.state EXCEPT ![t] = "READY"] /\ r.current = s.current
    BY AddReadyFields
  <2>2. QED
    BY <2>1 DEF Prio
<1>3. Lines(r, R \cup {t}) /\ Queue(r) = [Queue(s) EXCEPT ![p] = Append(@, t)]
  BY AddReadyLines
<1>4. r \in Sched
  BY AddReadyType
<1>5. Clamp(s.prio[t]) = p
  BY DEF LevelOf
<1> HIDE DEF r, p
<1>6. Levels(r) = [Levels(s) EXCEPT ![t] = p]
  <2>1. Clamp(p) = p
    BY <1>2, ClampInRange
  <2>2. \A u \in Tasks : r.prio[u] = IF u = t THEN p ELSE s.prio[u]
    BY <1>2 DEF Sched
  <2>3. QED
    BY <2>1, <2>2 DEF Levels
<1>7. Runs(r) = Runs(s) \ {t}
  BY <1>2 DEF Runs, Sched
<1>8. Refilled(r, s, t)
  BY <1>1 DEF Refilled
<1>9. Enqueued(r, s, t, p)
  BY <1>3, <1>6, <1>7 DEF Enqueued
<1>10. Added(r, s, R, t)
  BY <1>1, <1>2, <1>3, <1>4, <1>5, <1>8, <1>9 DEF Added
<1>11. QED
  BY <1>10 DEF r

\* A new task is queued at its level, with a full quantum.
Admitted(r, s, R, t, p) ==
  /\ Lines(r, R \cup {t}) /\ Enqueued(r, s, t, Clamp(p))
  /\ r.slice = [s.slice EXCEPT ![t] = Quantum] /\ r.wake = [s.wake EXCEPT ![t] = 0]
  /\ r.current = s.current /\ Dozers(r) = Dozers(s)

LEMMA AdmitView ==
  ASSUME NEW s, NEW R \in SUBSET Tasks, NEW A \in SUBSET Tasks, R \cap A = {}, NEW tick,
         Fit(s, R, A, tick), NEW t \in Tasks, t \notin R, t \notin A, NEW p \in Nat
  PROVE  Admitted(AddReady(NewTcb(s, t, p), t), s, R, t, p)
<1> DEFINE b == NewTcb(s, t, p)
           r == AddReady(b, t)
<1>1. s \in Sched /\ Queued(s, R) /\ Sleepers(s, A) /\ Lines(s, R)
  BY DEF Fit, Accounted
<1>2. b \in Sched /\ Queued(b, R) /\ SameSleepers(b, s, A)
  BY <1>1, NewTcbFields, TcbQueued, TcbSleepers
<1>3. /\ b.next = [s.next EXCEPT ![t] = NoTask] /\ b.prev = [s.prev EXCEPT ![t] = NoTask]
      /\ b.prio = [s.prio EXCEPT ![t] = p] /\ b.head = s.head /\ b.tail = s.tail
      /\ b.current = s.current
  BY <1>1, NewTcbFields
<1>4. /\ b.state = [s.state EXCEPT ![t] = "READY"] /\ b.slice = [s.slice EXCEPT ![t] = Quantum]
      /\ b.wake = [s.wake EXCEPT ![t] = 0]
  BY <1>1 DEF NewTcb, BlankTcb, Sched
<1> HIDE DEF b
<1>5. SameLines(b, s, R)
  BY <1>1, <1>3 DEF SameLines, Sched
<1>6. Lines(b, R) /\ Queue(b) = Queue(s)
  BY <1>1, <1>2, <1>5, LinesFrame
<1>7. Added(r, b, R, t)
  BY <1>2, <1>6, AddReadyView
<1>8. SameSleepers(r, b, A)
  BY <1>2, AddReadySleepers
<1> HIDE DEF r
<1>9. r \in Sched /\ Dozers(r) = Dozers(s)
  <2>1. r \in Sched /\ SameSleepers(r, s, A)
    BY <1>2, <1>7, <1>8, SameSleepersTrans DEF Added
  <2>2. QED
    BY <1>1, <2>1, DozersFrame
<1>10. b.prio[t] = p
  BY <1>1, <1>3 DEF Sched
<1>11. Enqueued(r, s, t, Clamp(p))
  <2> DEFINE l == Clamp(p)
  <2>1. Enqueued(r, b, t, l)
    BY <1>7, <1>10 DEF Added
  <2> HIDE DEF l
  <2>2. [Levels(b) EXCEPT ![t] = l] = [Levels(s) EXCEPT ![t] = l]
    BY <1>1, <1>3 DEF Levels, Sched
  <2>3. Runs(b) \ {t} = Runs(s) \ {t}
    BY <1>1, <1>4 DEF Runs, Sched
  <2>4. Enqueued(r, s, t, l)
    BY <2>1, <2>2, <2>3, <1>6 DEF Enqueued
  <2>5. QED
    BY <2>4 DEF l
<1>12. r.slice = [s.slice EXCEPT ![t] = Quantum]
  <2>1. b.slice[t] = Quantum /\ Quantum # 0 /\ b.slice \in [Tasks -> Nat]
    BY <1>1, <1>2, <1>4, QueueAssumption DEF Sched
  <2>2. r.slice = [b.slice EXCEPT ![t] = IF @ = 0 THEN Quantum ELSE @]
    BY <1>7 DEF Added, Refilled
  <2>3. r.slice = b.slice
    BY <2>1, <2>2
  <2>4. QED
    BY <2>3, <1>4
<1>13. r.wake = [s.wake EXCEPT ![t] = 0] /\ r.current = s.current /\ Lines(r, R \cup {t})
  BY <1>3, <1>4, <1>7 DEF Added
<1>14. Admitted(r, s, R, t, p)
  BY <1>9, <1>11, <1>12, <1>13 DEF Admitted
<1>15. QED
  BY <1>14 DEF r, b

\* A task that waited for something else joins the queue of its level.
Unblocked(r, s, R, t) == Added(r, s, R, t) /\ Dozers(r) = Dozers(s)

LEMMA UnblockView ==
  ASSUME NEW s, NEW R \in SUBSET Tasks, NEW A \in SUBSET Tasks, R \cap A = {}, NEW tick,
         Fit(s, R, A, tick), NEW t \in Tasks, t \notin R, t \notin A
  PROVE  Unblocked(UnblockTask(s, t), s, R, t)
<1> DEFINE r == AddReady(s, t)
<1>1. s \in Sched /\ Queued(s, R) /\ Sleepers(s, A) /\ Lines(s, R)
  BY DEF Fit, Accounted
<1>2. Added(r, s, R, t) /\ SameSleepers(r, s, A)
  BY <1>1, AddReadyView, AddReadySleepers
<1> HIDE DEF r
<1>3. Dozers(r) = Dozers(s)
  BY <1>1, <1>2, DozersFrame DEF Added
<1>4. QED
  BY <1>2, <1>3 DEF Unblocked, UnblockTask, r

\* What a step that takes t out of its queue does to the rest may come before or after.
LEMMA TakesFrame ==
  ASSUME NEW s \in Sched, NEW a \in Sched, NEW b \in Sched, NEW r \in Sched,
         NEW R \in SUBSET Tasks, NEW t \in R, Lines(s, R), s.prio[t] \in Prio,
         SameLines(a, s, R), b = RemoveReady(a, t), SameLines(r, b, R \ {t})
  PROVE  Takes(s, R, t, r)
<1>1. Lines(a, R) /\ Queue(a) = Queue(s) /\ a.prio[t] = s.prio[t]
  <2>1. Lines(a, R) /\ Queue(a) = Queue(s)
    BY LinesFrame
  <2>2. QED
    BY <2>1 DEF SameLines
<1>2. Takes(a, R, t, b)
  <2>1. a.prio[t] \in Prio /\ Lines(a, R)
    BY <1>1
  <2>2. QED
    BY <2>1, RemoveReadyLines
<1>3. Lines(r, R \ {t}) /\ Queue(r) = Queue(b)
  <2>1. Lines(b, R \ {t}) /\ R \ {t} \in SUBSET Tasks
    BY <1>2 DEF Takes
  <2>2. QED
    BY <2>1, LinesFrame
<1>4. QED
  BY <1>1, <1>2, <1>3 DEF Takes

\* A task that is deleted leaves its queue, its control block blank.
Retired(r, s, R, t) ==
  /\ Takes(s, R, t, r)
  /\ Levels(r) = [Levels(s) EXCEPT ![t] = 0] /\ Runs(r) = Runs(s) \ {t}
  /\ r.slice = [s.slice EXCEPT ![t] = 0] /\ r.wake = [s.wake EXCEPT ![t] = 0]
  /\ r.current = s.current /\ Dozers(r) = Dozers(s)

LEMMA RetireView ==
  ASSUME NEW s, NEW R \in SUBSET Tasks, NEW A \in SUBSET Tasks, R \cap A = {}, NEW tick,
         Fit(s, R, A, tick), NEW t \in R
  PROVE  Retired(BlankTcb(RemoveReady([s EXCEPT !.state[t] = "DELETED"], t), t), s, R, t)
<1> DEFINE a == [s EXCEPT !.state[t] = "DELETED"]
           b == RemoveReady(a, t)
           r == BlankTcb(b, t)
           R1 == R \ {t}
<1>1. s \in Sched /\ Queued(s, R) /\ Sleepers(s, A) /\ Lines(s, R)
  BY DEF Fit, Accounted
<1>2. a \in Sched /\ Queued(a, R) /\ SameSleepers(a, s, A)
  <2>1. "DELETED" \in TaskState
    BY DEF TaskState
  <2>2. QED
    BY <1>1, <2>1, StateSleepers
<1>3. /\ a.head = s.head /\ a.tail = s.tail /\ a.next = s.next /\ a.prev = s.prev
      /\ a.prio = s.prio /\ a.state = [s.state EXCEPT ![t] = "DELETED"]
      /\ a.slice = s.slice /\ a.wake = s.wake /\ a.current = s.current
  BY <1>1 DEF Sched
<1> HIDE DEF a
<1>4. /\ b \in Sched /\ Queued(b, R1) /\ SameSleepers(b, a, A)
      /\ b.prio = a.prio /\ b.state = a.state /\ b.slice = a.slice /\ b.wake = a.wake
      /\ b.current = a.current
  BY <1>2, RemoveReadyType, RemoveReadyQueued, RemoveReadySleepers, RemoveReadyFields
<1>5. R1 \in SUBSET Tasks /\ t \notin R1 /\ t \notin A /\ t \in Tasks /\ 0 \in Nat
  OBVIOUS
<1>14. b = RemoveReady(a, t)
  OBVIOUS
<1> HIDE DEF b
<1>6. r \in Sched /\ SameSleepers(r, b, A)
  BY <1>4, <1>5, BlankTcbFields, TcbSleepers
<1>7. /\ r.head = b.head /\ r.tail = b.tail /\ r.current = b.current
      /\ r.next = [b.next EXCEPT ![t] = NoTask] /\ r.prev = [b.prev EXCEPT ![t] = NoTask]
      /\ r.prio = [b.prio EXCEPT ![t] = 0] /\ r.state = [b.state EXCEPT ![t] = "READY"]
      /\ r.slice = [b.slice EXCEPT ![t] = 0] /\ r.wake = [b.wake EXCEPT ![t] = 0]
  BY <1>4, <1>5 DEF BlankTcb, Sched
<1> HIDE DEF r
<1>8. SameLines(a, s, R)
  BY <1>3 DEF SameLines
<1>9. SameLines(r, b, R1)
  BY <1>4, <1>5, <1>7 DEF SameLines, Sched
<1>10. s.prio[t] \in Prio
  BY <1>1 DEF Queued, LinksWellFormed
<1>11. Takes(s, R, t, r)
  BY <1>1, <1>2, <1>4, <1>6, <1>8, <1>9, <1>10, <1>14, TakesFrame DEF R1
<1>12. Dozers(r) = Dozers(s)
  <2>1. SameSleepers(r, s, A)
    BY <1>2, <1>4, <1>6, SameSleepersTrans
  <2>2. QED
    BY <1>1, <1>6, <2>1, DozersFrame
<1>13. Levels(r) = [Levels(s) EXCEPT ![t] = 0]
  <2>1. Clamp(0) = 0
    BY QueueAssumption DEF Clamp
  <2>2. \A u \in Tasks : r.prio[u] = IF u = t THEN 0 ELSE s.prio[u]
    BY <1>1, <1>3, <1>4, <1>7 DEF Sched
  <2>3. QED
    BY <2>1, <2>2 DEF Levels
<1>15. Runs(r) = Runs(s) \ {t}
  BY <1>1, <1>3, <1>4, <1>7 DEF Runs, Sched
<1>16. Retired(r, s, R, t)
  BY <1>3, <1>4, <1>7, <1>11, <1>12, <1>13, <1>15 DEF Retired
<1>17. QED
  BY <1>16 DEF r, b, a

\* A task that blocks leaves its queue and keeps the rest.
Blocked(r, s, R, t) ==
  /\ Takes(s, R, t, r) /\ Levels(r) = Levels(s) /\ Runs(r) = Runs(s) \ {t}
  /\ r.slice = s.slice /\ r.wake = s.wake /\ r.current = s.current /\ Dozers(r) = Dozers(s)

LEMMA BlockView ==
  ASSUME NEW s, NEW R \in SUBSET Tasks, NEW A \in SUBSET Tasks, R \cap A = {}, NEW tick,
         Fit(s, R, A, tick), NEW t \in R
  PROVE  Blocked(BlockTask(s, t), s, R, t)
<1> DEFINE b == RemoveReady(s, t)
           r == [b EXCEPT !.state[t] = "BLOCKED"]
           R1 == R \ {t}
<1>1. s \in Sched /\ Queued(s, R) /\ Sleepers(s, A) /\ Lines(s, R)
  BY DEF Fit, Accounted
<1>2. /\ b \in Sched /\ Queued(b, R1) /\ SameSleepers(b, s, A)
      /\ b.prio = s.prio /\ b.state = s.state /\ b.slice = s.slice /\ b.wake = s.wake
      /\ b.current = s.current
  BY <1>1, RemoveReadyType, RemoveReadyQueued, RemoveReadySleepers, RemoveReadyFields
<1>3. R1 \in SUBSET Tasks /\ "BLOCKED" \in TaskState
  BY DEF TaskState
<1>14. b = RemoveReady(s, t)
  OBVIOUS
<1> HIDE DEF b
<1>4. r \in Sched /\ SameSleepers(r, b, A)
  BY <1>2, <1>3, StateSleepers
<1>5. /\ r.head = b.head /\ r.tail = b.tail /\ r.next = b.next /\ r.prev = b.prev
      /\ r.prio = b.prio /\ r.state = [b.state EXCEPT ![t] = "BLOCKED"]
      /\ r.slice = b.slice /\ r.wake = b.wake /\ r.current = b.current
  BY <1>2 DEF Sched
<1>6. BlockTask(s, t) = r
  BY <1>14 DEF BlockTask
<1> HIDE DEF r
<1>7. SameLines(s, s, R) /\ SameLines(r, b, R1)
  BY <1>5 DEF SameLines
<1>8. s.prio[t] \in Prio
  BY <1>1 DEF Queued, LinksWellFormed
<1>9. Takes(s, R, t, r)
  BY <1>1, <1>2, <1>4, <1>7, <1>8, <1>14, TakesFrame DEF R1
<1>10. Dozers(r) = Dozers(s)
  <2>1. SameSleepers(r, s, A)
    BY <1>2, <1>4, SameSleepersTrans
  <2>2. QED
    BY <1>1, <1>4, <2>1, DozersFrame
<1>11. Levels(r) = Levels(s)
  BY <1>2, <1>5 DEF Levels
<1>12. Runs(r) = Runs(s) \ {t}
  BY <1>1, <1>2, <1>5 DEF Runs, Sched
<1>13. QED
  BY <1>2, <1>5, <1>6, <1>9, <1>10, <1>11, <1>12 DEF Blocked

\* The sleep list read along the links is the list of the sleepers.
LEMMA DozersView ==
  ASSUME NEW s \in Sched, NEW A, NEW n, NEW q, SleepList(s, A, n, q)
  PROVE  Dozers(s) = q /\ Len(q) = n /\ n \in Nat /\ q \in [1 .. n -> Tasks]
<1>1. Chain(s.next, s.prev, s.sleep, n, q) /\ n \in Nat /\ q \in [1 .. n -> Tasks]
  BY DEF SleepList, Chain
<1>2. NodesFrom(s, s.sleep) = q
  BY <1>1, NodesOfChain
<1>3. Len(q) = n
  BY <1>1, LenOf
<1>4. QED
  BY <1>1, <1>2, <1>3 DEF Dozers

\* The first k sleepers are those that wake by w.
DueFirst(s, k, w) == \A i \in 1 .. Len(Dozers(s)) : s.wake[Dozers(s)[i]] <= w <=> i <= k

\* A task that goes to sleep leaves its queue for its place in the sleep list.
Dozes(r, s, R, t, w) ==
  /\ Takes(s, R, t, r) /\ Levels(r) = Levels(s) /\ Runs(r) = Runs(s) \ {t}
  /\ r.slice = s.slice /\ r.wake = [s.wake EXCEPT ![t] = w] /\ r.current = s.current
  /\ \E k \in 0 .. Len(Dozers(s)) :
       DueFirst(s, k, w) /\ Dozers(r) = Fifo!InsertAt(Dozers(s), k + 1, t)

LEMMA SleepView ==
  ASSUME NEW s, NEW R \in SUBSET Tasks, NEW A \in SUBSET Tasks, R \cap A = {}, NEW tick,
         Fit(s, R, A, tick), NEW t \in R, NEW w \in Nat
  PROVE  Dozes(SleepTask(s, t, w), s, R, t, w)
<1> DEFINE b == RemoveReady(s, t)
           r == SleepTask(s, t, w)
<1>1. s \in Sched /\ Queued(s, R) /\ Sleepers(s, A) /\ Lines(s, R)
  BY DEF Fit, Accounted
<1>2. Slept(r, s, R, A, t, w)
  BY <1>1, SleepTaskSleepers
<1>3. b \in Sched /\ b = RemoveReady(s, t)
  BY <1>1, RemoveReadyType
<1> HIDE DEF r, b
<1>4. /\ r \in Sched /\ r.wake = [s.wake EXCEPT ![t] = w]
      /\ r.state = [s.state EXCEPT ![t] = "SLEEPING"]
      /\ r.prio = s.prio /\ r.slice = s.slice /\ r.current = s.current
      /\ SameLines(r, b, R \ {t})
  BY <1>2, <1>3 DEF Slept
<1>5. PICK n, q : \E k \in 0 .. n :
         /\ SleepList(s, A, n, q) /\ SleepList(r, A \cup {t}, n + 1, Inserted(q, n, k, t))
         /\ \A i \in 1 .. n : s.wake[q[i]] <= w <=> i <= k
  BY <1>2 DEF Slept
<1>6. PICK k \in 0 .. n :
         /\ SleepList(s, A, n, q) /\ SleepList(r, A \cup {t}, n + 1, Inserted(q, n, k, t))
         /\ \A i \in 1 .. n : s.wake[q[i]] <= w <=> i <= k
  BY <1>5
<1>7. Dozers(s) = q /\ Len(q) = n /\ n \in Nat /\ q \in [1 .. n -> Tasks]
  BY <1>1, <1>6, DozersView
<1>8. Dozers(r) = Fifo!InsertAt(q, k + 1, t)
  <2>1. Dozers(r) = Inserted(q, n, k, t)
    BY <1>4, <1>6, DozersView
  <2>2. QED
    BY <1>7, <2>1, ListInsert
<1>9. DueFirst(s, k, w)
  BY <1>6, <1>7 DEF DueFirst
<1>10. s.prio[t] \in Prio
  BY <1>1 DEF Queued, LinksWellFormed
<1>11. Takes(s, R, t, r)
  <2>1. SameLines(s, s, R)
    BY DEF SameLines
  <2>2. QED
    BY <1>1, <1>3, <1>4, <1>10, <2>1, TakesFrame
<1>12. Levels(r) = Levels(s)
  BY <1>4 DEF Levels
<1>13. Runs(r) = Runs(s) \ {t}
  BY <1>1, <1>4 DEF Runs, Sched
<1>14. Dozes(r, s, R, t, w)
  BY <1>4, <1>7, <1>8, <1>9, <1>11, <1>12, <1>13 DEF Dozes
<1>15. QED
  BY <1>14 DEF r

\* A ready task is in the queue of its level.
LEMMA ReadyQueued ==
  ASSUME NEW s \in Sched, NEW R \in SUBSET Tasks, Queued(s, R), Lines(s, R), NEW t \in R
  PROVE  /\ s.prio[t] \in Prio /\ Levels(s)[t] = s.prio[t]
         /\ \E k \in 1 .. Len(Queue(s)[s.prio[t]]) : Queue(s)[s.prio[t]][k] = t
<1> DEFINE p == s.prio[t]
<1>1. p \in Prio /\ t \in Tasks
  BY DEF Queued, LinksWellFormed
<1>2. PICK n, q : Line(s, R, p, n, q)
  BY <1>1 DEF Lines
<1>3. PICK k \in 1 .. n : q[k] = t
  BY <1>1, <1>2 DEF Line, OnList
<1>4. Queue(s)[p] = q /\ Len(q) = n
  BY <1>1, <1>2, LineView
<1>5. Levels(s)[t] = p
  <2>1. p \in Nat
    BY <1>1 DEF Prio
  <2>2. Clamp(p) = p
    BY <1>1, <2>1, ClampInRange
  <2>3. QED
    BY <1>1, <2>2 DEF Levels
<1>6. QED
  BY <1>1, <1>3, <1>4, <1>5

\* s with c made current and running: no list changes.
Started(s, c) == [s EXCEPT !.state[c] = "RUNNING", !.current = c]

Starts(r, s, R, c) ==
  /\ Lines(r, R) /\ Queue(r) = Queue(s) /\ Levels(r) = Levels(s)
  /\ Runs(r) = Runs(s) \cup {c} /\ r.slice = s.slice /\ r.wake = s.wake
  /\ r.current = c /\ Dozers(r) = Dozers(s)

LEMMA RunView ==
  ASSUME NEW s, NEW R \in SUBSET Tasks, NEW A \in SUBSET Tasks, R \cap A = {}, NEW tick,
         Fit(s, R, A, tick), NEW c \in R
  PROVE  Starts(Started(s, c), s, R, c)
<1> DEFINE state == [s.state EXCEPT ![c] = "RUNNING"]
           r == Started(s, c)
<1>1. s \in Sched /\ Queued(s, R) /\ Sleepers(s, A) /\ Lines(s, R)
  BY DEF Fit, Accounted
<1>2. state \in [Tasks -> TaskState] /\ c \in Link
  BY <1>1 DEF Sched, TaskState, Link
<1>3. r = [s EXCEPT !.state = state, !.current = c]
  BY <1>1 DEF Sched, Started
<1> HIDE DEF r, state
<1>4. r \in Sched /\ SameSleepers(r, s, A)
  BY <1>1, <1>2, <1>3, RunFrame
<1>5. /\ r.head = s.head /\ r.tail = s.tail /\ r.next = s.next /\ r.prev = s.prev
      /\ r.prio = s.prio /\ r.state = state /\ r.slice = s.slice /\ r.wake = s.wake
      /\ r.current = c
  BY <1>1, <1>2, <1>3 DEF Sched
<1>6. SameLines(r, s, R)
  BY <1>5 DEF SameLines
<1>7. Lines(r, R) /\ Queue(r) = Queue(s)
  BY <1>1, <1>4, <1>6, LinesFrame
<1>8. Dozers(r) = Dozers(s)
  BY <1>1, <1>4, DozersFrame
<1>9. Levels(r) = Levels(s)
  BY <1>5 DEF Levels
<1>10. Runs(r) = Runs(s) \cup {c}
  BY <1>1, <1>5 DEF Runs, Sched, state
<1>11. Starts(r, s, R, c)
  BY <1>5, <1>7, <1>8, <1>9, <1>10 DEF Starts
<1>12. QED
  BY <1>11 DEF r

\* mk_scheduler_pick_next runs the oldest task of the highest queue that is not empty.
LEMMA PickView ==
  ASSUME NEW s, NEW R \in SUBSET Tasks, NEW A \in SUBSET Tasks, R \cap A = {}, NEW tick,
         Fit(s, R, A, tick)
  PROVE  \/ PickNext(s) = s
         \/ \E p \in Prio :
              /\ Queue(s)[p] # << >> /\ \A q \in Prio : q > p => Queue(s)[q] = << >>
              /\ Head(Queue(s)[p]) \in R
              /\ Starts(PickNext(s), s, R, Head(Queue(s)[p]))
<1>1. s \in Sched /\ Queued(s, R) /\ Sleepers(s, A) /\ Lines(s, R)
  BY DEF Fit, Accounted
<1>2. CASE s.bitmap = {}
  BY <1>2 DEF PickNext
<1>3. CASE s.bitmap # {}
  <2> DEFINE top == CHOOSE p \in s.bitmap : \A q \in s.bitmap : q <= p
             next == s.head[top]
  <2>1. top \in s.bitmap /\ \A q \in s.bitmap : q <= top
    <3>1. \E p \in s.bitmap : \A q \in s.bitmap : q <= p
      BY <1>1, <1>3, TopExists
    <3>2. QED
      BY <3>1
  <2>2. PickNext(s) = [s EXCEPT !.current = next,
                                !.state = IF next = NoTask THEN @ ELSE [@ EXCEPT ![next] = "RUNNING"]]
    BY <1>3 DEF PickNext
  <2> HIDE DEF top
  <2>3. /\ top \in Prio /\ next # NoTask
        /\ \A q \in Prio : q > top => s.head[q] = NoTask
    <3>1. s.bitmap = {p \in Prio : s.head[p] # NoTask}
      BY <1>1 DEF Queued, BitmapExact
    <3>2. ASSUME NEW q \in Prio, q > top
          PROVE  s.head[q] = NoTask
      BY <2>1, <3>1, <3>2 DEF Prio
    <3>3. QED
      BY <2>1, <3>1, <3>2
  <2>4. PICK n, x : Line(s, R, top, n, x)
    BY <1>1, <2>3 DEF Lines
  <2>5. n \in Nat /\ x \in [1 .. n -> Tasks] /\ n # 0 /\ next = x[1] /\ next \in R
    <3>1. /\ n \in Nat /\ x \in [1 .. n -> Tasks] /\ \A i \in 1 .. n : x[i] \in R
          /\ next = IF n = 0 THEN NoTask ELSE x[1]
      BY <2>4, LineTasks
    <3>2. n # 0 /\ 1 \in 1 .. n
      BY <2>3, <3>1
    <3>3. QED
      BY <3>1, <3>2
  <2>6. x # << >> /\ Head(x) = next
    BY <2>5
  <2>7. Queue(s)[top] = x
    BY <1>1, <2>3, <2>4, LineView
  <2>8. ASSUME NEW q \in Prio, q > top
        PROVE  Queue(s)[q] = << >>
    <3>1. PICK m, y : Line(s, R, q, m, y)
      BY <1>1 DEF Lines
    <3>2. m = 0
      BY <2>3, <2>8, <3>1, LineTasks
    <3>3. Queue(s)[q] = y /\ Len(y) = m /\ y \in [1 .. m -> Tasks]
      BY <1>1, <3>1, LineView
    <3>4. y = << >>
      BY <3>2, <3>3
    <3>5. QED
      BY <3>3, <3>4
  <2>9. PickNext(s) = Started(s, next)
    <3> HIDE DEF next
    <3>1. QED
      BY <1>1, <2>2, <2>3 DEF Sched, Started
  <2> HIDE DEF next
  <2>10. Starts(PickNext(s), s, R, next)
    BY <2>5, <2>9, RunView
  <2>11. QED
    BY <2>3, <2>5, <2>6, <2>7, <2>8, <2>10
<1>4. QED
  BY <1>2, <1>3

\* A sleeper that is made ready joins the queue of its level.
LEMMA RousedView ==
  ASSUME NEW s \in Sched, NEW R \in SUBSET Tasks, Lines(s, R), NEW A \in SUBSET Tasks,
         R \cap A = {}, NEW n, NEW q, SleepList(s, A, n, q), NEW k \in 1 .. n,
         NEW r, Roused(r, s, R, A, n, q, k)
  PROVE  Added(r, s, R, q[k]) /\ Dozers(r) = Dropped(q, n, k)
<1> DEFINE t == q[k]
<1>1. PICK w \in Sched : /\ r = AddReady(w, t) /\ SameLines(w, s, R)
                         /\ w.prio = s.prio /\ w.slice = s.slice
  BY DEF Roused
<1>2. t \in Tasks /\ t \in A /\ t \notin R
  BY DEF SleepList, Chain, OnList
<1>3. /\ r \in Sched /\ r.wake = s.wake /\ r.current = s.current
      /\ r.state = [s.state EXCEPT ![t] = "READY"]
      /\ SleepList(r, A \ {t}, n - 1, Dropped(q, n, k))
  BY DEF Roused
<1> HIDE DEF t
<1>4. Lines(w, R) /\ Queue(w) = Queue(s)
  BY <1>1, LinesFrame
<1>5. Added(r, w, R, t)
  BY <1>1, <1>2, <1>4, AddReadyView
<1> DEFINE p == Clamp(s.prio[t])
<1>6. Enqueued(r, w, t, p) /\ Refilled(r, w, t) /\ Lines(r, R \cup {t})
  BY <1>1, <1>5 DEF Added
<1> HIDE DEF p
<1>7. Enqueued(r, s, t, p)
  <2>1. Levels(w) = Levels(s)
    BY <1>1 DEF Levels
  <2>2. Runs(r) = Runs(s) \ {t}
    BY <1>2, <1>3 DEF Runs, Sched
  <2>3. QED
    BY <1>4, <1>6, <2>1, <2>2 DEF Enqueued
<1>8. Refilled(r, s, t)
  BY <1>1, <1>6 DEF Refilled
<1>9. Dozers(r) = Dropped(q, n, k)
  BY <1>3, DozersView
<1>10. Added(r, s, R, t)
  BY <1>3, <1>6, <1>7, <1>8 DEF Added, p
<1>11. QED
  BY <1>9, <1>10 DEF t

LEMMA WakeView ==
  ASSUME NEW s, NEW R \in SUBSET Tasks, NEW A \in SUBSET Tasks, R \cap A = {}, NEW tick,
         Fit(s, R, A, tick), NEW t \in A
  PROVE  /\ Added(WakeTask(s, t), s, R, t)
         /\ \E k \in 1 .. Len(Dozers(s)) :
              Dozers(s)[k] = t /\ Dozers(WakeTask(s, t)) = Fifo!RemoveAt(Dozers(s), k)
<1> DEFINE r == WakeTask(s, t)
<1>1. s \in Sched /\ Queued(s, R) /\ Sleepers(s, A) /\ Lines(s, R)
  BY DEF Fit, Accounted
<1>2. \E n, q : \E k \in 1 .. n : SleepList(s, A, n, q) /\ q[k] = t /\ Roused(r, s, R, A, n, q, k)
  BY <1>1, WakeTaskSleepers
<1> HIDE DEF r
<1>3. PICK n, q : \E k \in 1 .. n : SleepList(s, A, n, q) /\ q[k] = t /\ Roused(r, s, R, A, n, q, k)
  BY <1>2
<1>4. PICK k \in 1 .. n : SleepList(s, A, n, q) /\ q[k] = t /\ Roused(r, s, R, A, n, q, k)
  BY <1>3
<1>5. Added(r, s, R, t) /\ Dozers(r) = Dropped(q, n, k)
  BY <1>1, <1>4, RousedView
<1>6. Dozers(s) = q /\ Len(q) = n /\ n \in Nat /\ q \in [1 .. n -> Tasks]
  BY <1>1, <1>4, DozersView
<1>7. Dropped(q, n, k) = Fifo!RemoveAt(q, k)
  BY <1>6, ListRemove
<1>8. QED
  BY <1>4, <1>5, <1>6, <1>7 DEF r

-----------------------------------------------------------------------------
(* The tick and the queues                                                 *)

\* In a list in order of wake tick the sleepers that are due come first.
LEMMA DueCount ==
  ASSUME NEW s \in Sched, NEW A, NEW n, NEW q, SleepList(s, A, n, q), NEW tick \in Nat
  PROVE  \E k \in 0 .. n : \A i \in 1 .. n : s.wake[q[i]] <= tick <=> i <= k
<1>1. /\ n \in Nat /\ \A i \in 1 .. n : q[i] \in Tasks /\ s.wake[q[i]] \in Nat
      /\ \A i, j \in 1 .. n : i < j => s.wake[q[i]] <= s.wake[q[j]]
  BY DEF SleepList, Chain, Sched
<1> DEFINE S == {i \in 1 .. n + 1 : i = n + 1 \/ s.wake[q[i]] > tick}
<1>2. PICK m \in S : \A j \in S : m <= j
  <2>1. S \in SUBSET Nat /\ n + 1 \in S
    BY <1>1
  <2> HIDE DEF S
  <2>2. QED
    BY <2>1, LeastNat
<1>3. m \in 1 .. n + 1 /\ m - 1 \in 0 .. n
  BY <1>1, <1>2
<1>4. ASSUME NEW i \in 1 .. n
      PROVE  s.wake[q[i]] <= tick <=> i <= m - 1
  <2>1. CASE i < m
    <3>1. i \in 1 .. n + 1 /\ i \notin S
      BY <1>1, <1>2, <1>3, <2>1
    <3>2. QED
      BY <1>1, <1>3, <2>1, <3>1
  <2>2. CASE ~ (i < m)
    <3>1. m \in 1 .. n /\ m # n + 1 /\ (m = i \/ m < i)
      BY <1>1, <1>3, <2>2
    <3>2. s.wake[q[m]] > tick
      BY <1>2, <3>1
    <3>3. m = i \/ s.wake[q[m]] <= s.wake[q[i]]
      BY <1>1, <3>1
    <3>4. ~ (s.wake[q[i]] <= tick)
      BY <1>1, <3>1, <3>2, <3>3
    <3>5. QED
      BY <1>3, <2>2, <3>4
  <2>3. QED
    BY <2>1, <2>2
<1>5. QED
  BY <1>3, <1>4

\* The first j of a list, and the others.
First(q, j) == {q[i] : i \in 1 .. j}
Rest(q, n, j) == [i \in 1 .. n - j |-> q[i + j]]

LEMMA FirstRest ==
  ASSUME NEW n \in Nat, NEW q \in [1 .. n -> Tasks], NEW j \in 0 .. n
  PROVE  /\ n - j \in Nat /\ Rest(q, n, j) \in [1 .. n - j -> Tasks] /\ First(q, j) \in SUBSET Tasks
         /\ First(q, 0) = {} /\ Rest(q, n, 0) = q
         /\ Rest(q, n, j) = SubSeq(q, j + 1, n)
<1>1. n - j \in Nat /\ Rest(q, n, j) \in [1 .. n - j -> Tasks] /\ First(q, j) \in SUBSET Tasks
  BY DEF Rest, First
<1>2. First(q, 0) = {} /\ Rest(q, n, 0) = q
  BY DEF Rest, First
<1>3. Rest(q, n, j) = SubSeq(q, j + 1, n)
  <2> DEFINE x == SubSeq(q, j + 1, n)
             d == Rest(q, n, j)
  <2>1. x \in Seq(Tasks) /\ Len(x) = n - j /\ \A i \in 1 .. n - j : x[i] = q[i + j]
    BY ListSlice
  <2> HIDE DEF x
  <2>2. \A i \in 1 .. n - j : x[i] = d[i]
    BY <2>1 DEF Rest
  <2>3. x = d
    BY <1>1, <2>1, <2>2, ListEqual
  <2>4. QED
    BY <2>3 DEF x
<1>4. QED
  BY <1>1, <1>2, <1>3

LEMMA FirstNext ==
  ASSUME NEW n \in Nat, NEW q \in [1 .. n -> Tasks], NEW j \in 0 .. n, j < n
  PROVE  /\ 1 \in 1 .. n - j /\ Rest(q, n, j)[1] = q[j + 1]
         /\ First(q, j + 1) = First(q, j) \cup {q[j + 1]}
         /\ Dropped(Rest(q, n, j), n - j, 1) = Rest(q, n, j + 1)
         /\ (n - j) - 1 = n - (j + 1)
<1>0. n - j \in Nat /\ Rest(q, n, j) \in [1 .. n - j -> Tasks]
  BY FirstRest
<1>1. 1 \in 1 .. n - j /\ Rest(q, n, j)[1] = q[j + 1] /\ (n - j) - 1 = n - (j + 1)
  BY <1>0 DEF Rest
<1>2. First(q, j + 1) = First(q, j) \cup {q[j + 1]}
  <2>1. \A i : i \in 1 .. j + 1 <=> i \in 1 .. j \/ i = j + 1
    BY <1>0
  <2>2. QED
    BY <2>1 DEF First
<1>3. Dropped(Rest(q, n, j), n - j, 1) = Rest(q, n, j + 1)
  <2> DEFINE a == Dropped(Rest(q, n, j), n - j, 1)
             b == Rest(q, n, j + 1)
  <2>1. a \in [1 .. n - (j + 1) -> Tasks]
    BY <1>0, <1>1, DroppedList
  <2>2. b \in [1 .. n - (j + 1) -> Tasks]
    BY <1>0 DEF Rest
  <2>3. \A i \in 1 .. n - (j + 1) : a[i] = b[i]
    BY <1>0 DEF Rest, Dropped
  <2> HIDE DEF a, b
  <2>4. a = b
    BY <2>1, <2>2, <2>3
  <2>5. QED
    BY <2>4 DEF a, b
<1>4. QED
  BY <1>1, <1>2, <1>3

\* x is s once the first j sleepers have been woken.
Risen(x, s, R, A, n, q, j) ==
  /\ x \in Sched /\ Queued(x, R \cup First(q, j)) /\ Lines(x, R \cup First(q, j))
  /\ SleepList(x, A \ First(q, j), n - j, Rest(q, n, j))
  /\ Levels(x) = Levels(s) /\ x.wake = s.wake /\ x.current = s.current
  /\ \A t \in Tasks :
       /\ x.slice[t] = IF t \in First(q, j) /\ s.slice[t] = 0 THEN Quantum ELSE s.slice[t]
       /\ x.state[t] = IF t \in First(q, j) THEN "READY" ELSE s.state[t]

\* A turn of the waking loop wakes the next of them.
Rises(r, x, s, R, A, n, q, j) ==
  /\ Risen(r, s, R, A, n, q, j)
  /\ Queue(r) = [Queue(x) EXCEPT ![Levels(s)[q[j]]] = Append(@, q[j])]

LEMMA RiseOne ==
  ASSUME NEW s \in Sched, NEW R \in SUBSET Tasks, NEW A \in SUBSET Tasks, R \cap A = {},
         NEW n, NEW q, SleepList(s, A, n, q), NEW j \in 0 .. n, j < n,
         NEW x, Risen(x, s, R, A, n, q, j)
  PROVE  Rises(WakeHead(x), x, s, R, A, n, q, j + 1)
<1> DEFINE t == q[j + 1]
           F == First(q, j)
           e == Rest(q, n, j)
           r == WakeHead(x)
<1>1. n \in Nat /\ q \in [1 .. n -> Tasks] /\ j + 1 \in 1 .. n
  BY DEF SleepList, Chain
<1>2. t \in Tasks /\ t \in A /\ t \notin R
  BY <1>1 DEF SleepList, OnList
<1>3. /\ n - j \in Nat /\ F \in SUBSET Tasks /\ 1 \in 1 .. n - j /\ e[1] = t
      /\ First(q, j + 1) = F \cup {t}
      /\ Dropped(e, n - j, 1) = Rest(q, n, j + 1)
      /\ (n - j) - 1 = n - (j + 1)
  <2>1. n - j \in Nat /\ F \in SUBSET Tasks
    BY <1>1, FirstRest
  <2>2. /\ 1 \in 1 .. n - j /\ e[1] = t
        /\ First(q, j + 1) = F \cup {t}
        /\ Dropped(e, n - j, 1) = Rest(q, n, j + 1)
        /\ (n - j) - 1 = n - (j + 1)
    BY <1>1, FirstNext
  <2>3. QED
    BY <2>1, <2>2
<1>4. t \notin F
  <2>1. \A a, b \in 1 .. n : q[a] = q[b] => a = b
    BY DEF SleepList, Chain
  <2>2. \A i \in 1 .. j : q[i] # t
    BY <1>1, <2>1
  <2>3. QED
    BY <2>2 DEF First
<1>5. F \subseteq A
  <2>1. \A i \in 1 .. j : i \in 1 .. n
    BY <1>1
  <2>2. \A i \in 1 .. n : q[i] \in A
    BY <1>1 DEF SleepList, OnList
  <2>3. QED
    BY <2>1, <2>2 DEF First
<1> DEFINE R1 == R \cup F
           A1 == A \ F
           m == n - j
<1>6. /\ x \in Sched /\ Queued(x, R1) /\ Lines(x, R1) /\ SleepList(x, A1, m, e)
      /\ Levels(x) = Levels(s) /\ x.wake = s.wake /\ x.current = s.current
      /\ \A u \in Tasks :
           /\ x.slice[u] = IF u \in F /\ s.slice[u] = 0 THEN Quantum ELSE s.slice[u]
           /\ x.state[u] = IF u \in F THEN "READY" ELSE s.state[u]
  BY DEF Risen
<1>7. R1 \in SUBSET Tasks /\ A1 \in SUBSET Tasks /\ R1 \cap A1 = {} /\ m # 0 /\ 1 \in 1 .. m
  BY <1>3, <1>5
<1> HIDE DEF r, R1, A1, m, e, F, t
<1>8. Roused(r, x, R1, A1, m, e, 1)
  BY <1>6, <1>7, WakeHeadSleepers DEF r
<1>9. Added(r, x, R1, e[1])
  BY <1>6, <1>7, <1>8, RousedView
<1>10. Added(r, x, R1, t)
  BY <1>3, <1>9
<1>11. /\ r \in Sched /\ Queued(r, R1 \cup {t}) /\ SleepList(r, A1 \ {t}, m - 1, Dropped(e, m, 1))
       /\ r.state = [x.state EXCEPT ![t] = "READY"]
  BY <1>3, <1>8 DEF Roused
<1>12. Clamp(x.prio[t]) = Levels(s)[t]
  BY <1>2, <1>6 DEF Levels
<1>13. /\ Lines(r, R1 \cup {t}) /\ r.wake = x.wake /\ r.current = x.current
       /\ Queue(r) = [Queue(x) EXCEPT ![Levels(s)[t]] = Append(@, t)]
       /\ Levels(r) = [Levels(x) EXCEPT ![t] = Levels(s)[t]]
       /\ r.slice = [x.slice EXCEPT ![t] = IF @ = 0 THEN Quantum ELSE @]
  BY <1>10, <1>12 DEF Added, Enqueued, Refilled
<1>14. Levels(r) = Levels(s)
  <2>1. Levels(s) = [u \in Tasks |-> Levels(s)[u]]
    BY DEF Levels
  <2>2. QED
    BY <1>6, <1>13, <2>1
<1>15. \A u \in Tasks :
         /\ r.slice[u] = IF u \in F \cup {t} /\ s.slice[u] = 0 THEN Quantum ELSE s.slice[u]
         /\ r.state[u] = IF u \in F \cup {t} THEN "READY" ELSE s.state[u]
  <2> TAKE u \in Tasks
  <2>1. x.slice \in [Tasks -> Nat] /\ x.state \in [Tasks -> TaskState]
    BY <1>6 DEF Sched
  <2>2. r.slice[u] = IF u = t /\ x.slice[u] = 0 THEN Quantum ELSE x.slice[u]
    BY <1>13, <2>1
  <2>3. r.state[u] = IF u = t THEN "READY" ELSE x.state[u]
    BY <1>11, <2>1
  <2>4. QED
    BY <1>4, <1>6, <2>2, <2>3
<1>16. /\ R1 \cup {t} = R \cup First(q, j + 1) /\ A1 \ {t} = A \ First(q, j + 1)
  BY <1>3 DEF R1, A1
<1>17. SleepList(r, A \ First(q, j + 1), n - (j + 1), Rest(q, n, j + 1))
  <2>1. m - 1 = n - (j + 1) /\ Dropped(e, m, 1) = Rest(q, n, j + 1)
    BY <1>3 DEF m
  <2>2. QED
    BY <1>11, <1>16, <2>1
<1>18. Risen(r, s, R, A, n, q, j + 1)
  <2>1. Queued(r, R \cup First(q, j + 1)) /\ Lines(r, R \cup First(q, j + 1))
    BY <1>11, <1>13, <1>16
  <2>2. \A u \in Tasks :
         /\ r.slice[u] = IF u \in First(q, j + 1) /\ s.slice[u] = 0 THEN Quantum ELSE s.slice[u]
         /\ r.state[u] = IF u \in First(q, j + 1) THEN "READY" ELSE s.state[u]
    BY <1>3, <1>15
  <2>3. r.wake = s.wake /\ r.current = s.current
    BY <1>6, <1>13
  <2>4. QED
    BY <1>11, <1>14, <1>17, <2>1, <2>2, <2>3 DEF Risen
<1>19. QED
  BY <1>13, <1>18 DEF Rises, r, t

\* The queues once the first k tasks of z have joined them, one after the other.
Grows(f, Q, lv, z, k) ==
  f = [j \in 0 .. k |-> IF j = 0 THEN Q ELSE [f[j - 1] EXCEPT ![lv[z[j]]] = Append(@, z[j])]]

JoinedUp(Q, lv, z, k) ==
  LET joined[j \in 0 .. k] ==
        IF j = 0 THEN Q ELSE [joined[j - 1] EXCEPT ![lv[z[j]]] = Append(@, z[j])]
  IN  joined[k]

LEMMA GrowsUnique ==
  ASSUME NEW k \in Nat, NEW Q, NEW lv, NEW z, NEW f, NEW g,
         Grows(f, Q, lv, z, k), Grows(g, Q, lv, z, k)
  PROVE  f[k] = g[k]
<1> DEFINE S == {j \in 0 .. k : f[j] = g[j]}
<1>1. \A j \in 0 .. k :
        f[j] = IF j = 0 THEN Q ELSE [f[j - 1] EXCEPT ![lv[z[j]]] = Append(@, z[j])]
  BY DEF Grows
<1>2. \A j \in 0 .. k :
        g[j] = IF j = 0 THEN Q ELSE [g[j - 1] EXCEPT ![lv[z[j]]] = Append(@, z[j])]
  BY DEF Grows
<1>3. 0 \in S
  <2>1. 0 \in 0 .. k
    OBVIOUS
  <2>2. f[0] = Q /\ g[0] = Q
    BY <1>1, <1>2, <2>1
  <2>3. QED
    BY <2>1, <2>2
<1>4. ASSUME NEW j \in 0 .. k, j \in S /\ j < k
      PROVE  j + 1 \in S
  <2>1. j + 1 \in 0 .. k /\ j + 1 # 0 /\ (j + 1) - 1 = j /\ f[j] = g[j]
    BY <1>4
  <2>2. f[j + 1] = [f[j] EXCEPT ![lv[z[j + 1]]] = Append(@, z[j + 1])]
    BY <1>1, <2>1
  <2>3. g[j + 1] = [g[j] EXCEPT ![lv[z[j + 1]]] = Append(@, z[j + 1])]
    BY <1>2, <2>1
  <2>4. f[j + 1] = g[j + 1]
    BY <2>1, <2>2, <2>3
  <2>5. QED
    BY <2>1, <2>4
<1> HIDE DEF S
<1>5. \A j \in 0 .. k : j \in S
  BY <1>3, <1>4, TurnInduction
<1>6. QED
  BY <1>5 DEF S

LEMMA JoinedUpIs ==
  ASSUME NEW k \in Nat, NEW Q, NEW lv, NEW z, NEW f, Grows(f, Q, lv, z, k)
  PROVE  JoinedUp(Q, lv, z, k) = f[k]
<1> DEFINE joined == CHOOSE g : g = [j \in 0 .. k |->
             IF j = 0 THEN Q ELSE [g[j - 1] EXCEPT ![lv[z[j]]] = Append(@, z[j])]]
<1>1. JoinedUp(Q, lv, z, k) = joined[k]
  BY DEF JoinedUp
<1>2. Grows(joined, Q, lv, z, k)
  <2>1. \E g : g = [j \in 0 .. k |->
             IF j = 0 THEN Q ELSE [g[j - 1] EXCEPT ![lv[z[j]]] = Append(@, z[j])]]
    BY DEF Grows
  <2>2. joined = [j \in 0 .. k |->
             IF j = 0 THEN Q ELSE [joined[j - 1] EXCEPT ![lv[z[j]]] = Append(@, z[j])]]
    BY <2>1
  <2> HIDE DEF joined
  <2>3. QED
    BY <2>2 DEF Grows
<1> HIDE DEF joined
<1>3. QED
  BY <1>1, <1>2, GrowsUnique

\* The first k of q are those due at tick.
DueTo(s, n, q, k, tick) == \A i \in 1 .. n : s.wake[q[i]] <= tick <=> i <= k

\* Once j sleepers have been woken the head of the list is due if j is less than k.
LEMMA RisenHead ==
  ASSUME NEW s \in Sched, NEW R, NEW A, NEW n, NEW q, SleepList(s, A, n, q), NEW tick,
         NEW k \in 0 .. n, DueTo(s, n, q, k, tick), NEW j \in 0 .. n,
         NEW x, Risen(x, s, R, A, n, q, j)
  PROVE  HeadExpired(x, tick) <=> j < k
<1>1. n \in Nat /\ q \in [1 .. n -> Tasks]
  BY DEF SleepList, Chain
<1>2. x.wake = s.wake /\ x.sleep = IF n - j = 0 THEN NoTask ELSE Rest(q, n, j)[1]
  BY DEF Risen, SleepList, Chain
<1>3. CASE j = n
  BY <1>1, <1>2, <1>3 DEF HeadExpired
<1>4. CASE j < n
  <2>1. Rest(q, n, j)[1] = q[j + 1] /\ n - j # 0
    BY <1>1, <1>4, FirstNext
  <2>2. x.sleep = q[j + 1] /\ j + 1 \in 1 .. n
    BY <1>1, <1>2, <1>4, <2>1
  <2>3. x.sleep # NoTask
    BY <1>1, <2>2, QueueAssumption
  <2>4. HeadExpired(x, tick) <=> s.wake[q[j + 1]] <= tick
    BY <1>2, <2>2, <2>3 DEF HeadExpired
  <2>5. s.wake[q[j + 1]] <= tick <=> j + 1 <= k
    BY <2>2 DEF DueTo
  <2>6. QED
    BY <1>1, <2>4, <2>5
<1>5. QED
  BY <1>1, <1>3, <1>4

LEMMA RisenNone ==
  ASSUME NEW s \in Sched, NEW R \in SUBSET Tasks, NEW A \in SUBSET Tasks, NEW n, NEW q,
         SleepList(s, A, n, q), Queued(s, R), Lines(s, R)
  PROVE  Risen(s, s, R, A, n, q, 0)
<1>1. n \in Nat /\ q \in [1 .. n -> Tasks] /\ 0 \in 0 .. n
  BY DEF SleepList, Chain
<1>2. First(q, 0) = {} /\ Rest(q, n, 0) = q
  BY <1>1, FirstRest
<1>3. n - 0 = n /\ R \cup First(q, 0) = R /\ A \ First(q, 0) = A
  BY <1>1, <1>2
<1>4. \A t \in Tasks : t \notin First(q, 0)
  BY <1>2
<1>5. QED
  BY <1>2, <1>3, <1>4 DEF Risen

\* The waking loop: the sleepers that are due join their queues in waking order.
LEMMA WakeExpiredView ==
  ASSUME NEW s \in Sched, NEW R \in SUBSET Tasks, NEW A \in SUBSET Tasks, R \cap A = {},
         Queued(s, R), Lines(s, R), NEW n, NEW q, SleepList(s, A, n, q), NEW tick,
         NEW k \in 0 .. n, DueTo(s, n, q, k, tick)
  PROVE  /\ Risen(WakeExpired(s, tick), s, R, A, n, q, k)
         /\ Queue(WakeExpired(s, tick)) = JoinedUp(Queue(s), Levels(s), q, k)
<1> DEFINE r == WakeExpired(s, tick)
           N == Cardinality(Tasks)
           Qs == Queue(s)
           lv == Levels(s)
<1>1. n \in Nat /\ k \in Nat /\ 0 \in 0 .. n /\ n <= N /\ N \in Nat
  <2>1. Chain(s.next, s.prev, s.sleep, n, q)
    BY DEF SleepList
  <2>2. n \in Nat
    BY <2>1 DEF Chain
  <2>3. n <= N /\ N \in Nat
    BY <2>1, ChainFits
  <2>4. QED
    BY <2>2, <2>3
<1>2. Risen(s, s, R, A, n, q, 0)
  BY RisenNone
<1>3. HeadExpired(s, tick) <=> 0 < k
  BY <1>1, <1>2, RisenHead
<1>4. CASE k = 0
  <2>1. r = s
    BY <1>3, <1>4 DEF WakeExpired
  <2> DEFINE f == [j \in 0 .. 0 |-> Qs]
  <2>2. Grows(f, Qs, lv, q, 0) /\ f[0] = Qs
    BY DEF Grows
  <2> HIDE DEF f, Qs, lv, r
  <2>3. JoinedUp(Qs, lv, q, 0) = Qs
    BY <2>2, JoinedUpIs
  <2>4. QED
    BY <1>2, <1>4, <2>1, <2>3 DEF r, Qs, lv
<1>5. CASE k # 0
  <2>1. PICK turn : /\ turn[0] = s
                    /\ \A j \in 1 .. N : turn[j] = WakeOne(turn[j - 1], tick)
                    /\ r = turn[N]
    <3>1. HeadExpired(s, tick)
      BY <1>1, <1>3, <1>5
    <3>2. QED
      BY <1>1, <3>1, WakeExpiredTurns
  <2> DEFINE Up(j) == [Queue(turn[j - 1]) EXCEPT ![lv[q[j]]] = Append(@, q[j])]
             S == {j \in 0 .. k : /\ Risen(turn[j], s, R, A, n, q, j)
                                  /\ j # 0 => Queue(turn[j]) = Up(j)}
  <2> HIDE DEF N, r
  <2>2. 0 \in S
    <3>1. 0 \in 0 .. k
      BY <1>1
    <3>2. QED
      BY <1>2, <2>1, <3>1
  <2>3. ASSUME NEW j \in 0 .. k, j \in S /\ j < k
        PROVE  j + 1 \in S
    <3> DEFINE x == turn[j]
    <3>1. /\ j \in 0 .. n /\ j < n /\ j + 1 \in 1 .. N /\ j + 1 \in 0 .. k
          /\ (j + 1) - 1 = j
      BY <1>1, <2>3
    <3>2. Risen(x, s, R, A, n, q, j)
      BY <2>3
    <3> HIDE DEF x, S
    <3>3. HeadExpired(x, tick)
      BY <2>3, <3>1, <3>2, RisenHead
    <3>4. turn[j + 1] = WakeHead(x)
      <4>1. turn[j + 1] = WakeOne(turn[(j + 1) - 1], tick)
        BY <2>1, <3>1
      <4>2. QED
        BY <3>1, <3>3, <4>1 DEF WakeOne, x
    <3>5. Rises(WakeHead(x), x, s, R, A, n, q, j + 1)
      BY <3>1, <3>2, RiseOne
    <3>6. Queue(turn[j + 1]) = Up(j + 1)
      BY <3>1, <3>4, <3>5 DEF Rises, x
    <3> HIDE DEF Up
    <3>7. Risen(turn[j + 1], s, R, A, n, q, j + 1)
      BY <3>4, <3>5 DEF Rises
    <3>8. QED
      BY <3>1, <3>6, <3>7 DEF S
  <2> HIDE DEF S
  <2>4. \A j \in 0 .. k : j \in S
    BY <1>1, <2>2, <2>3, TurnInduction
  <2> DEFINE z == turn[k]
             f == [j \in 0 .. k |-> Queue(turn[j])]
  <2>5. Risen(z, s, R, A, n, q, k)
    <3>1. k \in S
      BY <1>1, <2>4
    <3> HIDE DEF Up
    <3>2. QED
      BY <3>1 DEF S
  <2>6. Queue(z) = JoinedUp(Qs, lv, q, k)
    <3>1. ASSUME NEW j \in 0 .. k
          PROVE  f[j] = IF j = 0 THEN Qs ELSE [f[j - 1] EXCEPT ![lv[q[j]]] = Append(@, q[j])]
      <4>1. CASE j = 0
        BY <2>1, <4>1
      <4>2. CASE j # 0
        <5>1. j - 1 \in 0 .. k
          BY <1>1, <4>2
        <5>2. Queue(turn[j]) = Up(j)
          BY <2>4, <4>2 DEF S
        <5>3. f[j - 1] = Queue(turn[j - 1]) /\ f[j] = Queue(turn[j])
          BY <5>1
        <5> HIDE DEF f
        <5>4. QED
          BY <4>2, <5>2, <5>3
      <4>3. QED
        BY <4>1, <4>2
    <3>2. f = [j \in 0 .. k |-> f[j]] /\ f[k] = Queue(z)
      BY <1>1
    <3> HIDE DEF f, z, Qs, lv
    <3>3. Grows(f, Qs, lv, q, k)
      BY <3>1, <3>2 DEF Grows
    <3>4. QED
      BY <1>1, <3>2, <3>3, JoinedUpIs
  <2>7. r = z
    <3>1. ~ HeadExpired(z, tick)
      <4> HIDE DEF z
      <4>1. QED
        BY <1>1, <2>5, RisenHead
    <3> DEFINE T == {i \in 0 .. N - k : turn[k + i] = z}
    <3>2. N - k \in Nat /\ 0 \in T /\ k + (N - k) = N
      BY <1>1
    <3>3. ASSUME NEW i \in 0 .. N - k, i \in T /\ i < N - k
          PROVE  i + 1 \in T
      <4>1. k + (i + 1) \in 1 .. N /\ (k + (i + 1)) - 1 = k + i /\ i + 1 \in 0 .. N - k
        BY <1>1, <3>3
      <4>2. turn[k + i] = z
        BY <3>3
      <4>3. turn[k + (i + 1)] = WakeOne(turn[k + i], tick)
        BY <2>1, <4>1
      <4>4. turn[k + (i + 1)] = z
        BY <3>1, <4>2, <4>3 DEF WakeOne
      <4>5. QED
        BY <4>1, <4>4
    <3> HIDE DEF T
    <3>4. \A i \in 0 .. N - k : i \in T
      BY <3>2, <3>3, TurnInduction
    <3>5. N - k \in T
      BY <3>2, <3>4
    <3>6. QED
      BY <2>1, <3>2, <3>5 DEF T
  <2> HIDE DEF z
  <2>8. QED
    BY <2>5, <2>6, <2>7 DEF r
<1>6. QED
  BY <1>4, <1>5

\* What is left of the quanta once the first k sleepers of q are ready.
Fed(s, q, k) ==
  [t \in Tasks |-> IF \E i \in 1 .. k : q[i] = t THEN (IF s.slice[t] = 0 THEN Quantum ELSE s.slice[t])
                                                ELSE s.slice[t]]

Counted(s) == s.current # NoTask /\ s.current \in Runs(s)

\* r is s after a tick that woke the first k sleepers.
Ticked(r, s, k) ==
  LET q == Dozers(s)
      fed == Fed(s, q, k)
      up == JoinedUp(Queue(s), Levels(s), q, k)
      c == s.current
      spent == Counted(s) /\ fed[c] <= 1
      p == Levels(s)[c]
  IN  /\ Dozers(r) = SubSeq(q, k + 1, Len(q))
      /\ r.slice = IF Counted(s) THEN [fed EXCEPT ![c] = IF spent THEN Quantum ELSE @ - 1] ELSE fed
      /\ Queue(r) = IF spent /\ up[p] # << >> /\ Head(up[p]) = c
                    THEN [up EXCEPT ![p] = Append(Tail(@), c)] ELSE up
      /\ Levels(r) = Levels(s) /\ Runs(r) = Runs(s)
      /\ r.wake = s.wake /\ r.current = s.current

\* What the waking loop leaves, seen by the accounting of the quantum.
LEMMA RisenView ==
  ASSUME NEW s \in Sched, NEW R \in SUBSET Tasks, NEW A \in SUBSET Tasks, R \cap A = {},
         Runs(s) \subseteq R, NEW n, NEW q, SleepList(s, A, n, q), NEW k \in 0 .. n,
         NEW x, Risen(x, s, R, A, n, q, k)
  PROVE  /\ First(q, k) \in SUBSET A /\ Runs(x) = Runs(s) /\ x.slice = Fed(s, q, k)
         /\ Charged(x) <=> Counted(s)
         /\ Charged(x) => x.current \in R /\ x.prio[x.current] = Levels(s)[s.current]
<1>1. /\ x \in Sched /\ Queued(x, R \cup First(q, k)) /\ Lines(x, R \cup First(q, k))
      /\ Levels(x) = Levels(s) /\ x.current = s.current
      /\ \A t \in Tasks :
           /\ x.slice[t] = IF t \in First(q, k) /\ s.slice[t] = 0 THEN Quantum ELSE s.slice[t]
           /\ x.state[t] = IF t \in First(q, k) THEN "READY" ELSE s.state[t]
  BY DEF Risen
<1>2. n \in Nat /\ \A i \in 1 .. n : q[i] \in A
  BY DEF SleepList, Chain, OnList
<1>3. First(q, k) \in SUBSET A
  <2>1. \A i \in 1 .. k : i \in 1 .. n
    BY <1>2
  <2>2. QED
    BY <1>2, <2>1 DEF First
<1>4. Runs(x) = Runs(s)
  <2>1. \A t \in Tasks : x.state[t] = "RUNNING" <=> s.state[t] = "RUNNING"
    <3> TAKE t \in Tasks
    <3>1. CASE t \in First(q, k)
      <4>1. t \notin Runs(s)
        BY <1>3, <3>1
      <4>2. QED
        BY <1>1, <3>1, <4>1 DEF Runs
    <3>2. CASE t \notin First(q, k)
      BY <1>1, <3>2
    <3>3. QED
      BY <3>1, <3>2
  <2>2. QED
    BY <2>1 DEF Runs
<1>5. x.slice = Fed(s, q, k)
  <2>1. \A t \in Tasks : t \in First(q, k) <=> \E i \in 1 .. k : q[i] = t
    BY DEF First
  <2>2. x.slice = [t \in Tasks |-> x.slice[t]]
    BY <1>1 DEF Sched
  <2>3. \A t \in Tasks : x.slice[t] = Fed(s, q, k)[t]
    BY <1>1, <2>1 DEF Fed
  <2>4. Fed(s, q, k) = [t \in Tasks |-> Fed(s, q, k)[t]]
    BY DEF Fed
  <2>5. QED
    BY <2>2, <2>3, <2>4
<1>6. Charged(x) <=> Counted(s)
  <2>1. x.current \in Tasks \cup {NoTask} /\ x.current = s.current
    BY <1>1 DEF Sched, Link
  <2>2. Charged(x) <=> x.current # NoTask /\ x.current \in Runs(x)
    BY <2>1 DEF Charged, Runs
  <2>3. QED
    BY <1>4, <2>1, <2>2 DEF Counted
<1>7. ASSUME Charged(x)
      PROVE  x.current \in R /\ x.prio[x.current] = Levels(s)[s.current]
  <2>1. x.current \in Runs(s) /\ x.current = s.current
    BY <1>1, <1>6, <1>7 DEF Counted
  <2>2. x.current \in R /\ x.current \in R \cup First(q, k) /\ R \cup First(q, k) \in SUBSET Tasks
    BY <1>3, <2>1
  <2>3. Levels(x)[x.current] = x.prio[x.current]
    BY <1>1, <2>2, ReadyQueued
  <2>4. QED
    BY <1>1, <2>2, <2>3
<1>8. QED
  BY <1>3, <1>4, <1>5, <1>6, <1>7

LEMMA TickView ==
  ASSUME NEW s, NEW R \in SUBSET Tasks, NEW A \in SUBSET Tasks, R \cap A = {}, NEW now0,
         Fit(s, R, A, now0), NEW tick \in Nat
  PROVE  \E k \in 0 .. Len(Dozers(s)) : DueFirst(s, k, tick) /\ Ticked(Tick(s, tick), s, k)
                                        /\ Lines(Tick(s, tick), R \cup Due(s, A, tick))
<1>1. s \in Sched /\ Queued(s, R) /\ Sleepers(s, A) /\ Lines(s, R) /\ Runs(s) \subseteq R
  BY DEF Fit, Accounted
<1>2. PICK n, q : SleepList(s, A, n, q)
  BY <1>1 DEF Sleepers
<1>3. Dozers(s) = q /\ Len(q) = n /\ n \in Nat /\ q \in [1 .. n -> Tasks]
  BY <1>1, <1>2, DozersView
<1>4. PICK k \in 0 .. n : \A i \in 1 .. n : s.wake[q[i]] <= tick <=> i <= k
  BY <1>1, <1>2, DueCount
<1>5. DueTo(s, n, q, k, tick)
  BY <1>4 DEF DueTo
<1>6. DueFirst(s, k, tick)
  BY <1>3, <1>4 DEF DueFirst
<1> DEFINE x == WakeExpired(s, tick)
           r == Account(x)
           F == First(q, k)
           R1 == R \cup F
           A1 == A \ F
<1>7. Risen(x, s, R, A, n, q, k) /\ Queue(x) = JoinedUp(Queue(s), Levels(s), q, k)
  BY <1>1, <1>2, <1>5, WakeExpiredView
<1>8. Tick(s, tick) = r
  BY DEF Tick
<1> HIDE DEF x
<1>9. /\ F \in SUBSET A /\ Runs(x) = Runs(s) /\ x.slice = Fed(s, q, k)
      /\ Charged(x) <=> Counted(s)
      /\ Charged(x) => x.current \in R /\ x.prio[x.current] = Levels(s)[s.current]
  <2>1. Risen(x, s, R, A, n, q, k)
    BY <1>7
  <2>2. QED
    BY <1>1, <1>2, <2>1, RisenView
<1>10. /\ x \in Sched /\ Queued(x, R1) /\ Lines(x, R1)
       /\ SleepList(x, A1, n - k, Rest(q, n, k))
       /\ Levels(x) = Levels(s) /\ x.wake = s.wake /\ x.current = s.current
  BY <1>7 DEF Risen
<1>11. F = Due(s, A, tick)
  <2>1. \A t \in A : \E i \in 1 .. n : q[i] = t
    BY <1>2 DEF SleepList, OnList
  <2>2. \A t \in A : t \in F <=> s.wake[t] <= tick
    <3> TAKE t \in A
    <3>1. PICK i \in 1 .. n : q[i] = t
      BY <2>1
    <3>2. \A a, b \in 1 .. n : q[a] = q[b] => a = b
      BY <1>2 DEF SleepList, Chain
    <3>3. t \in F <=> i <= k
      BY <1>3, <3>1, <3>2 DEF First
    <3>4. QED
      BY <1>4, <3>1, <3>3
  <2> HIDE DEF F
  <2>3. QED
    BY <1>9, <2>2 DEF Due
<1>12. R1 \in SUBSET Tasks /\ A1 \in SUBSET Tasks /\ R1 \cap A1 = {}
  BY <1>9
<1>13. Charged(x) => x.current \in R1
  BY <1>9
<1> HIDE DEF R1, A1, F
<1>14. Charges(r, x, R1)
  BY <1>10, <1>12, <1>13, AccountLines
<1>15. r \in Sched /\ SameSleepers(r, x, A1)
  <2>1. SameSleepers(r, x, A1)
    BY <1>10, <1>12, AccountSleepers
  <2>2. r \in Sched
    BY <1>10, <1>12, AccountQueued
  <2>3. QED
    BY <2>1, <2>2
<1> HIDE DEF r
<1>16. Dozers(r) = SubSeq(q, k + 1, n)
  <2>1. Sleepers(x, A1) /\ Dozers(x) = Rest(q, n, k)
    BY <1>10, DozersView DEF Sleepers
  <2>2. Dozers(r) = Dozers(x)
    BY <1>10, <1>12, <1>15, <2>1, DozersFrame
  <2>3. Rest(q, n, k) = SubSeq(q, k + 1, n)
    BY <1>3, FirstRest
  <2>4. QED
    BY <2>1, <2>2, <2>3
<1>17. Lines(r, R1) /\ r.wake = s.wake /\ r.current = s.current
       /\ Levels(r) = Levels(s) /\ Runs(r) = Runs(s)
  <2>1. /\ Lines(r, R1) /\ r.prio = x.prio /\ r.state = x.state /\ r.wake = x.wake
        /\ r.current = x.current
    BY <1>14 DEF Charges
  <2>2. Levels(r) = Levels(x) /\ Runs(r) = Runs(x)
    BY <2>1 DEF Levels, Runs
  <2>3. QED
    BY <1>9, <1>10, <2>1, <2>2
<1> DEFINE fed == Fed(s, q, k)
           up == JoinedUp(Queue(s), Levels(s), q, k)
           c == s.current
           p == Levels(s)[c]
           spent == Counted(s) /\ fed[c] <= 1
<1>18. Spent(x) <=> spent
  BY <1>9, <1>10 DEF Spent
<1>19. r.slice = IF Counted(s) THEN [fed EXCEPT ![c] = IF spent THEN Quantum ELSE @ - 1] ELSE fed
  <2>1. r.slice = IF Charged(x)
               THEN [x.slice EXCEPT ![x.current] = IF Spent(x) THEN Quantum ELSE @ - 1]
               ELSE x.slice
    BY <1>14 DEF Charges
  <2> HIDE DEF fed, c, spent
  <2>2. x.slice = fed /\ x.current = c /\ (Charged(x) <=> Counted(s)) /\ (Spent(x) <=> spent)
    BY <1>9, <1>10, <1>18 DEF fed, c
  <2>3. QED
    BY <2>1, <2>2
<1>20. Queue(r) = IF spent /\ up[p] # << >> /\ Head(up[p]) = c
                  THEN [up EXCEPT ![p] = Append(Tail(@), c)] ELSE up
  <2>1. Queue(r) = IF /\ Spent(x) /\ Queue(x)[x.prio[x.current]] # << >>
                      /\ Head(Queue(x)[x.prio[x.current]]) = x.current
                   THEN [Queue(x) EXCEPT ![x.prio[x.current]] = Append(Tail(@), x.current)]
                   ELSE Queue(x)
    BY <1>14 DEF Charges
  <2>2. spent => x.prio[x.current] = p
    BY <1>9
  <2> HIDE DEF up, c, spent, p
  <2>3. Queue(x) = up /\ x.current = c /\ (Spent(x) <=> spent)
    BY <1>7, <1>10, <1>18 DEF up, c
  <2>4. QED
    BY <2>1, <2>2, <2>3
<1>21. Ticked(r, s, k)
  <2> HIDE DEF fed, up, p, spent
  <2>1. QED
    BY <1>3, <1>16, <1>17, <1>19, <1>20 DEF Ticked, fed, up, p, spent
<1>22. Lines(r, R \cup Due(s, A, tick))
  BY <1>11, <1>17 DEF R1
<1>23. QED
  BY <1>3, <1>6, <1>8, <1>21, <1>22

-----------------------------------------------------------------------------
(* Every step of the scheduler is a step of the queues                     *)

\* Every level holds the list of its ready tasks, and a running task is still queued.
FifoInv == Lines(sch, At("ready")) /\ Runs(sch) \subseteq At("ready")

LEMMA FifoFacts ==
  ASSUME SchedInv, FifoInv
  PROVE  /\ TypeOK /\ Fit(sch, At("ready"), At("asleep"), now)
         /\ At("ready") \in SUBSET Tasks /\ At("asleep") \in SUBSET Tasks
         /\ At("ready") \cap At("asleep") = {} /\ now \in Nat
BY SchedulerAssumption DEF SchedInv, FifoInv, Fit, TypeOK, At

LEMMA FifoKept ==
  ASSUME NEW R, {t \in Tasks : place'[t] = "ready"} = R, Lines(sch', R), Runs(sch') \subseteq R
  PROVE  FifoInv'
BY DEF FifoInv, At

\* A task joins the queue of level p, or leaves its own.
LEMMA FifoEnqueue ==
  ASSUME NEW t, NEW p, Enqueued(sch', sch, t, p)
  PROVE  Fifo!Enqueue(t, p)
BY DEF Enqueued, Fifo!Enqueue, Queue, Levels, Runs, Fifo!Prio, Prio

\* A task that is made ready joins the queue of its own level.
LEMMA FifoRejoin ==
  ASSUME NEW t \in Tasks, NEW R, Added(sch', sch, R, t)
  PROVE  Fifo!Enqueue(t, Levels(sch)[t])
<1>1. Levels(sch)[t] = Clamp(sch.prio[t])
  BY DEF Levels
<1>2. PICK p : p = Levels(sch)[t]
  OBVIOUS
<1>3. Enqueued(sch', sch, t, p)
  BY <1>1, <1>2 DEF Added
<1>4. QED
  BY <1>2, <1>3 DEF Enqueued, Fifo!Enqueue, Queue, Levels, Runs, Fifo!Prio, Prio

LEMMA FifoDequeue ==
  ASSUME NEW t \in Tasks, NEW R, Takes(sch, R, t, sch'), Levels(sch)[t] = sch.prio[t],
         Runs(sch') = Runs(sch) \ {t}
  PROVE  Fifo!Dequeue(t)
<1>1. PICK k \in 1 .. Len(Queue(sch)[sch.prio[t]]) :
        /\ Queue(sch)[sch.prio[t]][k] = t
        /\ Queue(sch') = [Queue(sch) EXCEPT ![sch.prio[t]] = Fifo!RemoveAt(@, k)]
  BY DEF Takes
<1>2. /\ k \in 1 .. Len(Queue(sch)[Levels(sch)[t]]) /\ Queue(sch)[Levels(sch)[t]][k] = t
      /\ Queue(sch') = [Queue(sch) EXCEPT ![Levels(sch)[t]] = Fifo!RemoveAt(@, k)]
  BY <1>1
<1>3. QED
  BY <1>2 DEF Fifo!Dequeue, Queue, Levels, Runs, Fifo!Prio, Prio

LEMMA FifoAdmit ==
  ASSUME SchedInv, FifoInv, NEW t \in Tasks, NEW p \in Requests, Admit(t, p)
  PROVE  FifoInv' /\ Fifo!Admit(t, p)
<1> DEFINE R == At("ready")
           A == At("asleep")
<1>1. /\ TypeOK /\ Fit(sch, R, A, now) /\ R \in SUBSET Tasks /\ A \in SUBSET Tasks /\ R \cap A = {}
  BY FifoFacts
<1>2. Move(t, "out", "ready") /\ now' = now /\ sch' = AddReady(NewTcb(sch, t, p), t)
  BY DEF Admit
<1>3. {u \in Tasks : place'[u] = "ready"} = R \cup {t} /\ t \notin R /\ t \notin A
  BY <1>1, <1>2, Moved DEF Place, At, Move
<1>4. p \in Nat
  BY SchedulerAssumption
<1> HIDE DEF R, A
<1>5. Admitted(sch', sch, R, t, p)
  BY <1>1, <1>2, <1>3, <1>4, AdmitView
<1>6. FifoInv'
  <2>1. Lines(sch', R \cup {t}) /\ Runs(sch') \subseteq R \cup {t}
    BY <1>1, <1>5 DEF Admitted, Enqueued, Fit
  <2>2. QED
    BY <1>3, <2>1, FifoKept
<1>7. Fifo!Enqueue(t, Clamp(p))
  BY <1>5, FifoEnqueue DEF Admitted
<1>8. Clamp(p) = IF p < NPrio THEN p ELSE NPrio - 1
  BY <1>4, QueueAssumption DEF Clamp
<1>9. Fifo!Admit(t, p)
  BY <1>2, <1>5, <1>7, <1>8 DEF Admitted, Fifo!Admit, Dozers
<1>10. QED
  BY <1>6, <1>9

LEMMA FifoRetire ==
  ASSUME SchedInv, FifoInv, NEW t \in Tasks, Retire(t)
  PROVE  FifoInv' /\ Fifo!Withdraw(t)
<1> DEFINE R == At("ready")
           A == At("asleep")
<1>1. /\ TypeOK /\ Fit(sch, R, A, now) /\ R \in SUBSET Tasks /\ A \in SUBSET Tasks /\ R \cap A = {}
  BY FifoFacts
<1>2. /\ Move(t, "ready", "out") /\ now' = now
      /\ sch' = BlankTcb(RemoveReady([sch EXCEPT !.state[t] = "DELETED"], t), t)
  BY DEF Retire
<1>3. {u \in Tasks : place'[u] = "ready"} = R \ {t} /\ t \in R
  BY <1>1, <1>2, Moved DEF Place, At, Move
<1> HIDE DEF R, A
<1>4. Retired(sch', sch, R, t)
  BY <1>1, <1>2, <1>3, RetireView
<1>5. FifoInv'
  <2>1. Lines(sch', R \ {t}) /\ Runs(sch') \subseteq R \ {t}
    BY <1>1, <1>4 DEF Retired, Takes, Fit
  <2>2. QED
    BY <1>3, <2>1, FifoKept
<1>6. Levels(sch)[t] = sch.prio[t]
  BY <1>1, <1>3, ReadyQueued DEF Fit, Accounted
<1>7. Fifo!Dequeue(t)
  BY <1>4, <1>6, FifoDequeue DEF Retired
<1>8. Fifo!Withdraw(t)
  BY <1>2, <1>4, <1>7 DEF Retired, Fifo!Withdraw, Dozers, Levels
<1>9. QED
  BY <1>5, <1>8

LEMMA FifoBlock ==
  ASSUME SchedInv, FifoInv, NEW t \in Tasks, Block(t)
  PROVE  FifoInv' /\ Fifo!Block(t)
<1> DEFINE R == At("ready")
           A == At("asleep")
<1>1. /\ TypeOK /\ Fit(sch, R, A, now) /\ R \in SUBSET Tasks /\ A \in SUBSET Tasks /\ R \cap A = {}
  BY FifoFacts
<1>2. Move(t, "ready", "blocked") /\ now' = now /\ sch' = BlockTask(sch, t)
  BY DEF Block
<1>3. {u \in Tasks : place'[u] = "ready"} = R \ {t} /\ t \in R
  BY <1>1, <1>2, Moved DEF Place, At, Move
<1> HIDE DEF R, A
<1>4. Blocked(sch', sch, R, t)
  BY <1>1, <1>2, <1>3, BlockView
<1>5. FifoInv'
  <2>1. Lines(sch', R \ {t}) /\ Runs(sch') \subseteq R \ {t}
    BY <1>1, <1>4 DEF Blocked, Takes, Fit
  <2>2. QED
    BY <1>3, <2>1, FifoKept
<1>6. Levels(sch)[t] = sch.prio[t]
  BY <1>1, <1>3, ReadyQueued DEF Fit, Accounted
<1>7. Fifo!Dequeue(t)
  BY <1>4, <1>6, FifoDequeue DEF Blocked
<1>8. Fifo!Block(t)
  BY <1>2, <1>4, <1>7 DEF Blocked, Fifo!Block, Dozers, Levels
<1>9. QED
  BY <1>5, <1>8

LEMMA FifoUnblock ==
  ASSUME SchedInv, FifoInv, NEW t \in Tasks, Unblock(t)
  PROVE  FifoInv' /\ Fifo!Requeue(t)
<1> DEFINE R == At("ready")
           A == At("asleep")
<1>1. /\ TypeOK /\ Fit(sch, R, A, now) /\ R \in SUBSET Tasks /\ A \in SUBSET Tasks /\ R \cap A = {}
  BY FifoFacts
<1>2. Move(t, "blocked", "ready") /\ now' = now /\ sch' = UnblockTask(sch, t)
  BY DEF Unblock
<1>3. {u \in Tasks : place'[u] = "ready"} = R \cup {t} /\ t \notin R /\ t \notin A
  BY <1>1, <1>2, Moved DEF Place, At, Move
<1> HIDE DEF R, A
<1>4. Added(sch', sch, R, t) /\ Dozers(sch') = Dozers(sch)
  BY <1>1, <1>2, <1>3, UnblockView DEF Unblocked
<1>5. FifoInv'
  <2>1. Lines(sch', R \cup {t}) /\ Runs(sch') \subseteq R \cup {t}
    BY <1>1, <1>4 DEF Added, Enqueued, Fit
  <2>2. QED
    BY <1>3, <2>1, FifoKept
<1>6. Fifo!Enqueue(t, Levels(sch)[t])
  BY <1>4, FifoRejoin
<1>7. Fifo!Requeue(t)
  BY <1>2, <1>4, <1>6 DEF Added, Refilled, Fifo!Requeue, Fifo!Refill, Dozers, Levels
<1>8. QED
  BY <1>5, <1>7

LEMMA FifoWake ==
  ASSUME SchedInv, FifoInv, NEW t \in Tasks, Wake(t)
  PROVE  FifoInv' /\ Fifo!Wake(t)
<1> DEFINE R == At("ready")
           A == At("asleep")
<1>1. /\ TypeOK /\ Fit(sch, R, A, now) /\ R \in SUBSET Tasks /\ A \in SUBSET Tasks /\ R \cap A = {}
  BY FifoFacts
<1>2. Move(t, "asleep", "ready") /\ now' = now /\ sch' = WakeTask(sch, t)
  BY DEF Wake
<1>3. {u \in Tasks : place'[u] = "ready"} = R \cup {t} /\ t \in A
  BY <1>1, <1>2, Moved DEF Place, At, Move
<1> HIDE DEF R, A
<1>4. /\ Added(sch', sch, R, t)
      /\ \E k \in 1 .. Len(Dozers(sch)) :
           Dozers(sch)[k] = t /\ Dozers(sch') = Fifo!RemoveAt(Dozers(sch), k)
  BY <1>1, <1>2, <1>3, WakeView
<1>5. FifoInv'
  <2>1. Lines(sch', R \cup {t}) /\ Runs(sch') \subseteq R \cup {t}
    BY <1>1, <1>4 DEF Added, Enqueued, Fit
  <2>2. QED
    BY <1>3, <2>1, FifoKept
<1>6. Fifo!Enqueue(t, Levels(sch)[t])
  BY <1>4, FifoRejoin
<1>7. Fifo!Wake(t)
  BY <1>2, <1>4, <1>6 DEF Added, Refilled, Fifo!Wake, Fifo!Refill, Dozers, Levels
<1>8. QED
  BY <1>5, <1>7

LEMMA FifoSleep ==
  ASSUME SchedInv, FifoInv, NEW t \in Tasks, NEW ms \in Delays, Sleep(t, ms)
  PROVE  FifoInv' /\ Fifo!Sleep(t, AtLeastOne(ms))
<1> DEFINE R == At("ready")
           A == At("asleep")
           w == now + AtLeastOne(ms)
<1>1. /\ TypeOK /\ Fit(sch, R, A, now) /\ R \in SUBSET Tasks /\ A \in SUBSET Tasks /\ R \cap A = {}
      /\ now \in Nat
  BY FifoFacts
<1>2. Move(t, "ready", "asleep") /\ now' = now /\ sch' = SleepTask(sch, t, w)
  BY DEF Sleep
<1>3. {u \in Tasks : place'[u] = "ready"} = R \ {t} /\ t \in R
  BY <1>1, <1>2, Moved DEF Place, At, Move
<1>4. w \in Nat
  <2>1. ms \in Nat
    BY SchedulerAssumption
  <2>2. QED
    BY <1>1, <2>1 DEF AtLeastOne
<1> HIDE DEF R, A, w
<1>5. Dozes(sch', sch, R, t, w)
  BY <1>1, <1>2, <1>3, <1>4, SleepView
<1>6. FifoInv'
  <2>1. Lines(sch', R \ {t}) /\ Runs(sch') \subseteq R \ {t}
    BY <1>1, <1>5 DEF Dozes, Takes, Fit
  <2>2. QED
    BY <1>3, <2>1, FifoKept
<1>7. Levels(sch)[t] = sch.prio[t]
  BY <1>1, <1>3, ReadyQueued DEF Fit, Accounted
<1>8. Fifo!Dequeue(t)
  BY <1>5, <1>7, FifoDequeue DEF Dozes
<1>9. \E k \in 0 .. Len(Dozers(sch)) :
        DueFirst(sch, k, w) /\ Dozers(sch') = Fifo!InsertAt(Dozers(sch), k + 1, t)
  BY <1>5 DEF Dozes
<1>10. Levels(sch') = Levels(sch) /\ sch'.slice = sch.slice /\ sch'.current = sch.current
       /\ sch'.wake = [sch.wake EXCEPT ![t] = w]
  BY <1>5 DEF Dozes
<1>11. Fifo!Sleep(t, AtLeastOne(ms))
  BY <1>2, <1>8, <1>9, <1>10 DEF Fifo!Sleep, Fifo!WakeBy, DueFirst, Dozers, Levels, w
<1>12. QED
  BY <1>6, <1>11

LEMMA FifoLaunch ==
  ASSUME SchedInv, FifoInv, NEW t \in Tasks, Launch(t)
  PROVE  FifoInv' /\ Fifo!Launch(t)
<1> DEFINE R == At("ready")
           A == At("asleep")
<1>1. /\ TypeOK /\ Fit(sch, R, A, now) /\ R \in SUBSET Tasks /\ A \in SUBSET Tasks /\ R \cap A = {}
  BY FifoFacts
<1>2. t \in R /\ now' = now /\ place' = place /\ sch' = Started(sch, t)
  BY DEF Launch, At, Started
<1>3. {u \in Tasks : place'[u] = "ready"} = R
  BY <1>2 DEF At
<1> HIDE DEF R, A
<1>4. Starts(sch', sch, R, t)
  BY <1>1, <1>2, RunView
<1>5. FifoInv'
  <2>1. Lines(sch', R) /\ Runs(sch') \subseteq R
    BY <1>1, <1>2, <1>4 DEF Starts, Fit
  <2>2. QED
    BY <1>3, <2>1, FifoKept
<1>6. /\ Levels(sch)[t] = sch.prio[t]
      /\ \E k \in 1 .. Len(Queue(sch)[sch.prio[t]]) : Queue(sch)[sch.prio[t]][k] = t
  BY <1>1, <1>2, ReadyQueued DEF Fit, Accounted
<1>7. \E k \in 1 .. Len(Queue(sch)[Levels(sch)[t]]) : Queue(sch)[Levels(sch)[t]][k] = t
  BY <1>6
<1>8. Fifo!InReady(t)
  BY <1>7 DEF Fifo!InReady, Queue, Levels, Prio, Fifo!Prio
<1>9. Fifo!Launch(t)
  BY <1>2, <1>4, <1>8 DEF Starts, Fifo!Launch, Queue, Levels, Runs, Dozers
<1>10. QED
  BY <1>5, <1>9

LEMMA FifoPick ==
  ASSUME SchedInv, FifoInv, Pick
  PROVE  FifoInv' /\ (Fifo!Pick \/ UNCHANGED Fifo!vars)
<1> DEFINE R == At("ready")
           A == At("asleep")
<1>1. /\ TypeOK /\ Fit(sch, R, A, now) /\ R \in SUBSET Tasks /\ A \in SUBSET Tasks /\ R \cap A = {}
  BY FifoFacts
<1>2. now' = now /\ place' = place /\ sch' = PickNext(sch)
  BY DEF Pick
<1>3. {u \in Tasks : place'[u] = "ready"} = R
  BY <1>2 DEF At
<1> HIDE DEF R, A
<1>4. CASE PickNext(sch) = sch
  <2>1. Lines(sch', R) /\ Runs(sch') \subseteq R
    BY <1>1, <1>2, <1>4 DEF Fit
  <2>2. FifoInv'
    BY <1>3, <2>1, FifoKept
  <2>3. UNCHANGED Fifo!vars
    BY <1>2, <1>4 DEF Fifo!vars
  <2>4. QED
    BY <2>2, <2>3
<1>5. ASSUME NEW p \in Prio, Queue(sch)[p] # << >>, \A q \in Prio : q > p => Queue(sch)[q] = << >>,
             Head(Queue(sch)[p]) \in R, Starts(PickNext(sch), sch, R, Head(Queue(sch)[p]))
      PROVE  FifoInv' /\ Fifo!Pick
  <2> DEFINE c == Head(Queue(sch)[p])
  <2>1. Lines(sch', R) /\ Runs(sch') \subseteq R
    BY <1>1, <1>2, <1>5 DEF Starts, Fit
  <2>2. FifoInv'
    BY <1>3, <2>1, FifoKept
  <2>3. /\ Queue(sch') = Queue(sch) /\ Levels(sch') = Levels(sch) /\ sch'.current = c
        /\ Runs(sch') = Runs(sch) \cup {c} /\ sch'.slice = sch.slice /\ sch'.wake = sch.wake
        /\ Dozers(sch') = Dozers(sch)
    BY <1>2, <1>5 DEF Starts
  <2>4. Fifo!Pick
    BY <1>2, <1>5, <2>3 DEF Fifo!Pick, Queue, Levels, Runs, Dozers, Prio, Fifo!Prio
  <2>5. QED
    BY <2>2, <2>4
<1>6. QED
  BY <1>1, <1>4, <1>5, PickView

LEMMA FifoTick ==
  ASSUME SchedInv, FifoInv, SystemTick
  PROVE  FifoInv' /\ Fifo!SystemTick
<1> DEFINE R == At("ready")
           A == At("asleep")
           after == IF now < MaxTick THEN now + 1 ELSE now
           D == Due(sch, A, after)
<1>1. /\ TypeOK /\ Fit(sch, R, A, now) /\ R \in SUBSET Tasks /\ A \in SUBSET Tasks /\ R \cap A = {}
      /\ now \in Nat
  BY FifoFacts
<1>2. /\ now' = after /\ sch' = Tick(sch, after)
      /\ place' = [t \in Tasks |-> IF place[t] = "asleep" /\ sch.wake[t] <= after
                                   THEN "ready" ELSE place[t]]
  BY DEF SystemTick
<1>3. after \in Nat
  BY <1>1
<1> HIDE DEF after
<1>4. {t \in Tasks : place'[t] = "ready"} = R \cup D
  BY <1>2 DEF At, Due
<1> HIDE DEF R, A, D
<1>5. PICK k \in 0 .. Len(Dozers(sch)) :
        DueFirst(sch, k, after) /\ Ticked(sch', sch, k) /\ Lines(sch', R \cup D)
  BY <1>1, <1>2, <1>3, TickView DEF D
<1>6. FifoInv'
  <2>1. Runs(sch') \subseteq R \cup D
    BY <1>1, <1>5 DEF Ticked, Fit
  <2>2. QED
    BY <1>4, <1>5, <2>1, FifoKept
<1> DEFINE q == Dozers(sch)
           lv == Levels(sch)
           c == sch.current
           fed == Fed(sch, q, k)
           up == JoinedUp(Queue(sch), lv, q, k)
           spent == Counted(sch) /\ fed[c] <= 1
<1>7. Fifo!Joined(k) = up
  BY DEF Fifo!Joined, JoinedUp, Queue, Levels, Dozers, Prio, Fifo!Prio
<1>8. Fifo!WakeBy(k, now')
  BY <1>2, <1>5 DEF Fifo!WakeBy, DueFirst, Dozers
<1>9. /\ Dozers(sch') = SubSeq(q, k + 1, Len(q))
      /\ sch'.slice = IF Counted(sch) THEN [fed EXCEPT ![c] = IF spent THEN Quantum ELSE @ - 1]
                                      ELSE fed
      /\ Queue(sch') = IF spent /\ up[lv[c]] # << >> /\ Head(up[lv[c]]) = c
                       THEN [up EXCEPT ![lv[c]] = Append(Tail(@), c)] ELSE up
      /\ Levels(sch') = lv /\ Runs(sch') = Runs(sch)
      /\ sch'.wake = sch.wake /\ sch'.current = c
  BY <1>5 DEF Ticked
<1>10. fed = [t \in Tasks |-> IF \E i \in 1 .. k : q[i] = t THEN Fifo!Refill(sch.slice[t])
                                                          ELSE sch.slice[t]]
  BY DEF Fed, Fifo!Refill
<1>11. now' = IF now < MaxTick THEN now + 1 ELSE now
  BY <1>2 DEF after
<1> HIDE DEF fed, up
<1>12. Fifo!SystemTick
  BY <1>5, <1>7, <1>8, <1>9, <1>10, <1>11
     DEF Fifo!SystemTick, Queue, Levels, Runs, Dozers, Counted
<1>13. QED
  BY <1>6, <1>12

LEMMA FifoInit ==
  ASSUME Init
  PROVE  FifoInv /\ Fifo!Init
<1> DEFINE s == InitSched
           none == << >>
<1>1. sch = s /\ now = 0 /\ At("ready") = {}
  BY DEF Init, At
<1>2. s \in Sched
  BY InitAccounted DEF Accounted
<1>3. none \in [1 .. 0 -> Tasks] /\ 0 \in Nat
  OBVIOUS
<1>4. /\ s.sleep = NoTask /\ s.current = NoTask /\ s.slice = [t \in Tasks |-> 0]
      /\ s.wake = [t \in Tasks |-> 0] /\ s.prio = [t \in Tasks |-> 0]
      /\ \A p \in Prio : s.head[p] = NoTask /\ s.tail[p] = NoTask
      /\ \A t \in Tasks : s.state[t] = "READY"
  BY DEF InitSched
<1> HIDE DEF s, none
<1>5. \A p \in Prio : Line(s, {}, p, 0, none)
  <2> TAKE p \in Prio
  <2>1. Chain(s.next, s.prev, s.head[p], 0, none)
    BY <1>3, <1>4 DEF Chain
  <2>2. QED
    BY <1>4, <2>1 DEF Line, OnList
<1>6. Queue(s) = [p \in Prio |-> << >>]
  <2>1. \A p \in Prio : Queue(s)[p] = none
    BY <1>2, <1>5, LineView
  <2>2. Queue(s) = [p \in Prio |-> Queue(s)[p]]
    BY DEF Queue
  <2>3. QED
    BY <2>1, <2>2 DEF none
<1>7. Dozers(s) = << >>
  <2>1. SleepList(s, {}, 0, none)
    <3>1. Chain(s.next, s.prev, s.sleep, 0, none)
      BY <1>3, <1>4 DEF Chain
    <3>2. QED
      BY <3>1 DEF SleepList, OnList
  <2>2. QED
    BY <1>2, <2>1, DozersView DEF none
<1>8. Runs(s) = {}
  BY <1>4 DEF Runs
<1>9. Levels(s) = [t \in Tasks |-> 0]
  <2>1. Clamp(0) = 0
    BY QueueAssumption DEF Clamp
  <2>2. QED
    BY <1>4, <2>1 DEF Levels
<1>10. FifoInv
  BY <1>1, <1>5, <1>8 DEF FifoInv, Lines
<1>11. Fifo!Init
  BY <1>1, <1>4, <1>6, <1>7, <1>8, <1>9 DEF Fifo!Init, Queue, Dozers, Runs, Levels, Prio, Fifo!Prio
<1>12. QED
  BY <1>10, <1>11

LEMMA FifoNext ==
  ASSUME SchedInv, FifoInv, [Next]_vars
  PROVE  FifoInv' /\ [Fifo!Next]_(Fifo!vars)
<1>1. ASSUME NEW t \in Tasks, NEW p \in Requests, Admit(t, p)
      PROVE  FifoInv' /\ Fifo!Next
  BY <1>1, FifoAdmit DEF Fifo!Next
<1>2. ASSUME NEW t \in Tasks, Retire(t)
      PROVE  FifoInv' /\ Fifo!Next
  BY <1>2, FifoRetire DEF Fifo!Next
<1>3. ASSUME NEW t \in Tasks, Launch(t)
      PROVE  FifoInv' /\ Fifo!Next
  BY <1>3, FifoLaunch DEF Fifo!Next
<1>4. ASSUME NEW t \in Tasks, Block(t)
      PROVE  FifoInv' /\ Fifo!Next
  BY <1>4, FifoBlock DEF Fifo!Next
<1>5. ASSUME NEW t \in Tasks, Unblock(t)
      PROVE  FifoInv' /\ Fifo!Next
  BY <1>5, FifoUnblock DEF Fifo!Next
<1>6. ASSUME NEW t \in Tasks, Wake(t)
      PROVE  FifoInv' /\ Fifo!Next
  BY <1>6, FifoWake DEF Fifo!Next
<1>7. ASSUME NEW t \in Tasks, NEW ms \in Delays, Sleep(t, ms)
      PROVE  FifoInv' /\ Fifo!Next
  BY <1>7, FifoSleep DEF Fifo!Next
<1>8. CASE Pick
  BY <1>8, FifoPick DEF Fifo!Next
<1>9. CASE SystemTick
  BY <1>9, FifoTick DEF Fifo!Next
<1>10. CASE UNCHANGED vars
  <2>1. sch' = sch /\ now' = now /\ place' = place
    BY <1>10 DEF vars
  <2>2. FifoInv' /\ UNCHANGED Fifo!vars
    BY <2>1 DEF FifoInv, At, Fifo!vars
  <2>3. QED
    BY <2>2
<1>11. QED
  BY <1>1, <1>2, <1>3, <1>4, <1>5, <1>6, <1>7, <1>8, <1>9, <1>10 DEF Next

\* The linked lists are first-in-first-out queues: whatever the order of calls and ticks,
\* every function of mk_scheduler.c does to them what the abstract scheduler allows
\* (mk_scheduler.c:41-218).
THEOREM SchedulerImplementsFifo == Spec => ImplementsFifo
<1>1. Init => FifoInv /\ Fifo!Init
  BY FifoInit
<1>2. SchedInv /\ FifoInv /\ [Next]_vars => FifoInv' /\ [Fifo!Next]_(Fifo!vars)
  BY FifoNext
<1>3. QED
  BY <1>1, <1>2, SchedulerInvariant, PTL DEF Spec, ImplementsFifo, Fifo!Spec
=============================================================================
