--------------------------- MODULE PiMutexProofs ----------------------------
(***************************************************************************)
(* For any number of tasks and mutexes, any base priorities and any depth  *)
(* of nesting: the mutex keeps account of what its users were told, and so *)
(* is a recursive lock to them; and a raised priority has its reason.      *)
(***************************************************************************)
EXTENDS PiMutex, ReadyQueueProofs

\* A locked mutex has an owner and a positive count, and a call about to set a
\* port priority has both tasks in hand.
Shaped ==
  /\ \A m \in Mutexes : mx[m].locked => mx[m].owner \in Tasks /\ mx[m].count >= 1
  /\ \A t \in Tasks : call[t].pc = "boost" => call[t].self \in Tasks /\ call[t].victim \in Tasks

LockInv == TypeOK /\ Shaped /\ OwnerExact

\* A task in no call is represented by a well-typed record.
LEMMA NoCallType == NoCall \in Call /\ \A t \in Tasks : Idle(t) \in Call /\ Idle(t).pc = "run"
<1>1. (CHOOSE m \in Mutexes : TRUE) \in Mutexes
  BY MutexAssumption
<1>2. NoCall \in Call
  BY <1>1 DEF NoCall, Call, Pc, Wait, Link
<1>3. QED
  BY <1>2 DEF Idle, Call, Pc

\* Port priorities are numbers.
LEMMA MapPortType == \A p : MapPort(p) \in Nat
BY DEF MapPort

\* Changing a task's priority keeps the queues well typed.
LEMMA ReprioritiseType ==
  ASSUME NEW s \in Sched, NEW t \in Tasks, NEW p \in Nat
  PROVE  Reprioritise(s, t, p) \in Sched
<1> DEFINE r == [s EXCEPT !.prio[t] = p]
<1>1. [s.prio EXCEPT ![t] = p] \in [Tasks -> Nat]
  BY DEF Sched
<1>2. r = [s EXCEPT !.prio = [s.prio EXCEPT ![t] = p]]
  BY DEF Sched
<1>3. r \in Sched
  BY <1>1, <1>2 DEF Sched
<1> HIDE DEF r
<1>4. QED
  BY <1>3, RemoveReadyType, AddReadyType DEF r, Reprioritise

\* A blank lock account.
LEMMA LockInvInit == Init => LockInv
<1> SUFFICES ASSUME Init PROVE LockInv
  OBVIOUS
<1> USE DEF Init
<1>1. sch \in Sched
  BY QueueAssumption DEF InitSched, Sched, Link, TaskState
<1>2. mx \in [Mutexes -> Mutex]
  BY DEF Mutex, Link
<1>3. TypeOK
  BY <1>1, <1>2, NoCallType DEF TypeOK
<1>4. Shaped
  BY DEF Shaped, NoCall
<1>5. OwnerExact
  BY DEF OwnerExact
<1>6. QED
  BY <1>3, <1>4, <1>5 DEF LockInv

-----------------------------------------------------------------------------
\* A step that leaves the mutexes and what the tasks were told keeps the invariant
\* if it keeps the rest well typed.
LEMMA FrameKeeps ==
  ASSUME LockInv, UNCHANGED <<mx, held>>, sch' \in Sched, port' \in [Tasks -> Nat],
         NEW t \in Tasks, NEW r \in Call, call' = [call EXCEPT ![t] = r],
         r.pc = "boost" => r.self \in Tasks /\ r.victim \in Tasks
  PROVE  LockInv'
<1>1. TypeOK'
  BY DEF LockInv, TypeOK
<1>2. Shaped'
  BY DEF LockInv, TypeOK, Shaped
<1>3. OwnerExact'
  BY DEF LockInv, OwnerExact
<1>4. QED
  BY <1>1, <1>2, <1>3 DEF LockInv

\* The contention step of a waiter keeps the invariant.
LEMMA BoostKeeps ==
  ASSUME LockInv, NEW t \in Tasks, NEW then \in {"poll", "check"}, mx[call[t].m].locked,
         BoostOwner(t, then), UNCHANGED <<mx, port, held>>
  PROVE  LockInv'
<1> DEFINE me == call[t].self
           o == mx[call[t].m].tcb
           owner == mx[call[t].m].owner
<1>1. call[t] \in Call /\ call[t].m \in Mutexes /\ me \in Link /\ o \in Link /\ owner \in Tasks
  BY DEF LockInv, TypeOK, Shaped, Call, Mutex
<1>2. CASE me # NoTask /\ o # NoTask /\ sch.prio[me] > sch.prio[o]
  <2> DEFINE r == [call[t] EXCEPT !.pc = "boost", !.then = then, !.victim = owner]
  <2>1. sch' = Reprioritise(sch, o, sch.prio[me]) /\ call' = [call EXCEPT ![t] = r]
    BY <1>2 DEF BoostOwner, LockInv, TypeOK
  <2>2. me \in Tasks /\ o \in Tasks /\ sch.prio[me] \in Nat
    BY <1>1, <1>2 DEF Link, LockInv, TypeOK, Sched
  <2>3. r \in Call /\ r.self \in Tasks /\ r.victim \in Tasks
    BY <1>1, <2>2 DEF Call, Pc, Link
  <2>4. sch' \in Sched
    BY <2>1, <2>2, ReprioritiseType DEF LockInv, TypeOK
  <2> HIDE DEF r
  <2>5. QED
    BY <2>1, <2>3, <2>4, FrameKeeps DEF LockInv, TypeOK
<1>3. CASE ~(me # NoTask /\ o # NoTask /\ sch.prio[me] > sch.prio[o])
  <2> DEFINE r == [call[t] EXCEPT !.pc = then]
  <2>1. UNCHANGED sch /\ call' = [call EXCEPT ![t] = r]
    BY <1>3 DEF BoostOwner, LockInv, TypeOK
  <2>2. r \in Call /\ r.pc # "boost"
    BY <1>1 DEF Call, Pc
  <2> HIDE DEF r
  <2>3. QED
    BY <2>1, <2>2, FrameKeeps DEF LockInv, TypeOK
<1>4. QED
  BY <1>2, <1>3

\* A step that changes one mutex and what one task was told of it.
LEMMA AccountKeeps ==
  ASSUME LockInv, NEW t \in Tasks, NEW m \in Mutexes, NEW x \in Mutex,
         NEW r \in Call, r.pc # "boost", sch' \in Sched, UNCHANGED port,
         mx' = [mx EXCEPT ![m] = x], held' = [held EXCEPT ![t][m] = x.count],
         call' = [call EXCEPT ![t] = r],
         \A u \in Tasks \ {t} : held[u][m] = 0,
         x.locked => x.owner = t /\ x.count >= 1,
         ~x.locked => x.count = 0
  PROVE  LockInv'
<1>1. TypeOK'
  <2>1. x.count \in Nat
    BY DEF Mutex
  <2>2. QED
    BY <2>1 DEF LockInv, TypeOK
<1>2. Shaped'
  BY DEF LockInv, TypeOK, Shaped
<1>3. ASSUME NEW k \in Mutexes, NEW u \in Tasks
      PROVE  held'[u][k] = IF mx'[k].locked /\ mx'[k].owner = u THEN mx'[k].count ELSE 0
  <2>1. CASE k = m /\ u = t
    BY <2>1 DEF LockInv, TypeOK
  <2>2. CASE k = m /\ u # t
    <3>1. held'[u][k] = 0 /\ mx'[k] = x
      BY <2>2 DEF LockInv, TypeOK
    <3>2. QED
      BY <2>2, <3>1
  <2>3. CASE k # m
    <3>1. held'[u][k] = held[u][k] /\ mx'[k] = mx[k]
      BY <2>3 DEF LockInv, TypeOK
    <3>2. QED
      BY <3>1 DEF LockInv, OwnerExact
  <2>4. QED
    BY <2>1, <2>2, <2>3
<1>4. QED
  BY <1>1, <1>2, <1>3 DEF LockInv, OwnerExact

\* Nobody but the owner was told it holds a locked mutex, and nobody at all holds a
\* free one.
LEMMA OnlyOwnerHolds ==
  ASSUME LockInv, NEW m \in Mutexes, NEW t \in Tasks, mx[m].locked => mx[m].owner = t
  PROVE  /\ \A u \in Tasks \ {t} : held[u][m] = 0
         /\ held[t][m] = IF mx[m].locked THEN mx[m].count ELSE 0
BY DEF LockInv, OwnerExact

-----------------------------------------------------------------------------
\* Steps outside the mutexes: a task comes to life.
LEMMA AdmitKeeps ==
  ASSUME LockInv, NEW t \in Tasks, Admit(t) \/ Launch(t)
  PROVE  LockInv'
<1>1. CASE Admit(t)
  <2> DEFINE r == [call[t] EXCEPT !.pc = "made"]
  <2>1. r \in Call /\ r.pc # "boost"
    BY DEF LockInv, TypeOK, Call, Pc
  <2>2. call' = [call EXCEPT ![t] = r] /\ UNCHANGED <<mx, held>>
    BY <1>1 DEF Admit, LockInv, TypeOK
  <2>3. Base[t] \in Nat
    BY MutexAssumption
  <2>4. NewTcb(sch, t, Base[t]) \in Sched
    BY <2>3, NewTcbFields DEF LockInv, TypeOK
  <2>5. sch' \in Sched
    BY <1>1, <2>4, AddReadyType DEF Admit
  <2>6. port' \in [Tasks -> Nat]
    BY <1>1, MapPortType DEF Admit, LockInv, TypeOK
  <2> HIDE DEF r
  <2>7. QED
    BY <2>1, <2>2, <2>5, <2>6, FrameKeeps
<1>2. CASE Launch(t)
  <2> DEFINE r == [call[t] EXCEPT !.pc = "run"]
  <2>1. r \in Call /\ r.pc # "boost"
    BY DEF LockInv, TypeOK, Call, Pc
  <2>2. call' = [call EXCEPT ![t] = r] /\ UNCHANGED <<mx, port, held>>
    BY <1>2 DEF Launch, LockInv, TypeOK
  <2>3. [sch.state EXCEPT ![t] = "RUNNING"] \in [Tasks -> TaskState]
    BY DEF LockInv, TypeOK, Sched, TaskState
  <2>4. sch' = [sch EXCEPT !.state = [sch.state EXCEPT ![t] = "RUNNING"], !.current = t]
    BY <1>2 DEF Launch, LockInv, TypeOK, Sched
  <2>5. sch' \in Sched
    BY <2>3, <2>4 DEF LockInv, TypeOK, Sched, Link
  <2> HIDE DEF r
  <2>6. QED
    BY <2>1, <2>2, <2>5, FrameKeeps DEF LockInv, TypeOK
<1>3. QED
  BY <1>1, <1>2

\* Steps of a call that leave the mutexes alone.
LEMMA WaitKeeps ==
  ASSUME LockInv, NEW t \in Tasks,
         \/ \E m \in Mutexes, w \in Wait : LockCall(t, m, w)
         \/ LockTry(t) \/ LockContend(t) \/ PollContend(t) \/ ApplyBoost(t)
         \/ TimedOut(t) \/ PollAgain(t) \/ RestorePort(t)
  PROVE  LockInv'
<1>1. ASSUME NEW r \in Call, r.pc # "boost", call' = [call EXCEPT ![t] = r],
             UNCHANGED <<sch, mx, held>>, port' \in [Tasks -> Nat]
      PROVE  LockInv'
  BY <1>1, FrameKeeps DEF LockInv, TypeOK
<1>2. ASSUME NEW m \in Mutexes, NEW w \in Wait, LockCall(t, m, w) PROVE LockInv'
  <2> DEFINE r == [NoCall EXCEPT !.pc = "enter", !.m = m, !.wait = w, !.self = sch.current]
  <2>1. NoCall \in Call /\ sch.current \in Link
    BY NoCallType DEF LockInv, TypeOK, Sched
  <2>2. r \in Call /\ r.pc # "boost"
    BY <2>1 DEF Call, Pc
  <2>3. call' = [call EXCEPT ![t] = r] /\ UNCHANGED <<sch, mx, port, held>>
    BY <1>2 DEF LockCall
  <2> HIDE DEF r
  <2>4. QED
    BY <1>1, <2>2, <2>3 DEF LockInv, TypeOK
<1>3. CASE LockTry(t) \/ TimedOut(t)
  BY <1>1, <1>3, NoCallType DEF LockTry, TimedOut, Return, LockInv, TypeOK
<1>4. CASE LockContend(t)
  BY <1>4, BoostKeeps DEF LockContend, Contended
<1>5. CASE PollContend(t)
  BY <1>5, BoostKeeps DEF PollContend
<1>6. CASE ApplyBoost(t)
  <2> DEFINE r == [call[t] EXCEPT !.pc = call[t].then, !.victim = NoTask, !.then = "poll"]
  <2>1. r \in Call /\ r.pc # "boost"
    BY DEF LockInv, TypeOK, Call, Pc, Link
  <2>2. call' = [call EXCEPT ![t] = r] /\ UNCHANGED <<sch, mx, held>>
    BY <1>6 DEF ApplyBoost, LockInv, TypeOK
  <2>3. port' \in [Tasks -> Nat]
    BY <1>6, MapPortType DEF ApplyBoost, LockInv, TypeOK
  <2> HIDE DEF r
  <2>4. QED
    BY <1>1, <2>1, <2>2, <2>3
<1>7. CASE PollAgain(t)
  <2> DEFINE r == [call[t] EXCEPT !.pc = "poll"]
  <2>1. r \in Call /\ r.pc # "boost"
    BY DEF LockInv, TypeOK, Call, Pc
  <2>2. call' = [call EXCEPT ![t] = r] /\ UNCHANGED <<sch, mx, port, held>>
    BY <1>7 DEF PollAgain, LockInv, TypeOK
  <2> HIDE DEF r
  <2>3. QED
    BY <1>1, <2>1, <2>2 DEF LockInv, TypeOK
<1>8. CASE RestorePort(t)
  <2>1. port' \in [Tasks -> Nat]
    BY <1>8, MapPortType DEF RestorePort, LockInv, TypeOK
  <2>2. QED
    BY <1>1, <1>8, <2>1, NoCallType DEF RestorePort, Return
<1>9. QED
  BY <1>2, <1>3, <1>4, <1>5, <1>6, <1>7, <1>8

-----------------------------------------------------------------------------
\* A task takes a free mutex: the account starts at one.
LEMMA TakeKeeps ==
  ASSUME LockInv, NEW t \in Tasks, NEW original \in Nat, Take(t, original)
  PROVE  LockInv' /\ held' = [held EXCEPT ![t][call[t].m] = 1]
<1> DEFINE m == call[t].m
           x == [locked |-> TRUE, count |-> 1, owner |-> t, tcb |-> call[t].self,
                 original |-> IF call[t].self = NoTask THEN mx[m].original ELSE original]
<1>1. m \in Mutexes /\ call[t].self \in Link /\ mx[m].original \in Nat /\ ~mx[m].locked
  BY DEF Take, LockInv, TypeOK, Call, Mutex
<1>2. x \in Mutex
  BY <1>1 DEF Mutex, Link
<1>3. \A u \in Tasks : held[u][m] = 0
  BY <1>1, OnlyOwnerHolds
<1>4. held' = [held EXCEPT ![t][m] = 1] /\ mx' = [mx EXCEPT ![m] = x]
  <2>1. held[t][m] + 1 = 1
    BY <1>3
  <2>2. held' = [held EXCEPT ![t][m] = held[t][m] + 1] /\ mx' = [mx EXCEPT ![m] = x]
    BY DEF Take
  <2>3. QED
    BY <2>1, <2>2
<1>5. call' = [call EXCEPT ![t] = Idle(t)] /\ UNCHANGED <<sch, port>>
  BY DEF Take, Return
<1>6. x.locked /\ x.owner = t /\ x.count = 1
  OBVIOUS
<1> HIDE DEF x, m
<1>7. LockInv'
  <2>1. Idle(t) \in Call /\ Idle(t).pc # "boost" /\ sch' \in Sched
    BY <1>5, NoCallType DEF LockInv, TypeOK
  <2>2. 1 \in Nat /\ 1 >= 1
    OBVIOUS
  <2>3. QED
    BY <1>1, <1>2, <1>3, <1>4, <1>5, <1>6, <2>1, <2>2, AccountKeeps
<1>8. QED
  BY <1>4, <1>7 DEF m

\* Taking a free mutex, at once or after polling, keeps the invariant and gives the
\* caller its first lock.
LEMMA LockKeeps ==
  ASSUME LockInv, NEW t \in Tasks, LockFree(t) \/ PollFree(t)
  PROVE  LockInv' /\ ~mx[call[t].m].locked /\ held' = [held EXCEPT ![t][call[t].m] = 1]
<1>1. call[t].self \in Link
  BY DEF LockInv, TypeOK, Call
<1>2. (IF call[t].self = NoTask THEN 0 ELSE sch.prio[call[t].self]) \in Nat
  BY <1>1 DEF LockInv, TypeOK, Sched, Link
<1>3. (IF call[t].self = NoTask THEN 0 ELSE Base[call[t].self]) \in Nat
  BY <1>1, MutexAssumption DEF Link
<1>4. QED
  BY <1>2, <1>3, TakeKeeps DEF LockFree, PollFree, Take

\* The owner locks again: the account goes up by one.
LEMMA LockAgainKeeps ==
  ASSUME LockInv, NEW t \in Tasks, LockAgain(t)
  PROVE  LockInv' /\ held' = [held EXCEPT ![t][call[t].m] = @ + 1]
<1> DEFINE m == call[t].m
           x == [mx[m] EXCEPT !.count = mx[m].count + 1]
<1>1. m \in Mutexes /\ mx[m].locked /\ mx[m].owner = t
  <2>1. call[t] \in Call
    BY DEF LockInv, TypeOK
  <2>2. QED
    BY <2>1 DEF LockAgain, Call
<1>2. mx[m] \in Mutex /\ held[t][m] = mx[m].count
  BY <1>1, OnlyOwnerHolds DEF LockInv, TypeOK
<1>3. x \in Mutex /\ x.locked /\ x.owner = t /\ x.count = held[t][m] + 1 /\ x.count >= 1
  BY <1>1, <1>2 DEF Mutex
<1>4. mx' = [mx EXCEPT ![m] = x]
  BY DEF LockAgain
<1>5. held' = [held EXCEPT ![t][m] = held[t][m] + 1]
  BY DEF LockAgain
<1>6. call' = [call EXCEPT ![t] = Idle(t)] /\ sch' \in Sched /\ UNCHANGED port
  BY DEF LockAgain, Return, LockInv, TypeOK
<1>7. \A u \in Tasks \ {t} : held[u][m] = 0
  BY <1>1, OnlyOwnerHolds
<1>8. Idle(t) \in Call /\ Idle(t).pc # "boost"
  BY NoCallType
<1> HIDE DEF x, m
<1>9. held' = [held EXCEPT ![t][m] = x.count]
  BY <1>3, <1>5
<1>10. LockInv'
  BY <1>1, <1>3, <1>4, <1>6, <1>7, <1>8, <1>9, AccountKeeps
<1>11. QED
  BY <1>5, <1>10 DEF m

\* The owner undoes one of several locks: the account goes down by one.
LEMMA UnlockNestedKeeps ==
  ASSUME LockInv, NEW t \in Tasks, NEW m \in Mutexes, UnlockNested(t, m)
  PROVE  LockInv' /\ held[t][m] > 0
<1> DEFINE x == [mx[m] EXCEPT !.count = mx[m].count - 1]
<1>1. mx[m].locked /\ mx[m].owner = t /\ mx[m].count > 1
  BY DEF UnlockNested
<1>2. mx[m] \in Mutex /\ held[t][m] = mx[m].count
  BY <1>1, OnlyOwnerHolds DEF LockInv, TypeOK
<1>3. x \in Mutex /\ x.locked /\ x.owner = t /\ x.count = held[t][m] - 1 /\ x.count >= 1
  BY <1>1, <1>2 DEF Mutex
<1>4. mx' = [mx EXCEPT ![m] = x]
  BY DEF UnlockNested
<1>5. held' = [held EXCEPT ![t][m] = held[t][m] - 1]
  BY DEF UnlockNested
<1>6. call' = [call EXCEPT ![t] = call[t]] /\ sch' \in Sched /\ UNCHANGED port
  BY DEF UnlockNested, LockInv, TypeOK
<1>7. \A u \in Tasks \ {t} : held[u][m] = 0
  BY <1>1, OnlyOwnerHolds
<1>8. call[t] \in Call /\ call[t].pc # "boost"
  BY DEF UnlockNested, LockInv, TypeOK
<1> HIDE DEF x
<1>9. held' = [held EXCEPT ![t][m] = x.count]
  BY <1>3, <1>5
<1>10. LockInv'
  BY <1>3, <1>4, <1>6, <1>7, <1>8, <1>9, AccountKeeps
<1>11. held[t][m] > 0
  BY <1>1, <1>2 DEF Mutex
<1>12. QED
  BY <1>10, <1>11

\* The last unlock frees the mutex, whatever it does to priorities.
LEMMA UnlockLastKeeps ==
  ASSUME LockInv, NEW t \in Tasks, NEW m \in Mutexes, UnlockLast(t, m)
  PROVE  LockInv' /\ held[t][m] > 0
<1> DEFINE o == mx[m].tcb
           target == IF Base[o] # 0 THEN Base[o] ELSE mx[m].original
           boosted == o # NoTask /\ sch.prio[o] # target
           x == [locked |-> FALSE, count |-> 0, owner |-> NoTask, tcb |-> NoTask,
                 original |-> mx[m].original]
           r == [call[t] EXCEPT !.pc = IF boosted THEN "unboost" ELSE "run",
                                !.prio = IF boosted THEN target ELSE 0]
<1>1. mx[m] \in Mutex /\ o \in Link /\ call[t] \in Call
  BY DEF LockInv, TypeOK, Mutex
<1>2. boosted => o \in Tasks /\ target \in Nat
  BY <1>1, MutexAssumption DEF Link, Mutex
<1>3. held[t][m] = 1
  <2>1. mx[m].locked /\ mx[m].owner = t /\ mx[m].count <= 1
    BY DEF UnlockLast
  <2>2. mx[m].count \in Nat /\ mx[m].count >= 1 /\ held[t][m] = mx[m].count
    BY <1>1, <2>1, OnlyOwnerHolds DEF LockInv, Shaped, Mutex
  <2>3. QED
    BY <2>1, <2>2
<1>4. x \in Mutex /\ ~x.locked /\ x.count = 0
  BY <1>1 DEF Mutex, Link
<1>5. mx' = [mx EXCEPT ![m] = x] /\ held' = [held EXCEPT ![t][m] = 0]
  <2>1. held[t][m] - 1 = 0
    BY <1>3
  <2>2. mx' = [mx EXCEPT ![m] = x] /\ held' = [held EXCEPT ![t][m] = held[t][m] - 1]
    BY DEF UnlockLast
  <2>3. QED
    BY <2>1, <2>2
<1>6. r \in Call /\ r.pc # "boost"
  <2>1. (IF boosted THEN target ELSE 0) \in Nat
    BY <1>2
  <2>2. (IF boosted THEN "unboost" ELSE "run") \in {"unboost", "run"}
    OBVIOUS
  <2> HIDE DEF boosted, target
  <2>3. QED
    BY <1>1, <2>1, <2>2 DEF Call, Pc
<1>7. sch' \in Sched
  <2>1. sch' = IF boosted THEN Reprioritise(sch, o, target) ELSE sch
    BY DEF UnlockLast
  <2> HIDE DEF boosted, target, o
  <2>2. QED
    BY <1>2, <2>1, ReprioritiseType DEF LockInv, TypeOK
<1>8. call' = [call EXCEPT ![t] = r] /\ UNCHANGED port
  BY DEF UnlockLast, LockInv, TypeOK
<1>9. \A u \in Tasks \ {t} : held[u][m] = 0
  BY OnlyOwnerHolds DEF UnlockLast
<1> HIDE DEF x, r
<1>10. LockInv'
  BY <1>4, <1>5, <1>6, <1>7, <1>8, <1>9, AccountKeeps
<1>11. QED
  BY <1>3, <1>10

-----------------------------------------------------------------------------
\* Every step keeps the account.
LEMMA LockInvStep == LockInv /\ [Next]_vars => LockInv'
<1> SUFFICES ASSUME LockInv, [Next]_vars PROVE LockInv'
  OBVIOUS
<1>1. CASE UNCHANGED vars
  BY <1>1 DEF vars, LockInv, TypeOK, Shaped, OwnerExact
<1>2. ASSUME NEW t \in Tasks, Admit(t) \/ Launch(t) PROVE LockInv'
  BY <1>2, AdmitKeeps
<1>3. ASSUME NEW t \in Tasks, NEW m \in Mutexes, NEW w \in Wait, LockCall(t, m, w)
      PROVE  LockInv'
  BY <1>3, WaitKeeps
<1>4. ASSUME NEW t \in Tasks, Lock(t) \/ RestorePort(t) PROVE LockInv'
  BY <1>4, WaitKeeps, LockKeeps, LockAgainKeeps DEF Lock
<1>5. ASSUME NEW t \in Tasks, NEW m \in Mutexes, Unlock(t, m) PROVE LockInv'
  BY <1>1, <1>5, UnlockNestedKeeps, UnlockLastKeeps DEF Unlock, UnlockRefused
<1>6. QED
  BY <1>1, <1>2, <1>3, <1>4, <1>5 DEF Next

\* The invariant holds in every reachable state.
LEMMA LockInvAlways == Spec => []LockInv
BY LockInvInit, LockInvStep, PTL DEF Spec

\* Every reachable state of the mutexes and of the calls on them is well typed; in
\* particular the nesting count never goes below zero.
THEOREM PiMutexTypeCorrect == Spec => []TypeOK
<1>1. LockInv => TypeOK
  BY DEF LockInv
<1>2. QED
  BY <1>1, LockInvAlways, PTL

\* A mutex's owner and count are always those of the one task that locked it without
\* unlocking it yet (mk_mutex.c:42-160), for any number of tasks and mutexes.
THEOREM OwnerAlwaysExact == Spec => []OwnerExact
<1>1. LockInv => OwnerExact
  BY DEF LockInv
<1>2. QED
  BY <1>1, LockInvAlways, PTL

\* A step of the mutex is a lock, an unlock or nothing to those who use it.
LEMMA StepIsLock ==
  ASSUME LockInv, [Next]_vars
  PROVE  [Abstract!Next]_held
<1> USE DEF Abstract!Next, Abstract!Lock, Abstract!Unlock, Abstract!FreeFor
<1>1. CASE UNCHANGED held
  BY <1>1
<1>2. ASSUME NEW t \in Tasks, LockFree(t) \/ PollFree(t) PROVE [Abstract!Next]_held
  <2> DEFINE m == call[t].m
  <2>1. m \in Mutexes /\ ~mx[m].locked /\ held' = [held EXCEPT ![t][m] = 1]
    BY <1>2, LockKeeps DEF LockInv, TypeOK, Call
  <2>2. \A u \in Tasks : held[u][m] = 0
    BY <2>1, OnlyOwnerHolds
  <2> HIDE DEF m
  <2>3. held[t][m] + 1 = 1
    BY <2>2
  <2>4. held' = [held EXCEPT ![t][m] = held[t][m] + 1]
    BY <2>1, <2>3
  <2>5. QED
    BY <2>1, <2>2, <2>4
<1>3. ASSUME NEW t \in Tasks, LockAgain(t) PROVE [Abstract!Next]_held
  <2> DEFINE m == call[t].m
  <2>1. m \in Mutexes /\ mx[m].owner = t /\ held' = [held EXCEPT ![t][m] = held[t][m] + 1]
    BY <1>3 DEF LockAgain, LockInv, TypeOK, Call
  <2>2. \A u \in Tasks \ {t} : held[u][m] = 0
    BY <2>1, OnlyOwnerHolds
  <2> HIDE DEF m
  <2>3. QED
    BY <2>1, <2>2
<1>4. ASSUME NEW t \in Tasks, NEW m \in Mutexes, Unlock(t, m) PROVE [Abstract!Next]_held
  <2>1. CASE UnlockRefused(t, m)
    BY <1>1, <2>1 DEF UnlockRefused, vars
  <2>2. CASE UnlockNested(t, m) \/ UnlockLast(t, m)
    <3>1. held[t][m] > 0
      BY <2>2, UnlockNestedKeeps, UnlockLastKeeps
    <3>2. held' = [held EXCEPT ![t][m] = held[t][m] - 1]
      BY <2>2 DEF UnlockNested, UnlockLast
    <3>3. QED
      BY <3>1, <3>2
  <2>3. QED
    BY <1>4, <2>1, <2>2 DEF Unlock
<1>5. ASSUME NEW t \in Tasks,
             \/ Admit(t) \/ Launch(t) \/ RestorePort(t)
             \/ \E m \in Mutexes, w \in Wait : LockCall(t, m, w)
             \/ LockTry(t) \/ LockContend(t) \/ PollContend(t) \/ ApplyBoost(t)
             \/ TimedOut(t) \/ PollAgain(t)
      PROVE  UNCHANGED held
  BY <1>5 DEF Admit, Launch, RestorePort, LockCall, LockTry, LockContend, PollContend,
              ApplyBoost, TimedOut, PollAgain
<1>6. CASE UNCHANGED vars
  BY <1>1, <1>6 DEF vars
<1>7. QED
  BY <1>1, <1>2, <1>3, <1>4, <1>5, <1>6 DEF Next, Lock

\* The priority-inheriting mutex implements the recursive lock: through contention,
\* boosts, timeouts and refused unlocks, while a task holds a mutex no other call
\* returns with it.
THEOREM MutexImplementsLock == Spec => ImplementsLock
<1>1. Init => Abstract!Init
  BY DEF Init, Abstract!Init
<1>2. LockInv /\ [Next]_vars => [Abstract!Next]_held
  BY StepIsLock
<1>3. QED
  BY <1>1, <1>2, LockInvAlways, PTL DEF Spec, ImplementsLock, Abstract!Spec

-----------------------------------------------------------------------------
(* A raised priority has a reason, when every base priority has a level of *)
(* its own: queueing a task clamps the priority to the last level.         *)

\* The control blocks that calls and mutexes refer to are those of admitted tasks.
Known ==
  /\ sch.current # NoTask => sch.current \in Admitted
  /\ \A t \in Tasks : call[t].self # NoTask => call[t].self \in Admitted
  /\ \A m \in Mutexes : mx[m].tcb # NoTask => mx[m].tcb \in Admitted

ReasonInv == Known /\ BoostHasReason

\* Only the priority of the task that moves changes.
LEMMA ReprioritiseFields ==
  ASSUME NEW s \in Sched, NEW t \in Tasks, NEW p \in Nat, p < NPrio
  PROVE  /\ Reprioritise(s, t, p).prio = [s.prio EXCEPT ![t] = p]
         /\ Reprioritise(s, t, p).current = s.current
<1> DEFINE r == [s EXCEPT !.prio[t] = p]
           q == RemoveReady(r, t)
<1>1. [s.prio EXCEPT ![t] = p] \in [Tasks -> Nat]
  BY DEF Sched
<1>2. r = [s EXCEPT !.prio = [s.prio EXCEPT ![t] = p]]
  BY DEF Sched
<1>3. r \in Sched /\ r.prio = [s.prio EXCEPT ![t] = p] /\ r.current = s.current
  BY <1>1, <1>2 DEF Sched
<1> HIDE DEF r
<1>4. q \in Sched /\ q.prio = r.prio /\ q.current = r.current
  BY <1>3, RemoveReadyType, RemoveReadyFields
<1> HIDE DEF q
<1>5. /\ AddReady(q, t).prio = [q.prio EXCEPT ![t] = LevelOf(q, t)]
      /\ AddReady(q, t).current = q.current
  BY <1>4, AddReadyFields
<1>6. LevelOf(q, t) = p
  BY <1>3, <1>4, QueueAssumption DEF LevelOf, Clamp, Sched
<1>7. [q.prio EXCEPT ![t] = p] = [s.prio EXCEPT ![t] = p]
  BY <1>3, <1>4 DEF Sched
<1>8. QED
  BY <1>3, <1>4, <1>5, <1>6, <1>7 DEF Reprioritise, r, q

\* What a step of an admitted task's call leaves of Known and of who is admitted.
LEMMA CallFrame ==
  ASSUME LockInv, ReasonInv, NEW t \in Tasks, NEW r \in Call, call' = [call EXCEPT ![t] = r],
         call[t].pc # "out", r.pc # "out", r.self \in {NoTask, call[t].self, sch.current},
         sch'.current = sch.current,
         \A m \in Mutexes : mx'[m].tcb \in {NoTask, mx[m].tcb, call[t].self}
  PROVE  Known' /\ Admitted' = Admitted
<1>1. Admitted' = Admitted
  BY DEF LockInv, TypeOK, Admitted
<1>2. \A u \in Tasks : call'[u].self \in {NoTask, call[u].self, sch.current}
  BY DEF LockInv, TypeOK
<1>3. QED
  BY <1>1, <1>2 DEF ReasonInv, Known

\* An admitted task's priority is one that an admitted task was made with, and its own
\* at the least.
LEMMA PriorityRange ==
  ASSUME LockInv, ReasonInv, \A t \in Tasks : Base[t] < NPrio
  PROVE  \A t \in Admitted : /\ sch.prio[t] \in {Base[u] : u \in Admitted}
                             /\ sch.prio[t] \in Nat /\ sch.prio[t] < NPrio
                             /\ sch.prio[t] >= Base[t]
<1> SUFFICES ASSUME NEW t \in Admitted
             PROVE  /\ sch.prio[t] \in {Base[u] : u \in Admitted}
                    /\ sch.prio[t] \in Nat /\ sch.prio[t] < NPrio
                    /\ sch.prio[t] >= Base[t]
  OBVIOUS
<1>1. Base \in [Tasks -> Nat \ {0}] /\ Admitted \subseteq Tasks
  BY MutexAssumption DEF Admitted
<1>2. sch.prio[t] \in {Base[u] : u \in Admitted} /\ sch.prio[t] >= Base[t]
  BY <1>1 DEF ReasonInv, BoostHasReason
<1>3. QED
  BY <1>1, <1>2

\* A step that changes no priority, and no locked mutex except to unlock none.
LEMMA QuietKeeps ==
  ASSUME LockInv, ReasonInv, NEW t \in Tasks, NEW r \in Call, call' = [call EXCEPT ![t] = r],
         call[t].pc # "out", r.pc # "out", r.self \in {NoTask, call[t].self, sch.current},
         sch'.current = sch.current, sch'.prio = sch.prio,
         \A m \in Mutexes : mx'[m].tcb \in {NoTask, mx[m].tcb, call[t].self},
         \A m \in Mutexes : mx[m].locked => mx'[m].locked /\ mx'[m].tcb = mx[m].tcb
  PROVE  ReasonInv'
<1>1. Known' /\ Admitted' = Admitted
  BY CallFrame
<1>2. BoostHasReason'
  BY <1>1 DEF ReasonInv, BoostHasReason
<1>3. QED
  BY <1>1, <1>2 DEF ReasonInv

\* The boost raises the owner's block, which a locked mutex names, to the priority of
\* another.
LEMMA BoostReason ==
  ASSUME LockInv, ReasonInv, \A u \in Tasks : Base[u] < NPrio,
         NEW t \in Tasks, call[t].pc # "out", NEW then \in {"poll", "check"},
         mx[call[t].m].locked, BoostOwner(t, then), UNCHANGED mx
  PROVE  ReasonInv'
<1> DEFINE me == call[t].self
           o == mx[call[t].m].tcb
<1>1. /\ call \in [Tasks -> Call] /\ call[t] \in Call /\ call[t].m \in Mutexes /\ me \in Link
      /\ o \in Link /\ mx[call[t].m].owner \in Link /\ sch \in Sched
  BY DEF LockInv, TypeOK, Call, Mutex
<1>2. CASE me # NoTask /\ o # NoTask /\ sch.prio[me] > sch.prio[o]
  <2> DEFINE r == [call[t] EXCEPT !.pc = "boost", !.then = then, !.victim = mx[call[t].m].owner]
             p == sch.prio[me]
  <2>1. sch' = Reprioritise(sch, o, p) /\ call' = [call EXCEPT ![t] = r]
    BY <1>1, <1>2 DEF BoostOwner
  <2>2. r \in Call /\ r.pc # "out" /\ r.self = me
    BY <1>1 DEF Call, Pc
  <2>3. me \in Admitted /\ o \in Admitted /\ o \in Tasks
    BY <1>1, <1>2 DEF ReasonInv, Known, Link
  <2>4. /\ p \in {Base[u] : u \in Admitted} /\ p \in Nat /\ p < NPrio
        /\ sch.prio[o] \in Nat /\ sch.prio[o] >= Base[o] /\ Base[o] \in Nat
    BY <2>3, PriorityRange, MutexAssumption
  <2>5. sch'.prio = [sch.prio EXCEPT ![o] = p] /\ sch'.current = sch.current
    BY <1>1, <2>1, <2>3, <2>4, ReprioritiseFields
  <2> HIDE DEF r
  <2>6. Known' /\ Admitted' = Admitted
    BY <2>1, <2>2, <2>5, CallFrame
  <2>7. ASSUME NEW u \in Admitted, sch'.prio[u] # Base[u]
        PROVE  /\ sch'.prio[u] \in {Base[w] : w \in Admitted}
               /\ sch'.prio[u] > Base[u]
               /\ \E m \in Mutexes : mx[m].locked /\ mx[m].tcb = u
    <3>1. CASE u = o
      <4>1. sch'.prio[u] = p
        BY <1>1, <2>3, <2>5, <3>1 DEF Sched
      <4>2. p > Base[u]
        BY <1>2, <2>4, <3>1
      <4>3. QED
        BY <1>1, <2>4, <3>1, <4>1, <4>2
    <3>2. CASE u # o
      <4>1. sch'.prio[u] = sch.prio[u]
        BY <1>1, <2>5, <3>2 DEF Sched, Admitted
      <4>2. QED
        BY <2>7, <4>1 DEF ReasonInv, BoostHasReason
    <3>3. QED
      BY <3>1, <3>2
  <2>8. BoostHasReason'
    BY <2>6, <2>7 DEF BoostHasReason
  <2>9. QED
    BY <2>6, <2>8 DEF ReasonInv
<1>3. CASE ~(me # NoTask /\ o # NoTask /\ sch.prio[me] > sch.prio[o])
  <2> DEFINE r == [call[t] EXCEPT !.pc = then]
  <2>1. UNCHANGED sch /\ call' = [call EXCEPT ![t] = r]
    BY <1>1, <1>3 DEF BoostOwner
  <2>2. r \in Call /\ r.pc # "out" /\ r.self = me
    BY <1>1 DEF Call, Pc
  <2> HIDE DEF r
  <2>3. QED
    BY <2>1, <2>2, QuietKeeps
<1>4. QED
  BY <1>2, <1>3

\* The last unlock gives the block it was taken for its base priority back.
LEMMA UnlockReason ==
  ASSUME LockInv, ReasonInv, \A u \in Tasks : Base[u] < NPrio,
         NEW t \in Tasks, NEW m \in Mutexes, UnlockLast(t, m)
  PROVE  ReasonInv'
<1> DEFINE o == mx[m].tcb
           target == IF Base[o] # 0 THEN Base[o] ELSE mx[m].original
           boosted == o # NoTask /\ sch.prio[o] # target
           r == [call[t] EXCEPT !.pc = IF boosted THEN "unboost" ELSE "run",
                                !.prio = IF boosted THEN target ELSE 0]
<1>1. /\ call \in [Tasks -> Call] /\ call[t] \in Call /\ call[t].pc = "run" /\ sch \in Sched
      /\ mx \in [Mutexes -> Mutex] /\ mx[m] \in Mutex /\ o \in Link /\ NoTask \notin Tasks
      /\ Base \in [Tasks -> Nat \ {0}]
  BY QueueAssumption, MutexAssumption DEF LockInv, TypeOK, Mutex, UnlockLast
<1>2. o # NoTask => o \in Tasks /\ target = Base[o] /\ target \in Nat /\ target < NPrio
  BY <1>1 DEF Link
<1>3. call' = [call EXCEPT ![t] = r] /\ sch' = IF boosted THEN Reprioritise(sch, o, target) ELSE sch
  BY <1>1 DEF UnlockLast
<1>4. /\ sch'.current = sch.current /\ \A u \in Tasks \ {o} : sch'.prio[u] = sch.prio[u]
      /\ o # NoTask => sch'.prio[o] = Base[o]
  <2>1. CASE boosted
    <3>1. sch' = Reprioritise(sch, o, target) /\ o \in Tasks /\ target = Base[o]
          /\ target \in Nat /\ target < NPrio
      BY <1>2, <1>3, <2>1
    <3> HIDE DEF target, o, boosted
    <3>2. sch'.prio = [sch.prio EXCEPT ![o] = target] /\ sch'.current = sch.current
      BY <1>1, <3>1, ReprioritiseFields
    <3>3. QED
      BY <1>1, <3>1, <3>2 DEF Sched
  <2>2. CASE ~boosted
    <3>1. sch' = sch
      BY <1>3, <2>2
    <3>2. QED
      BY <1>2, <2>2, <3>1
  <2>3. QED
    BY <2>1, <2>2
<1>5. r \in Call /\ r.pc # "out" /\ r.self = call[t].self
  <2>1. (IF boosted THEN target ELSE 0) \in Nat
    BY <1>2
  <2>2. (IF boosted THEN "unboost" ELSE "run") \in {"unboost", "run"}
    OBVIOUS
  <2> HIDE DEF boosted, target
  <2>3. QED
    BY <1>1, <2>1, <2>2 DEF Call, Pc
<1>6. \A k \in Mutexes \ {m} : mx'[k] = mx[k]
  BY <1>1 DEF UnlockLast
<1>7. mx'[m].tcb = NoTask
  BY <1>1 DEF UnlockLast
<1> HIDE DEF r, target, boosted
<1>8. Known' /\ Admitted' = Admitted
  BY <1>1, <1>3, <1>4, <1>5, <1>6, <1>7, CallFrame
<1>9. ASSUME NEW u \in Admitted, sch'.prio[u] # Base[u]
      PROVE  /\ sch'.prio[u] \in {Base[w] : w \in Admitted}
             /\ sch'.prio[u] > Base[u]
             /\ \E k \in Mutexes : mx'[k].locked /\ mx'[k].tcb = u
  <2>1. u # o /\ u \in Tasks /\ u # NoTask
    BY <1>1, <1>4, <1>9 DEF Admitted
  <2>2. sch'.prio[u] = sch.prio[u]
    BY <1>4, <2>1
  <2>3. PICK k \in Mutexes : mx[k].locked /\ mx[k].tcb = u
    BY <1>9, <2>2 DEF ReasonInv, BoostHasReason
  <2>4. mx'[k] = mx[k]
    BY <1>6, <2>1, <2>3
  <2>5. QED
    BY <1>9, <2>2, <2>3, <2>4 DEF ReasonInv, BoostHasReason
<1>10. BoostHasReason'
  BY <1>8, <1>9 DEF BoostHasReason
<1>11. QED
  BY <1>8, <1>10 DEF ReasonInv

\* With no task admitted nothing is raised.
LEMMA ReasonInit == Init => ReasonInv
BY DEF Init, ReasonInv, Known, BoostHasReason, Admitted, InitSched, NoCall

\* A task is admitted with its base priority.
LEMMA AdmitReason ==
  ASSUME LockInv, ReasonInv, \A u \in Tasks : Base[u] < NPrio, NEW t \in Tasks, Admit(t)
  PROVE  ReasonInv'
<1>1. /\ call \in [Tasks -> Call] /\ call[t] \in Call /\ sch \in Sched /\ NoTask \notin Tasks
      /\ Base[t] \in Nat /\ Base[t] < NPrio /\ NPrio \in Nat
  BY QueueAssumption, MutexAssumption DEF LockInv, TypeOK
<1> DEFINE b == NewTcb(sch, t, Base[t])
<1>2. b \in Sched /\ b.prio = [sch.prio EXCEPT ![t] = Base[t]] /\ b.current = sch.current
  <2>1. Base[t] \in Nat /\ sch \in Sched
    BY <1>1
  <2>2. QED
    BY <2>1, NewTcbFields, Zenon
<1>3. sch' = AddReady(b, t)
  BY DEF Admit
<1> HIDE DEF b
<1>4. sch'.current = sch.current /\ sch'.prio = [b.prio EXCEPT ![t] = LevelOf(b, t)]
  BY <1>2, <1>3, AddReadyFields
<1>5. LevelOf(b, t) = Base[t]
  BY <1>1, <1>2 DEF LevelOf, Clamp, Sched
<1>6. sch'.prio[t] = Base[t] /\ \A u \in Tasks \ {t} : sch'.prio[u] = sch.prio[u]
  BY <1>1, <1>2, <1>4, <1>5 DEF Sched
<1>7. /\ Admitted' = Admitted \cup {t} /\ UNCHANGED mx
      /\ \A u \in Tasks : call'[u].self = call[u].self
  <2>1. [call[t] EXCEPT !.pc = "made"].pc = "made"
        /\ [call[t] EXCEPT !.pc = "made"].self = call[t].self
    BY <1>1 DEF Call
  <2>2. call' = [call EXCEPT ![t] = [call[t] EXCEPT !.pc = "made"]] /\ UNCHANGED mx
    BY <1>1 DEF Admit
  <2>3. QED
    BY <1>1, <2>1, <2>2 DEF Admitted
<1>8. Known'
  BY <1>4, <1>7 DEF ReasonInv, Known
<1>9. ASSUME NEW u \in Admitted', sch'.prio[u] # Base[u]
      PROVE  /\ sch'.prio[u] \in {Base[w] : w \in Admitted'}
             /\ sch'.prio[u] > Base[u]
             /\ \E m \in Mutexes : mx[m].locked /\ mx[m].tcb = u
  <2>1. u \in Admitted /\ sch'.prio[u] = sch.prio[u]
    BY <1>6, <1>7, <1>9 DEF Admitted
  <2>2. QED
    BY <1>7, <1>9, <2>1 DEF ReasonInv, BoostHasReason
<1>10. BoostHasReason'
  BY <1>7, <1>9 DEF BoostHasReason
<1>11. QED
  BY <1>8, <1>10 DEF ReasonInv

\* A task that starts becomes the current one.
LEMMA LaunchReason ==
  ASSUME LockInv, ReasonInv, NEW t \in Tasks, Launch(t)
  PROVE  ReasonInv'
<1>1. /\ call \in [Tasks -> Call] /\ call[t] \in Call /\ call[t].pc = "made" /\ sch \in Sched
      /\ UNCHANGED mx
  BY DEF LockInv, TypeOK, Launch
<1>2. /\ Admitted' = Admitted /\ t \in Admitted
      /\ \A u \in Tasks : call'[u].self = call[u].self
  <2>1. [call[t] EXCEPT !.pc = "run"].pc = "run"
        /\ [call[t] EXCEPT !.pc = "run"].self = call[t].self
    BY <1>1 DEF Call
  <2>2. call' = [call EXCEPT ![t] = [call[t] EXCEPT !.pc = "run"]]
    BY <1>1 DEF Launch
  <2>3. QED
    BY <1>1, <2>1, <2>2 DEF Admitted
<1>3. sch'.current = t /\ sch'.prio = sch.prio
  <2>1. sch' = [sch EXCEPT !.state = [sch.state EXCEPT ![t] = "RUNNING"], !.current = t]
    BY <1>1 DEF Launch, Sched
  <2>2. QED
    BY <1>1, <2>1 DEF Sched
<1>4. QED
  BY <1>1, <1>2, <1>3 DEF ReasonInv, Known, BoostHasReason

\* Every other step of a call changes no priority, and locks or unlocks what has no
\* raised block.
LEMMA CallReason ==
  ASSUME LockInv, ReasonInv, NEW t \in Tasks,
         \/ \E m \in Mutexes, w \in Wait : LockCall(t, m, w)
         \/ LockFree(t) \/ LockAgain(t) \/ LockTry(t) \/ PollFree(t) \/ ApplyBoost(t)
         \/ TimedOut(t) \/ PollAgain(t) \/ RestorePort(t)
  PROVE  ReasonInv'
<1>1. /\ call \in [Tasks -> Call] /\ call[t] \in Call /\ mx \in [Mutexes -> Mutex]
      /\ sch \in Sched /\ call[t].m \in Mutexes
  BY DEF LockInv, TypeOK, Call
<1>2. NoCall \in Call /\ Idle(t) \in Call /\ Idle(t).pc = "run" /\ Idle(t).self = NoTask
  BY NoCallType DEF Idle, NoCall
<1>3. ASSUME NEW m \in Mutexes, NEW w \in Wait, LockCall(t, m, w) PROVE ReasonInv'
  <2> DEFINE r == [NoCall EXCEPT !.pc = "enter", !.m = m, !.wait = w, !.self = sch.current]
  <2>1. r \in Call /\ r.pc = "enter" /\ r.self = sch.current
    BY <1>1, <1>2 DEF Call, Pc, Sched
  <2>2. call' = [call EXCEPT ![t] = r] /\ UNCHANGED <<sch, mx>> /\ call[t].pc = "run"
    BY <1>3 DEF LockCall
  <2> HIDE DEF r
  <2>3. QED
    BY <2>1, <2>2, QuietKeeps
<1>4. CASE LockFree(t) \/ PollFree(t)
  <2>1. /\ call' = [call EXCEPT ![t] = Idle(t)] /\ UNCHANGED sch
        /\ call[t].pc \in {"enter", "poll"} /\ ~mx[call[t].m].locked
        /\ \A m \in Mutexes \ {call[t].m} : mx'[m] = mx[m]
        /\ mx'[call[t].m].tcb = call[t].self
    BY <1>1, <1>4 DEF LockFree, PollFree, Take, Return
  <2>2. \A m \in Mutexes : mx[m].locked => mx'[m].locked /\ mx'[m].tcb = mx[m].tcb
    BY <2>1
  <2>3. \A m \in Mutexes : mx'[m].tcb \in {NoTask, mx[m].tcb, call[t].self}
    BY <2>1
  <2>4. QED
    BY <1>2, <2>1, <2>2, <2>3, QuietKeeps
<1>5. CASE LockAgain(t)
  <2>1. /\ call' = [call EXCEPT ![t] = Idle(t)] /\ UNCHANGED sch /\ call[t].pc = "enter"
    BY <1>5 DEF LockAgain, Return
  <2>2. \A m \in Mutexes : mx'[m].locked = mx[m].locked /\ mx'[m].tcb = mx[m].tcb
    BY <1>1, <1>5 DEF LockAgain, Mutex
  <2>3. QED
    BY <1>2, <2>1, <2>2, QuietKeeps
<1>6. CASE LockTry(t) \/ TimedOut(t) \/ RestorePort(t)
  <2>1. /\ call' = [call EXCEPT ![t] = Idle(t)] /\ UNCHANGED <<sch, mx>>
        /\ call[t].pc \in {"enter", "check", "unboost"}
    BY <1>6 DEF LockTry, TimedOut, RestorePort, Return
  <2>2. QED
    BY <1>2, <2>1, QuietKeeps
<1>7. CASE ApplyBoost(t) \/ PollAgain(t)
  <2>1. PICK r \in Call : /\ call' = [call EXCEPT ![t] = r] /\ r.pc \in {"poll", "check"}
                          /\ r.self = call[t].self
    <3>1. CASE ApplyBoost(t)
      <4> DEFINE r == [call[t] EXCEPT !.pc = call[t].then, !.victim = NoTask, !.then = "poll"]
      <4>1. r \in Call /\ r.pc \in {"poll", "check"} /\ r.self = call[t].self
        BY <1>1 DEF Call, Pc, Link
      <4>2. call' = [call EXCEPT ![t] = r]
        BY <1>1, <3>1 DEF ApplyBoost
      <4> HIDE DEF r
      <4>3. QED
        BY <4>1, <4>2
    <3>2. CASE PollAgain(t)
      <4> DEFINE r == [call[t] EXCEPT !.pc = "poll"]
      <4>1. r \in Call /\ r.pc \in {"poll", "check"} /\ r.self = call[t].self
        BY <1>1 DEF Call, Pc
      <4>2. call' = [call EXCEPT ![t] = r]
        BY <1>1, <3>2 DEF PollAgain
      <4> HIDE DEF r
      <4>3. QED
        BY <4>1, <4>2
    <3>3. QED
      BY <1>7, <3>1, <3>2
  <2>2. UNCHANGED <<sch, mx>> /\ call[t].pc \in {"boost", "check"}
    BY <1>7 DEF ApplyBoost, PollAgain
  <2>3. QED
    BY <2>1, <2>2, QuietKeeps
<1>8. QED
  BY <1>3, <1>4, <1>5, <1>6, <1>7

\* The nested unlock counts down and keeps the owner's block.
LEMMA NestedReason ==
  ASSUME LockInv, ReasonInv, NEW t \in Tasks, NEW m \in Mutexes, UnlockNested(t, m)
  PROVE  ReasonInv'
<1>1. \A k \in Mutexes : mx'[k].locked = mx[k].locked /\ mx'[k].tcb = mx[k].tcb
  BY DEF UnlockNested, LockInv, TypeOK, Mutex
<1>2. UNCHANGED <<sch, call>>
  BY DEF UnlockNested
<1>3. QED
  BY <1>1, <1>2 DEF ReasonInv, Known, BoostHasReason, Admitted

\* Every step keeps the reasons.
LEMMA ReasonNext ==
  ASSUME \A t \in Tasks : Base[t] < NPrio
  PROVE  LockInv /\ ReasonInv /\ [Next]_vars => ReasonInv'
<1> SUFFICES ASSUME LockInv, ReasonInv, [Next]_vars PROVE ReasonInv'
  OBVIOUS
<1>1. CASE UNCHANGED vars
  BY <1>1 DEF vars, ReasonInv, Known, BoostHasReason, Admitted
<1>2. ASSUME NEW t \in Tasks, Admit(t) \/ Launch(t) PROVE ReasonInv'
  BY <1>2, AdmitReason, LaunchReason
<1>3. ASSUME NEW t \in Tasks, LockContend(t) \/ PollContend(t) PROVE ReasonInv'
  <2>1. call[t].pc # "out" /\ mx[call[t].m].locked /\ UNCHANGED mx
        /\ (BoostOwner(t, "poll") \/ BoostOwner(t, "check"))
    BY <1>3 DEF LockContend, PollContend, Contended
  <2>2. QED
    BY <2>1, BoostReason
<1>4. ASSUME NEW t \in Tasks, NEW m \in Mutexes, Unlock(t, m) PROVE ReasonInv'
  BY <1>1, <1>4, NestedReason, UnlockReason DEF Unlock, UnlockRefused
<1>5. ASSUME NEW t \in Tasks, NEW m \in Mutexes, NEW w \in Wait, LockCall(t, m, w)
      PROVE  ReasonInv'
  BY <1>5, CallReason
<1>6. ASSUME NEW t \in Tasks, Lock(t) \/ RestorePort(t) PROVE ReasonInv'
  BY <1>3, <1>6, CallReason DEF Lock
<1>7. QED
  BY <1>1, <1>2, <1>4, <1>5, <1>6 DEF Next

\* A raised priority always has a reason: a locked mutex that names the raised block as
\* its owner's, and a task made with that priority (mk_mutex.c:74-78, 142-149); so the
\* priorities never leak from one lock to the next, whichever block a caller took for
\* its own.  Base priorities are below MK_CONFIG_MAX_PRIORITIES, as all of the product's.
THEOREM BoostAlwaysHasReason ==
  ASSUME \A t \in Tasks : Base[t] < NPrio
  PROVE  Spec => []BoostHasReason
<1>1. ReasonInv => BoostHasReason
  BY DEF ReasonInv
<1>2. QED
  BY <1>1, ReasonInit, ReasonNext, LockInvInit, LockInvStep, PTL DEF Spec
=============================================================================
