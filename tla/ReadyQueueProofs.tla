-------------------------- MODULE ReadyQueueProofs --------------------------
(***************************************************************************)
(* The functions of the scheduler object keep the ready lists, the bitmap  *)
(* and the count exact and the sleep list in waking order, for any number  *)
(* of tasks and priorities.                                                *)
(*                                                                         *)
(* Lists are followed along a numbering of their tasks, and loops by       *)
(* induction on the turns, which LeastNat provides: a set of numbers of    *)
(* turns after which the claim fails has a least element.                  *)
(***************************************************************************)
EXTENDS ReadyQueue, FiniteSetTheorems, WellFoundedInduction, TLAPS

\* Clamping gives a priority in range and leaves those in range alone.
LEMMA ClampInRange ==
  ASSUME NEW p \in Nat
  PROVE  Clamp(p) \in Prio /\ (p \in Prio => Clamp(p) = p)
BY QueueAssumption DEF Clamp, Prio

\* mk_scheduler_add_ready returns a well-typed record.
LEMMA AddReadyType ==
  ASSUME NEW s \in Sched, NEW t \in Tasks
  PROVE  AddReady(s, t) \in Sched
<1> DEFINE p == Clamp(s.prio[t])
           last == s.tail[p]
           prio == [s.prio EXCEPT ![t] = p]
           slice == [s.slice EXCEPT ![t] = IF @ = 0 THEN Quantum ELSE @]
           prev == [s.prev EXCEPT ![t] = last]
           next == IF last = NoTask THEN [s.next EXCEPT ![t] = NoTask]
                   ELSE [s.next EXCEPT ![t] = NoTask, ![last] = t]
           head == [s.head EXCEPT ![p] = IF last = NoTask THEN t ELSE @]
           tail == [s.tail EXCEPT ![p] = t]
           state == [s.state EXCEPT ![t] = "READY"]
<1>1. p \in Prio /\ p \in Nat
  BY ClampInRange DEF Sched, Prio
<1>2. last \in Link
  BY <1>1 DEF Sched
<1>3. /\ prio \in [Tasks -> Nat] /\ slice \in [Tasks -> Nat]
      /\ state \in [Tasks -> TaskState]
  BY <1>1, QueueAssumption DEF Sched, TaskState
<1>4. /\ prev \in [Tasks -> Link] /\ next \in [Tasks -> Link]
      /\ head \in [Prio -> Link] /\ tail \in [Prio -> Link]
  BY <1>1, <1>2 DEF Sched, Link
<1>5. s.bitmap \cup {p} \in SUBSET Prio /\ s.count + 1 \in Nat
  BY <1>1 DEF Sched
<1> HIDE DEF prio, slice, prev, next, head, tail, state
<1>6. AddReady(s, t) = [s EXCEPT !.prio = prio, !.slice = slice, !.prev = prev, !.next = next,
                                 !.head = head, !.tail = tail, !.bitmap = @ \cup {p},
                                 !.count = @ + 1, !.state = state]
  BY DEF AddReady, Sched, prio, slice, prev, next, head, tail, state
<1>7. QED
  BY <1>3, <1>4, <1>5, <1>6 DEF Sched

\* The level a task is added to or removed from, and that level's last task.
LevelOf(s, t) == Clamp(s.prio[t])
LastOf(s, t) == s.tail[LevelOf(s, t)]

\* What mk_scheduler_add_ready writes, field by field.
LEMMA AddReadyFields ==
  ASSUME NEW s \in Sched, NEW t \in Tasks
  PROVE  /\ LevelOf(s, t) \in Prio /\ LastOf(s, t) \in Link
         /\ AddReady(s, t).prio = [s.prio EXCEPT ![t] = LevelOf(s, t)]
         /\ AddReady(s, t).prev = [s.prev EXCEPT ![t] = LastOf(s, t)]
         /\ AddReady(s, t).next =
              IF LastOf(s, t) = NoTask THEN [s.next EXCEPT ![t] = NoTask]
              ELSE [s.next EXCEPT ![t] = NoTask, ![LastOf(s, t)] = t]
         /\ AddReady(s, t).head =
              IF LastOf(s, t) = NoTask THEN [s.head EXCEPT ![LevelOf(s, t)] = t] ELSE s.head
         /\ AddReady(s, t).tail = [s.tail EXCEPT ![LevelOf(s, t)] = t]
         /\ AddReady(s, t).bitmap = s.bitmap \cup {LevelOf(s, t)}
         /\ AddReady(s, t).count = s.count + 1
         /\ AddReady(s, t).state = [s.state EXCEPT ![t] = "READY"]
         /\ AddReady(s, t).sleep = s.sleep /\ AddReady(s, t).current = s.current
<1>1. LevelOf(s, t) \in Prio
  BY ClampInRange DEF Sched, LevelOf
<1>2. LastOf(s, t) \in Link
  BY <1>1 DEF Sched, LastOf
<1>3. QED
  BY <1>1, <1>2 DEF AddReady, Sched, LevelOf, LastOf

\* mk_scheduler_add_ready of a task that is in no queue adds exactly that task.
LEMMA AddReadyQueued ==
  ASSUME NEW s \in Sched, NEW q \in SUBSET Tasks, NEW t \in Tasks, t \notin q,
         Queued(s, q)
  PROVE  Queued(AddReady(s, t), q \cup {t})
<1> DEFINE p == LevelOf(s, t)
           last == LastOf(s, t)
           r == AddReady(s, t)
           qt == q \cup {t}
<1>1. /\ p \in Prio /\ last \in Link
      /\ r.prio = [s.prio EXCEPT ![t] = p]
      /\ r.prev = [s.prev EXCEPT ![t] = last]
      /\ r.next = IF last = NoTask THEN [s.next EXCEPT ![t] = NoTask]
                  ELSE [s.next EXCEPT ![t] = NoTask, ![last] = t]
      /\ r.head = IF last = NoTask THEN [s.head EXCEPT ![p] = t] ELSE s.head
      /\ r.tail = [s.tail EXCEPT ![p] = t]
      /\ r.bitmap = s.bitmap \cup {p}
      /\ r.count = s.count + 1
  BY AddReadyFields
<1>2. last # t /\ (last # NoTask => last \in q /\ s.prio[last] = p /\ s.next[last] = NoTask)
  BY <1>1, QueueAssumption DEF LastOf, Queued, LevelsWellFormed, Link
<1>3. /\ s.head \in [Prio -> Link] /\ s.tail \in [Prio -> Link]
      /\ s.next \in [Tasks -> Link] /\ s.prev \in [Tasks -> Link]
      /\ s.prio \in [Tasks -> Nat]
  BY DEF Sched
<1> HIDE DEF p, last, r
<1>4. LevelsWellFormed(r, qt)
  <2> SUFFICES ASSUME NEW k \in Prio
               PROVE  /\ r.head[k] = NoTask <=> r.tail[k] = NoTask
                      /\ r.head[k] # NoTask => r.head[k] \in qt /\ r.prio[r.head[k]] = k
                                               /\ r.prev[r.head[k]] = NoTask
                      /\ r.tail[k] # NoTask => r.tail[k] \in qt /\ r.prio[r.tail[k]] = k
                                               /\ r.next[r.tail[k]] = NoTask
    BY DEF LevelsWellFormed
  <2>1. CASE k = p
    BY <2>1, <1>1, <1>2, <1>3, QueueAssumption DEF Queued, LevelsWellFormed, Link, last, LastOf, p
  <2>2. CASE k # p
    BY <2>2, <1>1, <1>2, <1>3, QueueAssumption DEF Queued, LevelsWellFormed, Link
  <2>3. QED
    BY <2>1, <2>2
<1>5. LinksWellFormed(r, qt)
  <2> SUFFICES ASSUME NEW u \in qt
               PROVE  /\ r.prio[u] \in Prio
                      /\ IF r.prev[u] = NoTask THEN r.head[r.prio[u]] = u
                         ELSE r.prev[u] \in qt /\ r.next[r.prev[u]] = u
                              /\ r.prio[r.prev[u]] = r.prio[u]
                      /\ IF r.next[u] = NoTask THEN r.tail[r.prio[u]] = u
                         ELSE r.next[u] \in qt /\ r.prev[r.next[u]] = u
                              /\ r.prio[r.next[u]] = r.prio[u]
    BY DEF LinksWellFormed
  <2>1. CASE u = t
    BY <2>1, <1>1, <1>2, <1>3, QueueAssumption DEF Link
  <2>2. CASE u # t /\ u = last
    BY <2>2, <1>1, <1>2, <1>3, QueueAssumption DEF Queued, LinksWellFormed, LevelsWellFormed, Link
  <2>3. CASE u # t /\ u # last
    BY <2>3, <1>1, <1>2, <1>3, QueueAssumption DEF Queued, LinksWellFormed, LevelsWellFormed, Link, last, LastOf, p
  <2>4. QED
    BY <2>1, <2>2, <2>3
<1>6. BitmapExact(r)
  BY <1>1, <1>3, QueueAssumption DEF Queued, BitmapExact, LevelsWellFormed, last, LastOf, p
<1>7. CountExact(r, qt)
  <2>1. IsFiniteSet(q)
    BY QueueAssumption, FS_Subset
  <2>2. Cardinality(qt) = Cardinality(q) + 1
    BY <2>1, FS_AddElement
  <2>3. QED
    BY <1>1, <2>2 DEF Queued, CountExact
<1>8. QED
  BY <1>4, <1>5, <1>6, <1>7 DEF Queued, r

-----------------------------------------------------------------------------
\* Only the fields of the queued tasks matter.
LEMMA QueuedFrame ==
  ASSUME NEW s \in Sched, NEW r \in Sched, NEW q \in SUBSET Tasks, Queued(s, q),
         r.head = s.head, r.tail = s.tail, r.bitmap = s.bitmap, r.count = s.count,
         \A u \in q : r.next[u] = s.next[u] /\ r.prev[u] = s.prev[u] /\ r.prio[u] = s.prio[u]
  PROVE  Queued(r, q)
<1>1. LevelsWellFormed(r, q)
  BY DEF Queued, LevelsWellFormed
<1>2. LinksWellFormed(r, q)
  BY DEF Queued, LinksWellFormed
<1>3. BitmapExact(r) /\ CountExact(r, q)
  BY DEF Queued, BitmapExact, CountExact
<1>4. QED
  BY <1>1, <1>2, <1>3 DEF Queued

\* A zeroed control block is well typed and touches only its own fields.
LEMMA BlankTcbFields ==
  ASSUME NEW s \in Sched, NEW t \in Tasks
  PROVE  LET r == BlankTcb(s, t)
         IN  /\ r \in Sched
             /\ r.next = [s.next EXCEPT ![t] = NoTask]
             /\ r.prev = [s.prev EXCEPT ![t] = NoTask]
             /\ r.prio = [s.prio EXCEPT ![t] = 0]
             /\ r.head = s.head /\ r.tail = s.tail /\ r.bitmap = s.bitmap
             /\ r.count = s.count /\ r.sleep = s.sleep /\ r.current = s.current
<1>1. /\ [s.next EXCEPT ![t] = NoTask] \in [Tasks -> Link]
      /\ [s.prev EXCEPT ![t] = NoTask] \in [Tasks -> Link]
      /\ [s.prio EXCEPT ![t] = 0] \in [Tasks -> Nat]
      /\ [s.slice EXCEPT ![t] = 0] \in [Tasks -> Nat]
      /\ [s.wake EXCEPT ![t] = 0] \in [Tasks -> Nat]
      /\ [s.state EXCEPT ![t] = "READY"] \in [Tasks -> TaskState]
  BY DEF Sched, Link, TaskState
<1>2. QED
  BY <1>1 DEF BlankTcb, Sched

\* So is the control block that mk_task_create_ext fills.
LEMMA NewTcbFields ==
  ASSUME NEW s \in Sched, NEW t \in Tasks, NEW p \in Nat
  PROVE  LET r == NewTcb(s, t, p)
         IN  /\ r \in Sched
             /\ r.next = [s.next EXCEPT ![t] = NoTask]
             /\ r.prev = [s.prev EXCEPT ![t] = NoTask]
             /\ r.prio = [s.prio EXCEPT ![t] = p]
             /\ r.head = s.head /\ r.tail = s.tail /\ r.bitmap = s.bitmap
             /\ r.count = s.count /\ r.sleep = s.sleep /\ r.current = s.current
<1> DEFINE b == BlankTcb(s, t)
           prio == [b.prio EXCEPT ![t] = p]
           slice == [b.slice EXCEPT ![t] = Quantum]
           r == [b EXCEPT !.prio = prio, !.slice = slice]
<1>1. /\ b \in Sched
      /\ b.next = [s.next EXCEPT ![t] = NoTask]
      /\ b.prev = [s.prev EXCEPT ![t] = NoTask]
      /\ b.prio = [s.prio EXCEPT ![t] = 0]
      /\ b.head = s.head /\ b.tail = s.tail /\ b.bitmap = s.bitmap
      /\ b.count = s.count /\ b.sleep = s.sleep /\ b.current = s.current
  BY BlankTcbFields
<1> HIDE DEF b
<1>2. prio \in [Tasks -> Nat] /\ slice \in [Tasks -> Nat] /\ prio = [s.prio EXCEPT ![t] = p]
  BY <1>1, QueueAssumption DEF Sched
<1> HIDE DEF prio, slice
<1>3. r \in Sched
  BY <1>1, <1>2 DEF Sched
<1>4. /\ r.next = b.next /\ r.prev = b.prev /\ r.prio = prio
      /\ r.head = b.head /\ r.tail = b.tail /\ r.bitmap = b.bitmap
      /\ r.count = b.count /\ r.sleep = b.sleep /\ r.current = b.current
  BY <1>1 DEF Sched
<1> HIDE DEF r
<1>5. NewTcb(s, t, p) = r
  BY DEF NewTcb, r, b, prio, slice, BlankTcb, Sched
<1>6. QED
  BY <1>1, <1>2, <1>3, <1>4, <1>5

\* Filling or zeroing the control block of a task in no queue leaves the queues
\* alone.
LEMMA TcbQueued ==
  ASSUME NEW s \in Sched, NEW q \in SUBSET Tasks, NEW t \in Tasks, t \notin q, NEW p \in Nat,
         Queued(s, q)
  PROVE  Queued(NewTcb(s, t, p), q) /\ Queued(BlankTcb(s, t), q)
<1>1. ASSUME NEW r \in Sched, NEW x \in Nat,
             r.next = [s.next EXCEPT ![t] = NoTask], r.prev = [s.prev EXCEPT ![t] = NoTask],
             r.prio = [s.prio EXCEPT ![t] = x], r.head = s.head, r.tail = s.tail,
             r.bitmap = s.bitmap, r.count = s.count
      PROVE  Queued(r, q)
  <2>1. \A u \in q : r.next[u] = s.next[u] /\ r.prev[u] = s.prev[u] /\ r.prio[u] = s.prio[u]
    BY <1>1 DEF Sched
  <2>2. r.head = s.head /\ r.tail = s.tail /\ r.bitmap = s.bitmap /\ r.count = s.count
    BY <1>1
  <2>3. QED
    BY <2>1, <2>2, QueuedFrame
<1>2. Queued(NewTcb(s, t, p), q)
  <2> DEFINE r == NewTcb(s, t, p)
  <2>1. /\ r \in Sched
        /\ r.next = [s.next EXCEPT ![t] = NoTask] /\ r.prev = [s.prev EXCEPT ![t] = NoTask]
        /\ r.prio = [s.prio EXCEPT ![t] = p] /\ r.head = s.head /\ r.tail = s.tail
        /\ r.bitmap = s.bitmap /\ r.count = s.count
    BY NewTcbFields
  <2> HIDE DEF r
  <2>2. Queued(r, q)
    BY <2>1, <1>1
  <2>3. QED
    BY <2>2 DEF r
<1>3. Queued(BlankTcb(s, t), q)
  <2> DEFINE r == BlankTcb(s, t)
  <2>1. /\ r \in Sched
        /\ r.next = [s.next EXCEPT ![t] = NoTask] /\ r.prev = [s.prev EXCEPT ![t] = NoTask]
        /\ r.prio = [s.prio EXCEPT ![t] = 0] /\ r.head = s.head /\ r.tail = s.tail
        /\ r.bitmap = s.bitmap /\ r.count = s.count
    BY BlankTcbFields
  <2> HIDE DEF r
  <2>2. Queued(r, q)
    BY <2>1, <1>1
  <2>3. QED
    BY <2>2 DEF r
<1>4. QED
  BY <1>2, <1>3

\* What mk_scheduler_remove_ready writes, field by field.
LEMMA RemoveReadyFields ==
  ASSUME NEW s \in Sched, NEW t \in Tasks
  PROVE  LET p == LevelOf(s, t)
             r == RemoveReady(s, t)
         IN  /\ p \in Prio
             /\ r.prio = s.prio /\ r.state = s.state /\ r.slice = s.slice /\ r.wake = s.wake
             /\ r.sleep = s.sleep /\ r.current = s.current
             /\ r.next = IF s.prev[t] = NoTask THEN [s.next EXCEPT ![t] = NoTask]
                         ELSE [s.next EXCEPT ![s.prev[t]] = s.next[t], ![t] = NoTask]
             /\ r.prev = IF s.next[t] = NoTask THEN [s.prev EXCEPT ![t] = NoTask]
                         ELSE [s.prev EXCEPT ![s.next[t]] = s.prev[t], ![t] = NoTask]
             /\ r.head = [s.head EXCEPT ![p] = IF s.prev[t] = NoTask THEN s.next[t] ELSE @]
             /\ r.tail = [s.tail EXCEPT ![p] = IF s.next[t] = NoTask THEN s.prev[t] ELSE @]
             /\ r.bitmap = IF r.head[p] = NoTask THEN s.bitmap \ {p} ELSE s.bitmap
             /\ r.count = IF s.count > 0 THEN s.count - 1 ELSE 0
<1>1. LevelOf(s, t) \in Prio
  BY ClampInRange DEF Sched, LevelOf
<1>2. QED
  BY <1>1 DEF RemoveReady, Sched, LevelOf

\* mk_scheduler_remove_ready returns a well-typed record.
LEMMA RemoveReadyType ==
  ASSUME NEW s \in Sched, NEW t \in Tasks
  PROVE  RemoveReady(s, t) \in Sched
<1> DEFINE r == RemoveReady(s, t)
           p == LevelOf(s, t)
<1>1. r = [s EXCEPT !.next = r.next, !.prev = r.prev, !.head = r.head, !.tail = r.tail,
                    !.bitmap = r.bitmap, !.count = r.count]
  BY DEF RemoveReady, Sched
<1>2. /\ p \in Prio
      /\ r.next = IF s.prev[t] = NoTask THEN [s.next EXCEPT ![t] = NoTask]
                  ELSE [s.next EXCEPT ![s.prev[t]] = s.next[t], ![t] = NoTask]
      /\ r.prev = IF s.next[t] = NoTask THEN [s.prev EXCEPT ![t] = NoTask]
                  ELSE [s.prev EXCEPT ![s.next[t]] = s.prev[t], ![t] = NoTask]
      /\ r.head = [s.head EXCEPT ![p] = IF s.prev[t] = NoTask THEN s.next[t] ELSE @]
      /\ r.tail = [s.tail EXCEPT ![p] = IF s.next[t] = NoTask THEN s.prev[t] ELSE @]
      /\ r.bitmap = IF r.head[p] = NoTask THEN s.bitmap \ {p} ELSE s.bitmap
      /\ r.count = IF s.count > 0 THEN s.count - 1 ELSE 0
  BY RemoveReadyFields
<1> HIDE DEF r, p
<1>3. r.next \in [Tasks -> Link] /\ r.prev \in [Tasks -> Link]
  BY <1>2 DEF Sched, Link
<1>4. r.head \in [Prio -> Link] /\ r.tail \in [Prio -> Link]
  BY <1>2 DEF Sched
<1>5. r.bitmap \in SUBSET Prio /\ r.count \in Nat
  BY <1>2 DEF Sched
<1>6. QED
  BY <1>1, <1>3, <1>4, <1>5 DEF Sched, r

\* mk_scheduler_remove_ready of a queued task removes exactly that task: its
\* neighbours are joined and every other queue is untouched.
LEMMA RemoveReadyQueued ==
  ASSUME NEW s \in Sched, NEW q \in SUBSET Tasks, NEW t \in q, Queued(s, q)
  PROVE  Queued(RemoveReady(s, t), q \ {t})
<1> DEFINE r == RemoveReady(s, t)
           p == LevelOf(s, t)
           before == s.prev[t]
           after == s.next[t]
           qt == q \ {t}
<1>1. /\ p \in Prio
      /\ r.prio = s.prio
      /\ r.next = IF before = NoTask THEN [s.next EXCEPT ![t] = NoTask]
                  ELSE [s.next EXCEPT ![before] = after, ![t] = NoTask]
      /\ r.prev = IF after = NoTask THEN [s.prev EXCEPT ![t] = NoTask]
                  ELSE [s.prev EXCEPT ![after] = before, ![t] = NoTask]
      /\ r.head = [s.head EXCEPT ![p] = IF before = NoTask THEN after ELSE @]
      /\ r.tail = [s.tail EXCEPT ![p] = IF after = NoTask THEN before ELSE @]
      /\ r.bitmap = IF r.head[p] = NoTask THEN s.bitmap \ {p} ELSE s.bitmap
      /\ r.count = IF s.count > 0 THEN s.count - 1 ELSE 0
  <2>1. t \in Tasks
    OBVIOUS
  <2>2. QED
    BY <2>1, RemoveReadyFields, Zenon
<1>2. s.prio[t] \in Prio /\ p = s.prio[t]
  BY ClampInRange DEF Queued, LinksWellFormed, LevelOf, Sched
<1>3. /\ s.head \in [Prio -> Link] /\ s.tail \in [Prio -> Link]
      /\ s.next \in [Tasks -> Link] /\ s.prev \in [Tasks -> Link]
      /\ s.prio \in [Tasks -> Nat]
  BY DEF Sched
<1>4. /\ IF before = NoTask THEN s.head[p] = t
         ELSE before \in q /\ s.next[before] = t /\ s.prio[before] = p
      /\ IF after = NoTask THEN s.tail[p] = t
         ELSE after \in q /\ s.prev[after] = t /\ s.prio[after] = p
  BY <1>2 DEF Queued, LinksWellFormed
<1> HIDE DEF r, p
<1>5. LevelsWellFormed(r, qt)
  <2> SUFFICES ASSUME NEW k \in Prio
               PROVE  /\ r.head[k] = NoTask <=> r.tail[k] = NoTask
                      /\ r.head[k] # NoTask => r.head[k] \in qt /\ r.prio[r.head[k]] = k
                                               /\ r.prev[r.head[k]] = NoTask
                      /\ r.tail[k] # NoTask => r.tail[k] \in qt /\ r.prio[r.tail[k]] = k
                                               /\ r.next[r.tail[k]] = NoTask
    BY DEF LevelsWellFormed
  <2>1. CASE k = p
    BY <2>1, <1>1, <1>2, <1>3, <1>4, QueueAssumption
       DEF Queued, LevelsWellFormed, LinksWellFormed, Link
  <2>2. CASE k # p
    BY <2>2, <1>1, <1>2, <1>3, <1>4, QueueAssumption DEF Queued, LevelsWellFormed, Link
  <2>3. QED
    BY <2>1, <2>2
<1>6. LinksWellFormed(r, qt)
  <2> SUFFICES ASSUME NEW u \in qt
               PROVE  /\ r.prio[u] \in Prio
                      /\ IF r.prev[u] = NoTask THEN r.head[r.prio[u]] = u
                         ELSE r.prev[u] \in qt /\ r.next[r.prev[u]] = u
                              /\ r.prio[r.prev[u]] = r.prio[u]
                      /\ IF r.next[u] = NoTask THEN r.tail[r.prio[u]] = u
                         ELSE r.next[u] \in qt /\ r.prev[r.next[u]] = u
                              /\ r.prio[r.next[u]] = r.prio[u]
    BY DEF LinksWellFormed
  <2>1. /\ u \in q /\ u # t /\ s.prio[u] \in Prio
        /\ IF s.prev[u] = NoTask THEN s.head[s.prio[u]] = u
           ELSE s.prev[u] \in q /\ s.next[s.prev[u]] = u /\ s.prio[s.prev[u]] = s.prio[u]
        /\ IF s.next[u] = NoTask THEN s.tail[s.prio[u]] = u
           ELSE s.next[u] \in q /\ s.prev[s.next[u]] = u /\ s.prio[s.next[u]] = s.prio[u]
    BY DEF Queued, LinksWellFormed
  <2>2. t \in Tasks /\ u \in Tasks /\ NoTask \notin Tasks
    BY QueueAssumption
  <2>3. /\ r.prio[u] \in Prio
        /\ IF r.prev[u] = NoTask THEN r.head[r.prio[u]] = u
           ELSE r.prev[u] \in qt /\ r.next[r.prev[u]] = u /\ r.prio[r.prev[u]] = r.prio[u]
    <3>1. CASE u = after
      BY <3>1, <1>1, <1>2, <1>3, <1>4, <2>1, <2>2
    <3>2. CASE u # after
      BY <3>2, <1>1, <1>2, <1>3, <1>4, <2>1, <2>2 DEF Link
    <3>3. QED
      BY <3>1, <3>2
  <2>4. IF r.next[u] = NoTask THEN r.tail[r.prio[u]] = u
        ELSE r.next[u] \in qt /\ r.prev[r.next[u]] = u /\ r.prio[r.next[u]] = r.prio[u]
    <3>1. CASE u = before
      BY <3>1, <1>1, <1>2, <1>3, <1>4, <2>1, <2>2
    <3>2. CASE u # before
      BY <3>2, <1>1, <1>2, <1>3, <1>4, <2>1, <2>2 DEF Link
    <3>3. QED
      BY <3>1, <3>2
  <2>5. QED
    BY <2>3, <2>4
<1>7. BitmapExact(r)
  <2>1. s.bitmap = {k \in Prio : s.head[k] # NoTask}
    BY DEF Queued, BitmapExact
  <2>2. ASSUME NEW k \in Prio
        PROVE  k \in r.bitmap <=> r.head[k] # NoTask
    <3>1. CASE k = p
      BY <3>1, <2>1, <1>1, <1>3, <1>4, QueueAssumption
    <3>2. CASE k # p
      BY <3>2, <2>1, <1>1, <1>3
    <3>3. QED
      BY <3>1, <3>2
  <2>3. r.bitmap \in SUBSET Prio
    BY <2>1, <1>1
  <2>4. QED
    BY <2>2, <2>3 DEF BitmapExact
<1>8. CountExact(r, qt)
  <2>1. IsFiniteSet(q)
    BY QueueAssumption, FS_Subset
  <2>2. Cardinality(q) \in Nat /\ Cardinality(qt) = Cardinality(q) - 1
    BY <2>1, FS_RemoveElement, FS_CardinalityType
  <2>3. Cardinality(q) > 0
    BY <2>1, <2>2, FS_EmptySet
  <2>4. QED
    BY <1>1, <2>2, <2>3 DEF Queued, CountExact
<1>9. QED
  BY <1>5, <1>6, <1>7, <1>8 DEF Queued, r

-----------------------------------------------------------------------------
\* What the quantum rotation of mk_scheduler_tick writes, field by field.
LEMMA RotateHeadFields ==
  ASSUME NEW s \in Sched, NEW p \in Prio,
         s.head[p] \in Tasks, s.tail[p] \in Tasks, s.next[s.head[p]] \in Tasks
  PROVE  LET r == RotateHead(s, p)
         IN  /\ r \in Sched
             /\ r.prio = s.prio /\ r.bitmap = s.bitmap /\ r.count = s.count
             /\ r.state = s.state /\ r.current = s.current /\ r.sleep = s.sleep
             /\ r.head = [s.head EXCEPT ![p] = s.next[s.head[p]]]
             /\ r.tail = [s.tail EXCEPT ![p] = s.head[p]]
             /\ r.prev = [s.prev EXCEPT ![s.next[s.head[p]]] = NoTask, ![s.head[p]] = s.tail[p]]
             /\ r.next = [s.next EXCEPT ![s.tail[p]] = s.head[p], ![s.head[p]] = NoTask]
<1> DEFINE head == [s.head EXCEPT ![p] = s.next[s.head[p]]]
           tail == [s.tail EXCEPT ![p] = s.head[p]]
           prev == [s.prev EXCEPT ![s.next[s.head[p]]] = NoTask, ![s.head[p]] = s.tail[p]]
           next == [s.next EXCEPT ![s.tail[p]] = s.head[p], ![s.head[p]] = NoTask]
<1>1. /\ head \in [Prio -> Link] /\ tail \in [Prio -> Link]
      /\ prev \in [Tasks -> Link] /\ next \in [Tasks -> Link]
  BY DEF Sched, Link
<1> HIDE DEF head, tail, prev, next
<1>2. RotateHead(s, p) = [s EXCEPT !.head = head, !.tail = tail, !.prev = prev, !.next = next]
  BY DEF RotateHead, Sched, head, tail, prev, next
<1>3. QED
  BY <1>1, <1>2 DEF Sched, head, tail, prev, next

\* Rotating a level with more than one task keeps every queue exact.
LEMMA RotateHeadQueued ==
  ASSUME NEW s \in Sched, NEW q \in SUBSET Tasks, NEW p \in Prio, Queued(s, q),
         s.head[p] # NoTask, s.head[p] # s.tail[p], s.next[s.head[p]] # NoTask
  PROVE  RotateHead(s, p) \in Sched /\ Queued(RotateHead(s, p), q)
<1> DEFINE r == RotateHead(s, p)
           first == s.head[p]
           second == s.next[s.head[p]]
           last == s.tail[p]
<1>1. /\ first \in q /\ s.prio[first] = p /\ s.prev[first] = NoTask
      /\ last \in q /\ s.prio[last] = p /\ s.next[last] = NoTask
  BY QueueAssumption DEF Queued, LevelsWellFormed
<1>2. second \in q /\ s.prev[second] = first /\ s.prio[second] = p /\ second # first
  BY <1>1, QueueAssumption DEF Queued, LinksWellFormed
<1>3. /\ r \in Sched
      /\ r.prio = s.prio /\ r.bitmap = s.bitmap /\ r.count = s.count
      /\ r.head = [s.head EXCEPT ![p] = second] /\ r.tail = [s.tail EXCEPT ![p] = first]
      /\ r.prev = [s.prev EXCEPT ![second] = NoTask, ![first] = last]
      /\ r.next = [s.next EXCEPT ![last] = first, ![first] = NoTask]
  BY <1>1, <1>2, RotateHeadFields
<1>4. /\ s.head \in [Prio -> Link] /\ s.tail \in [Prio -> Link]
      /\ s.next \in [Tasks -> Link] /\ s.prev \in [Tasks -> Link]
  BY DEF Sched
<1>5. NoTask \notin Tasks /\ first # last
  BY QueueAssumption
<1> HIDE DEF r, first, second, last
<1>6. LevelsWellFormed(r, q)
  <2> SUFFICES ASSUME NEW k \in Prio
               PROVE  /\ r.head[k] = NoTask <=> r.tail[k] = NoTask
                      /\ r.head[k] # NoTask => r.head[k] \in q /\ r.prio[r.head[k]] = k
                                               /\ r.prev[r.head[k]] = NoTask
                      /\ r.tail[k] # NoTask => r.tail[k] \in q /\ r.prio[r.tail[k]] = k
                                               /\ r.next[r.tail[k]] = NoTask
    BY DEF LevelsWellFormed
  <2>1. CASE k = p
    BY <2>1, <1>1, <1>2, <1>3, <1>4, <1>5
  <2>2. CASE k # p
    BY <2>2, <1>1, <1>2, <1>3, <1>4, <1>5 DEF Queued, LevelsWellFormed
  <2>3. QED
    BY <2>1, <2>2
<1>7. LinksWellFormed(r, q)
  <2> SUFFICES ASSUME NEW u \in q
               PROVE  /\ r.prio[u] \in Prio
                      /\ IF r.prev[u] = NoTask THEN r.head[r.prio[u]] = u
                         ELSE r.prev[u] \in q /\ r.next[r.prev[u]] = u
                              /\ r.prio[r.prev[u]] = r.prio[u]
                      /\ IF r.next[u] = NoTask THEN r.tail[r.prio[u]] = u
                         ELSE r.next[u] \in q /\ r.prev[r.next[u]] = u
                              /\ r.prio[r.next[u]] = r.prio[u]
    BY DEF LinksWellFormed
  <2>1. /\ u \in Tasks /\ s.prio[u] \in Prio
        /\ IF s.prev[u] = NoTask THEN s.head[s.prio[u]] = u
           ELSE s.prev[u] \in q /\ s.next[s.prev[u]] = u /\ s.prio[s.prev[u]] = s.prio[u]
        /\ IF s.next[u] = NoTask THEN s.tail[s.prio[u]] = u
           ELSE s.next[u] \in q /\ s.prev[s.next[u]] = u /\ s.prio[s.next[u]] = s.prio[u]
    BY DEF Queued, LinksWellFormed
  <2>2. s.head[p] = first /\ s.tail[p] = last /\ s.next[first] = second
    BY DEF first, last, second
  <2>3. CASE u = first
    BY <2>3, <2>1, <2>2, <1>1, <1>2, <1>3, <1>4, <1>5
  <2>4. CASE u # first /\ u = second
    BY <2>4, <2>1, <2>2, <1>1, <1>2, <1>3, <1>4, <1>5
  <2>5. CASE u # first /\ u # second
    BY <2>5, <2>1, <2>2, <1>1, <1>2, <1>3, <1>4, <1>5
  <2>6. QED
    BY <2>3, <2>4, <2>5
<1>8. BitmapExact(r)
  <2>1. \A k \in Prio : r.head[k] # NoTask <=> s.head[k] # NoTask
    BY <1>1, <1>2, <1>3, <1>4, <1>5 DEF first
  <2>2. QED
    BY <2>1, <1>3 DEF Queued, BitmapExact
<1>9. CountExact(r, q)
  BY <1>3 DEF Queued, CountExact
<1>10. QED
  BY <1>3, <1>6, <1>7, <1>8, <1>9 DEF Queued, r

\* A write to a time slice leaves the queues alone.
LEMMA SliceFrame ==
  ASSUME NEW s \in Sched, NEW q \in SUBSET Tasks, Queued(s, q), NEW c \in Tasks, NEW x \in Nat
  PROVE  LET r == [s EXCEPT !.slice[c] = x]
         IN  /\ r \in Sched /\ Queued(r, q) /\ r.state = s.state
             /\ r.current = s.current /\ r.sleep = s.sleep
             /\ r.head = s.head /\ r.tail = s.tail /\ r.next = s.next
<1> DEFINE slice == [s.slice EXCEPT ![c] = x]
           r == [s EXCEPT !.slice = slice]
<1>1. slice \in [Tasks -> Nat]
  BY DEF Sched
<1> HIDE DEF slice
<1>2. /\ r \in Sched
      /\ r.head = s.head /\ r.tail = s.tail /\ r.bitmap = s.bitmap
      /\ r.count = s.count /\ r.next = s.next /\ r.prev = s.prev
      /\ r.prio = s.prio /\ r.state = s.state /\ r.current = s.current
      /\ r.sleep = s.sleep
  BY <1>1 DEF Sched
<1> HIDE DEF r
<1>3. Queued(r, q)
  BY <1>2, QueuedFrame
<1>4. [s EXCEPT !.slice[c] = x] = r
  BY DEF r, slice, Sched
<1>5. QED
  BY <1>2, <1>3, <1>4

\* A write of a task state, or of the current task, leaves the queues alone.
LEMMA StateFrame ==
  ASSUME NEW s \in Sched, NEW q \in SUBSET Tasks, Queued(s, q), NEW c \in Tasks,
         NEW x \in TaskState
  PROVE  LET r == [s EXCEPT !.state[c] = x]
         IN  /\ r \in Sched /\ Queued(r, q) /\ r.state = [s.state EXCEPT ![c] = x]
             /\ r.current = s.current /\ r.sleep = s.sleep
<1> DEFINE state == [s.state EXCEPT ![c] = x]
           r == [s EXCEPT !.state = state]
<1>1. state \in [Tasks -> TaskState]
  BY DEF Sched
<1> HIDE DEF state
<1>2. /\ r \in Sched
      /\ r.head = s.head /\ r.tail = s.tail /\ r.bitmap = s.bitmap
      /\ r.count = s.count /\ r.next = s.next /\ r.prev = s.prev
      /\ r.prio = s.prio /\ r.state = state /\ r.current = s.current
      /\ r.sleep = s.sleep
  BY <1>1 DEF Sched
<1> HIDE DEF r
<1>3. Queued(r, q)
  BY <1>2, QueuedFrame
<1>4. [s EXCEPT !.state[c] = x] = r
  BY DEF r, state, Sched
<1>5. QED
  BY <1>2, <1>3, <1>4 DEF state

\* The current task may change without disturbing any queue.
LEMMA CurrentFrame ==
  ASSUME NEW s \in Sched, NEW q \in SUBSET Tasks, Queued(s, q), NEW c \in Link
  PROVE  LET r == [s EXCEPT !.current = c]
         IN  /\ r \in Sched /\ Queued(r, q) /\ r.state = s.state
             /\ r.current = c /\ r.sleep = s.sleep
<1> DEFINE r == [s EXCEPT !.current = c]
<1>1. /\ r \in Sched
      /\ r.head = s.head /\ r.tail = s.tail /\ r.bitmap = s.bitmap
      /\ r.count = s.count /\ r.next = s.next /\ r.prev = s.prev
      /\ r.prio = s.prio /\ r.state = s.state /\ r.current = c
      /\ r.sleep = s.sleep
  BY DEF Sched
<1> HIDE DEF r
<1>2. Queued(r, q)
  BY <1>1, QueuedFrame
<1>3. QED
  BY <1>1, <1>2 DEF r

\* The quantum accounting of mk_scheduler_tick keeps every queue exact.
LEMMA AccountQueued ==
  ASSUME NEW s \in Sched, NEW q \in SUBSET Tasks, Queued(s, q)
  PROVE  /\ Account(s) \in Sched /\ Queued(Account(s), q)
         /\ Account(s).state = s.state /\ Account(s).current = s.current
         /\ Account(s).sleep = s.sleep
<1>1. CASE s.current = NoTask \/ s.state[s.current] # "RUNNING"
  BY <1>1 DEF Account
<1>2. CASE ~(s.current = NoTask \/ s.state[s.current] # "RUNNING")
  <2> DEFINE c == s.current
             left == IF s.slice[c] > 0 THEN s.slice[c] - 1 ELSE 0
             kept == [s EXCEPT !.slice[c] = left]
             full == [s EXCEPT !.slice[c] = Quantum]
  <2>1. c \in Tasks /\ left \in Nat /\ Quantum \in Nat
    BY <1>2, QueueAssumption DEF Sched, Link
  <2>2. ASSUME NEW x \in Nat
        PROVE  LET r == [s EXCEPT !.slice[c] = x]
               IN  /\ r \in Sched /\ Queued(r, q) /\ r.state = s.state
                   /\ r.current = s.current /\ r.sleep = s.sleep
                   /\ r.head = s.head /\ r.tail = s.tail /\ r.next = s.next
    BY <2>1, SliceFrame
  <2>4. ASSUME NEW r \in {kept, full}
        PROVE  /\ r \in Sched /\ Queued(r, q) /\ r.state = s.state
               /\ r.current = s.current /\ r.sleep = s.sleep
               /\ r.head = s.head /\ r.tail = s.tail /\ r.next = s.next
    <3>1. CASE r = kept
      BY <3>1, <2>1, <2>2
    <3>2. CASE r = full
      BY <3>2, <2>1, <2>2
    <3>3. QED
      BY <3>1, <3>2
  <2>5. CASE left > 0
    BY <2>5, <2>4, <1>2 DEF Account
  <2>6. CASE ~(left > 0)
    <3> DEFINE p == s.prio[c]
               turns == p < NPrio /\ s.head[p] # s.tail[p] /\ s.head[p] = c /\ s.next[c] # NoTask
    <3>1. CASE turns
      <4>1. p \in Prio
        <5>1. p \in Nat /\ p < NPrio
          BY <3>1, <2>1 DEF Sched
        <5> HIDE DEF p
        <5>2. QED
          BY <5>1, QueueAssumption DEF Prio
      <4>2. /\ full \in Sched /\ Queued(full, q) /\ full.head = s.head /\ full.tail = s.tail
            /\ full.next = s.next /\ full.state = s.state /\ full.current = s.current
            /\ full.sleep = s.sleep
        BY <2>4
      <4>3. /\ full.head[p] # NoTask /\ full.head[p] # full.tail[p]
            /\ full.next[full.head[p]] # NoTask
        BY <4>2, <3>1, <1>2
      <4> HIDE DEF full
      <4>4. RotateHead(full, p) \in Sched /\ Queued(RotateHead(full, p), q)
        BY <4>1, <4>2, <4>3, RotateHeadQueued
      <4>5. full.head[p] \in Tasks /\ full.tail[p] \in Tasks /\ full.next[full.head[p]] \in Tasks
        BY <4>1, <4>2, <4>3 DEF Queued, LevelsWellFormed, Sched, Link
      <4>6. /\ RotateHead(full, p).state = full.state /\ RotateHead(full, p).current = full.current
            /\ RotateHead(full, p).sleep = full.sleep
        BY <4>1, <4>2, <4>5, RotateHeadFields
      <4>7. Account(s) = RotateHead(full, p)
        BY <3>1, <2>6, <1>2 DEF Account, full
      <4>8. QED
        BY <4>2, <4>4, <4>6, <4>7
    <3>2. CASE ~turns
      <4>1. Account(s) = full
        BY <3>2, <2>6, <1>2 DEF Account
      <4>2. QED
        BY <4>1, <2>4
    <3>3. QED
      BY <3>1, <3>2
  <2>7. QED
    BY <2>5, <2>6
<1>3. QED
  BY <1>1, <1>2

\* With no task asleep the tick is the quantum accounting alone.
LEMMA TickAwake ==
  ASSUME NEW s \in Sched, NEW now, s.sleep = NoTask
  PROVE  Tick(s, now) = Account(s)
BY DEF Tick, WakeExpired, HeadExpired

-----------------------------------------------------------------------------
(* Induction                                                               *)

\* A set of natural numbers has a least element: the intervals up to its members are
\* finite sets, which inclusion orders well.
LEMMA LeastNat ==
  ASSUME NEW S \in SUBSET Nat, S # {}
  PROVE  \E x \in S : \A y \in S : x <= y
<1> DEFINE T == {0 .. k : k \in S}
<1>1. \A k \in S : IsFiniteSet(0 .. k)
  BY FS_Interval
<1>2. T \subseteq FiniteSubsetsOf(Nat) /\ T # {}
  <2>1. \A k \in S : 0 .. k \in FiniteSubsetsOf(Nat)
    BY <1>1 DEF FiniteSubsetsOf
  <2>2. QED
    BY <2>1
<1>3. IsWellFoundedOn(StrictSubsetOrdering(Nat), FiniteSubsetsOf(Nat))
  BY FS_StrictSubsetOrderingWellFounded
<1> HIDE DEF T
<1>4. PICK U \in T : \A V \in T : ~ (<<V, U>> \in StrictSubsetOrdering(Nat))
  BY <1>2, <1>3, WFMin
<1> USE DEF T
<1>5. PICK x \in S : U = 0 .. x
  OBVIOUS
<1>6. ASSUME NEW y \in S, y < x
      PROVE  FALSE
  <2>1. 0 .. y \in SUBSET Nat /\ 0 .. x \in SUBSET Nat /\ 0 .. y \subseteq 0 .. x
        /\ x \in 0 .. x /\ x \notin 0 .. y
    BY <1>6
  <2>2. <<0 .. y, U>> \in StrictSubsetOrdering(Nat)
    BY <2>1, <1>5 DEF StrictSubsetOrdering
  <2>3. QED
    BY <2>2, <1>4
<1> HIDE DEF T
<1>7. \A y \in S : x <= y
  <2> TAKE y \in S
  <2>1. x \in Nat /\ y \in Nat /\ ~ (y < x)
    BY <1>6
  <2>2. QED
    BY <2>1
<1>8. QED
  BY <1>7

\* What holds of no turns, and of one turn more whenever it holds, holds of any number
\* of turns up to a bound.
LEMMA TurnInduction ==
  ASSUME NEW N \in Nat, NEW S, 0 \in S, \A k \in 0 .. N : k \in S /\ k < N => k + 1 \in S
  PROVE  \A k \in 0 .. N : k \in S
<1> DEFINE Bad == {k \in 0 .. N : k \notin S}
<1>1. SUFFICES ASSUME Bad # {} PROVE FALSE
  OBVIOUS
<1>2. PICK x \in Bad : \A y \in Bad : x <= y
  <2>1. Bad \in SUBSET Nat
    OBVIOUS
  <2> HIDE DEF Bad
  <2>2. QED
    BY <1>1, <2>1, LeastNat
<1>3. x \in 0 .. N /\ x # 0 /\ x - 1 \in 0 .. N /\ ~ (x <= x - 1)
  BY <1>2
<1>4. x - 1 \in S /\ (x - 1) + 1 = x
  BY <1>2, <1>3
<1>5. QED
  BY <1>2, <1>3, <1>4

-----------------------------------------------------------------------------
(* Lists: q numbers the tasks from first, n of them, along the links.      *)

OnList(n, q, t) == \E i \in 1 .. n : q[i] = t

Chain(next, prev, first, n, q) ==
  /\ n \in Nat /\ q \in [1 .. n -> Tasks]
  /\ \A i, j \in 1 .. n : q[i] = q[j] => i = j
  /\ first = IF n = 0 THEN NoTask ELSE q[1]
  /\ \A i \in 1 .. n : next[q[i]] = IF i = n THEN NoTask ELSE q[i + 1]
  /\ \A i \in 1 .. n : prev[q[i]] = IF i = 1 THEN NoTask ELSE q[i - 1]

\* The neighbours of the k-th task.
LEMMA ChainAt ==
  ASSUME NEW next, NEW prev, NEW first, NEW n, NEW q, Chain(next, prev, first, n, q), NEW k \in 1 .. n
  PROVE  /\ q[k] \in Tasks /\ (k = 1 => first = q[k])
         /\ next[q[k]] = IF k = n THEN NoTask ELSE q[k + 1]
         /\ prev[q[k]] = IF k = 1 THEN NoTask ELSE q[k - 1]
         /\ next[q[k]] \in Link /\ next[q[k]] # q[k] /\ (next[q[k]] = NoTask <=> k = n)
         /\ prev[q[k]] \in Link /\ prev[q[k]] # q[k] /\ (prev[q[k]] = NoTask <=> k = 1)
<1>0. n \in Nat /\ q \in [1 .. n -> Tasks]
  BY DEF Chain
<1> USE <1>0
<1>1. /\ next[q[k]] = IF k = n THEN NoTask ELSE q[k + 1]
      /\ prev[q[k]] = IF k = 1 THEN NoTask ELSE q[k - 1]
      /\ k = 1 => first = q[k]
  BY DEF Chain
<1>2. \A i \in 1 .. n : q[i] \in Tasks /\ q[i] # NoTask
  BY QueueAssumption
<1>3. CASE k # n
  <2>1. k + 1 \in 1 .. n /\ q[k + 1] # q[k]
    BY <1>3 DEF Chain
  <2>2. next[q[k]] = q[k + 1] /\ next[q[k]] # NoTask /\ next[q[k]] \in Link /\ next[q[k]] # q[k]
    BY <2>1, <1>1, <1>2, <1>3 DEF Link
  <2>3. CASE k = 1
    BY <1>1, <1>2, <1>3, <2>1, <2>2, <2>3 DEF Link
  <2>4. CASE k # 1
    <3>1. k - 1 \in 1 .. n /\ q[k - 1] # q[k]
      BY <2>4 DEF Chain
    <3>2. QED
      BY <1>1, <1>2, <1>3, <2>1, <2>2, <2>4, <3>1 DEF Link
  <2>5. QED
    BY <2>3, <2>4
<1>4. CASE k = n
  <2>1. CASE k = 1
    BY <1>1, <1>2, <1>4, <2>1 DEF Link
  <2>2. CASE k # 1
    <3>1. k - 1 \in 1 .. n /\ q[k - 1] # q[k]
      BY <2>2 DEF Chain
    <3>2. QED
      BY <1>1, <1>2, <1>4, <2>2, <3>1 DEF Link
  <2>3. QED
    BY <2>1, <2>2
<1>5. QED
  BY <1>3, <1>4

\* Links lead to tasks of the list.
LEMMA ChainCloses ==
  ASSUME NEW next, NEW prev, NEW first, NEW n, NEW q, Chain(next, prev, first, n, q), NEW k \in 1 .. n
  PROVE  /\ next[q[k]] = NoTask \/ OnList(n, q, next[q[k]])
         /\ prev[q[k]] = NoTask \/ OnList(n, q, prev[q[k]])
<1>0. n \in Nat /\ q \in [1 .. n -> Tasks]
  BY DEF Chain
<1> USE <1>0
<1>1. /\ next[q[k]] = IF k = n THEN NoTask ELSE q[k + 1]
      /\ prev[q[k]] = IF k = 1 THEN NoTask ELSE q[k - 1]
  BY DEF Chain
<1>2. (k # n => k + 1 \in 1 .. n) /\ (k # 1 => k - 1 \in 1 .. n)
  OBVIOUS
<1>3. QED
  BY <1>1, <1>2 DEF OnList

\* A list is no longer than the tasks are many.
LEMMA ChainFits ==
  ASSUME NEW next, NEW prev, NEW first, NEW n, NEW q, Chain(next, prev, first, n, q)
  PROVE  n <= Cardinality(Tasks) /\ Cardinality(Tasks) \in Nat
<1>0. n \in Nat /\ q \in [1 .. n -> Tasks]
  BY DEF Chain
<1> USE <1>0
<1>1. q \in Injection(1 .. n, Tasks)
  BY DEF Injection, IsInjective, Chain
<1>2. Cardinality(1 .. n) = n
  BY FS_Interval
<1>3. QED
  BY <1>1, <1>2, FS_Injection, FS_CardinalityType, QueueAssumption

\* Walking the links from the first task meets the tasks of the list, in its order.
LEMMA NodesOfChain ==
  ASSUME NEW s \in Sched, NEW prev, NEW first, NEW n, NEW q, Chain(s.next, prev, first, n, q)
  PROVE  NodesFrom(s, first) = q
<1>0. n \in Nat /\ q \in [1 .. n -> Tasks]
  BY DEF Chain
<1> USE <1>0
<1> DEFINE size == Cardinality(Tasks)
           Rest(f) == [k \in 1 .. size |-> IF k = 1 THEN first
                         ELSE IF f[k - 1] = NoTask THEN NoTask ELSE s.next[f[k - 1]]]
           met == [k \in 1 .. size |-> IF k <= n THEN q[k] ELSE NoTask]
           node == CHOOSE f : f = Rest(f)
<1>1. size \in Nat /\ n <= size
  BY ChainFits
<1> HIDE DEF size
<1>2. \A i \in 1 .. n : q[i] \in Tasks /\ q[i] # NoTask
  BY QueueAssumption
<1>3. met = Rest(met)
  <2>1. ASSUME NEW k \in 1 .. size
        PROVE  met[k] = Rest(met)[k]
    <3>1. CASE k = 1
      BY <3>1, <1>1 DEF Chain
    <3>2. CASE k # 1 /\ k - 1 > n
      BY <3>2, <1>1
    <3>3. CASE k # 1 /\ k - 1 <= n
      <4>1. k - 1 \in 1 .. n /\ k - 1 \in 1 .. size /\ met[k - 1] = q[k - 1]
        BY <3>3, <1>1
      <4>2. s.next[q[k - 1]] = IF k - 1 = n THEN NoTask ELSE q[k]
        BY <4>1 DEF Chain
      <4>3. QED
        BY <4>1, <4>2, <1>1, <1>2, <3>3
    <3>4. QED
      BY <3>1, <3>2, <3>3, <1>1
  <2>2. QED
    BY <2>1
<1>4. node = Rest(node)
  BY <1>3
<1>6. \A k \in 1 .. size : node[k] = met[k]
  <2> DEFINE S == {j \in 0 .. size : j = 0 \/ node[j] = met[j]}
  <2> HIDE DEF node, met, Rest
  <2>1. 0 \in S
    BY <1>1
  <2>2. ASSUME NEW k \in 0 .. size, k \in S, k < size
        PROVE  k + 1 \in S
    <3>1. k + 1 \in 1 .. size
      BY <2>2, <1>1
    <3>2. k = 0 \/ (k \in 1 .. size /\ node[k] = met[k])
      BY <2>2, <1>1
    <3>3. /\ node[k + 1] = IF k = 0 THEN first
                           ELSE IF node[k] = NoTask THEN NoTask ELSE s.next[node[k]]
          /\ met[k + 1] = IF k = 0 THEN first
                           ELSE IF met[k] = NoTask THEN NoTask ELSE s.next[met[k]]
      <4>1. \A f : Rest(f)[k + 1] = IF k = 0 THEN first
                           ELSE IF f[k] = NoTask THEN NoTask ELSE s.next[f[k]]
        BY <3>1, <1>1 DEF Rest
      <4>2. QED
        BY <4>1, <1>3, <1>4
    <3>4. QED
      BY <3>1, <3>2, <3>3
  <2> HIDE DEF S
  <2>3. \A k \in 0 .. size : k \in S
    BY <2>1, <2>2, <1>1, TurnInduction
  <2>4. \A k \in 1 .. size : k \in 0 .. size /\ k # 0
    BY <1>1
  <2>5. QED
    BY <2>3, <2>4 DEF S
<1>7. {k \in 1 .. size : node[k] # NoTask} = 1 .. n
  <2> HIDE DEF node
  <2>1. QED
    BY <1>6, <1>1, <1>2
<1>8. Cardinality(1 .. n) = n
  BY FS_Interval
<1>9. NodesFrom(s, first) = [k \in 1 .. n |-> node[k]]
  <2>1. NodesFrom(s, first) = [k \in 1 .. Cardinality({j \in 1 .. size : node[j] # NoTask}) |-> node[k]]
    BY DEF NodesFrom, size
  <2> HIDE DEF node
  <2>2. QED
    BY <2>1, <1>7, <1>8
<1> HIDE DEF node
<1>10. \A k \in 1 .. n : node[k] = q[k]
  BY <1>6, <1>1
<1>11. QED
  BY <1>9, <1>10

\* The list without its k-th task, and with t behind its first k.
Dropped(q, n, k) == [i \in 1 .. n - 1 |-> IF i < k THEN q[i] ELSE q[i + 1]]
Inserted(q, n, k, t) ==
  [i \in 1 .. n + 1 |-> IF i <= k THEN q[i] ELSE IF i = k + 1 THEN t ELSE q[i - 1]]

\* Links that change nothing for the tasks of a list leave it alone.
LEMMA ChainFrame ==
  ASSUME NEW next, NEW prev, NEW first, NEW n, NEW q, Chain(next, prev, first, n, q), NEW nx, NEW px,
         \A i \in 1 .. n : nx[q[i]] = next[q[i]] /\ px[q[i]] = prev[q[i]]
  PROVE  Chain(nx, px, first, n, q)
BY DEF Chain

\* The links nx and px, from head, are next and prev, from first, with t unlinked, as
\* every removal of mk_scheduler.c does.
Unlinks(nx, px, head, next, prev, first, t) ==
  /\ \A u \in Tasks \ {t} : /\ nx[u] = IF u = prev[t] THEN next[t] ELSE next[u]
                            /\ px[u] = IF u = next[t] THEN prev[t] ELSE prev[u]
  /\ head = IF prev[t] = NoTask THEN next[t] ELSE first

\* Unlinking the k-th task.
LEMMA ChainUnlink ==
  ASSUME NEW next, NEW prev, NEW first, NEW n, NEW q, Chain(next, prev, first, n, q), NEW k \in 1 .. n, NEW nx, NEW px, NEW head,
         Unlinks(nx, px, head, next, prev, first, q[k])
  PROVE  /\ Chain(nx, px, head, n - 1, Dropped(q, n, k))
         /\ \A t \in Tasks : OnList(n - 1, Dropped(q, n, k), t) <=> OnList(n, q, t) /\ t # q[k]
<1>0. n \in Nat /\ q \in [1 .. n -> Tasks]
  BY DEF Chain
<1> USE <1>0
<1> DEFINE d == Dropped(q, n, k)
           m == n - 1
<1>1. m \in Nat /\ d \in [1 .. m -> Tasks]
  BY DEF Dropped
<1>2. \A i \in 1 .. n : q[i] \in Tasks /\ q[i] # NoTask
  BY QueueAssumption
<1>3. /\ \A i, j \in 1 .. n : q[i] = q[j] => i = j
      /\ first = IF n = 0 THEN NoTask ELSE q[1]
      /\ \A i \in 1 .. n : next[q[i]] = IF i = n THEN NoTask ELSE q[i + 1]
      /\ \A i \in 1 .. n : prev[q[i]] = IF i = 1 THEN NoTask ELSE q[i - 1]
  BY DEF Chain
<1>4. \A i \in 1 .. m : d[i] = IF i < k THEN q[i] ELSE q[i + 1]
  BY DEF Dropped
<1>5. \A i \in 1 .. m : d[i] # q[k] /\ d[i] \in Tasks
  BY <1>2, <1>3, <1>4
<1>13. /\ \A u \in Tasks \ {q[k]} :
            /\ nx[u] = IF u = prev[q[k]] THEN next[q[k]] ELSE next[u]
            /\ px[u] = IF u = next[q[k]] THEN prev[q[k]] ELSE prev[u]
       /\ head = IF prev[q[k]] = NoTask THEN next[q[k]] ELSE first
  BY DEF Unlinks
<1>6. \A i, j \in 1 .. m : d[i] = d[j] => i = j
  <2> TAKE i, j \in 1 .. m
  <2> DEFINE a == IF i < k THEN i ELSE i + 1
             b == IF j < k THEN j ELSE j + 1
  <2>1. a \in 1 .. n /\ b \in 1 .. n /\ (a = b => i = j)
    OBVIOUS
  <2>2. d[i] = q[a] /\ d[j] = q[b]
    BY <1>4
  <2> HIDE DEF a, b
  <2>3. q[a] = q[b] => a = b
    BY <2>1, <1>3
  <2>4. QED
    BY <2>1, <2>2, <2>3
<1>7. head = IF m = 0 THEN NoTask ELSE d[1]
  <2>1. CASE k = 1
    <3>1. prev[q[k]] = NoTask /\ next[q[k]] = IF n = 1 THEN NoTask ELSE q[2]
      BY <2>1, <1>3
    <3>2. m # 0 => d[1] = q[2]
      BY <2>1, <1>4
    <3>3. QED
      BY <3>1, <3>2, <1>13
  <2>2. CASE k # 1
    <3>1. prev[q[k]] # NoTask /\ 1 \in 1 .. m /\ n # 0
      BY <2>2, <1>2, <1>3
    <3>2. d[1] = q[1]
      BY <2>2, <3>1, <1>4
    <3>3. QED
      BY <3>1, <3>2, <1>3, <1>13
  <2>3. QED
    BY <2>1, <2>2
<1>8. \A i \in 1 .. m : nx[d[i]] = IF i = m THEN NoTask ELSE d[i + 1]
  <2> TAKE i \in 1 .. m
  <2>1. nx[d[i]] = IF d[i] = prev[q[k]] THEN next[q[k]] ELSE next[d[i]]
    BY <1>5, <1>13
  <2>2. CASE i < k - 1
    <3>1. d[i] = q[i] /\ d[i + 1] = q[i + 1] /\ i # m /\ next[q[i]] = q[i + 1]
      BY <2>2, <1>3, <1>4
    <3>2. d[i] # prev[q[k]]
      BY <3>1, <2>2, <1>2, <1>3
    <3>3. QED
      BY <2>1, <3>1, <3>2
  <2>3. CASE i = k - 1
    <3>1. d[i] = q[k - 1] /\ prev[q[k]] = q[k - 1] /\ (i # m => d[i + 1] = q[k + 1])
      BY <2>3, <1>3, <1>4
    <3>2. next[q[k]] = IF i = m THEN NoTask ELSE q[k + 1]
      BY <2>3, <1>3
    <3>3. QED
      BY <2>1, <3>1, <3>2
  <2>4. CASE i >= k
    <3>1. d[i] = q[i + 1] /\ (i # m => d[i + 1] = q[i + 2])
          /\ next[q[i + 1]] = IF i = m THEN NoTask ELSE q[i + 2]
      <4>1. d[i] = q[i + 1] /\ i + 1 \in 1 .. n /\ (i + 1 = n <=> i = m) /\ (i + 1) + 1 = i + 2
        BY <2>4, <1>4
      <4>2. i # m => i + 1 \in 1 .. m /\ i + 1 >= k
        BY <2>4
      <4>3. i # m => d[i + 1] = q[i + 2]
        BY <4>1, <4>2, <1>4
      <4>4. next[q[i + 1]] = IF i + 1 = n THEN NoTask ELSE q[(i + 1) + 1]
        BY <4>1, <1>3
      <4>5. QED
        BY <4>1, <4>3, <4>4
    <3>2. d[i] # prev[q[k]]
      BY <3>1, <2>4, <1>2, <1>3
    <3>3. QED
      BY <2>1, <3>1, <3>2
  <2>5. QED
    BY <2>2, <2>3, <2>4
<1>9. \A i \in 1 .. m : px[d[i]] = IF i = 1 THEN NoTask ELSE d[i - 1]
  <2> TAKE i \in 1 .. m
  <2>1. px[d[i]] = IF d[i] = next[q[k]] THEN prev[q[k]] ELSE prev[d[i]]
    BY <1>5, <1>13
  <2>2. CASE i < k
    <3>1. d[i] = q[i] /\ (i # 1 => d[i - 1] = q[i - 1])
          /\ prev[q[i]] = IF i = 1 THEN NoTask ELSE q[i - 1]
      BY <2>2, <1>3, <1>4
    <3>2. d[i] # next[q[k]]
      BY <3>1, <2>2, <1>2, <1>3
    <3>3. QED
      BY <2>1, <3>1, <3>2
  <2>3. CASE i = k
    <3>1. d[i] = q[k + 1] /\ next[q[k]] = q[k + 1] /\ (i # 1 => d[i - 1] = q[k - 1])
      BY <2>3, <1>3, <1>4
    <3>2. prev[q[k]] = IF i = 1 THEN NoTask ELSE q[k - 1]
      BY <2>3, <1>3
    <3>3. QED
      BY <2>1, <3>1, <3>2
  <2>4. CASE i > k
    <3>1. d[i] = q[i + 1] /\ d[i - 1] = q[i] /\ i # 1 /\ i + 1 \in 1 .. n /\ i + 1 # 1
      BY <2>4, <1>4
    <3>2. prev[q[i + 1]] = q[i]
      <4>1. prev[q[i + 1]] = q[(i + 1) - 1]
        BY <3>1, <1>3
      <4>2. QED
        BY <4>1
    <3>3. d[i] # next[q[k]]
      BY <3>1, <2>4, <1>2, <1>3
    <3>4. QED
      BY <2>1, <3>1, <3>2, <3>3
  <2>5. QED
    BY <2>2, <2>3, <2>4
<1>10. \A t \in Tasks : (\E i \in 1 .. m : d[i] = t) <=> (\E i \in 1 .. n : q[i] = t) /\ t # q[k]
  <2> TAKE t \in Tasks
  <2>1. ASSUME NEW i \in 1 .. m, d[i] = t
        PROVE  (\E j \in 1 .. n : q[j] = t) /\ t # q[k]
    BY <2>1, <1>4, <1>5
  <2>2. ASSUME NEW i \in 1 .. n, q[i] = t, t # q[k]
        PROVE  \E j \in 1 .. m : d[j] = t
    <3>1. CASE i < k
      BY <3>1, <2>2, <1>4
    <3>2. CASE i > k
      <4>1. i - 1 \in 1 .. m /\ d[i - 1] = q[i]
        BY <3>2, <1>4
      <4>2. QED
        BY <4>1, <2>2
    <3>3. QED
      BY <3>1, <3>2, <2>2
  <2>3. QED
    BY <2>1, <2>2
<1> HIDE DEF d, m
<1>11. Chain(nx, px, head, m, d)
  BY <1>1, <1>6, <1>7, <1>8, <1>9 DEF Chain
<1>12. QED
  BY <1>10, <1>11 DEF d, m, OnList

\* They are next and prev, from first, with t linked between before and after, as every
\* insertion of mk_scheduler.c does.
Links(nx, px, head, next, prev, first, t, before, after) ==
  /\ nx[t] = after /\ px[t] = before
  /\ \A u \in Tasks \ {t} : /\ nx[u] = IF u = before THEN t ELSE next[u]
                            /\ px[u] = IF u = after THEN t ELSE prev[u]
  /\ head = IF before = NoTask THEN t ELSE first

\* The neighbours of the place behind the first k tasks.
Gap(n, q, k, before, after) ==
  /\ k \in 0 .. n
  /\ before = IF k = 0 THEN NoTask ELSE q[k]
  /\ after = IF k = n THEN NoTask ELSE q[k + 1]

\* Linking t behind the first k tasks.
LEMMA ChainInsert ==
  ASSUME NEW next, NEW prev, NEW first, NEW n, NEW q, Chain(next, prev, first, n, q), NEW nx, NEW px, NEW head,
         NEW t \in Tasks, ~ OnList(n, q, t),
         NEW k, NEW before, NEW after, Gap(n, q, k, before, after),
         Links(nx, px, head, next, prev, first, t, before, after)
  PROVE  /\ Chain(nx, px, head, n + 1, Inserted(q, n, k, t))
         /\ \A u \in Tasks : OnList(n + 1, Inserted(q, n, k, t), u) <=> OnList(n, q, u) \/ u = t
<1>0. n \in Nat /\ q \in [1 .. n -> Tasks]
  BY DEF Chain
<1> USE <1>0
<1>14. /\ k \in 0 .. n /\ \A i \in 1 .. n : q[i] # t
       /\ before = IF k = 0 THEN NoTask ELSE q[k]
       /\ after = IF k = n THEN NoTask ELSE q[k + 1]
  BY DEF Gap, OnList
<1> USE <1>14
<1> DEFINE d == Inserted(q, n, k, t)
           m == n + 1
<1>1. m \in Nat /\ d \in [1 .. m -> Tasks]
  BY DEF Inserted
<1>2. \A i \in 1 .. n : q[i] \in Tasks /\ q[i] # NoTask
  BY QueueAssumption
<1>3. /\ \A i, j \in 1 .. n : q[i] = q[j] => i = j
      /\ first = IF n = 0 THEN NoTask ELSE q[1]
      /\ \A i \in 1 .. n : next[q[i]] = IF i = n THEN NoTask ELSE q[i + 1]
      /\ \A i \in 1 .. n : prev[q[i]] = IF i = 1 THEN NoTask ELSE q[i - 1]
  BY DEF Chain
<1>4. \A i \in 1 .. m : d[i] = IF i <= k THEN q[i] ELSE IF i = k + 1 THEN t ELSE q[i - 1]
  BY DEF Inserted
<1>13. /\ nx[t] = after /\ px[t] = before
       /\ \A u \in Tasks \ {t} : /\ nx[u] = IF u = before THEN t ELSE next[u]
                                 /\ px[u] = IF u = after THEN t ELSE prev[u]
       /\ head = IF before = NoTask THEN t ELSE first
  BY DEF Links
<1>6. \A i, j \in 1 .. m : d[i] = d[j] => i = j
  <2> TAKE i, j \in 1 .. m
  <2>1. CASE i = k + 1 \/ j = k + 1
    BY <2>1, <1>4
  <2>2. CASE i # k + 1 /\ j # k + 1
    <3> DEFINE a == IF i <= k THEN i ELSE i - 1
               b == IF j <= k THEN j ELSE j - 1
    <3>1. a \in 1 .. n /\ b \in 1 .. n /\ d[i] = q[a] /\ d[j] = q[b] /\ (a = b => i = j)
      BY <2>2, <1>4
    <3> HIDE DEF a, b
    <3>2. q[a] = q[b] => a = b
      BY <3>1, <1>3
    <3>3. QED
      BY <3>1, <3>2
  <2>3. QED
    BY <2>1, <2>2
<1>7. head = IF m = 0 THEN NoTask ELSE d[1]
  BY <1>2, <1>3, <1>4, <1>13
<1>8. \A i \in 1 .. m : nx[d[i]] = IF i = m THEN NoTask ELSE d[i + 1]
  <2> TAKE i \in 1 .. m
  <2>1. CASE i = k + 1
    BY <2>1, <1>4, <1>13
  <2>2. CASE i < k
    <3>1. d[i] = q[i] /\ d[i + 1] = q[i + 1] /\ i # m /\ i # n /\ i \in 1 .. n
      BY <2>2, <1>4
    <3>2. q[i] # before /\ q[i] \in Tasks \ {t}
      BY <3>1, <2>2, <1>2, <1>3
    <3>3. QED
      BY <3>1, <3>2, <1>3, <1>13
  <2>3. CASE i = k
    <3>1. d[i] = before /\ d[i + 1] = t /\ i # m /\ before \in Tasks \ {t}
      BY <2>3, <1>4, <1>2
    <3>2. QED
      BY <3>1, <1>13
  <2>4. CASE i > k + 1
    <3>1. i - 1 \in 1 .. n /\ d[i] = q[i - 1]
      BY <2>4, <1>4
    <3>5. i # m => d[i + 1] = q[i]
      <4>1. i # m => i + 1 \in 1 .. m
        OBVIOUS
      <4>2. QED
        BY <4>1, <2>4, <1>4
    <3>2. q[i - 1] # before /\ q[i - 1] \in Tasks \ {t}
      BY <3>1, <2>4, <1>2, <1>3
    <3>3. next[q[i - 1]] = IF i = m THEN NoTask ELSE q[i]
      BY <3>1, <1>3
    <3>4. QED
      BY <3>1, <3>2, <3>3, <3>5, <1>13
  <2>5. QED
    BY <2>1, <2>2, <2>3, <2>4
<1>9. \A i \in 1 .. m : px[d[i]] = IF i = 1 THEN NoTask ELSE d[i - 1]
  <2> TAKE i \in 1 .. m
  <2>1. CASE i = k + 1
    BY <2>1, <1>4, <1>13
  <2>2. CASE i <= k
    <3>1. d[i] = q[i] /\ (i # 1 => d[i - 1] = q[i - 1]) /\ i \in 1 .. n
      BY <2>2, <1>4
    <3>2. q[i] # after /\ q[i] \in Tasks \ {t}
      BY <3>1, <2>2, <1>2, <1>3
    <3>3. QED
      BY <3>1, <3>2, <1>3, <1>13
  <2>3. CASE i = k + 2
    <3>1. d[i] = after /\ d[i - 1] = t /\ i # 1 /\ after \in Tasks \ {t}
      BY <2>3, <1>4, <1>2
    <3>2. QED
      BY <3>1, <1>13
  <2>4. CASE i > k + 2
    <3>1. d[i] = q[i - 1] /\ d[i - 1] = q[i - 2] /\ i - 1 \in 1 .. n /\ i - 1 # 1
      BY <2>4, <1>4
    <3>2. q[i - 1] # after /\ q[i - 1] \in Tasks \ {t}
      BY <3>1, <2>4, <1>2, <1>3
    <3>3. prev[q[i - 1]] = q[i - 2]
      BY <3>1, <1>3
    <3>4. QED
      BY <3>1, <3>2, <3>3, <1>13
  <2>5. QED
    BY <2>1, <2>2, <2>3, <2>4
<1>10. \A u \in Tasks : (\E i \in 1 .. m : d[i] = u) <=> (\E i \in 1 .. n : q[i] = u) \/ u = t
  <2> TAKE u \in Tasks
  <2>1. ASSUME NEW i \in 1 .. m, d[i] = u
        PROVE  (\E j \in 1 .. n : q[j] = u) \/ u = t
    BY <2>1, <1>4
  <2>2. ASSUME NEW i \in 1 .. n, q[i] = u
        PROVE  \E j \in 1 .. m : d[j] = u
    <3>1. CASE i <= k
      BY <3>1, <2>2, <1>4
    <3>2. CASE i > k
      <4>1. i + 1 \in 1 .. m /\ d[i + 1] = q[i]
        BY <3>2, <1>4
      <4>2. QED
        BY <4>1, <2>2
    <3>3. QED
      BY <3>1, <3>2
  <2>3. k + 1 \in 1 .. m /\ d[k + 1] = t
    BY <1>4
  <2>4. QED
    BY <2>1, <2>2, <2>3
<1> HIDE DEF d, m
<1>11. Chain(nx, px, head, m, d)
  BY <1>1, <1>6, <1>7, <1>8, <1>9 DEF Chain
<1>12. QED
  BY <1>10, <1>11 DEF d, m, OnList

-----------------------------------------------------------------------------
(* The sleep list                                                          *)

\* q numbers the tasks of A from the head of the sleep list, in order of wake tick.
SleepList(s, A, n, q) ==
  /\ Chain(s.next, s.prev, s.sleep, n, q)
  /\ \A t \in Tasks : t \in A <=> OnList(n, q, t)
  /\ \A i, j \in 1 .. n : i < j => s.wake[q[i]] <= s.wake[q[j]]

Sleepers(s, A) == \E n, q : SleepList(s, A, n, q)

\* r and s agree on the sleepers A.
SameSleepers(r, s, A) ==
  /\ r.sleep = s.sleep
  /\ \A t \in A : r.next[t] = s.next[t] /\ r.prev[t] = s.prev[t] /\ r.wake[t] = s.wake[t]

LEMMA SleepFrame ==
  ASSUME NEW s, NEW r, NEW A \in SUBSET Tasks, NEW n, NEW q, SleepList(s, A, n, q), SameSleepers(r, s, A)
  PROVE  SleepList(r, A, n, q)
<1>0. n \in Nat /\ q \in [1 .. n -> Tasks]
  BY DEF SleepList, Chain
<1> USE <1>0
<1>1. \A i \in 1 .. n : q[i] \in A
  BY DEF SleepList, OnList
<1>2. Chain(r.next, r.prev, r.sleep, n, q)
  BY <1>1, ChainFrame DEF SleepList, SameSleepers
<1>3. QED
  BY <1>1, <1>2 DEF SleepList, SameSleepers

LEMMA SleepersFrame ==
  ASSUME NEW s, NEW r, NEW A \in SUBSET Tasks, Sleepers(s, A), SameSleepers(r, s, A)
  PROVE  Sleepers(r, A)
BY SleepFrame DEF Sleepers

\* mk_scheduler_add_ready and mk_scheduler_remove_ready write links of ready tasks only.
LEMMA AddReadySleepers ==
  ASSUME NEW s \in Sched, NEW R \in SUBSET Tasks, NEW A \in SUBSET Tasks, R \cap A = {},
         Queued(s, R), NEW t \in Tasks, t \notin A
  PROVE  SameSleepers(AddReady(s, t), s, A) /\ AddReady(s, t).wake = s.wake
<1> DEFINE r == AddReady(s, t)
           last == LastOf(s, t)
<1>1. /\ LevelOf(s, t) \in Prio /\ last \in Link
      /\ r.prev = [s.prev EXCEPT ![t] = last]
      /\ r.next = IF last = NoTask THEN [s.next EXCEPT ![t] = NoTask]
                  ELSE [s.next EXCEPT ![t] = NoTask, ![last] = t]
      /\ r.sleep = s.sleep
  BY AddReadyFields
<1>2. r.wake = s.wake
  BY DEF AddReady, Sched
<1>3. last # NoTask => last \in R
  BY <1>1 DEF Queued, LevelsWellFormed, LastOf
<1> HIDE DEF r, last
<1>4. QED
  BY <1>1, <1>2, <1>3 DEF SameSleepers, Sched, r

LEMMA RemoveReadySleepers ==
  ASSUME NEW s \in Sched, NEW R \in SUBSET Tasks, NEW A \in SUBSET Tasks, R \cap A = {},
         Queued(s, R), NEW t \in R
  PROVE  SameSleepers(RemoveReady(s, t), s, A)
<1> DEFINE r == RemoveReady(s, t)
           before == s.prev[t]
           after == s.next[t]
<1>1. /\ r.wake = s.wake /\ r.sleep = s.sleep
      /\ r.next = IF before = NoTask THEN [s.next EXCEPT ![t] = NoTask]
                  ELSE [s.next EXCEPT ![before] = after, ![t] = NoTask]
      /\ r.prev = IF after = NoTask THEN [s.prev EXCEPT ![t] = NoTask]
                  ELSE [s.prev EXCEPT ![after] = before, ![t] = NoTask]
  BY RemoveReadyFields
<1>2. (before # NoTask => before \in R) /\ (after # NoTask => after \in R)
  BY DEF Queued, LinksWellFormed
<1> HIDE DEF r, before, after
<1>3. QED
  BY <1>1, <1>2 DEF SameSleepers, Sched, r

\* So do the filling and the zeroing of the control block of a task that is not asleep.
LEMMA TcbSleepers ==
  ASSUME NEW s \in Sched, NEW A \in SUBSET Tasks, NEW t \in Tasks, t \notin A, NEW p \in Nat
  PROVE  SameSleepers(NewTcb(s, t, p), s, A) /\ SameSleepers(BlankTcb(s, t), s, A)
<1>1. SameSleepers(BlankTcb(s, t), s, A)
  BY DEF BlankTcb, SameSleepers, Sched
<1>2. SameSleepers(NewTcb(s, t, p), BlankTcb(s, t), A)
  <2> DEFINE b == BlankTcb(s, t)
  <2>1. b \in Sched
    BY BlankTcbFields
  <2> HIDE DEF b
  <2>2. SameSleepers([b EXCEPT !.prio[t] = p, !.slice[t] = Quantum], b, A)
    BY <2>1 DEF SameSleepers, Sched
  <2>3. QED
    BY <2>2 DEF NewTcb, b
<1>3. QED
  BY <1>1, <1>2 DEF SameSleepers

\* And the accounting of the quantum.
LEMMA AccountSleepers ==
  ASSUME NEW s \in Sched, NEW R \in SUBSET Tasks, NEW A \in SUBSET Tasks, R \cap A = {},
         Queued(s, R)
  PROVE  SameSleepers(Account(s), s, A)
<1> DEFINE c == s.current
           left == IF s.slice[c] > 0 THEN s.slice[c] - 1 ELSE 0
           p == s.prio[c]
           full == [s EXCEPT !.slice[c] = Quantum]
           turns == p < NPrio /\ s.head[p] # s.tail[p] /\ s.head[p] = c /\ s.next[c] # NoTask
<1>1. CASE c = NoTask \/ s.state[c] # "RUNNING"
  BY <1>1 DEF Account, SameSleepers
<1>2. CASE ~(c = NoTask \/ s.state[c] # "RUNNING")
  <2>1. c \in Tasks /\ left \in Nat /\ Quantum \in Nat
    BY <1>2, QueueAssumption DEF Sched, Link
  <2>2. ASSUME NEW x \in Nat
        PROVE  SameSleepers([s EXCEPT !.slice[c] = x], s, A)
    BY DEF SameSleepers, Sched
  <2>3. CASE left > 0
    BY <2>1, <2>2, <2>3, <1>2 DEF Account
  <2>4. CASE ~(left > 0) /\ ~turns
    BY <2>1, <2>2, <2>4, <1>2 DEF Account
  <2>5. CASE ~(left > 0) /\ turns
    <3>1. p \in Prio
      <4>1. p \in Nat /\ p < NPrio
        BY <2>5, <2>1 DEF Sched
      <4> HIDE DEF p
      <4>2. QED
        BY <4>1, QueueAssumption DEF Prio
    <3>2. /\ full \in Sched /\ full.head = s.head /\ full.tail = s.tail
          /\ full.next = s.next /\ full.prev = s.prev /\ full.sleep = s.sleep /\ full.wake = s.wake
      <4>1. full \in Sched /\ full.head = s.head /\ full.tail = s.tail
            /\ full.next = s.next /\ full.sleep = s.sleep
        BY <2>1, SliceFrame
      <4>2. full.prev = s.prev /\ full.wake = s.wake
        BY DEF Sched
      <4>3. QED
        BY <4>1, <4>2
    <3>3. Account(s) = RotateHead(full, p)
      BY <2>5, <1>2 DEF Account, full
    <3> DEFINE a == s.head[p]
               b == s.next[a]
               z == s.tail[p]
    <3>4. a \in R /\ b \in R /\ z \in R
      <4>1. a # NoTask /\ b # NoTask
        BY <2>5, <2>1, QueueAssumption
      <4>2. a \in R /\ z \in R
        BY <3>1, <4>1 DEF Queued, LevelsWellFormed
      <4>3. QED
        BY <4>1, <4>2 DEF Queued, LinksWellFormed
    <3> HIDE DEF full, a, b, z, p
    <3>5. full.head[p] = a /\ full.tail[p] = z /\ full.next[full.head[p]] = b
      BY <3>2 DEF a, b, z
    <3>6. /\ RotateHead(full, p).sleep = s.sleep
          /\ RotateHead(full, p).next = [s.next EXCEPT ![z] = a, ![a] = NoTask]
          /\ RotateHead(full, p).prev = [s.prev EXCEPT ![b] = NoTask, ![a] = z]
      <4>1. /\ RotateHead(full, p).sleep = full.sleep
            /\ RotateHead(full, p).next = [full.next EXCEPT ![full.tail[p]] = full.head[p], ![full.head[p]] = NoTask]
            /\ RotateHead(full, p).prev = [full.prev EXCEPT ![full.next[full.head[p]]] = NoTask, ![full.head[p]] = full.tail[p]]
        BY <3>1, <3>2, <3>4, <3>5, RotateHeadFields
      <4>2. QED
        BY <4>1, <3>2, <3>5
    <3>7. RotateHead(full, p).wake = full.wake
      BY <3>2 DEF RotateHead, Sched
    <3>8. QED
      BY <3>2, <3>3, <3>4, <3>6, <3>7 DEF SameSleepers, Sched
  <2>6. QED
    BY <2>3, <2>4, <2>5
<1>3. QED
  BY <1>1, <1>2

-----------------------------------------------------------------------------
(* Leaving the sleep list                                                  *)

\* r and s link the tasks R into the ready levels in the same way.
SameLines(r, s, R) ==
  /\ r.head = s.head /\ r.tail = s.tail
  /\ \A t \in R : r.next[t] = s.next[t] /\ r.prev[t] = s.prev[t] /\ r.prio[t] = s.prio[t]

\* w is s with the sleeper t taken off the list.
OffList(w, s, t) ==
  /\ Unlinks(w.next, w.prev, w.sleep, s.next, s.prev, s.sleep, t)
  /\ w.head = s.head /\ w.tail = s.tail /\ w.bitmap = s.bitmap /\ w.count = s.count
  /\ w.prio = s.prio /\ w.wake = s.wake /\ w.current = s.current /\ w.state = s.state
  /\ w.slice = s.slice

\* r is s with the k-th sleeper made ready: exactly the others are left asleep, in order.
Roused(r, s, R, A, n, q, k) ==
  /\ r \in Sched /\ Queued(r, R \cup {q[k]}) /\ r.wake = s.wake /\ r.current = s.current
  /\ SleepList(r, A \ {q[k]}, n - 1, Dropped(q, n, k))
  /\ r.state = [s.state EXCEPT ![q[k]] = "READY"]
  /\ \E w \in Sched : /\ r = AddReady(w, q[k]) /\ SameLines(w, s, R)
                     /\ w.prio = s.prio /\ w.slice = s.slice

\* A sleeper that is taken off and made ready leaves exactly the others asleep, in order.
LEMMA OffListReady ==
  ASSUME NEW s \in Sched, NEW R \in SUBSET Tasks, NEW A \in SUBSET Tasks, R \cap A = {},
         Queued(s, R), NEW n, NEW q, SleepList(s, A, n, q),
         NEW k \in 1 .. n, NEW w \in Sched, OffList(w, s, q[k])
  PROVE  Roused(AddReady(w, q[k]), s, R, A, n, q, k)
<1>0. n \in Nat /\ q \in [1 .. n -> Tasks]
  BY DEF SleepList, Chain
<1> USE <1>0
<1> DEFINE t == q[k]
           m == n - 1
           d == Dropped(q, n, k)
           B == A \ {t}
           r == AddReady(w, t)
<1>1. t \in A /\ t \in Tasks /\ t \notin R /\ \A i \in 1 .. n : q[i] \in A
  BY DEF SleepList, OnList
<1>4. Chain(s.next, s.prev, s.sleep, n, q)
  BY DEF SleepList
<1>2. \A u \in R : u # t /\ u # s.prev[t] /\ u # s.next[t]
  <2>1. (s.prev[t] # NoTask => s.prev[t] \in A) /\ (s.next[t] # NoTask => s.next[t] \in A)
    <3>1. /\ s.next[q[k]] = NoTask \/ OnList(n, q, s.next[q[k]])
          /\ s.prev[q[k]] = NoTask \/ OnList(n, q, s.prev[q[k]])
      BY <1>4, ChainCloses
    <3>2. QED
      BY <3>1, <1>1 DEF OnList
  <2>2. QED
    BY <2>1, <1>1, QueueAssumption
<1>3. Queued(w, R) /\ SameLines(w, s, R) /\ w.prio = s.prio /\ w.slice = s.slice
  <2>1. \A u \in R : w.next[u] = s.next[u] /\ w.prev[u] = s.prev[u] /\ w.prio[u] = s.prio[u]
    BY <1>2 DEF OffList, Unlinks
  <2>2. w.head = s.head /\ w.tail = s.tail /\ w.bitmap = s.bitmap /\ w.count = s.count
    BY DEF OffList
  <2>3. Queued(w, R)
    BY <2>1, <2>2, QueuedFrame
  <2>4. QED
    BY <2>1, <2>2, <2>3 DEF OffList, SameLines
<1>5. /\ Chain(w.next, w.prev, w.sleep, m, d)
      /\ \A u \in Tasks : OnList(m, d, u) <=> OnList(n, q, u) /\ u # t
  <2>1. Unlinks(w.next, w.prev, w.sleep, s.next, s.prev, s.sleep, q[k])
    BY DEF OffList
  <2>2. QED
    BY <1>4, <2>1, ChainUnlink
<1>6. SleepList(w, B, m, d)
  <2>1. \A u \in Tasks : u \in B <=> OnList(m, d, u)
    BY <1>5 DEF SleepList
  <2>2. ASSUME NEW i \in 1 .. m, NEW j \in 1 .. m, i < j
        PROVE  w.wake[d[i]] <= w.wake[d[j]]
    <3> DEFINE a == IF i < k THEN i ELSE i + 1
               b == IF j < k THEN j ELSE j + 1
    <3>1. a \in 1 .. n /\ b \in 1 .. n /\ a < b /\ d[i] = q[a] /\ d[j] = q[b]
      BY <2>2 DEF Dropped
    <3> HIDE DEF a, b
    <3>2. s.wake[q[a]] <= s.wake[q[b]]
      BY <3>1 DEF SleepList
    <3>3. QED
      BY <3>1, <3>2 DEF OffList
  <2>3. QED
    BY <1>5, <2>1, <2>2 DEF SleepList
<1>7. r \in Sched /\ Queued(r, R \cup {t})
  BY <1>1, <1>3, AddReadyType, AddReadyQueued
<1>8. SameSleepers(r, w, B) /\ r.wake = w.wake
  <2>1. R \cap B = {} /\ t \notin B /\ B \in SUBSET Tasks
    OBVIOUS
  <2>2. QED
    BY <2>1, <1>1, <1>3, AddReadySleepers
<1>9. r.current = w.current /\ r.state = [w.state EXCEPT ![t] = "READY"]
  BY <1>1, AddReadyFields
<1>10. SleepList(r, B, m, d)
  <2>1. B \in SUBSET Tasks
    OBVIOUS
  <2> HIDE DEF B, m, d, r
  <2>2. QED
    BY <2>1, <1>5, <1>6, <1>8, SleepFrame
<1>11. r.wake = s.wake /\ r.current = s.current /\ r.state = [s.state EXCEPT ![t] = "READY"]
  BY <1>8, <1>9 DEF OffList
<1>12. \E u \in Sched : /\ r = AddReady(u, t) /\ SameLines(u, s, R)
                       /\ u.prio = s.prio /\ u.slice = s.slice
  BY <1>3
<1> HIDE DEF r, m, d
<1>13. Roused(r, s, R, A, n, q, k)
  BY <1>7, <1>10, <1>11, <1>12 DEF Roused, m, d
<1>14. QED
  BY <1>13 DEF r

\* mk_scheduler_wake_task of a sleeper.
LEMMA WakeTaskSleepers ==
  ASSUME NEW s \in Sched, NEW R \in SUBSET Tasks, NEW A \in SUBSET Tasks, R \cap A = {},
         Queued(s, R), Sleepers(s, A), NEW t \in A
  PROVE  \E n, q : \E k \in 1 .. n : /\ SleepList(s, A, n, q) /\ q[k] = t
                                    /\ Roused(WakeTask(s, t), s, R, A, n, q, k)
<1>10. PICK n, q : SleepList(s, A, n, q)
  BY DEF Sleepers
<1>2. PICK k \in 1 .. n : q[k] = t
  BY <1>10 DEF SleepList, OnList
<1> DEFINE before == s.prev[t]
           after == s.next[t]
           next == IF before = NoTask THEN [s.next EXCEPT ![t] = NoTask]
                   ELSE [s.next EXCEPT ![before] = after, ![t] = NoTask]
           prev == IF after = NoTask THEN [s.prev EXCEPT ![t] = NoTask]
                   ELSE [s.prev EXCEPT ![after] = before, ![t] = NoTask]
           sleep == IF before = NoTask /\ s.sleep = t THEN after ELSE s.sleep
           w == [s EXCEPT !.sleep = sleep, !.next = next, !.prev = prev]
<1>3. t \in Tasks /\ before \in Link /\ after \in Link /\ (before = NoTask => s.sleep = t)
  <2>1. Chain(s.next, s.prev, s.sleep, n, q)
    BY <1>10 DEF SleepList
  <2>2. /\ q[k] \in Tasks /\ (k = 1 => s.sleep = q[k])
        /\ s.next[q[k]] \in Link /\ s.prev[q[k]] \in Link /\ (s.prev[q[k]] = NoTask <=> k = 1)
    BY <2>1, ChainAt
  <2>3. QED
    BY <1>2, <2>2
<1>4. next \in [Tasks -> Link] /\ prev \in [Tasks -> Link] /\ sleep \in Link
  BY <1>3 DEF Sched, Link
<1>5. /\ \A u \in Tasks \ {t} : next[u] = IF u = before THEN after ELSE s.next[u]
      /\ \A u \in Tasks \ {t} : prev[u] = IF u = after THEN before ELSE s.prev[u]
      /\ sleep = IF before = NoTask THEN after ELSE s.sleep
  BY <1>3, QueueAssumption DEF Sched, Link
<1>6. WakeTask(s, t) = AddReady(w, t)
  BY DEF WakeTask
<1> HIDE DEF next, prev, sleep
<1>7. w \in Sched /\ w.next = next /\ w.prev = prev /\ w.sleep = sleep
      /\ w.head = s.head /\ w.tail = s.tail /\ w.bitmap = s.bitmap /\ w.count = s.count
      /\ w.prio = s.prio /\ w.wake = s.wake /\ w.current = s.current /\ w.state = s.state
      /\ w.slice = s.slice
  BY <1>4 DEF Sched
<1> HIDE DEF w
<1>8. OffList(w, s, q[k])
  BY <1>2, <1>5, <1>7 DEF OffList, Unlinks
<1>9. Roused(AddReady(w, q[k]), s, R, A, n, q, k)
  BY <1>10, <1>7, <1>8, OffListReady
<1>11. QED
  BY <1>2, <1>6, <1>9, <1>10

\* One turn of the waking loop takes the first sleeper off the list.
LEMMA WakeHeadSleepers ==
  ASSUME NEW s \in Sched, NEW R \in SUBSET Tasks, NEW A \in SUBSET Tasks, R \cap A = {},
         Queued(s, R), NEW n, NEW q, SleepList(s, A, n, q), n # 0
  PROVE  Roused(WakeHead(s), s, R, A, n, q, 1)
<1>0. n \in Nat /\ q \in [1 .. n -> Tasks]
  BY DEF SleepList, Chain
<1> USE <1>0
<1> DEFINE t == s.sleep
           rest == s.next[t]
           next == [s.next EXCEPT ![t] = NoTask]
           prev == IF rest = NoTask THEN [s.prev EXCEPT ![t] = NoTask]
                   ELSE [s.prev EXCEPT ![rest] = NoTask, ![t] = NoTask]
           w == [s EXCEPT !.sleep = rest, !.next = next, !.prev = prev]
<1>1. t = q[1] /\ 1 \in 1 .. n /\ s.prev[t] = NoTask /\ t \in Tasks
  BY DEF SleepList, Chain
<1>2. rest \in Link /\ rest # t
  <2>1. Chain(s.next, s.prev, s.sleep, n, q)
    BY DEF SleepList
  <2>2. s.next[q[1]] \in Link /\ s.next[q[1]] # q[1]
    BY <1>1, <2>1, ChainAt
  <2>3. QED
    BY <1>1, <2>2
<1>3. next \in [Tasks -> Link] /\ prev \in [Tasks -> Link]
  BY <1>1, <1>2 DEF Sched, Link
<1>4. /\ \A u \in Tasks \ {t} : next[u] = IF u = s.prev[t] THEN rest ELSE s.next[u]
      /\ \A u \in Tasks \ {t} : prev[u] = IF u = rest THEN s.prev[t] ELSE s.prev[u]
  BY <1>1, <1>2, QueueAssumption DEF Sched, Link
<1>5. WakeHead(s) = AddReady(w, t)
  <2>1. [[s.next EXCEPT ![t] = NoTask] EXCEPT ![t] = NoTask] = next
    BY DEF Sched
  <2>2. w = [s EXCEPT !.sleep = rest, !.prev = prev, !.next[t] = NoTask]
    BY DEF Sched
  <2>3. QED
    BY <2>2 DEF WakeHead
<1> HIDE DEF next, prev
<1>6. w \in Sched /\ w.next = next /\ w.prev = prev /\ w.sleep = rest
      /\ w.head = s.head /\ w.tail = s.tail /\ w.bitmap = s.bitmap /\ w.count = s.count
      /\ w.prio = s.prio /\ w.wake = s.wake /\ w.current = s.current /\ w.state = s.state
      /\ w.slice = s.slice
  BY <1>2, <1>3 DEF Sched
<1> HIDE DEF w
<1>7. OffList(w, s, q[1])
  BY <1>1, <1>4, <1>6 DEF OffList, Unlinks
<1>8. Roused(AddReady(w, q[1]), s, R, A, n, q, 1)
  BY <1>1, <1>6, <1>7, OffListReady
<1>9. QED
  BY <1>1, <1>5, <1>8

-----------------------------------------------------------------------------
(* Entering the sleep list                                                 *)

\* A task linked behind those that wake no later, and before those that wake no
\* earlier, leaves the list in order of wake tick.
LEMMA InsertSorted ==
  ASSUME NEW v, NEW A \in SUBSET Tasks, NEW n, NEW q, SleepList(v, A, n, q), NEW t \in Tasks,
         t \notin A, NEW k, NEW before, NEW after, Gap(n, q, k, before, after),
         \A i \in 1 .. n : i <= k => v.wake[q[i]] <= v.wake[t],
         \A i \in 1 .. n : i > k => v.wake[t] <= v.wake[q[i]],
         NEW x, x.wake = v.wake, v.wake[t] \in Nat,
         Links(x.next, x.prev, x.sleep, v.next, v.prev, v.sleep, t, before, after)
  PROVE  SleepList(x, A \cup {t}, n + 1, Inserted(q, n, k, t))
<1> DEFINE d == Inserted(q, n, k, t)
           m == n + 1
<1>0. n \in Nat /\ q \in [1 .. n -> Tasks] /\ Chain(v.next, v.prev, v.sleep, n, q)
  BY DEF SleepList, Chain
<1> USE <1>0
<1>1. ~ OnList(n, q, t) /\ k \in 0 .. n
  BY DEF SleepList, Gap
<1>2. /\ Chain(x.next, x.prev, x.sleep, m, d)
      /\ \A u \in Tasks : OnList(m, d, u) <=> OnList(n, q, u) \/ u = t
  BY <1>1, ChainInsert
<1>3. \A u \in Tasks : u \in A \cup {t} <=> OnList(m, d, u)
  BY <1>2 DEF SleepList
<1>4. \A i \in 1 .. m : d[i] = IF i <= k THEN q[i] ELSE IF i = k + 1 THEN t ELSE q[i - 1]
  BY DEF Inserted
<1>5. \A i, j \in 1 .. m : i < j => x.wake[d[i]] <= x.wake[d[j]]
  <2> USE <1>1
  <2> TAKE i, j \in 1 .. m
  <2> HAVE i < j
  <2> DEFINE a == IF i <= k THEN i ELSE i - 1
             b == IF j <= k THEN j ELSE j - 1
  <2>1. CASE i = k + 1
    <3>1. j - 1 \in 1 .. n /\ j - 1 > k /\ d[i] = t /\ d[j] = q[j - 1]
      BY <2>1, <1>4
    <3>2. QED
      BY <3>1
  <2>2. CASE j = k + 1
    <3>1. i \in 1 .. n /\ i <= k /\ d[j] = t /\ d[i] = q[i]
      BY <2>2, <1>4
    <3>2. QED
      BY <3>1
  <2>3. CASE i # k + 1 /\ j # k + 1
    <3>1. a \in 1 .. n /\ b \in 1 .. n /\ a < b /\ d[i] = q[a] /\ d[j] = q[b]
      BY <2>3, <1>4
    <3> HIDE DEF a, b
    <3>2. v.wake[q[a]] <= v.wake[q[b]]
      BY <3>1 DEF SleepList
    <3>3. QED
      BY <3>1, <3>2
  <2>4. QED
    BY <2>1, <2>2, <2>3
<1> HIDE DEF d, m
<1>6. SleepList(x, A \cup {t}, m, d)
  BY <1>2, <1>3, <1>5 DEF SleepList
<1>7. QED
  BY <1>6 DEF d, m

\* A list that numbers tasks is a sequence.
LEMMA LenOf ==
  ASSUME NEW n \in Nat, NEW q \in [1 .. n -> Tasks]
  PROVE  Len(q) = n
OBVIOUS

\* The control block mk_scheduler_sleep_task links: out of the ready queues, asleep.
Dozing(s, t, wakeAt) == [RemoveReady(s, t) EXCEPT !.state[t] = "SLEEPING", !.wake[t] = wakeAt]

Dozed(v, s, R, A, n, q, t, wakeAt) ==
  /\ v \in Sched /\ Queued(v, R \ {t}) /\ SleepList(v, A, n, q)
  /\ v.wake = [s.wake EXCEPT ![t] = wakeAt]
  /\ v.state = [s.state EXCEPT ![t] = "SLEEPING"]
  /\ v.prio = s.prio /\ v.slice = s.slice /\ v.current = s.current
  /\ SameLines(v, RemoveReady(s, t), R \ {t})

LEMMA DozingFields ==
  ASSUME NEW s \in Sched, NEW R \in SUBSET Tasks, NEW A \in SUBSET Tasks, R \cap A = {},
         Queued(s, R), NEW n, NEW q, SleepList(s, A, n, q), NEW t \in R, NEW wakeAt \in Nat
  PROVE  Dozed(Dozing(s, t, wakeAt), s, R, A, n, q, t, wakeAt)
<1> DEFINE b == RemoveReady(s, t)
           state == [b.state EXCEPT ![t] = "SLEEPING"]
           wake == [b.wake EXCEPT ![t] = wakeAt]
           r == [b EXCEPT !.state = state, !.wake = wake]
<1>1. /\ b \in Sched /\ Queued(b, R \ {t}) /\ SameSleepers(b, s, A)
  BY RemoveReadyType, RemoveReadyQueued, RemoveReadySleepers
<1>2. /\ b.wake = s.wake /\ b.state = s.state
      /\ b.prio = s.prio /\ b.slice = s.slice /\ b.current = s.current
  BY RemoveReadyFields
<1>3. Dozing(s, t, wakeAt) = r
  BY DEF Dozing
<1> HIDE DEF b
<1>4. state \in [Tasks -> TaskState] /\ wake \in [Tasks -> Nat]
  BY <1>1 DEF Sched, TaskState
<1>5. \A u \in A : wake[u] = b.wake[u]
  BY <1>1 DEF Sched
<1> HIDE DEF state, wake
<1>6. /\ r \in Sched /\ r.wake = wake /\ r.state = state /\ r.sleep = b.sleep
      /\ r.next = b.next /\ r.prev = b.prev /\ r.head = b.head /\ r.tail = b.tail
      /\ r.bitmap = b.bitmap /\ r.count = b.count /\ r.prio = b.prio
      /\ r.slice = b.slice /\ r.current = b.current
  BY <1>1, <1>4 DEF Sched
<1> HIDE DEF r
<1>7. Queued(r, R \ {t})
  <2>1. R \ {t} \in SUBSET Tasks
    OBVIOUS
  <2>2. QED
    BY <2>1, <1>1, <1>6, QueuedFrame
<1>8. SameSleepers(r, s, A)
  BY <1>1, <1>2, <1>5, <1>6 DEF SameSleepers
<1>9. SleepList(r, A, n, q)
  BY <1>8, SleepFrame
<1>10. SameLines(r, b, R \ {t})
  BY <1>6 DEF SameLines
<1>11. QED
  BY <1>2, <1>3, <1>6, <1>7, <1>9, <1>10 DEF Dozed, state, wake, b

\* The two ways mk_scheduler_sleep_task links it: at the front of the list, or behind cur.
LinkFront(v, t, first) ==
  [v EXCEPT !.next[t] = first, !.sleep = t,
            !.prev = IF first = NoTask THEN [@ EXCEPT ![t] = NoTask]
                     ELSE [@ EXCEPT ![t] = NoTask, ![first] = t]]

LinkBehind(v, t, cur, after) ==
  [v EXCEPT !.next = [@ EXCEPT ![t] = after, ![cur] = t],
            !.prev = IF after = NoTask THEN [@ EXCEPT ![t] = cur]
                     ELSE [@ EXCEPT ![t] = cur, ![after] = t]]

\* x is v with t linked into the sleep list between before and after.
Linked(x, v, t, before, after) ==
  /\ x \in Sched /\ x.wake = v.wake /\ x.prio = v.prio /\ x.state = v.state
  /\ x.head = v.head /\ x.tail = v.tail /\ x.bitmap = v.bitmap /\ x.count = v.count
  /\ x.slice = v.slice /\ x.current = v.current
  /\ Links(x.next, x.prev, x.sleep, v.next, v.prev, v.sleep, t, before, after)

LEMMA LinkedFront ==
  ASSUME NEW v \in Sched, NEW t \in Tasks, NEW first, first = v.sleep, first # t
  PROVE  Linked(LinkFront(v, t, first), v, t, NoTask, first)
<1> DEFINE next == [v.next EXCEPT ![t] = first]
           prev == IF first = NoTask THEN [v.prev EXCEPT ![t] = NoTask]
                   ELSE [v.prev EXCEPT ![t] = NoTask, ![first] = t]
           x == [v EXCEPT !.next = next, !.sleep = t, !.prev = prev]
<1>1. first \in Link
  BY DEF Sched
<1>2. next \in [Tasks -> Link]
  BY <1>1 DEF Sched, Link
<1>3. prev \in [Tasks -> Link]
  BY <1>1 DEF Sched, Link
<1>4. /\ next[t] = first /\ prev[t] = NoTask
      /\ \A u \in Tasks \ {t} : /\ next[u] = IF u = NoTask THEN t ELSE v.next[u]
                                /\ prev[u] = IF u = first THEN t ELSE v.prev[u]
  BY <1>1, QueueAssumption DEF Sched, Link
<1> HIDE DEF next, prev
<1>6. /\ x \in Sched /\ x.wake = v.wake /\ x.prio = v.prio /\ x.state = v.state
      /\ x.head = v.head /\ x.tail = v.tail /\ x.bitmap = v.bitmap /\ x.count = v.count
      /\ x.slice = v.slice /\ x.current = v.current
      /\ x.next = next /\ x.prev = prev /\ x.sleep = t
  BY <1>2, <1>3 DEF Sched, Link
<1>7. Links(x.next, x.prev, x.sleep, v.next, v.prev, v.sleep, t, NoTask, first)
  <2> HIDE DEF x
  <2>1. QED
    BY <1>4, <1>6 DEF Links
<1>8. LinkFront(v, t, first) = x
  BY DEF LinkFront, next, prev
<1> HIDE DEF x
<1>10. QED
  BY <1>6, <1>7, <1>8 DEF Linked

LEMMA LinkedBehind ==
  ASSUME NEW v \in Sched, NEW t \in Tasks, NEW cur \in Tasks, cur # t,
         NEW after, after = v.next[cur], after # t
  PROVE  Linked(LinkBehind(v, t, cur, after), v, t, cur, after)
<1> DEFINE next == [v.next EXCEPT ![t] = after, ![cur] = t]
           prev == IF after = NoTask THEN [v.prev EXCEPT ![t] = cur]
                   ELSE [v.prev EXCEPT ![t] = cur, ![after] = t]
           x == [v EXCEPT !.next = next, !.prev = prev]
<1>1. after \in Link
  BY DEF Sched
<1>2. next \in [Tasks -> Link]
  BY <1>1 DEF Sched, Link
<1>3. prev \in [Tasks -> Link]
  BY <1>1 DEF Sched, Link
<1>4. /\ next[t] = after /\ prev[t] = cur
      /\ \A u \in Tasks \ {t} : /\ next[u] = IF u = cur THEN t ELSE v.next[u]
                                /\ prev[u] = IF u = after THEN t ELSE v.prev[u]
  BY <1>1, QueueAssumption DEF Sched, Link
<1> HIDE DEF next, prev
<1>6. /\ x \in Sched /\ x.wake = v.wake /\ x.prio = v.prio /\ x.state = v.state
      /\ x.head = v.head /\ x.tail = v.tail /\ x.bitmap = v.bitmap /\ x.count = v.count
      /\ x.slice = v.slice /\ x.current = v.current
      /\ x.next = next /\ x.prev = prev /\ x.sleep = v.sleep
  BY <1>2, <1>3 DEF Sched, Link
<1>9. cur # NoTask
  BY QueueAssumption
<1>7. Links(x.next, x.prev, x.sleep, v.next, v.prev, v.sleep, t, cur, after)
  <2> HIDE DEF x
  <2>1. QED
    BY <1>4, <1>6, <1>9 DEF Links
<1>8. LinkBehind(v, t, cur, after) = x
  BY DEF LinkBehind, next, prev
<1> HIDE DEF x
<1>10. QED
  BY <1>6, <1>7, <1>8 DEF Linked

\* r is s with the ready task t asleep until wakeAt.
Slept(r, s, R, A, t, wakeAt) ==
  /\ r \in Sched /\ Queued(r, R \ {t}) /\ Sleepers(r, A \cup {t})
  /\ r.wake = [s.wake EXCEPT ![t] = wakeAt]
  /\ r.state = [s.state EXCEPT ![t] = "SLEEPING"]
  /\ r.prio = s.prio /\ r.slice = s.slice /\ r.current = s.current
  /\ SameLines(r, RemoveReady(s, t), R \ {t})
  /\ \E n, q : \E k \in 0 .. n :
       /\ SleepList(s, A, n, q) /\ SleepList(r, A \cup {t}, n + 1, Inserted(q, n, k, t))
       /\ \A i \in 1 .. n : s.wake[q[i]] <= wakeAt <=> i <= k

\* v is s with t out of the ready queues; x is v with t linked behind the first k sleepers.
SleptBehind(x, s, v, R, A, n, q, k, t) ==
  /\ x \in Sched /\ Queued(x, R \ {t}) /\ SameLines(x, v, R \ {t})
  /\ x.wake = v.wake /\ x.state = v.state /\ x.prio = v.prio /\ x.slice = v.slice
  /\ x.current = v.current
  /\ k \in 0 .. n /\ SleepList(x, A \cup {t}, n + 1, Inserted(q, n, k, t))
  /\ \A i \in 1 .. n : v.wake[q[i]] <= v.wake[t] <=> i <= k

\* mk_scheduler_sleep_task of a ready task.
LEMMA SleepTaskSleepers ==
  ASSUME NEW s \in Sched, NEW R \in SUBSET Tasks, NEW A \in SUBSET Tasks, R \cap A = {},
         Queued(s, R), Sleepers(s, A), NEW t \in R, NEW wakeAt \in Nat
  PROVE  Slept(SleepTask(s, t, wakeAt), s, R, A, t, wakeAt)
<1>1. PICK n, q : SleepList(s, A, n, q)
  BY DEF Sleepers
<1> DEFINE v == Dozing(s, t, wakeAt)
           first == v.sleep
           list == NodesFrom(v, first)
           Stops(k) == k = Len(list) \/ v.wake[list[k + 1]] > wakeAt
           place0 == CHOOSE k \in 1 .. Len(list) : Stops(k) /\ \A j \in 1 .. k - 1 : ~Stops(j)
           cur == list[place0]
           after == v.next[cur]
           front == LinkFront(v, t, first)
           behind == LinkBehind(v, t, cur, after)
<1>2. SleepTask(s, t, wakeAt) = IF first = NoTask \/ wakeAt < v.wake[first] THEN front ELSE behind
  BY DEF SleepTask, Dozing, LinkFront, LinkBehind
<1>3. /\ v \in Sched /\ Queued(v, R \ {t}) /\ SleepList(v, A, n, q)
      /\ v.wake = [s.wake EXCEPT ![t] = wakeAt]
      /\ v.state = [s.state EXCEPT ![t] = "SLEEPING"]
      /\ v.prio = s.prio /\ v.slice = s.slice /\ v.current = s.current
      /\ SameLines(v, RemoveReady(s, t), R \ {t})
  <2>1. Dozed(v, s, R, A, n, q, t, wakeAt)
    BY <1>1, DozingFields
  <2> HIDE DEF v
  <2>2. QED
    BY <2>1 DEF Dozed
<1>4. t \in Tasks /\ t \notin A /\ v.wake[t] = wakeAt
  BY <1>3 DEF Sched
<1> HIDE DEF v, front, behind
<1>5. Chain(v.next, v.prev, first, n, q) /\ n \in Nat /\ q \in [1 .. n -> Tasks]
  BY <1>3 DEF SleepList, Chain
<1>6. list = q /\ Len(q) = n
  <2>1. list = q
    BY <1>3, <1>5, NodesOfChain
  <2>2. Len(q) = n
    BY <1>5, LenOf
  <2>3. QED
    BY <2>1, <2>2
<1> HIDE DEF list
<1>7. /\ first = IF n = 0 THEN NoTask ELSE q[1]
      /\ \A i \in 1 .. n : q[i] \in A /\ q[i] # t /\ q[i] # NoTask /\ v.wake[q[i]] \in Nat
      /\ \A i, j \in 1 .. n : i < j => v.wake[q[i]] <= v.wake[q[j]]
  <2>1. first = IF n = 0 THEN NoTask ELSE q[1]
    BY <1>5 DEF Chain
  <2>2. \A i \in 1 .. n : q[i] \in A /\ q[i] # t /\ q[i] # NoTask
    <3> TAKE i \in 1 .. n
    <3>1. OnList(n, q, q[i]) /\ q[i] \in Tasks
      BY <1>5 DEF OnList
    <3>2. q[i] \in A
      BY <1>3, <3>1 DEF SleepList
    <3>3. QED
      BY <1>4, <3>1, <3>2, QueueAssumption
  <2>3. \A i \in 1 .. n : v.wake[q[i]] \in Nat
    BY <1>3, <2>2 DEF Sched
  <2>4. QED
    BY <1>3, <2>1, <2>2, <2>3 DEF SleepList
<1>20. ASSUME NEW x, NEW k, NEW before, NEW next, Gap(n, q, k, before, next),
              before = NoTask \/ before \in A, next = NoTask \/ next \in A,
              \A i \in 1 .. n : i <= k => v.wake[q[i]] <= wakeAt,
              \A i \in 1 .. n : i > k => wakeAt < v.wake[q[i]],
              Linked(x, v, t, before, next)
       PROVE  SleptBehind(x, s, v, R, A, n, q, k, t)
  <2>20. /\ x \in Sched /\ x.wake = v.wake /\ x.prio = v.prio /\ x.state = v.state
         /\ x.head = v.head /\ x.tail = v.tail /\ x.bitmap = v.bitmap /\ x.count = v.count
         /\ x.slice = v.slice /\ x.current = v.current
         /\ Links(x.next, x.prev, x.sleep, v.next, v.prev, v.sleep, t, before, next)
    BY <1>20 DEF Linked
  <2>1. SleepList(x, A \cup {t}, n + 1, Inserted(q, n, k, t))
    <3>1. v.wake[t] \in Nat
      BY <1>4
    <3>2. /\ \A i \in 1 .. n : i <= k => v.wake[q[i]] <= v.wake[t]
          /\ \A i \in 1 .. n : i > k => v.wake[t] <= v.wake[q[i]]
      BY <1>4, <1>7, <1>20
    <3>3. QED
      BY <1>3, <1>4, <1>20, <2>20, <3>1, <3>2, InsertSorted
  <2>2. \A u \in R \ {t} : u \in Tasks \ {t} /\ u # before /\ u # next
    BY <1>20, QueueAssumption
  <2>3. \A u \in R \ {t} : x.next[u] = v.next[u] /\ x.prev[u] = v.prev[u] /\ x.prio[u] = v.prio[u]
    BY <2>2, <2>20 DEF Links
  <2>4. R \ {t} \in SUBSET Tasks
    OBVIOUS
  <2>5. Queued(x, R \ {t})
    BY <1>3, <2>20, <2>3, <2>4, QueuedFrame
  <2>6. SameLines(x, v, R \ {t})
    BY <2>20, <2>3 DEF SameLines
  <2>7. k \in 0 .. n /\ \A i \in 1 .. n : v.wake[q[i]] <= v.wake[t] <=> i <= k
    <3>1. k \in 0 .. n
      BY <1>20 DEF Gap
    <3>2. QED
      BY <3>1, <1>4, <1>5, <1>7, <1>20
  <2>8. QED
    BY <2>20, <2>1, <2>5, <2>6, <2>7 DEF SleptBehind
<1>8. ASSUME first = NoTask \/ wakeAt < v.wake[first]
      PROVE  \E k : SleptBehind(SleepTask(s, t, wakeAt), s, v, R, A, n, q, k, t)
  <2>1. first # t
    BY <1>7, <1>4, <1>5, QueueAssumption
  <2>2. Linked(front, v, t, NoTask, first)
    BY <1>3, <1>4, <2>1, LinkedFront DEF front
  <2>3. Gap(n, q, 0, NoTask, first)
    BY <1>5, <1>7 DEF Gap
  <2>4. \A i \in 1 .. n : wakeAt < v.wake[q[i]] /\ 0 < i
    <3> TAKE i \in 1 .. n
    <3>1. n # 0 /\ 1 \in 1 .. n
      BY <1>5
    <3>5. first # NoTask /\ first = q[1]
      BY <1>7, <3>1
    <3>2. v.wake[q[1]] <= v.wake[q[i]]
      BY <1>7, <3>1
    <3>3. v.wake[q[1]] \in Nat /\ v.wake[q[i]] \in Nat /\ wakeAt < v.wake[q[1]]
      BY <1>7, <1>8, <3>1, <3>5
    <3>4. QED
      BY <3>2, <3>3
  <2>5. \A i \in 1 .. n : i <= 0 => v.wake[q[i]] <= wakeAt
    BY <1>5
  <2>6. first = NoTask \/ first \in A
    BY <1>7, <1>5
  <2>7. SleptBehind(front, s, v, R, A, n, q, 0, t)
    BY <1>20, <2>2, <2>3, <2>4, <2>5, <2>6
  <2>8. QED
    BY <1>2, <1>8, <2>7
<1>9. ASSUME ~(first = NoTask \/ wakeAt < v.wake[first])
      PROVE  \E k : SleptBehind(SleepTask(s, t, wakeAt), s, v, R, A, n, q, k, t)
  <2>1. n # 0 /\ n \in 1 .. n /\ 1 \in 1 .. n /\ v.wake[q[1]] <= wakeAt
    BY <1>5, <1>7, <1>9
  <2> DEFINE S == {k \in 1 .. n : k = n \/ v.wake[q[k + 1]] > wakeAt}
  <2>2. PICK k \in S : \A j \in S : k <= j
    <3>1. S \in SUBSET Nat /\ S # {}
      BY <1>5, <2>1
    <3> HIDE DEF S
    <3>2. QED
      BY <3>1, LeastNat
  <2>3. place0 = k
    <3>1. k \in 1 .. Len(list) /\ Stops(k) /\ \A j \in 1 .. k - 1 : ~Stops(j)
      BY <1>5, <1>6, <2>2
    <3>2. ASSUME NEW i \in 1 .. Len(list), Stops(i), \A j \in 1 .. i - 1 : ~Stops(j)
          PROVE  i = k
      <4>1. i \in S /\ k <= i
        BY <1>6, <2>2, <3>2
      <4>2. k \in 1 .. n /\ i \in 1 .. n
        BY <1>6, <2>2
      <4>3. ~ (k < i)
        BY <3>1, <3>2, <4>2, <1>5
      <4>4. QED
        BY <4>1, <4>2, <4>3, <1>5
    <3> HIDE DEF Stops
    <3>3. QED
      BY <3>1, <3>2
  <2>4. cur = q[k] /\ k \in 1 .. n /\ (k = n \/ v.wake[q[k + 1]] > wakeAt)
    BY <1>6, <2>2, <2>3
  <2> HIDE DEF cur, place0
  <2>5. after = IF k = n THEN NoTask ELSE q[k + 1]
    BY <1>5, <2>4 DEF Chain
  <2>6. k # n => k + 1 \in 1 .. n
    BY <1>5, <2>4
  <2>7. cur \in Tasks /\ cur \in A /\ cur # t /\ after # t /\ (after = NoTask \/ after \in A)
    BY <1>4, <1>7, <2>4, <2>5, <2>6, QueueAssumption
  <2>8. Linked(behind, v, t, cur, after)
    BY <1>3, <1>4, <2>7, LinkedBehind DEF behind
  <2>9. Gap(n, q, k, cur, after)
    BY <1>5, <2>4, <2>5 DEF Gap
  <2>10. \A i \in 1 .. n : i <= k => v.wake[q[i]] <= wakeAt
    <3> TAKE i \in 1 .. n
    <3> HAVE i <= k
    <3>1. CASE i = 1
      BY <2>1, <3>1
    <3>2. CASE i # 1
      <4>1. i - 1 \in 1 .. n /\ i - 1 < k /\ i - 1 # n /\ (i - 1) + 1 = i
        BY <1>5, <2>4, <3>2
      <4>2. i - 1 \notin S
        BY <2>2, <2>4, <4>1, <1>5
      <4>3. ~ (v.wake[q[i]] > wakeAt)
        BY <4>1, <4>2
      <4>4. QED
        BY <4>3, <1>7
    <3>3. QED
      BY <3>1, <3>2
  <2>11. \A i \in 1 .. n : i > k => wakeAt < v.wake[q[i]]
    <3> TAKE i \in 1 .. n
    <3> HAVE i > k
    <3>1. k # n /\ k + 1 \in 1 .. n /\ v.wake[q[k + 1]] > wakeAt /\ (i = k + 1 \/ k + 1 < i)
      BY <1>5, <2>4, <2>6
    <3>2. i = k + 1 \/ v.wake[q[k + 1]] <= v.wake[q[i]]
      BY <3>1, <1>7
    <3>3. v.wake[q[k + 1]] \in Nat /\ v.wake[q[i]] \in Nat
      BY <3>1, <1>7
    <3>4. QED
      BY <3>1, <3>2, <3>3
  <2>12. SleptBehind(behind, s, v, R, A, n, q, k, t)
    BY <1>20, <2>7, <2>8, <2>9, <2>10, <2>11
  <2>13. QED
    BY <1>2, <1>9, <2>12
<1>10. PICK k : SleptBehind(SleepTask(s, t, wakeAt), s, v, R, A, n, q, k, t)
  BY <1>8, <1>9
<1> DEFINE r == SleepTask(s, t, wakeAt)
<1> HIDE DEF r
<1>11. SameLines(r, RemoveReady(s, t), R \ {t})
  BY <1>3, <1>10 DEF SleptBehind, SameLines, r
<1>12. \A i \in 1 .. n : s.wake[q[i]] <= wakeAt <=> i <= k
  <2>1. \A i \in 1 .. n : q[i] \in Tasks /\ v.wake[q[i]] = s.wake[q[i]]
    BY <1>3, <1>5, <1>7 DEF Sched
  <2>2. QED
    BY <2>1, <1>4, <1>10 DEF SleptBehind
<1>13. /\ r \in Sched /\ Queued(r, R \ {t}) /\ k \in 0 .. n
       /\ r.wake = v.wake /\ r.state = v.state /\ r.prio = v.prio /\ r.slice = v.slice
       /\ r.current = v.current
       /\ SleepList(r, A \cup {t}, n + 1, Inserted(q, n, k, t))
  BY <1>10 DEF SleptBehind, r
<1>14. Slept(r, s, R, A, t, wakeAt)
  BY <1>1, <1>3, <1>11, <1>12, <1>13 DEF Slept, Sleepers
<1>15. QED
  BY <1>14 DEF r

-----------------------------------------------------------------------------
(* The tick                                                                *)

\* One turn of the waking loop.
WakeOne(x, tick) == IF HeadExpired(x, tick) THEN WakeHead(x) ELSE x

Turns(turn, N, s, tick) ==
  turn = [k \in 0 .. N |-> IF k = 0 THEN s ELSE WakeOne(turn[k - 1], tick)]

\* There is a function of any number of turns: each turn extends the one of fewer.
LEMMA TurnsExist ==
  ASSUME NEW s, NEW tick, NEW N \in Nat
  PROVE  \E turn : Turns(turn, N, s, tick)
<1> DEFINE S == {m \in 0 .. N : \E turn : Turns(turn, m, s, tick)}
<1>1. 0 \in S
  <2> DEFINE f == [k \in 0 .. 0 |-> s]
  <2>1. Turns(f, 0, s, tick)
    BY DEF Turns
  <2> HIDE DEF f
  <2>2. QED
    BY <2>1
<1>2. ASSUME NEW m \in 0 .. N, m \in S, m < N
      PROVE  m + 1 \in S
  <2>1. PICK f : Turns(f, m, s, tick)
    BY <1>2
  <2> DEFINE g == [k \in 0 .. m + 1 |-> IF k <= m THEN f[k] ELSE WakeOne(f[m], tick)]
             h == [k \in 0 .. m + 1 |-> IF k = 0 THEN s ELSE WakeOne(g[k - 1], tick)]
  <2>2. \A k \in 0 .. m : f[k] = IF k = 0 THEN s ELSE WakeOne(f[k - 1], tick)
    BY <2>1 DEF Turns
  <2>3. ASSUME NEW k \in 0 .. m + 1
        PROVE  g[k] = h[k]
    <3>1. CASE k = 0
      BY <2>2, <3>1
    <3>2. CASE k # 0 /\ k <= m
      <4>1. k \in 0 .. m /\ k - 1 \in 0 .. m /\ g[k - 1] = f[k - 1] /\ g[k] = f[k]
        BY <3>2
      <4>2. QED
        BY <2>2, <3>2, <4>1
    <3>3. CASE k = m + 1
      <4>1. k - 1 = m /\ m \in 0 .. m + 1 /\ k # 0 /\ ~ (k <= m)
        BY <3>3
      <4>2. g[m] = f[m] /\ g[k] = WakeOne(f[m], tick)
        BY <4>1
      <4>3. h[k] = WakeOne(g[m], tick)
        BY <4>1
      <4>4. QED
        BY <4>2, <4>3
    <3>4. QED
      BY <3>1, <3>2, <3>3
  <2>4. g = h
    <3> DEFINE G(k) == IF k <= m THEN f[k] ELSE WakeOne(f[m], tick)
               H(k) == IF k = 0 THEN s ELSE WakeOne(g[k - 1], tick)
    <3>1. g = [k \in 0 .. m + 1 |-> G(k)] /\ h = [k \in 0 .. m + 1 |-> H(k)]
      OBVIOUS
    <3>2. \A k \in 0 .. m + 1 : g[k] = G(k) /\ h[k] = H(k)
      BY <3>1
    <3> HIDE DEF g, h, G, H
    <3>3. QED
      BY <2>3, <3>1, <3>2
  <2>5. Turns(g, m + 1, s, tick)
    <3> HIDE DEF g
    <3>1. QED
      BY <2>4 DEF Turns
  <2>6. m + 1 \in 0 .. N
    BY <1>2
  <2> HIDE DEF g
  <2>7. QED
    BY <2>5, <2>6
<1> HIDE DEF S
<1>3. \A m \in 0 .. N : m \in S
  BY <1>1, <1>2, TurnInduction
<1>4. QED
  BY <1>3 DEF S

LEMMA WakeExpiredTurns ==
  ASSUME NEW s, NEW tick, HeadExpired(s, tick), Cardinality(Tasks) \in Nat
  PROVE  \E turn : /\ turn[0] = s
                   /\ \A k \in 1 .. Cardinality(Tasks) : turn[k] = WakeOne(turn[k - 1], tick)
                   /\ WakeExpired(s, tick) = turn[Cardinality(Tasks)]
<1> DEFINE N == Cardinality(Tasks)
           turn == CHOOSE f : f = [k \in 0 .. N |-> IF k = 0 THEN s
                     ELSE IF HeadExpired(f[k - 1], tick) THEN WakeHead(f[k - 1]) ELSE f[k - 1]]
<1>1. WakeExpired(s, tick) = turn[N]
  BY DEF WakeExpired
<1>2. Turns(turn, N, s, tick)
  <2>1. \E f : f = [k \in 0 .. N |-> IF k = 0 THEN s
                     ELSE IF HeadExpired(f[k - 1], tick) THEN WakeHead(f[k - 1]) ELSE f[k - 1]]
    <3>1. N \in Nat
      OBVIOUS
    <3> HIDE DEF N, turn
    <3>2. PICK f : Turns(f, N, s, tick)
      BY <3>1, TurnsExist
    <3>3. QED
      BY <3>2 DEF Turns, WakeOne
  <2>2. turn = [k \in 0 .. N |-> IF k = 0 THEN s
                     ELSE IF HeadExpired(turn[k - 1], tick) THEN WakeHead(turn[k - 1]) ELSE turn[k - 1]]
    BY <2>1
  <2> HIDE DEF turn
  <2>3. QED
    BY <2>2 DEF Turns, WakeOne
<1> HIDE DEF turn, N
<1>3. N \in Nat
  BY DEF N
<1>4. turn[0] = s /\ \A k \in 1 .. N : turn[k] = WakeOne(turn[k - 1], tick)
  <2>1. \A k \in 0 .. N : turn[k] = IF k = 0 THEN s ELSE WakeOne(turn[k - 1], tick)
    BY <1>2 DEF Turns
  <2>2. QED
    BY <1>3, <2>1
<1>5. QED
  BY <1>1, <1>4 DEF N

\* x is s with the sleepers W made ready, each of them due: the waking loop's state.
Woken(x, s, R, A, W, tick) ==
  /\ x \in Sched /\ Queued(x, R \cup W) /\ Sleepers(x, A \ W)
  /\ x.wake = s.wake /\ x.current = s.current
  /\ W \subseteq A /\ \A t \in W : s.wake[t] <= tick

\* A turn of the loop wakes one sleeper more, unless none is due.
LEMMA WakeOneMore ==
  ASSUME NEW s \in Sched, NEW R \in SUBSET Tasks, NEW A \in SUBSET Tasks, R \cap A = {},
         NEW W, NEW x, NEW tick \in Nat, Woken(x, s, R, A, W, tick), HeadExpired(x, tick)
  PROVE  \E t \in A \ W : Woken(WakeOne(x, tick), s, R, A, W \cup {t}, tick)
<1>1. /\ x \in Sched /\ Queued(x, R \cup W) /\ Sleepers(x, A \ W)
      /\ x.wake = s.wake /\ x.current = s.current
      /\ W \subseteq A /\ \A t \in W : s.wake[t] <= tick
  BY DEF Woken
<1>2. PICK n, q : SleepList(x, A \ W, n, q)
  BY <1>1 DEF Sleepers
<1>3. /\ n \in Nat /\ n # 0 /\ q \in [1 .. n -> Tasks] /\ 1 \in 1 .. n /\ x.sleep = q[1]
      /\ s.wake[q[1]] <= tick
  <2>1. n \in Nat /\ q \in [1 .. n -> Tasks] /\ x.sleep = IF n = 0 THEN NoTask ELSE q[1]
    BY <1>2 DEF SleepList, Chain
  <2>2. x.sleep # NoTask /\ x.wake[x.sleep] <= tick
    BY DEF HeadExpired
  <2>3. QED
    BY <1>1, <2>1, <2>2
<1> DEFINE t == q[1]
           r == WakeHead(x)
<1>4. t \in A \ W
  <2>1. OnList(n, q, t) /\ t \in Tasks
    BY <1>3 DEF OnList
  <2>2. QED
    BY <1>2, <2>1 DEF SleepList
<1>5. /\ R \cup W \in SUBSET Tasks /\ A \ W \in SUBSET Tasks /\ (R \cup W) \cap (A \ W) = {}
      /\ (R \cup W) \cup {t} = R \cup (W \cup {t}) /\ (A \ W) \ {t} = A \ (W \cup {t})
  BY <1>1
<1> DEFINE R1 == R \cup W
           A1 == A \ W
<1>6. Roused(r, x, R1, A1, n, q, 1)
  <2>1. x \in Sched /\ Queued(x, R1) /\ SleepList(x, A1, n, q) /\ R1 \in SUBSET Tasks
        /\ A1 \in SUBSET Tasks /\ R1 \cap A1 = {} /\ n # 0
    BY <1>1, <1>2, <1>3, <1>5
  <2> HIDE DEF R1, A1
  <2>2. QED
    BY <2>1, WakeHeadSleepers
<1>7. /\ r \in Sched /\ Queued(r, R1 \cup {t}) /\ r.wake = x.wake /\ r.current = x.current
      /\ Sleepers(r, A1 \ {t})
  BY <1>6 DEF Roused, Sleepers
<1>8. WakeOne(x, tick) = r
  BY DEF WakeOne
<1> HIDE DEF r
<1>9. Woken(r, s, R, A, W \cup {t}, tick)
  BY <1>1, <1>3, <1>4, <1>5, <1>7 DEF Woken
<1>10. QED
  BY <1>4, <1>8, <1>9

\* When the head is not due, no sleeper is.
LEMMA NoneDue ==
  ASSUME NEW x \in Sched, NEW B \in SUBSET Tasks, Sleepers(x, B), NEW tick \in Nat,
         ~ HeadExpired(x, tick)
  PROVE  \A t \in B : ~ (x.wake[t] <= tick)
<1> TAKE t \in B
<1>1. PICK n, q : SleepList(x, B, n, q)
  BY DEF Sleepers
<1>2. n \in Nat /\ q \in [1 .. n -> Tasks] /\ x.sleep = IF n = 0 THEN NoTask ELSE q[1]
  BY <1>1 DEF SleepList, Chain
<1>3. PICK i \in 1 .. n : q[i] = t
  BY <1>1 DEF SleepList, OnList
<1>4. n # 0 /\ 1 \in 1 .. n /\ x.sleep = q[1] /\ q[1] # NoTask
  BY <1>2, <1>3, QueueAssumption
<1>5. ~ (x.wake[q[1]] <= tick)
  BY <1>4 DEF HeadExpired
<1>6. i = 1 \/ x.wake[q[1]] <= x.wake[q[i]]
  BY <1>1, <1>2, <1>3, <1>4 DEF SleepList
<1>7. x.wake[q[1]] \in Nat /\ x.wake[q[i]] \in Nat
  BY <1>2, <1>3, <1>4 DEF Sched
<1>8. QED
  BY <1>3, <1>5, <1>6, <1>7

\* The sleepers whose wake tick has come.
Due(s, A, tick) == {t \in A : s.wake[t] <= tick}

\* The waking loop makes ready exactly the sleepers that are due.
LEMMA WakeExpiredSleepers ==
  ASSUME NEW s \in Sched, NEW R \in SUBSET Tasks, NEW A \in SUBSET Tasks, R \cap A = {},
         Queued(s, R), Sleepers(s, A), NEW tick \in Nat
  PROVE  Woken(WakeExpired(s, tick), s, R, A, Due(s, A, tick), tick)
<1> DEFINE N == Cardinality(Tasks)
           r == WakeExpired(s, tick)
<1>1. N \in Nat /\ \A W \in SUBSET Tasks : IsFiniteSet(W) /\ Cardinality(W) \in Nat
                                           /\ Cardinality(W) <= N /\ (Cardinality(W) = N => W = Tasks)
  BY QueueAssumption, FS_CardinalityType, FS_Subset
<1>2. Woken(s, s, R, A, {}, tick)
  <2>1. R \cup {} = R /\ A \ {} = A
    OBVIOUS
  <2>2. QED
    BY <2>1 DEF Woken
<1>3. \E W : Woken(r, s, R, A, W, tick) /\ ~ HeadExpired(r, tick)
  <2>1. CASE ~ HeadExpired(s, tick)
    BY <1>2, <2>1 DEF WakeExpired
  <2>2. CASE HeadExpired(s, tick)
    <3>1. PICK turn : /\ turn[0] = s
                      /\ \A k \in 1 .. N : turn[k] = WakeOne(turn[k - 1], tick)
                      /\ r = turn[N]
      BY <1>1, <2>2, WakeExpiredTurns
    <3> DEFINE Far(k, W) == /\ Woken(turn[k], s, R, A, W, tick)
                            /\ ~ HeadExpired(turn[k], tick) \/ Cardinality(W) >= k
               S == {k \in 0 .. N : \E W : Far(k, W)}
    <3> HIDE DEF N, r
    <3>2. 0 \in S
      <4>1. Cardinality({}) = 0
        BY FS_EmptySet
      <4>2. Far(0, {})
        BY <1>2, <3>1, <4>1
      <4> HIDE DEF Far
      <4>3. QED
        BY <1>1, <4>2
    <3>3. ASSUME NEW k \in 0 .. N, k \in S, k < N
          PROVE  k + 1 \in S
      <4>1. PICK W : Far(k, W)
        BY <3>3
      <4>2. k + 1 \in 1 .. N /\ (k + 1) - 1 = k /\ k + 1 \in 0 .. N
        BY <3>3, <1>1
      <4>3. turn[k + 1] = WakeOne(turn[k], tick)
        BY <3>1, <4>2
      <4>4. CASE ~ HeadExpired(turn[k], tick)
        <5>1. turn[k + 1] = turn[k]
          BY <4>3, <4>4 DEF WakeOne
        <5>2. Far(k + 1, W)
          BY <4>1, <4>4, <5>1
        <5> HIDE DEF Far
        <5>3. QED
          BY <4>2, <5>2
      <4>5. CASE HeadExpired(turn[k], tick)
        <5>1. PICK t \in A \ W : Woken(turn[k + 1], s, R, A, W \cup {t}, tick)
          <6> DEFINE x == turn[k]
          <6>1. Woken(x, s, R, A, W, tick) /\ HeadExpired(x, tick)
            BY <4>1, <4>5
          <6> HIDE DEF x
          <6>2. \E t \in A \ W : Woken(WakeOne(x, tick), s, R, A, W \cup {t}, tick)
            BY <6>1, WakeOneMore
          <6>3. QED
            BY <6>2, <4>3 DEF x
        <5>2. W \subseteq A /\ W \in SUBSET Tasks
          BY <4>1 DEF Woken
        <5>3. Cardinality(W \cup {t}) = Cardinality(W) + 1
          <6>1. IsFiniteSet(W)
            BY <1>1, <5>2
          <6>2. QED
            BY <5>1, <6>1, FS_AddElement
        <5>4. Cardinality(W) \in Nat /\ Cardinality(W) >= k
          BY <1>1, <4>1, <4>5, <5>2
        <5>5. Cardinality(W \cup {t}) >= k + 1
          BY <5>3, <5>4
        <5>6. Far(k + 1, W \cup {t})
          BY <5>1, <5>5
        <5> HIDE DEF Far
        <5>7. QED
          BY <4>2, <5>6
      <4>6. QED
        BY <4>4, <4>5
    <3> HIDE DEF S
    <3>4. \A k \in 0 .. N : k \in S
      BY <1>1, <3>2, <3>3, TurnInduction
    <3>5. PICK W : Far(N, W)
      <4>1. N \in 0 .. N
        BY <1>1
      <4>2. QED
        BY <3>4, <4>1 DEF S
    <3>6. CASE HeadExpired(r, tick)
      <4>1. W \in SUBSET Tasks /\ Cardinality(W) >= N /\ W \subseteq A
        BY <3>1, <3>5, <3>6 DEF Woken
      <4>2. Cardinality(W) = N
        BY <1>1, <4>1
      <4>3. A \ W = {}
        BY <1>1, <4>1, <4>2
      <4>4. PICK t \in A \ W : Woken(WakeOne(r, tick), s, R, A, W \cup {t}, tick)
        <5>1. Woken(r, s, R, A, W, tick)
          BY <3>1, <3>5
        <5>2. QED
          BY <5>1, <3>6, WakeOneMore
      <4>5. QED
        BY <4>3, <4>4
    <3>7. QED
      BY <3>1, <3>5, <3>6
  <2>3. QED
    BY <2>1, <2>2
<1> HIDE DEF r
<1>4. PICK W : Woken(r, s, R, A, W, tick) /\ ~ HeadExpired(r, tick)
  BY <1>3
<1>5. /\ r \in Sched /\ Sleepers(r, A \ W) /\ r.wake = s.wake
      /\ W \subseteq A /\ \A t \in W : s.wake[t] <= tick
  BY <1>4 DEF Woken
<1>6. \A t \in A \ W : ~ (s.wake[t] <= tick)
  <2>1. A \ W \in SUBSET Tasks
    OBVIOUS
  <2>2. QED
    BY <1>4, <1>5, <2>1, NoneDue
<1>7. W = Due(s, A, tick)
  BY <1>5, <1>6 DEF Due
<1>8. QED
  BY <1>4, <1>7 DEF r

\* mk_scheduler_tick: the due sleepers wake, the quantum is accounted for.
LEMMA TickSleepers ==
  ASSUME NEW s \in Sched, NEW R \in SUBSET Tasks, NEW A \in SUBSET Tasks, R \cap A = {},
         Queued(s, R), Sleepers(s, A), NEW tick \in Nat, NEW D, D = Due(s, A, tick)
  PROVE  /\ Tick(s, tick) \in Sched /\ Queued(Tick(s, tick), R \cup D)
         /\ Sleepers(Tick(s, tick), A \ D)
         /\ \A t \in A \ D : Tick(s, tick).wake[t] = s.wake[t]
<1> DEFINE x == WakeExpired(s, tick)
<1>1. /\ x \in Sched /\ Queued(x, R \cup D) /\ Sleepers(x, A \ D) /\ x.wake = s.wake
  BY WakeExpiredSleepers DEF Woken
<1>2. /\ R \cup D \in SUBSET Tasks /\ A \ D \in SUBSET Tasks /\ (R \cup D) \cap (A \ D) = {}
  BY DEF Due
<1>3. Tick(s, tick) = Account(x)
  BY DEF Tick
<1> DEFINE R1 == R \cup D
           A1 == A \ D
<1> HIDE DEF x, R1, A1
<1>4. /\ x \in Sched /\ Queued(x, R1) /\ Sleepers(x, A1) /\ x.wake = s.wake
      /\ R1 \in SUBSET Tasks /\ A1 \in SUBSET Tasks /\ R1 \cap A1 = {}
  BY <1>1, <1>2 DEF R1, A1
<1>5. Account(x) \in Sched /\ Queued(Account(x), R1) /\ SameSleepers(Account(x), x, A1)
  BY <1>4, AccountQueued, AccountSleepers
<1>6. Sleepers(Account(x), A1)
  BY <1>4, <1>5, SleepersFrame
<1>7. \A t \in A1 : Account(x).wake[t] = s.wake[t]
  BY <1>4, <1>5 DEF SameSleepers
<1>8. QED
  BY <1>3, <1>5, <1>6, <1>7 DEF R1, A1

\* The choice of the next task, and the start of one, touch no list.
LEMMA RunFrame ==
  ASSUME NEW s \in Sched, NEW R \in SUBSET Tasks, NEW A \in SUBSET Tasks, Queued(s, R),
         NEW c \in Link, NEW state \in [Tasks -> TaskState],
         NEW r, r = [s EXCEPT !.state = state, !.current = c]
  PROVE  r \in Sched /\ Queued(r, R) /\ SameSleepers(r, s, A)
<1>1. /\ r \in Sched /\ r.head = s.head /\ r.tail = s.tail /\ r.bitmap = s.bitmap
      /\ r.count = s.count /\ r.next = s.next /\ r.prev = s.prev /\ r.prio = s.prio
      /\ r.sleep = s.sleep /\ r.wake = s.wake
  BY DEF Sched
<1>2. Queued(r, R)
  BY <1>1, QueuedFrame
<1>3. QED
  BY <1>1, <1>2 DEF SameSleepers

\* There is a highest level whose bit is set.
LEMMA TopExists ==
  ASSUME NEW s \in Sched, s.bitmap # {}
  PROVE  \E p \in s.bitmap : \A q \in s.bitmap : q <= p
<1> DEFINE S == {NPrio - p : p \in s.bitmap}
<1>1. \A p \in s.bitmap : p \in Nat /\ p < NPrio
  BY QueueAssumption DEF Sched, Prio
<1>2. S \in SUBSET Nat /\ S # {}
  BY <1>1, QueueAssumption
<1>3. PICK x \in S : \A y \in S : x <= y
  <2> HIDE DEF S
  <2>1. QED
    BY <1>2, LeastNat
<1>4. PICK p \in s.bitmap : x = NPrio - p
  BY <1>3
<1>5. ASSUME NEW q \in s.bitmap
      PROVE  q <= p
  <2>1. NPrio - p <= NPrio - q
    BY <1>3, <1>4
  <2>2. QED
    BY <1>1, <1>4, <2>1, QueueAssumption
<1>6. QED
  BY <1>4, <1>5

LEMMA PickNextSleepers ==
  ASSUME NEW s \in Sched, NEW R \in SUBSET Tasks, NEW A \in SUBSET Tasks, Queued(s, R)
  PROVE  /\ PickNext(s) \in Sched /\ Queued(PickNext(s), R)
         /\ SameSleepers(PickNext(s), s, A)
<1>1. CASE s.bitmap = {}
  BY <1>1 DEF PickNext, SameSleepers
<1>2. CASE s.bitmap # {}
  <2> DEFINE top == CHOOSE p \in s.bitmap : \A q \in s.bitmap : q <= p
             next == s.head[top]
             state == IF next = NoTask THEN s.state ELSE [s.state EXCEPT ![next] = "RUNNING"]
  <2>1. \E p \in s.bitmap : \A q \in s.bitmap : q <= p
    BY <1>2, TopExists
  <2>2. top \in Prio
    <3>1. top \in s.bitmap
      BY <2>1
    <3> HIDE DEF top
    <3>2. QED
      BY <3>1 DEF Sched
  <2> HIDE DEF top
  <2>3. next \in Link
    BY <2>2 DEF Sched
  <2>4. state \in [Tasks -> TaskState]
    <3>1. next # NoTask => next \in Tasks
      BY <2>3 DEF Link
    <3> HIDE DEF next
    <3>2. s.state \in [Tasks -> TaskState]
      BY DEF Sched
    <3>3. "RUNNING" \in TaskState
      BY DEF TaskState
    <3>4. QED
      BY <3>1, <3>2, <3>3
  <2>5. PickNext(s) = [s EXCEPT !.state = state, !.current = next]
    <3>1. PickNext(s) = [s EXCEPT !.current = next, !.state = state]
      BY <1>2 DEF PickNext, top
    <3> HIDE DEF next, state
    <3>2. QED
      BY <3>1 DEF Sched
  <2> HIDE DEF next, state
  <2>6. QED
    BY <2>3, <2>4, <2>5, RunFrame
<1>3. QED
  BY <1>1, <1>2
=============================================================================
