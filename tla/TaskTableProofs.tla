-------------------------- MODULE TaskTableProofs ---------------------------
(***************************************************************************)
(* For any number of slots, handles and priorities, any boot list, and     *)
(* whether or not services delete other tasks: the ready lists and counts  *)
(* describe exactly the live slots, and each live slot is owned by the     *)
(* port task that was given it.  Where no task deletes another, also: each *)
(* reservation has its creator, the current task has its slot, and a boot  *)
(* that fails leaves nothing behind.                                       *)
(***************************************************************************)
EXTENDS TaskTable, ReadyQueueProofs

Creating == {"port", "publish"}
Deleting == {"unport", "reclaim"}

\* A context inside a call works on a slot, and a port task was given one.
Pointers ==
  /\ \A c \in Contexts : op[c].pc \in Creating \cup Deleting => op[c].target \in Slots
  /\ \A h \in Handles : Alive(h) => arg[h] \in Slots

\* A slot being created is RESERVED and has no second creator.
Reservations ==
  /\ \A c \in Contexts : op[c].pc \in Creating => slot[op[c].target] = "RESERVED"
  /\ \A c, d \in Contexts :
       op[c].pc \in Creating /\ op[d].pc \in Creating /\ op[c].target = op[d].target => c = d

\* The inductive invariant behind ReadyListsExact.
QueueInv ==
  /\ TypeOK
  /\ Pointers
  /\ Reservations
  /\ sch.sleep = NoTask
  /\ ReadyListsExact

\* Before mk_init nothing has happened.
Dormant ==
  /\ boot.phase = "init" => kernel = "off"
  /\ kernel = "off" => /\ sch = InitSched /\ Live = {}
                       /\ op[Boot].pc = "body" /\ \A h \in Handles : ~Alive(h)

\* A registry with no slot in use has empty lists.
LEMMA QueueInvInit == Init => QueueInv
<1> SUFFICES ASSUME Init PROVE QueueInv
  OBVIOUS
<1> USE DEF Init
<1>1. sch \in Sched
  BY QueueAssumption DEF InitSched, Sched, Link, TaskState
<1>2. op \in [Contexts -> Call]
  BY DEF Call, Gone, AtBody, At, Pc, Link
<1>3. TypeOK
  BY <1>1, <1>2 DEF TypeOK, SlotState, Link, Phase
<1>4. Pointers /\ Reservations
  BY TaskTableAssumption DEF Pointers, Reservations, Contexts, Gone, AtBody, At, Alive, Creating, Deleting
<1>5. Live = {}
  BY DEF Live
<1>6. ReadyListsExact
  <2>1. LevelsWellFormed(sch, {}) /\ LinksWellFormed(sch, {}) /\ BitmapExact(sch)
    BY DEF InitSched, LevelsWellFormed, LinksWellFormed, BitmapExact
  <2>2. Cardinality({}) = 0
    BY FS_EmptySet
  <2>3. sch.count = 0
    BY DEF InitSched
  <2>4. QED
    BY <1>5, <2>1, <2>2, <2>3 DEF ReadyListsExact, Queued, CountExact
<1>7. QED
  BY <1>3, <1>4, <1>6 DEF QueueInv, InitSched

-----------------------------------------------------------------------------
\* The target and the links of a context in the middle of a call, and the boot
\* thread's bookkeeping, stay in range.
LEMMA BootType ==
  ASSUME TypeOK, NEW c, NEW s \in Slots \cup {NoTask}, Created(c, s) \/ Deleted(c)
  PROVE  boot' \in [phase : Phase, next : Nat \ {0}, made : Seq(Slots)]
<1>1. CASE Created(c, s)
  <2>1. s # NoTask => Append(boot.made, s) \in Seq(Slots)
    BY DEF TypeOK
  <2>2. boot.made \in Seq(Slots) /\ boot.next + 1 \in Nat \ {0}
    BY DEF TypeOK
  <2>3. QED
    BY <1>1, <2>1, <2>2 DEF TypeOK, Created, Phase
<1>2. CASE Deleted(c)
  <2>1. boot.made \in Seq(Slots)
    BY DEF TypeOK
  <2>2. Front(boot.made) \in Seq(Slots)
    BY <2>1 DEF Front
  <2>3. QED
    BY <1>2, <2>2 DEF TypeOK, Deleted
<1>3. QED
  BY <1>1, <1>2

\* mk_task_create_ext, first critical section: the slot taken is in no list, and
\* filling its control block leaves every queued task alone.
LEMMA CreateReserveInv ==
  ASSUME QueueInv, NEW c \in Contexts, NEW p \in Nat, NEW e \in Entries, CreateReserve(c, p, e)
  PROVE  QueueInv'
<1>1. PICK s \in First(Free) :
        /\ slot' = [slot EXCEPT ![s] = "RESERVED"]
        /\ handle' = [handle EXCEPT ![s] = NoHandle]
        /\ entry' = [entry EXCEPT ![s] = e]
        /\ sch' = NewTcb(sch, s, p)
        /\ op' = [op EXCEPT ![c] = At("port", s)]
  BY DEF CreateReserve
<1>2. s \in Slots /\ slot[s] = "FREE"
  BY DEF First, Free
<1>3. UNCHANGED <<liveCount, kernel, arg, boot>> /\ op[c].pc = "body"
  BY DEF CreateReserve
<1>4. sch' \in Sched
  BY <1>1, <1>2, NewTcbFields DEF QueueInv, TypeOK, Slots
<1>5. At("port", s) = [pc |-> "port", target |-> s, port |-> NoHandle, back |-> "body"]
  BY DEF At
<1>6. TypeOK'
  BY <1>1, <1>2, <1>3, <1>4, <1>5 DEF QueueInv, TypeOK, SlotState, Call, Pc, Link, Slots
<1>7. Pointers'
  BY <1>1, <1>2, <1>3, <1>5 DEF QueueInv, TypeOK, Pointers, Alive, Creating, Deleting, Contexts
<1>8. Reservations'
  BY <1>1, <1>2, <1>3, <1>5 DEF QueueInv, TypeOK, Pointers, Reservations, Creating, Deleting
<1>9. Live' = Live
  BY <1>1, <1>2 DEF QueueInv, TypeOK, Live
<1>10. Queued(sch', Live)
  <2>1. s \notin Live
    BY <1>2 DEF Live
  <2>2. Queued(sch, Live) /\ Live \in SUBSET Tasks /\ sch \in Sched
    BY DEF QueueInv, ReadyListsExact, Live, Slots, TypeOK
  <2>3. QED
    BY <1>1, <1>2, <2>1, <2>2, TcbQueued DEF Slots
<1>11. sch'.sleep = NoTask
  <2>1. NewTcb(sch, s, p).sleep = sch.sleep
    <3>1. sch \in Sched /\ s \in Tasks
      BY <1>2 DEF QueueInv, TypeOK, Slots
    <3>2. QED
      BY <3>1, NewTcbFields
  <2>2. QED
    BY <1>1, <2>1 DEF QueueInv
<1>12. QED
  BY <1>3, <1>6, <1>7, <1>8, <1>9, <1>10, <1>11 DEF QueueInv, ReadyListsExact

\* A creation refused for want of a slot changes nothing of the registry.
LEMMA CreateFullInv ==
  ASSUME QueueInv, NEW c \in Contexts, CreateFull(c)
  PROVE  QueueInv'
<1>1. boot' \in [phase : Phase, next : Nat \ {0}, made : Seq(Slots)]
  BY BootType DEF CreateFull, QueueInv
<1>2. QED
  BY <1>1 DEF CreateFull, QueueInv, TypeOK, Pointers, Reservations, ReadyListsExact, Live, Alive

\* The port task starts outside the lock and is told its slot, nothing else.
LEMMA CreatePortInv ==
  ASSUME QueueInv, NEW c \in Contexts, NEW h \in Handles, CreatePort(c, h)
  PROVE  QueueInv'
<1> USE DEF CreatePort
<1>1. c # h /\ op[c].pc = "port" /\ op[h].pc = "none" /\ op[c].target \in Slots
  BY DEF Alive, QueueInv, Pointers, Creating
<1>2. /\ op' \in [Contexts -> Call]
      /\ op'[c].pc = "publish" /\ op'[c].target = op[c].target
      /\ op'[h].pc = "gate"
      /\ \A d \in Contexts \ {c, h} : op'[d] = op[d]
  <2> DEFINE new == [pc |-> "publish", target |-> op[c].target, port |-> h, back |-> "body"]
             born == [pc |-> "gate", target |-> NoTask, port |-> NoHandle, back |-> "body"]
  <2>1. c \in Contexts /\ h \in Contexts
    BY DEF Contexts
  <2>2. [At("publish", op[c].target) EXCEPT !.port = h] = new
    BY DEF At
  <2>3. op' = [op EXCEPT ![c] = new, ![h] = born]
    BY <2>1, <2>2, <1>1 DEF At, QueueInv, TypeOK
  <2>4. new \in Call /\ born \in Call
    BY <2>1 DEF QueueInv, TypeOK, Call, Pc, Link
  <2>5. new.pc = "publish" /\ new.target = op[c].target /\ born.pc = "gate"
    OBVIOUS
  <2> HIDE DEF new, born
  <2>6. QED
    BY <2>1, <2>3, <2>4, <2>5, <1>1 DEF QueueInv, TypeOK
<1>3. TypeOK'
  BY <1>1, <1>2 DEF QueueInv, TypeOK, Link, Slots
<1>4. Pointers'
  BY <1>1, <1>2 DEF QueueInv, TypeOK, Pointers, Alive, Creating, Deleting, Contexts
<1>5. Reservations'
  <2>1. \A d \in Contexts : op'[d].pc \in Creating =>
          op[d].pc \in Creating /\ op'[d].target = op[d].target
    BY <1>1, <1>2 DEF Creating
  <2>2. UNCHANGED slot
    OBVIOUS
  <2>3. QED
    BY <2>1, <2>2 DEF QueueInv, Reservations
<1>6. QED
  BY <1>3, <1>4, <1>5 DEF QueueInv, ReadyListsExact, Live

\* A port task that could not be created leaves the reservation with its creator.
LEMMA CreatePortFailsInv ==
  ASSUME QueueInv, NEW c \in Contexts, CreatePortFails(c)
  PROVE  QueueInv'
<1> USE DEF CreatePortFails
<1>1. TypeOK'
  BY DEF QueueInv, TypeOK, Call, Pc
<1>2. Pointers'
  BY DEF QueueInv, TypeOK, Pointers, Alive, Creating, Deleting, Contexts
<1>3. Reservations'
  BY DEF QueueInv, TypeOK, Reservations, Creating
<1>4. QED
  BY <1>1, <1>2, <1>3 DEF QueueInv, ReadyListsExact, Live

\* mk_task_create_ext, last critical section: the slot, in no list until now, is
\* appended, and both counts grow with the set of live slots.
LEMMA CreatePublishInv ==
  ASSUME QueueInv, NEW c \in Contexts, CreatePublish(c)
  PROVE  QueueInv'
<1> DEFINE s == op[c].target
<1> USE DEF CreatePublish
<1>1. /\ op[c].pc = "publish" /\ s \in Slots /\ slot[s] = "RESERVED" /\ op[c].port \in Handles
      /\ op' = [op EXCEPT ![c] = [pc |-> "body", target |-> NoTask, port |-> NoHandle, back |-> "body"]]
  BY DEF QueueInv, TypeOK, Call, Pointers, Reservations, Creating, AtBody, At
<1>2. sch' \in Sched
  BY <1>1, AddReadyType DEF QueueInv, TypeOK, Slots
<1>3. boot' \in [phase : Phase, next : Nat \ {0}, made : Seq(Slots)]
  BY <1>1, BootType DEF QueueInv
<1>4. TypeOK'
  BY <1>1, <1>2, <1>3 DEF QueueInv, TypeOK, SlotState, Call, Pc, Link
<1>5. Pointers'
  BY <1>1 DEF QueueInv, TypeOK, Pointers, Alive, Creating, Deleting, Contexts
<1>6. Reservations'
  BY <1>1 DEF QueueInv, TypeOK, Pointers, Reservations, Creating, Deleting
<1>7. Live' = Live \cup {s} /\ s \notin Live /\ Live \in SUBSET Tasks
  BY <1>1 DEF QueueInv, TypeOK, Live, Slots
<1>8. Queued(sch', Live')
  BY <1>1, <1>7, AddReadyQueued DEF QueueInv, TypeOK, ReadyListsExact, Slots
<1>9. liveCount' = Cardinality(Live')
  BY <1>7, FS_AddElement, FS_Subset, QueueAssumption DEF QueueInv, ReadyListsExact
<1>10. sch'.sleep = NoTask
  BY <1>1, AddReadyFields DEF QueueInv, TypeOK, Slots
<1>11. QED
  BY <1>4, <1>5, <1>6, <1>8, <1>9, <1>10 DEF QueueInv, ReadyListsExact

\* memset of a slot that is not live disturbs no live slot.
LEMMA ZeroQueues ==
  ASSUME QueueInv, NEW s \in Slots, slot[s] # "LIVE", Zero(s, "FREE")
  PROVE  /\ sch' \in Sched /\ sch'.sleep = NoTask /\ Live' = Live /\ Queued(sch', Live)
         /\ slot' \in [Slots -> SlotState]
         /\ handle' \in [Slots -> Handles \cup {NoHandle}]
         /\ entry' \in [Slots -> Entries \cup {"none"}]
<1>1. sch \in Sched /\ s \in Tasks /\ Live \in SUBSET Tasks /\ s \notin Live /\ Queued(sch, Live)
  BY DEF QueueInv, TypeOK, Slots, Live, ReadyListsExact
<1>2. sch' = BlankTcb(sch, s)
  BY DEF Zero
<1>3. BlankTcb(sch, s) \in Sched /\ BlankTcb(sch, s).sleep = sch.sleep
  BY <1>1, BlankTcbFields
<1>4. Queued(BlankTcb(sch, s), Live)
  BY <1>1, TcbQueued
<1>5. slot' = [slot EXCEPT ![s] = "FREE"]
  BY DEF Zero
<1>6. Live' = Live
  BY <1>5 DEF QueueInv, TypeOK, Live
<1>7. QED
  BY <1>2, <1>3, <1>4, <1>5, <1>6 DEF QueueInv, TypeOK, Zero, SlotState

\* Giving a reservation back zeroes a control block that no list links.
LEMMA CreateUndoInv ==
  ASSUME QueueInv, NEW c \in Contexts, CreateUndo(c)
  PROVE  QueueInv'
<1> DEFINE s == op[c].target
<1>1. /\ op[c].pc = "publish" /\ s \in Slots /\ slot[s] = "RESERVED" /\ Zero(s, "FREE")
      /\ op' = [op EXCEPT ![c] = [pc |-> "body", target |-> NoTask, port |-> NoHandle, back |-> "body"]]
      /\ UNCHANGED <<liveCount, kernel, arg>>
  BY DEF CreateUndo, QueueInv, Pointers, Reservations, Creating, AtBody, At
<1>2. /\ sch' \in Sched /\ sch'.sleep = NoTask /\ Live' = Live /\ Queued(sch', Live)
      /\ slot' \in [Slots -> SlotState]
      /\ handle' \in [Slots -> Handles \cup {NoHandle}]
      /\ entry' \in [Slots -> Entries \cup {"none"}]
  BY <1>1, ZeroQueues
<1>3. boot' \in [phase : Phase, next : Nat \ {0}, made : Seq(Slots)]
  BY BootType DEF QueueInv, CreateUndo
<1>4. TypeOK'
  BY <1>1, <1>2, <1>3 DEF QueueInv, TypeOK, Call, Pc, Link
<1>5. Pointers'
  BY <1>1 DEF QueueInv, TypeOK, Pointers, Alive, Creating, Deleting, Contexts
<1>6. Reservations'
  BY <1>1 DEF QueueInv, TypeOK, Pointers, Reservations, Creating, Deleting, Zero
<1>7. QED
  BY <1>1, <1>2, <1>4, <1>5, <1>6 DEF QueueInv, ReadyListsExact

\* mk_task_delete, first critical section: only a live slot passes, which is linked
\* exactly once, so unlinking it leaves exactly the others.
LEMMA DeleteLockInv ==
  ASSUME QueueInv, NEW c \in Contexts, op[c].pc \in {"body", "exit"}, NEW s \in Slots,
         NEW back \in {"body", "exit", "abort"}, DeleteLock(c, s, back)
  PROVE  QueueInv'
<1> DEFINE marked == [sch EXCEPT !.state[s] = "DELETED"]
<1>1. /\ slot[s] = "LIVE" /\ slot' = [slot EXCEPT ![s] = "DELETING"]
      /\ liveCount' = IF liveCount > 0 THEN liveCount - 1 ELSE 0
      /\ sch' = RemoveReady(marked, s)
      /\ op' = [op EXCEPT ![c] = [pc |-> "unport", target |-> s, port |-> handle[s], back |-> back]]
      /\ UNCHANGED <<handle, entry, kernel, arg, boot>>
  BY DEF DeleteLock
<1>2. s \in Live /\ Live \in SUBSET Tasks /\ s \in Tasks /\ sch \in Sched /\ Queued(sch, Live)
  BY <1>1 DEF Live, Slots, QueueInv, TypeOK, ReadyListsExact
<1>3. marked \in Sched /\ Queued(marked, Live) /\ marked.sleep = sch.sleep
  BY <1>2, StateFrame DEF TaskState
<1> HIDE DEF marked
<1>4. sch' \in Sched /\ Queued(sch', Live \ {s}) /\ sch'.sleep = NoTask
  BY <1>1, <1>2, <1>3, RemoveReadyType, RemoveReadyQueued, RemoveReadyFields DEF QueueInv
<1>5. Live' = Live \ {s}
  BY <1>1 DEF QueueInv, TypeOK, Live
<1>6. liveCount' = Cardinality(Live')
  <2>1. IsFiniteSet(Live)
    BY <1>2, QueueAssumption, FS_Subset
  <2>2. Cardinality(Live) \in Nat /\ Cardinality(Live \ {s}) = Cardinality(Live) - 1
    BY <1>2, <2>1, FS_RemoveElement, FS_CardinalityType
  <2>3. Cardinality(Live) > 0
    BY <1>2, <2>1, <2>2, FS_EmptySet
  <2>4. QED
    BY <1>1, <1>5, <2>2, <2>3 DEF QueueInv, ReadyListsExact
<1>7. TypeOK'
  BY <1>1, <1>2, <1>4 DEF QueueInv, TypeOK, SlotState, Call, Pc, Link, Slots
<1>8. Pointers'
  BY <1>1 DEF QueueInv, TypeOK, Pointers, Alive, Creating, Deleting, Contexts
<1>9. Reservations'
  BY <1>1 DEF QueueInv, TypeOK, Pointers, Reservations, Creating, Deleting
<1>10. QED
  BY <1>4, <1>5, <1>6, <1>7, <1>8, <1>9 DEF QueueInv, ReadyListsExact

\* A delete of a slot that is not live changes nothing of the registry.
LEMMA DeleteRefusedInv ==
  ASSUME QueueInv, NEW c \in Contexts, op[c].pc \in {"body", "exit"}, NEW s \in Slots,
         NEW back \in {"body", "exit", "abort"}, DeleteRefused(c, s, back)
  PROVE  QueueInv'
<1>1. op' = [op EXCEPT ![c] = [pc |-> back, target |-> NoTask, port |-> NoHandle, back |-> "body"]]
  BY DEF DeleteRefused, At
<1>2. boot' \in [phase : Phase, next : Nat \ {0}, made : Seq(Slots)]
  BY BootType DEF QueueInv, DeleteRefused
<1>3. UNCHANGED <<sch, slot, handle, entry, liveCount, kernel, arg>>
  BY DEF DeleteRefused
<1>4. TypeOK'
  BY <1>1, <1>2, <1>3 DEF QueueInv, TypeOK, Call, Pc, Link
<1>5. Pointers'
  BY <1>1, <1>3 DEF QueueInv, TypeOK, Pointers, Alive, Creating, Deleting, Contexts
<1>6. Reservations'
  BY <1>1, <1>3 DEF QueueInv, TypeOK, Reservations, Creating
<1>7. QED
  BY <1>3, <1>4, <1>5, <1>6 DEF QueueInv, ReadyListsExact, Live

\* The end of a port task touches no slot; its calls, if any, end with it.
LEMMA DeletePortInv ==
  ASSUME QueueInv, NEW c \in Contexts, DeletePort(c)
  PROVE  QueueInv'
<1> DEFINE h == op[c].port
<1>1. /\ op[c].pc = "unport" /\ op[c] \in Call /\ h \in Handles \cup {NoHandle} /\ op[c].target \in Slots
      /\ UNCHANGED <<sch, slot, handle, entry, liveCount, kernel, boot>>
      /\ arg' = [x \in Handles |-> IF x = h THEN NoTask ELSE arg[x]]
  BY DEF DeletePort, QueueInv, TypeOK, Pointers, Call, Deleting
<1>2. /\ op' \in [Contexts -> Call]
      /\ op'[c].pc \in {"none", "reclaim"} /\ (op'[c].pc = "reclaim" => op'[c].target = op[c].target)
      /\ h \in Handles => op'[h].pc = "none"
      /\ \A d \in Contexts \ {c} : op'[d] = op[d] \/ op'[d].pc = "none"
  <2>1. Gone \in Call /\ Gone.pc = "none"
    BY DEF Gone, At, Call, Pc, Link
  <2>2. \A r \in Call : [r EXCEPT !.pc = "reclaim"] \in Call
                        /\ [r EXCEPT !.pc = "reclaim"].pc = "reclaim"
                        /\ [r EXCEPT !.pc = "reclaim"].target = r.target
    BY DEF Call, Pc
  <2>3. op \in [Contexts -> Call] /\ Handles \subseteq Contexts /\ NoHandle \notin Contexts
    BY TaskTableAssumption DEF QueueInv, TypeOK, Contexts
  <2>4. CASE h = c
    BY <2>1, <2>3, <2>4, <1>1 DEF DeletePort
  <2>5. CASE h # c /\ h = NoHandle
    BY <2>2, <2>3, <2>5, <1>1 DEF DeletePort
  <2>6. CASE h # c /\ h # NoHandle
    BY <2>1, <2>2, <2>3, <2>6, <1>1 DEF DeletePort
  <2>7. QED
    BY <2>4, <2>5, <2>6
<1>3. TypeOK'
  BY <1>1, <1>2 DEF QueueInv, TypeOK, Link
<1>4. Pointers'
  BY <1>1, <1>2 DEF QueueInv, TypeOK, Pointers, Alive, Creating, Deleting, Contexts
<1>5. Reservations'
  BY <1>1, <1>2 DEF QueueInv, Reservations, Creating
<1>6. QED
  BY <1>1, <1>3, <1>4, <1>5 DEF QueueInv, ReadyListsExact, Live

\* Reclaiming zeroes a slot only while it is DELETING, hence in no list.
LEMMA DeleteReclaimInv ==
  ASSUME QueueInv, NEW c \in Contexts, DeleteReclaim(c)
  PROVE  QueueInv'
<1> DEFINE s == op[c].target
<1>1. /\ op[c].pc = "reclaim" /\ s \in Slots /\ op[c].back \in {"body", "exit", "abort"}
      /\ op' = [op EXCEPT ![c] = [pc |-> op[c].back, target |-> NoTask, port |-> NoHandle, back |-> "body"]]
      /\ UNCHANGED <<liveCount, kernel, arg>>
  BY DEF DeleteReclaim, QueueInv, TypeOK, Call, Pointers, Deleting, At
<1>2. /\ sch' \in Sched /\ sch'.sleep = NoTask /\ Live' = Live /\ Queued(sch', Live)
      /\ slot' \in [Slots -> SlotState]
      /\ handle' \in [Slots -> Handles \cup {NoHandle}]
      /\ entry' \in [Slots -> Entries \cup {"none"}]
      /\ \A u \in Slots : slot[u] = "RESERVED" => slot'[u] = "RESERVED"
  <2>1. CASE slot[s] = "DELETING" /\ handle[s] = op[c].port
    <3>1. Zero(s, "FREE")
      BY <2>1 DEF DeleteReclaim
    <3>2. slot' = [slot EXCEPT ![s] = "FREE"]
      BY <3>1 DEF Zero
    <3>3. QED
      BY <1>1, <2>1, <3>1, <3>2, ZeroQueues DEF QueueInv, TypeOK
  <2>2. CASE ~(slot[s] = "DELETING" /\ handle[s] = op[c].port)
    <3>1. UNCHANGED <<sch, slot, handle, entry>>
      BY <2>2 DEF DeleteReclaim
    <3>2. QED
      BY <3>1 DEF QueueInv, TypeOK, ReadyListsExact, Live
  <2>3. QED
    BY <2>1, <2>2
<1>3. boot' \in [phase : Phase, next : Nat \ {0}, made : Seq(Slots)]
  BY BootType DEF QueueInv, DeleteReclaim
<1>4. TypeOK'
  BY <1>1, <1>2, <1>3 DEF QueueInv, TypeOK, Call, Pc, Link
<1>5. Pointers'
  BY <1>1 DEF QueueInv, TypeOK, Pointers, Alive, Creating, Deleting, Contexts
<1>6. Reservations'
  BY <1>1, <1>2 DEF QueueInv, TypeOK, Pointers, Reservations, Creating, Deleting
<1>7. QED
  BY <1>1, <1>2, <1>4, <1>5, <1>6 DEF QueueInv, ReadyListsExact

-----------------------------------------------------------------------------
\* A wrapper step changes one pc and at most one store of the scheduler.
LEMMA WrapperStepInv ==
  ASSUME QueueInv, NEW h \in Handles, PassGate(h) \/ MarkRunning(h) \/ MarkCurrent(h)
  PROVE  QueueInv'
<1>1. /\ op[h].pc \in {"gate", "mark", "current"} /\ h \in Contexts /\ arg[h] \in Slots
      /\ op \in [Contexts -> Call]
  BY DEF PassGate, MarkRunning, MarkCurrent, QueueInv, TypeOK, Pointers, Alive, Contexts
<1>2. PICK p \in {"mark", "current", "body"} : op' = [op EXCEPT ![h].pc = p]
  BY DEF PassGate, MarkRunning, MarkCurrent
<1>3. UNCHANGED <<slot, handle, entry, liveCount, kernel, arg, boot>>
  BY DEF PassGate, MarkRunning, MarkCurrent
<1>4. /\ op' \in [Contexts -> Call] /\ op'[h].pc = p
      /\ \A d \in Contexts \ {h} : op'[d] = op[d]
  <2>1. \A r \in Call : [r EXCEPT !.pc = p] \in Call /\ [r EXCEPT !.pc = p].pc = p
    BY DEF Call, Pc
  <2>2. QED
    BY <1>1, <1>2, <2>1
<1>5. sch' \in Sched /\ sch'.sleep = NoTask /\ Queued(sch', Live)
  <2>1. sch \in Sched /\ sch.sleep = NoTask /\ Queued(sch, Live) /\ Live \in SUBSET Tasks
        /\ arg[h] \in Tasks /\ arg[h] \in Link /\ "RUNNING" \in TaskState
    BY <1>1 DEF QueueInv, TypeOK, ReadyListsExact, Live, Slots, Link, TaskState
  <2>2. CASE PassGate(h)
    BY <2>1, <2>2 DEF PassGate
  <2>3. CASE MarkRunning(h)
    BY <2>1, <2>3, StateFrame DEF MarkRunning
  <2>4. CASE MarkCurrent(h)
    BY <2>1, <2>4, CurrentFrame DEF MarkCurrent
  <2>5. QED
    BY <2>2, <2>3, <2>4
<1>6. TypeOK'
  BY <1>3, <1>4, <1>5 DEF QueueInv, TypeOK
<1>7. Pointers'
  BY <1>1, <1>3, <1>4 DEF QueueInv, Pointers, Alive, Creating, Deleting, Contexts
<1>8. Reservations'
  BY <1>1, <1>3, <1>4 DEF QueueInv, Reservations, Creating
<1>9. QED
  BY <1>3, <1>5, <1>6, <1>7, <1>8 DEF QueueInv, ReadyListsExact, Live

\* Both outcomes of mk_task_delete preserve the invariant.
LEMMA DeleteInv ==
  ASSUME QueueInv, NEW c \in Contexts, op[c].pc \in {"body", "exit"}, NEW s \in Slots,
         NEW back \in {"body", "exit", "abort"}, Delete(c, s, back)
  PROVE  QueueInv'
BY DeleteLockInv, DeleteRefusedInv DEF Delete

\* What a task's own code does once it runs, and how it ends.
LEMMA BodyInv ==
  ASSUME QueueInv, NEW h \in Handles,
         WrapperDelete(h) \/ JobEnds(h) \/ ServiceSpawns(h) \/ ServiceDeletes(h)
  PROVE  QueueInv'
<1>1. h \in Contexts /\ op \in [Contexts -> Call]
  BY DEF Contexts, QueueInv, TypeOK
<1>2. CASE WrapperDelete(h)
  <2>1. op[h].pc = "exit" /\ arg[h] \in Slots
    BY <1>2 DEF WrapperDelete, QueueInv, Pointers, Alive
  <2>2. QED
    BY <1>1, <1>2, <2>1, DeleteInv DEF WrapperDelete
<1>3. CASE JobEnds(h)
  <2>1. CASE Self(h) # NoTask
    <3>1. Self(h) \in Slots
      BY <2>1 DEF Self, First, Live
    <3>2. QED
      BY <1>1, <1>3, <2>1, <3>1, DeleteInv DEF JobEnds
  <2>2. CASE Self(h) = NoTask
    <3>1. /\ op[h].pc = "body" /\ op' = [op EXCEPT ![h].pc = "exit"]
          /\ UNCHANGED <<sch, slot, handle, entry, liveCount, kernel, arg, boot>>
      BY <1>3, <2>2 DEF JobEnds
    <3>2. \A r \in Call : [r EXCEPT !.pc = "exit"] \in Call /\ [r EXCEPT !.pc = "exit"].pc = "exit"
      BY DEF Call, Pc
    <3>3. /\ op' \in [Contexts -> Call] /\ op'[h].pc = "exit"
          /\ \A d \in Contexts \ {h} : op'[d] = op[d]
      BY <1>1, <3>1, <3>2
    <3>4. Pointers'
      BY <1>1, <3>1, <3>3 DEF QueueInv, Pointers, Alive, Creating, Deleting, Contexts
    <3>5. Reservations'
      BY <1>1, <3>1, <3>3 DEF QueueInv, Reservations, Creating
    <3>6. QED
      BY <3>1, <3>3, <3>4, <3>5 DEF QueueInv, TypeOK, ReadyListsExact, Live
  <2>3. QED
    BY <2>1, <2>2
<1>4. CASE ServiceSpawns(h)
  <2>1. JobPrio \in Nat /\ "job" \in Entries
    BY TaskTableAssumption DEF Entries
  <2>2. QED
    BY <1>1, <1>4, <2>1, CreateReserveInv, CreateFullInv DEF ServiceSpawns
<1>5. CASE ServiceDeletes(h)
  BY <1>1, <1>5, DeleteInv DEF ServiceDeletes
<1>6. QED
  BY <1>2, <1>3, <1>4, <1>5

\* Every step of the boot thread preserves the invariant.
LEMMA BootInv ==
  ASSUME QueueInv, Dormant, BootStep
  PROVE  QueueInv'
<1>1. Boot \in Contexts
  BY DEF Contexts
<1>2. CASE BootInit
  <2>1. sch' = sch
    BY <1>2 DEF BootInit, Dormant
  <2>2. TypeOK'
    BY <1>2, <2>1 DEF BootInit, QueueInv, TypeOK, Phase
  <2>3. QED
    BY <1>2, <2>1, <2>2 DEF BootInit, QueueInv, Pointers, Reservations, ReadyListsExact, Live, Alive
<1>3. CASE BootSpawn
  <2>1. BootList[boot.next].prio \in Nat /\ BootList[boot.next].entry \in Entries
    <3>1. boot.next \in 1 .. Len(BootList)
      BY <1>3, TaskTableAssumption DEF BootSpawn, QueueInv, TypeOK
    <3>2. BootList[boot.next] \in Item
      BY <3>1, TaskTableAssumption
    <3>3. QED
      BY <3>2 DEF Item
  <2>2. QED
    BY <1>1, <1>3, <2>1, CreateReserveInv, CreateFullInv DEF BootSpawn
<1>4. CASE BootStart
  BY <1>4 DEF BootStart, QueueInv, TypeOK, Phase, Pointers, Reservations, ReadyListsExact, Live, Alive
<1>5. CASE BootRollback
  <2>1. CASE boot.made # <<>>
    <3>1. Last(boot.made) \in Slots
      BY <2>1 DEF Last, QueueInv, TypeOK
    <3>2. QED
      BY <1>1, <1>5, <2>1, <3>1, DeleteInv DEF BootRollback
  <2>2. CASE boot.made = <<>>
    BY <1>5, <2>2 DEF BootRollback, QueueInv, TypeOK, Phase, Pointers, Reservations,
                      ReadyListsExact, Live, Alive
  <2>3. QED
    BY <2>1, <2>2
<1>6. CASE BootIdle
  BY <1>6 DEF BootIdle, vars, QueueInv, TypeOK, Pointers, Reservations, ReadyListsExact, Live, Alive
<1>7. QED
  BY <1>2, <1>3, <1>4, <1>5, <1>6 DEF BootStep

\* The tick charges and rotates the current task, and wakes nobody.
LEMMA TickInv ==
  ASSUME QueueInv, SystemTick
  PROVE  QueueInv'
<1>1. /\ sch' = Tick(sch, 0) /\ sch \in Sched /\ sch.sleep = NoTask
      /\ Queued(sch, Live) /\ Live \in SUBSET Tasks
      /\ UNCHANGED <<slot, handle, entry, liveCount, kernel, op, arg, boot>>
  BY DEF SystemTick, QueueInv, TypeOK, ReadyListsExact, Live, Slots
<1>2. sch' = Account(sch)
  BY <1>1, TickAwake
<1>3. sch' \in Sched /\ Queued(sch', Live) /\ sch'.sleep = NoTask
  BY <1>1, <1>2, AccountQueued
<1>4. QED
  BY <1>1, <1>3 DEF QueueInv, TypeOK, Pointers, Reservations, ReadyListsExact, Live, Alive

\* The chip comes up with the kernel off.
LEMMA DormantInit == Init => Dormant
BY TaskTableAssumption DEF Init, Dormant, Live, Alive, Gone, AtBody, At, Contexts

\* Only mk_init leaves the state before mk_init, and nothing but a restart returns to it.
LEMMA DormantNext ==
  ASSUME QueueInv, Dormant, Next, ~Reset
  PROVE  Dormant'
<1>1. CASE kernel = "off"
  <2>1. \A c \in Contexts : op[c].pc \in {"none", "body"} /\ (op[c].pc = "body" => c = Boot)
    BY <1>1 DEF Dormant, Contexts, Alive
  <2>2. \A c \in Contexts : ~Proceed(c)
    BY <2>1 DEF Proceed, CreatePort, CreatePortFails, CreatePublish, CreateUndo, DeletePort,
                DeleteReclaim
  <2>3. \A h \in Handles : ~(Wrapper(h) \/ JobEnds(h) \/ ServiceSpawns(h) \/ ServiceDeletes(h))
    BY <2>1, TaskTableAssumption
       DEF Wrapper, PassGate, MarkRunning, MarkCurrent, WrapperDelete, JobEnds, ServiceSpawns,
           ServiceDeletes, Contexts
  <2>4. BootStep
    BY <1>1, <2>2, <2>3 DEF Next, SystemTick
  <2>5. CASE BootInit
    BY <1>1, <2>5 DEF BootInit, Dormant, Live, Alive, QueueInv, TypeOK
  <2>6. CASE BootSpawn
    BY <1>1, <2>6 DEF BootSpawn, CreateReserve, CreateFull
  <2>7. CASE BootStart
    BY <2>7 DEF BootStart, Dormant, QueueInv, TypeOK
  <2>8. CASE BootRollback
    <3>1. \A s \in Slots : slot[s] # "LIVE"
      BY <1>1 DEF Dormant, Live
    <3>2. CASE boot.made # <<>>
      <4>1. Last(boot.made) \in Slots
        BY <3>2 DEF Last, QueueInv, TypeOK
      <4>2. DeleteRefused(Boot, Last(boot.made), "body")
        BY <2>8, <3>1, <3>2, <4>1 DEF BootRollback, Delete, DeleteLock
      <4>3. op' = [op EXCEPT ![Boot] = At("body", NoTask)] /\ op \in [Contexts -> Call]
            /\ UNCHANGED <<sch, slot, kernel>> /\ boot'.phase = boot.phase
        BY <4>2 DEF DeleteRefused, Deleted, QueueInv, TypeOK
      <4>4. QED
        BY <1>1, <4>3, TaskTableAssumption DEF Dormant, Live, Alive, At, Contexts
    <3>3. CASE boot.made = <<>>
      BY <1>1, <2>8, <3>3 DEF BootRollback, Dormant, Live, Alive, QueueInv, TypeOK
    <3>4. QED
      BY <3>2, <3>3
  <2>9. CASE BootIdle
    BY <1>1, <2>9 DEF BootIdle, vars, Dormant, Live, Alive
  <2>10. QED
    BY <2>4, <2>5, <2>6, <2>7, <2>8, <2>9 DEF BootStep
<1>2. CASE kernel # "off"
  <2>1. boot.phase # "init" /\ boot \in [phase : Phase, next : Nat \ {0}, made : Seq(Slots)]
    BY <1>2 DEF Dormant, QueueInv, TypeOK
  <2>2. kernel' # "off" /\ boot'.phase # "init"
    <3>1. ASSUME NEW c, NEW s, Created(c, s) \/ Deleted(c)
          PROVE  boot'.phase # "init"
      BY <2>1, <3>1 DEF Created, Deleted
    <3>2. ASSUME NEW c, NEW s, NEW back, Delete(c, s, back)
          PROVE  kernel' = kernel /\ boot'.phase # "init"
      BY <2>1, <3>1, <3>2 DEF Delete, DeleteLock, DeleteRefused
    <3>3. ASSUME NEW c, NEW p, NEW e, CreateReserve(c, p, e) \/ CreateFull(c)
          PROVE  kernel' = kernel /\ boot'.phase # "init"
      BY <2>1, <3>1, <3>3 DEF CreateReserve, CreateFull
    <3>4. ASSUME NEW c \in Contexts, Proceed(c)
          PROVE  kernel' = kernel /\ boot'.phase # "init"
      BY <2>1, <3>1, <3>4 DEF Proceed, CreatePort, CreatePortFails, CreatePublish, CreateUndo,
                              DeletePort, DeleteReclaim
    <3>5. ASSUME NEW h \in Handles,
                 Wrapper(h) \/ JobEnds(h) \/ ServiceSpawns(h) \/ ServiceDeletes(h)
          PROVE  kernel' = kernel /\ boot'.phase # "init"
      BY <2>1, <3>2, <3>3, <3>5 DEF Wrapper, PassGate, MarkRunning, MarkCurrent, WrapperDelete,
                                    JobEnds, ServiceSpawns, ServiceDeletes
    <3>6. CASE BootStep
      BY <1>2, <2>1, <3>2, <3>3, <3>6 DEF BootStep, BootInit, BootSpawn, BootStart, BootRollback,
                                          BootIdle, vars
    <3>7. CASE SystemTick
      BY <1>2, <2>1, <3>7 DEF SystemTick
    <3>8. QED
      BY <1>2, <3>4, <3>5, <3>6, <3>7 DEF Next
  <2>3. QED
    BY <2>2 DEF Dormant
<1>3. QED
  BY <1>1, <1>2

\* A restart leads to an initial state.
LEMMA ResetInit == Reset => Init'
BY DEF Reset, Init

-----------------------------------------------------------------------------
\* Every step, a restart included, preserves both invariants.
LEMMA QueueInvNext == QueueInv /\ Dormant /\ [Next]_vars => QueueInv' /\ Dormant'
<1> SUFFICES ASSUME QueueInv, Dormant, [Next]_vars
             PROVE  QueueInv' /\ Dormant'
  OBVIOUS
<1>1. CASE Reset
  <2>1. Init'
    BY <1>1, ResetInit
  <2>2. QED
    BY <2>1, QueueInvInit, DormantInit, PTL
<1>2. CASE Next /\ ~Reset
  <2>1. ASSUME NEW c \in Contexts, Proceed(c)
        PROVE  QueueInv'
    BY <2>1, CreatePortInv, CreatePortFailsInv, CreatePublishInv, CreateUndoInv, DeletePortInv,
       DeleteReclaimInv DEF Proceed
  <2>2. ASSUME NEW h \in Handles,
               Wrapper(h) \/ JobEnds(h) \/ ServiceSpawns(h) \/ ServiceDeletes(h)
        PROVE  QueueInv'
    BY <2>2, WrapperStepInv, BodyInv DEF Wrapper
  <2>3. QueueInv'
    BY <1>2, <2>1, <2>2, BootInv, TickInv DEF Next
  <2>4. Dormant'
    BY <1>2, DormantNext
  <2>5. QED
    BY <2>3, <2>4
<1>3. CASE UNCHANGED vars
  <2>1. QueueInv'
    BY <1>3 DEF vars, QueueInv, TypeOK, Pointers, Reservations, ReadyListsExact, Live, Alive
  <2>2. Dormant'
    BY <1>3 DEF vars, Dormant, Live, Alive
  <2>3. QED
    BY <2>1, <2>2
<1>4. QED
  BY <1>1, <1>2, <1>3

\* Every reachable state of the registry is well typed.
THEOREM TaskTableTypeCorrect == Spec => []TypeOK
<1>1. Init => QueueInv /\ Dormant
  BY QueueInvInit, DormantInit
<1>2. QueueInv => TypeOK
  BY DEF QueueInv
<1>3. QED
  BY <1>1, <1>2, QueueInvNext, PTL DEF Spec

\* The ready lists, their bitmap and both counts describe exactly the live slots,
\* whatever creations, deletions, ticks and restarts happen in whatever order.
THEOREM ReadyListsAlwaysExact == Spec => []ReadyListsExact
<1>1. Init => QueueInv /\ Dormant
  BY QueueInvInit, DormantInit
<1>2. QueueInv => ReadyListsExact
  BY DEF QueueInv
<1>3. QED
  BY <1>1, <1>2, QueueInvNext, PTL DEF Spec

-----------------------------------------------------------------------------
(* Ownership.  A creator's new port task, the port task of a live slot and *)
(* a deleter's victim are alive and were given that slot; a slot has one   *)
(* deleter.                                                                *)

Given(h, s) == h \in Handles /\ Alive(h) /\ arg[h] = s

OwnInv ==
  /\ \A c \in Contexts : op[c].pc = "port" => op[c].port = NoHandle
  /\ \A c \in Contexts : op[c].pc = "publish" /\ op[c].port # NoHandle =>
                           Given(op[c].port, op[c].target)
  /\ \A s \in Live : Given(handle[s], s)
  /\ \A c \in Contexts : op[c].pc \in Deleting => slot[op[c].target] = "DELETING"
  /\ \A c \in Contexts : op[c].pc = "unport" => Given(op[c].port, op[c].target)
  /\ \A c, d \in Contexts :
       op[c].pc \in Deleting /\ op[d].pc \in Deleting /\ op[c].target = op[d].target => c = d

\* With no live slot and no call under way, ownership holds.
LEMMA OwnInit == Init => OwnInv
BY DEF Init, OwnInv, Live, Gone, AtBody, At, Deleting

\* A step that leaves slots, handles and arguments alone and takes no context
\* into or out of a call, or out of life.
LEMMA OwnFrame ==
  ASSUME OwnInv, UNCHANGED <<slot, handle, arg>>,
         \A c \in Contexts :
           \/ op'[c] = op[c]
           \/ op'[c].pc \notin {"none", "port", "publish", "unport", "reclaim"}
  PROVE  OwnInv'
BY DEF OwnInv, Given, Alive, Live, Deleting, Contexts

\* Creation gives the new port task its slot before the slot is live, and gives out
\* only handles no living task has.
LEMMA OwnCreate ==
  ASSUME QueueInv, OwnInv, NEW c \in Contexts,
         \/ \E p \in Nat, e \in Entries : CreateReserve(c, p, e)
         \/ \E h \in Handles : CreatePort(c, h)
         \/ CreatePortFails(c) \/ CreatePublish(c) \/ CreateUndo(c)
  PROVE  OwnInv'
<1>1. op \in [Contexts -> Call] /\ slot \in [Slots -> SlotState] /\ arg \in [Handles -> Link]
      /\ handle \in [Slots -> Handles \cup {NoHandle}] /\ Handles \subseteq Contexts
      /\ NoHandle \notin Contexts
  BY TaskTableAssumption DEF QueueInv, TypeOK, Contexts
<1>2. ASSUME NEW p \in Nat, NEW e \in Entries, CreateReserve(c, p, e)
      PROVE  OwnInv'
  <2>1. PICK s \in First(Free) :
          /\ slot' = [slot EXCEPT ![s] = "RESERVED"]
          /\ handle' = [handle EXCEPT ![s] = NoHandle]
          /\ op' = [op EXCEPT ![c] = [pc |-> "port", target |-> s, port |-> NoHandle, back |-> "body"]]
    BY <1>2 DEF CreateReserve, At
  <2>2. s \in Slots /\ slot[s] = "FREE" /\ op[c].pc = "body" /\ UNCHANGED arg
    BY <1>2 DEF First, Free, CreateReserve
  <2>3. Live' = Live /\ s \notin Live
    BY <1>1, <2>1, <2>2 DEF Live
  <2>4. \A h, u : Given(h, u) => Given(h, u)'
    BY <1>1, <2>1, <2>2 DEF Given, Alive
  <2>5. QED
    BY <1>1, <2>1, <2>2, <2>3, <2>4 DEF OwnInv, Deleting, QueueInv, Pointers, Live
<1>3. ASSUME NEW h \in Handles, CreatePort(c, h)
      PROVE  OwnInv'
  <2>1. /\ op[h].pc = "none" /\ op[c].pc = "port" /\ c # h
        /\ arg' = [arg EXCEPT ![h] = op[c].target] /\ UNCHANGED <<slot, handle>>
    BY <1>3 DEF CreatePort, Alive
  <2>2. /\ op'[c].pc = "publish" /\ op'[c].target = op[c].target /\ op'[c].port = h
        /\ op'[h].pc = "gate"
        /\ \A d \in Contexts \ {c, h} : op'[d] = op[d]
    <3>1. /\ [At("publish", op[c].target) EXCEPT !.port = h]
               = [pc |-> "publish", target |-> op[c].target, port |-> h, back |-> "body"]
          /\ At("gate", NoTask).pc = "gate"
      BY DEF At
    <3>2. QED
      BY <1>1, <1>3, <2>1, <3>1 DEF CreatePort
  <2>3. \A x, u : Given(x, u) => Given(x, u)'
    BY <1>1, <2>1, <2>2 DEF Given, Alive
  <2>4. Given(h, op[c].target)'
    BY <1>1, <2>1, <2>2 DEF Given, Alive
  <2>5. Live' = Live
    BY <2>1 DEF Live
  <2>6. QED
    BY <1>1, <2>1, <2>2, <2>3, <2>4, <2>5 DEF OwnInv, Deleting
<1>4. CASE CreatePortFails(c)
  <2>1. /\ op[c].pc = "port" /\ UNCHANGED <<slot, handle, arg>>
        /\ op'[c].pc = "publish" /\ op'[c].target = op[c].target /\ op'[c].port = op[c].port
        /\ \A d \in Contexts \ {c} : op'[d] = op[d]
    <3>1. \A r \in Call : /\ [r EXCEPT !.pc = "publish"].pc = "publish"
                          /\ [r EXCEPT !.pc = "publish"].target = r.target
                          /\ [r EXCEPT !.pc = "publish"].port = r.port
      BY DEF Call
    <3>2. QED
      BY <1>1, <1>4, <3>1 DEF CreatePortFails
  <2>2. \A x, u : Given(x, u) => Given(x, u)'
    BY <1>1, <2>1 DEF Given, Alive
  <2>3. Live' = Live
    BY <2>1 DEF Live
  <2>4. QED
    BY <1>1, <2>1, <2>2, <2>3 DEF OwnInv, Deleting
<1>5. CASE CreatePublish(c) \/ CreateUndo(c)
  <2> DEFINE s == op[c].target
  <2>1. /\ op[c].pc = "publish" /\ s \in Slots /\ slot[s] = "RESERVED" /\ UNCHANGED arg
        /\ op' = [op EXCEPT ![c] = [pc |-> "body", target |-> NoTask, port |-> NoHandle, back |-> "body"]]
    BY <1>5 DEF CreatePublish, CreateUndo, AtBody, At, QueueInv, Pointers, Reservations, Creating
  <2>2. \A x, u : Given(x, u) => Given(x, u)'
    BY <1>1, <2>1 DEF Given, Alive
  <2>3. \A d \in Contexts : op[d].pc \in Deleting => op[d].target # s
    BY <2>1 DEF OwnInv
  <2>4. CASE CreatePublish(c)
    <3>1. /\ slot' = [slot EXCEPT ![s] = "LIVE"] /\ handle' = [handle EXCEPT ![s] = op[c].port]
          /\ op[c].port # NoHandle
      BY <2>4 DEF CreatePublish
    <3>2. Live' = Live \cup {s} /\ Given(op[c].port, s)
      BY <1>1, <2>1, <3>1 DEF Live, OwnInv
    <3>3. \A u \in Live' : Given(handle'[u], u)
      BY <1>1, <2>1, <3>1, <3>2 DEF OwnInv, Live
    <3>4. QED
      BY <1>1, <2>1, <2>2, <2>3, <3>1, <3>3 DEF OwnInv, Deleting, QueueInv, Pointers
  <2>5. CASE CreateUndo(c)
    <3>1. slot' = [slot EXCEPT ![s] = "FREE"] /\ handle' = [handle EXCEPT ![s] = NoHandle]
      BY <2>5 DEF CreateUndo, Zero
    <3>2. Live' = Live /\ \A u \in Live : handle'[u] = handle[u]
      BY <1>1, <2>1, <3>1 DEF Live
    <3>3. QED
      BY <1>1, <2>1, <2>2, <2>3, <3>1, <3>2 DEF OwnInv, Deleting, QueueInv, Pointers
  <2>6. QED
    BY <1>5, <2>4, <2>5
<1>6. QED
  BY <1>2, <1>3, <1>4, <1>5

\* Marking a slot DELETING makes the caller its only deleter.
LEMMA OwnDelete ==
  ASSUME QueueInv, OwnInv, NEW c \in Contexts, op[c].pc \in {"body", "exit"}, NEW s \in Slots,
         NEW back \in {"body", "exit", "abort"}, Delete(c, s, back)
  PROVE  OwnInv'
<1>1. op \in [Contexts -> Call] /\ slot \in [Slots -> SlotState] /\ arg \in [Handles -> Link]
      /\ handle \in [Slots -> Handles \cup {NoHandle}] /\ Handles \subseteq Contexts
  BY DEF QueueInv, TypeOK, Contexts
<1>2. CASE DeleteLock(c, s, back)
  <2>1. /\ slot[s] = "LIVE" /\ slot' = [slot EXCEPT ![s] = "DELETING"]
        /\ op' = [op EXCEPT ![c] = [pc |-> "unport", target |-> s, port |-> handle[s], back |-> back]]
        /\ UNCHANGED <<handle, arg>>
    BY <1>2 DEF DeleteLock
  <2>2. Live' = Live \ {s} /\ s \in Live
    BY <1>1, <2>1 DEF Live
  <2>3. \A x, u : Given(x, u) => Given(x, u)'
    BY <1>1, <2>1 DEF Given, Alive
  <2>4. \A d \in Contexts : op[d].pc \in Deleting => op[d].target # s
    BY <2>1 DEF OwnInv
  <2>5. QED
    BY <1>1, <2>1, <2>2, <2>3, <2>4 DEF OwnInv, Deleting, QueueInv, Pointers
<1>3. CASE DeleteRefused(c, s, back)
  <2>1. op' = [op EXCEPT ![c] = [pc |-> back, target |-> NoTask, port |-> NoHandle, back |-> "body"]]
        /\ UNCHANGED <<slot, handle, arg>>
    BY <1>3 DEF DeleteRefused, At
  <2>2. QED
    BY <1>1, <2>1, OwnFrame
<1>4. QED
  BY <1>2, <1>3 DEF Delete

\* Ending a port task harms no other slot: a living handle belongs to one slot.
LEMMA OwnUnport ==
  ASSUME QueueInv, OwnInv, NEW c \in Contexts, DeletePort(c)
  PROVE  OwnInv'
<1> DEFINE h == op[c].port
           s == op[c].target
<1>1. /\ op \in [Contexts -> Call] /\ arg \in [Handles -> Link]
      /\ Handles \subseteq Contexts /\ NoHandle \notin Contexts
  BY TaskTableAssumption DEF QueueInv, TypeOK, Contexts
<1>2. /\ op[c].pc = "unport" /\ Given(h, s) /\ slot[s] = "DELETING"
      /\ UNCHANGED <<slot, handle>>
      /\ arg' = [x \in Handles |-> IF x = h THEN NoTask ELSE arg[x]]
  BY DEF DeletePort, OwnInv, Deleting
<1>3. h \in Handles
  BY <1>2 DEF Given
<1>4. /\ op'[h].pc = "none"
      /\ h # c => op'[c].pc = "reclaim" /\ op'[c].target = s
      /\ \A d \in Contexts \ {c, h} : op'[d] = op[d]
  <2>1. Gone.pc = "none"
    BY DEF Gone, At
  <2>2. \A r \in Call : [r EXCEPT !.pc = "reclaim"].pc = "reclaim"
                        /\ [r EXCEPT !.pc = "reclaim"].target = r.target
    BY DEF Call
  <2>3. QED
    BY <1>1, <1>2, <1>3, <2>1, <2>2 DEF DeletePort
<1>5. \A x, u : Given(x, u) /\ x # h => Given(x, u)'
  BY <1>1, <1>2, <1>3, <1>4 DEF Given, Alive
<1>6. Live' = Live
  BY <1>2 DEF Live
<1>7. \A u \in Live : handle[u] # h
  BY <1>2 DEF OwnInv, Given, Live
<1>8. \A d \in Contexts : op[d].pc = "publish" /\ op[d].port # NoHandle => op[d].port # h
  BY <1>2 DEF OwnInv, Given, QueueInv, Reservations, Creating
<1>9. \A d \in Contexts \ {c} : op[d].pc = "unport" => op[d].port # h
  BY <1>2 DEF OwnInv, Given, Deleting
<1>10. QED
  BY <1>1, <1>2, <1>3, <1>4, <1>5, <1>6, <1>7, <1>8, <1>9 DEF OwnInv, Deleting

\* A reclaimed slot was no longer live.
LEMMA OwnReclaim ==
  ASSUME QueueInv, OwnInv, NEW c \in Contexts, DeleteReclaim(c)
  PROVE  OwnInv'
<1> DEFINE s == op[c].target
<1>1. /\ op \in [Contexts -> Call] /\ slot \in [Slots -> SlotState] /\ Handles \subseteq Contexts
      /\ handle \in [Slots -> Handles \cup {NoHandle}]
  BY DEF QueueInv, TypeOK, Contexts
<1>2. /\ op[c].pc = "reclaim" /\ s \in Slots /\ slot[s] = "DELETING" /\ UNCHANGED arg
      /\ op' = [op EXCEPT ![c] = [pc |-> op[c].back, target |-> NoTask, port |-> NoHandle, back |-> "body"]]
      /\ op[c].back \in {"body", "exit", "abort"}
  BY <1>1 DEF DeleteReclaim, At, OwnInv, QueueInv, Pointers, Deleting, Call
<1>3. \/ slot' = [slot EXCEPT ![s] = "FREE"] /\ handle' = [handle EXCEPT ![s] = NoHandle]
      \/ UNCHANGED <<slot, handle>>
  BY DEF DeleteReclaim, Zero
<1>4. Live' = Live /\ s \notin Live /\ \A u \in Live : handle'[u] = handle[u]
  BY <1>1, <1>2, <1>3 DEF Live
<1>5. \A x, u : Given(x, u) => Given(x, u)'
  BY <1>1, <1>2 DEF Given, Alive
<1>6. \A d \in Contexts \ {c} : op[d].pc \in Deleting => op[d].target # s
  BY <1>2 DEF OwnInv, Deleting
<1>7. \A d \in Contexts \ {c} : op[d].pc \in Deleting => slot'[op[d].target] = "DELETING"
  BY <1>1, <1>2, <1>3, <1>6 DEF OwnInv, QueueInv, Pointers
<1>8. QED
  BY <1>1, <1>2, <1>4, <1>5, <1>6, <1>7 DEF OwnInv, Deleting

\* Every step, a restart included, preserves ownership.
LEMMA OwnNext == QueueInv /\ OwnInv /\ [Next]_vars => OwnInv'
<1> SUFFICES ASSUME QueueInv, OwnInv, [Next]_vars
             PROVE  OwnInv'
  OBVIOUS
<1>1. op \in [Contexts -> Call] /\ Handles \subseteq Contexts /\ Boot \in Contexts
  BY DEF QueueInv, TypeOK, Contexts
<1>2. ASSUME NEW c \in Contexts, Proceed(c)
      PROVE  OwnInv'
  BY <1>2, OwnCreate, OwnUnport, OwnReclaim DEF Proceed
<1>3. ASSUME NEW h \in Handles, Wrapper(h)
      PROVE  OwnInv'
  <2>1. CASE PassGate(h) \/ MarkRunning(h) \/ MarkCurrent(h)
    <3>1. PICK p \in {"mark", "current", "body"} : op' = [op EXCEPT ![h].pc = p]
      BY <2>1 DEF PassGate, MarkRunning, MarkCurrent
    <3>2. UNCHANGED <<slot, handle, arg>>
      BY <2>1 DEF PassGate, MarkRunning, MarkCurrent
    <3>3. \A r \in Call : [r EXCEPT !.pc = p].pc = p
      BY DEF Call
    <3>4. op'[h].pc = p /\ \A c \in Contexts \ {h} : op'[c] = op[c]
      BY <1>1, <3>1, <3>3
    <3>5. QED
      BY <3>2, <3>4, OwnFrame
  <2>2. CASE WrapperDelete(h)
    <3>1. op[h].pc = "exit" /\ arg[h] \in Slots
      BY <2>2 DEF WrapperDelete, QueueInv, Pointers, Alive
    <3>2. QED
      BY <1>1, <2>2, <3>1, OwnDelete DEF WrapperDelete
  <2>3. QED
    BY <1>3, <2>1, <2>2 DEF Wrapper
<1>4. ASSUME NEW h \in Handles, JobEnds(h)
      PROVE  OwnInv'
  <2>1. CASE Self(h) # NoTask
    <3>1. Self(h) \in Slots
      BY <2>1 DEF Self, First, Live
    <3>2. QED
      BY <1>1, <1>4, <2>1, <3>1, OwnDelete DEF JobEnds
  <2>2. CASE Self(h) = NoTask
    <3>1. op' = [op EXCEPT ![h].pc = "exit"] /\ UNCHANGED <<slot, handle, arg>>
      BY <1>4, <2>2 DEF JobEnds
    <3>2. \A r \in Call : [r EXCEPT !.pc = "exit"].pc = "exit"
      BY DEF Call
    <3>3. op'[h].pc = "exit" /\ \A c \in Contexts \ {h} : op'[c] = op[c]
      BY <1>1, <3>1, <3>2
    <3>4. QED
      BY <3>1, <3>3, OwnFrame
  <2>3. QED
    BY <2>1, <2>2
<1>5. ASSUME NEW c \in Contexts, CreateFull(c)
      PROVE  OwnInv'
  BY <1>5, OwnFrame DEF CreateFull
<1>6. ASSUME NEW h \in Handles, ServiceSpawns(h) \/ ServiceDeletes(h)
      PROVE  OwnInv'
  <2>1. JobPrio \in Nat /\ "job" \in Entries
    BY TaskTableAssumption DEF Entries
  <2>2. CASE ServiceSpawns(h)
    BY <1>1, <1>5, <2>1, <2>2, OwnCreate DEF ServiceSpawns
  <2>3. CASE ServiceDeletes(h)
    BY <1>1, <2>3, OwnDelete DEF ServiceDeletes
  <2>4. QED
    BY <1>6, <2>2, <2>3
<1>7. CASE BootStep
  <2>1. CASE BootSpawn
    <3>1. boot.next \in 1 .. Len(BootList)
      BY <2>1, TaskTableAssumption DEF BootSpawn, QueueInv, TypeOK
    <3>2. BootList[boot.next] \in Item
      BY <3>1, TaskTableAssumption
    <3>3. BootList[boot.next].prio \in Nat /\ BootList[boot.next].entry \in Entries
      BY <3>2 DEF Item
    <3>4. QED
      BY <1>1, <1>5, <2>1, <3>3, OwnCreate DEF BootSpawn
  <2>2. CASE BootRollback /\ boot.made # <<>>
    <3>1. Last(boot.made) \in Slots
      BY <2>2 DEF Last, QueueInv, TypeOK
    <3>2. QED
      BY <1>1, <2>2, <3>1, OwnDelete DEF BootRollback
  <2>3. CASE BootRollback /\ boot.made = <<>>
    BY <2>3, OwnFrame DEF BootRollback
  <2>4. CASE BootInit \/ BootStart \/ BootIdle
    BY <2>4, OwnFrame DEF BootInit, BootStart, BootIdle, vars
  <2>5. QED
    BY <1>7, <2>1, <2>2, <2>3, <2>4 DEF BootStep
<1>8. CASE SystemTick \/ UNCHANGED vars
  BY <1>8, OwnFrame DEF SystemTick, vars
<1>9. CASE Reset
  BY <1>9, ResetInit, OwnInit, PTL
<1>10. QED
  BY <1>2, <1>3, <1>4, <1>5, <1>6, <1>7, <1>8, <1>9 DEF Next

\* Every live slot is owned by the one running port task that was given it, and
\* mk_task_self never returns another task's control block: two tasks never share
\* a slot, also when a dead task's slot or handle is given out again.
THEOREM LiveSlotsOwned == Spec => []LiveOwned
<1>1. Init => QueueInv /\ Dormant /\ OwnInv
  BY QueueInvInit, DormantInit, OwnInit
<1>2. QueueInv /\ OwnInv => LiveOwned
  <2> SUFFICES ASSUME QueueInv, OwnInv PROVE LiveOwned
    OBVIOUS
  <2>1. \A s \in Live : Given(handle[s], s)
    BY DEF OwnInv
  <2>2. ASSUME NEW h \in Handles, Self(h) # NoTask
        PROVE  Self(h) = arg[h]
    <3>1. Self(h) \in Live /\ handle[Self(h)] = h
      BY <2>2 DEF Self, First
    <3>2. QED
      BY <2>1, <3>1 DEF Given
  <2>3. QED
    BY <2>1, <2>2 DEF LiveOwned, Given
<1>3. QED
  BY <1>1, <1>2, QueueInvNext, OwnNext, PTL DEF Spec

-----------------------------------------------------------------------------
MayBecome(s) ==
  slot'[s] # slot[s] =>
    <<slot[s], slot'[s]>> \in { <<"FREE", "RESERVED">>, <<"RESERVED", "LIVE">>,
                                <<"RESERVED", "FREE">>, <<"LIVE", "DELETING">>,
                                <<"DELETING", "FREE">> }

\* Each slot moves, in one step, along one edge of its life cycle or not at all.
LEMMA SlotSteps ==
  ASSUME QueueInv, Next, ~Reset
  PROVE  \A s \in Slots : MayBecome(s)
<1>1. slot \in [Slots -> SlotState]
  BY DEF QueueInv, TypeOK
<1>2. ASSUME NEW s \in Slots, NEW x,
             slot' = [slot EXCEPT ![s] = x],
             <<slot[s], x>> \in { <<"FREE", "RESERVED">>, <<"RESERVED", "LIVE">>,
                                  <<"RESERVED", "FREE">>, <<"LIVE", "DELETING">>,
                                  <<"DELETING", "FREE">> }
      PROVE  \A u \in Slots : MayBecome(u)
  BY <1>1, <1>2 DEF MayBecome
<1>3. ASSUME UNCHANGED slot
      PROVE  \A u \in Slots : MayBecome(u)
  BY <1>3 DEF MayBecome
<1>4. ASSUME NEW c, NEW p, NEW e, CreateReserve(c, p, e) \/ CreateFull(c)
      PROVE  \A u \in Slots : MayBecome(u)
  <2>1. CASE CreateReserve(c, p, e)
    <3>1. PICK s \in First(Free) : slot' = [slot EXCEPT ![s] = "RESERVED"]
      BY <2>1 DEF CreateReserve
    <3>2. s \in Slots /\ slot[s] = "FREE"
      BY DEF First, Free
    <3>3. QED
      BY <1>2, <3>1, <3>2
  <2>2. CASE CreateFull(c)
    BY <1>3, <2>2 DEF CreateFull
  <2>3. QED
    BY <1>4, <2>1, <2>2
<1>5. ASSUME NEW c, NEW s \in Slots, NEW back, Delete(c, s, back)
      PROVE  \A u \in Slots : MayBecome(u)
  <2>1. CASE DeleteLock(c, s, back)
    BY <1>2, <2>1 DEF DeleteLock
  <2>2. CASE DeleteRefused(c, s, back)
    BY <1>3, <2>2 DEF DeleteRefused
  <2>3. QED
    BY <1>5, <2>1, <2>2 DEF Delete
<1>6. ASSUME NEW c \in Contexts, Proceed(c)
      PROVE  \A u \in Slots : MayBecome(u)
  <2>1. CASE CreatePublish(c) \/ CreateUndo(c)
    <3>1. op[c].target \in Slots /\ slot[op[c].target] = "RESERVED"
      BY <2>1 DEF CreatePublish, CreateUndo, QueueInv, Pointers, Reservations, Creating
    <3>2. slot' = [slot EXCEPT ![op[c].target] = "LIVE"] \/ slot' = [slot EXCEPT ![op[c].target] = "FREE"]
      BY <2>1 DEF CreatePublish, CreateUndo, Zero
    <3>3. QED
      BY <1>2, <3>1, <3>2
  <2>2. CASE DeleteReclaim(c)
    <3>1. op[c].target \in Slots
      BY <2>2 DEF DeleteReclaim, QueueInv, Pointers, Deleting
    <3>2. \/ slot[op[c].target] = "DELETING" /\ slot' = [slot EXCEPT ![op[c].target] = "FREE"]
          \/ UNCHANGED slot
      BY <2>2 DEF DeleteReclaim, Zero
    <3>3. QED
      BY <1>2, <1>3, <3>1, <3>2
  <2>3. CASE DeletePort(c) \/ CreatePortFails(c) \/ \E h \in Handles : CreatePort(c, h)
    BY <1>3, <2>3 DEF DeletePort, CreatePortFails, CreatePort
  <2>4. QED
    BY <1>6, <2>1, <2>2, <2>3 DEF Proceed
<1>7. ASSUME NEW h \in Handles,
             Wrapper(h) \/ JobEnds(h) \/ ServiceSpawns(h) \/ ServiceDeletes(h)
      PROVE  \A u \in Slots : MayBecome(u)
  <2>1. CASE PassGate(h) \/ MarkRunning(h) \/ MarkCurrent(h)
    BY <1>3, <2>1 DEF PassGate, MarkRunning, MarkCurrent
  <2>2. CASE WrapperDelete(h)
    <3>1. arg[h] \in Slots
      BY <2>2 DEF WrapperDelete, QueueInv, Pointers, Alive
    <3>2. QED
      BY <1>5, <2>2, <3>1 DEF WrapperDelete
  <2>3. CASE JobEnds(h)
    <3>1. CASE Self(h) # NoTask
      <4>1. Self(h) \in Slots
        BY <3>1 DEF Self, First, Live
      <4>2. QED
        BY <1>5, <2>3, <3>1, <4>1 DEF JobEnds
    <3>2. CASE Self(h) = NoTask
      BY <1>3, <2>3, <3>2 DEF JobEnds
    <3>3. QED
      BY <3>1, <3>2
  <2>4. CASE ServiceSpawns(h)
    BY <1>4, <2>4 DEF ServiceSpawns
  <2>5. CASE ServiceDeletes(h)
    BY <1>5, <2>5 DEF ServiceDeletes
  <2>6. QED
    BY <1>7, <2>1, <2>2, <2>3, <2>4, <2>5 DEF Wrapper
<1>8. CASE BootStep
  <2>1. CASE BootSpawn
    BY <1>4, <2>1 DEF BootSpawn
  <2>2. CASE BootRollback /\ boot.made # <<>>
    <3>1. Last(boot.made) \in Slots
      BY <2>2 DEF Last, QueueInv, TypeOK
    <3>2. QED
      BY <1>5, <2>2, <3>1 DEF BootRollback
  <2>3. CASE (BootRollback /\ boot.made = <<>>) \/ BootInit \/ BootStart \/ BootIdle
    BY <1>3, <2>3 DEF BootRollback, BootInit, BootStart, BootIdle, vars
  <2>4. QED
    BY <1>8, <2>1, <2>2, <2>3 DEF BootStep
<1>9. CASE SystemTick
  BY <1>3, <1>9 DEF SystemTick
<1>10. QED
  BY <1>6, <1>7, <1>8, <1>9 DEF Next

\* A slot only ever goes FREE -> RESERVED -> LIVE -> DELETING -> FREE, or from
\* RESERVED back to FREE, until the chip restarts.
THEOREM SlotsKeepLifecycle == Spec => SlotLifecycle
<1>1. QueueInv /\ [Next]_vars =>
        [~Reset => \A s \in Slots : MayBecome(s)]_vars
  BY SlotSteps
<1>2. Init => QueueInv /\ Dormant
  BY QueueInvInit, DormantInit
<1>3. Spec => [][~Reset => \A s \in Slots : MayBecome(s)]_vars
  BY <1>1, <1>2, QueueInvNext, PTL DEF Spec
<1>4. QED
  BY <1>3 DEF SlotLifecycle, MayBecome
-----------------------------------------------------------------------------
(* Tenancy, when no task is deleted by another: a port task stays with the *)
(* slot it was given, and the slot with it, until the task ends itself.    *)

\* A slot is given to one port task, which is there from before its publication until
\* after it is marked for deletion, and is gone when the slot is reclaimed.
OneTask == \A g, h \in Handles : Alive(g) /\ Alive(h) /\ arg[g] = arg[h] => g = h
Housed ==
  \A h \in Handles : Alive(h) =>
    \/ slot[arg[h]] \in {"LIVE", "DELETING"}
    \/ \E c \in Contexts : op[c].pc = "publish" /\ op[c].port = h /\ op[c].target = arg[h]
Buried == \A c \in Contexts : op[c].pc = "reclaim" => \A h \in Handles : ~Given(h, op[c].target)
Reserved ==
  \A s \in Slots : slot[s] = "RESERVED" =>
    \E c \in Contexts : op[c].pc \in Creating /\ op[c].target = s

Tenancy == OneTask /\ Housed /\ Buried /\ Reserved

\* A step that leaves slots and arguments alone and takes no context into or out of
\* a creation, a reclamation or life.
LEMMA TenancyFrame ==
  ASSUME Tenancy, UNCHANGED <<slot, arg>>,
         \A c \in Contexts :
           \/ op'[c] = op[c]
           \/ /\ op[c].pc \notin {"none", "port", "publish"}
              /\ op'[c].pc \notin {"none", "port", "publish", "reclaim"}
  PROVE  Tenancy'
<1>1. \A h \in Handles : Alive(h)' <=> Alive(h)
  BY DEF Alive, Contexts
<1>2. OneTask'
  BY <1>1 DEF Tenancy, OneTask
<1>3. Housed'
  BY <1>1 DEF Tenancy, Housed
<1>4. Buried'
  BY <1>1 DEF Tenancy, Buried, Given
<1>5. Reserved'
  BY DEF Tenancy, Reserved, Creating
<1>6. QED
  BY <1>2, <1>3, <1>4, <1>5 DEF Tenancy

\* Creation gives out a slot that no task has and no deleter holds.
LEMMA TenancyCreate ==
  ASSUME QueueInv, OwnInv, Tenancy, NEW c \in Contexts,
         \/ \E p \in Nat, e \in Entries : CreateReserve(c, p, e)
         \/ \E h \in Handles : CreatePort(c, h)
         \/ CreatePortFails(c) \/ CreatePublish(c) \/ CreateUndo(c)
  PROVE  Tenancy'
<1>1. op \in [Contexts -> Call] /\ slot \in [Slots -> SlotState] /\ arg \in [Handles -> Link]
      /\ Handles \subseteq Contexts /\ NoHandle \notin Contexts
  BY TaskTableAssumption DEF QueueInv, TypeOK, Contexts
<1>2. ASSUME NEW p \in Nat, NEW e \in Entries, CreateReserve(c, p, e)
      PROVE  Tenancy'
  <2>1. PICK s \in First(Free) :
          /\ slot' = [slot EXCEPT ![s] = "RESERVED"]
          /\ op' = [op EXCEPT ![c] = [pc |-> "port", target |-> s, port |-> NoHandle, back |-> "body"]]
    BY <1>2 DEF CreateReserve, At
  <2>2. s \in Slots /\ slot[s] = "FREE" /\ op[c].pc = "body" /\ UNCHANGED arg
    BY <1>2 DEF First, Free, CreateReserve
  <2>3. /\ op'[c].pc = "port" /\ op'[c].target = s
        /\ \A d \in Contexts \ {c} : op'[d] = op[d]
    BY <1>1, <2>1
  <2>4. \A h \in Handles : Alive(h)' <=> Alive(h)
    BY <1>1, <2>2, <2>3 DEF Alive
  <2>5. \A h \in Handles : Alive(h) => arg[h] # s /\ arg[h] \in Slots
    BY <2>2 DEF Tenancy, Housed, QueueInv, Reservations, Creating, Pointers
  <2>6. OneTask'
    BY <2>2, <2>4 DEF Tenancy, OneTask
  <2>7. Housed'
    BY <1>1, <2>1, <2>2, <2>3, <2>4, <2>5 DEF Tenancy, Housed
  <2>8. Buried'
    BY <2>2, <2>3, <2>4 DEF Tenancy, Buried, Given
  <2>9. Reserved'
    <3>1. ASSUME NEW u \in Slots, slot'[u] = "RESERVED"
          PROVE  \E d \in Contexts : op'[d].pc \in Creating /\ op'[d].target = u
      <4>1. CASE u = s
        BY <2>3, <4>1 DEF Creating
      <4>2. CASE u # s
        <5>1. PICK d \in Contexts : op[d].pc \in Creating /\ op[d].target = u
          BY <1>1, <2>1, <3>1, <4>2 DEF Tenancy, Reserved
        <5>2. d # c
          BY <2>2, <5>1 DEF Creating
        <5>3. QED
          BY <2>3, <5>1, <5>2
      <4>3. QED
        BY <4>1, <4>2
    <3>2. QED
      BY <3>1 DEF Reserved
  <2>10. QED
    BY <2>6, <2>7, <2>8, <2>9 DEF Tenancy
<1>3. ASSUME NEW h \in Handles, CreatePort(c, h)
      PROVE  Tenancy'
  <2> DEFINE s == op[c].target
  <2>1. /\ op[h].pc = "none" /\ op[c].pc = "port" /\ c # h /\ s \in Slots
        /\ slot[s] = "RESERVED"
        /\ arg' = [arg EXCEPT ![h] = s] /\ UNCHANGED slot
    BY <1>3 DEF CreatePort, Alive, QueueInv, Pointers, Reservations, Creating
  <2>2. /\ op'[c].pc = "publish" /\ op'[c].target = s /\ op'[c].port = h
        /\ op'[h].pc = "gate"
        /\ \A d \in Contexts \ {c, h} : op'[d] = op[d]
    <3>1. /\ [At("publish", op[c].target) EXCEPT !.port = h]
               = [pc |-> "publish", target |-> op[c].target, port |-> h, back |-> "body"]
          /\ At("gate", NoTask).pc = "gate"
      BY DEF At
    <3>2. QED
      BY <1>1, <1>3, <2>1, <3>1 DEF CreatePort
  <2>3. \A g \in Handles \ {h} : (Alive(g)' <=> Alive(g)) /\ arg'[g] = arg[g]
    BY <1>1, <2>1, <2>2 DEF Alive
  <2>4. arg'[h] = s /\ Alive(h)'
    BY <1>1, <2>1, <2>2 DEF Alive
  <2>5. \A g \in Handles : Alive(g) => arg[g] # s
    BY <2>1 DEF Tenancy, Housed, QueueInv, Reservations, Creating
  <2>6. OneTask'
    BY <2>3, <2>4, <2>5 DEF Tenancy, OneTask
  <2>7. Housed'
    <3>1. ASSUME NEW g \in Handles, Alive(g)'
          PROVE  \/ slot'[arg'[g]] \in {"LIVE", "DELETING"}
                 \/ \E d \in Contexts : /\ op'[d].pc = "publish" /\ op'[d].port = g
                                        /\ op'[d].target = arg'[g]
      <4>1. CASE g = h
        BY <2>2, <2>4, <4>1
      <4>2. CASE g # h
        <5>1. Alive(g) /\ arg'[g] = arg[g] /\ slot' = slot
          BY <2>1, <2>3, <3>1, <4>2
        <5>2. ASSUME NEW d \in Contexts, op[d].pc = "publish"
              PROVE  op'[d] = op[d]
          BY <2>1, <2>2, <5>2
        <5>3. QED
          BY <5>1, <5>2 DEF Tenancy, Housed
      <4>3. QED
        BY <4>1, <4>2
    <3>2. QED
      BY <3>1 DEF Housed
  <2>8. Buried'
    <3>1. \A d \in Contexts : op'[d].pc = "reclaim" =>
            op'[d] = op[d] /\ op[d].target # s
      BY <2>1, <2>2 DEF OwnInv, Deleting
    <3>2. QED
      BY <2>3, <2>4, <3>1 DEF Tenancy, Buried, Given
  <2>9. Reserved'
    <3>1. \A d \in Contexts : op[d].pc \in Creating =>
            op'[d].pc \in Creating /\ op'[d].target = op[d].target
      BY <2>1, <2>2 DEF Creating
    <3>2. QED
      BY <2>1, <3>1 DEF Tenancy, Reserved
  <2>10. QED
    BY <2>6, <2>7, <2>8, <2>9 DEF Tenancy
<1>4. CASE CreatePortFails(c)
  <2>1. /\ op[c].pc = "port" /\ UNCHANGED <<slot, arg>>
        /\ op'[c].pc = "publish" /\ op'[c].target = op[c].target /\ op'[c].port = op[c].port
        /\ \A d \in Contexts \ {c} : op'[d] = op[d]
    <3>1. \A r \in Call : /\ [r EXCEPT !.pc = "publish"].pc = "publish"
                          /\ [r EXCEPT !.pc = "publish"].target = r.target
                          /\ [r EXCEPT !.pc = "publish"].port = r.port
      BY DEF Call
    <3>2. QED
      BY <1>1, <1>4, <3>1 DEF CreatePortFails
  <2>2. \A h \in Handles : Alive(h)' <=> Alive(h)
    BY <1>1, <2>1 DEF Alive
  <2>3. OneTask' /\ Buried'
    BY <2>1, <2>2 DEF Tenancy, OneTask, Buried, Given
  <2>4. Housed'
    BY <2>1, <2>2 DEF Tenancy, Housed
  <2>5. Reserved'
    <3>1. \A d \in Contexts : op[d].pc \in Creating =>
            op'[d].pc \in Creating /\ op'[d].target = op[d].target
      BY <2>1 DEF Creating
    <3>2. QED
      BY <2>1, <3>1 DEF Tenancy, Reserved
  <2>6. QED
    BY <2>3, <2>4, <2>5 DEF Tenancy
<1>5. CASE CreatePublish(c) \/ CreateUndo(c)
  <2> DEFINE s == op[c].target
  <2>1. /\ op[c].pc = "publish" /\ s \in Slots /\ slot[s] = "RESERVED" /\ UNCHANGED arg
        /\ op' = [op EXCEPT ![c] = [pc |-> "body", target |-> NoTask, port |-> NoHandle, back |-> "body"]]
    BY <1>5 DEF CreatePublish, CreateUndo, AtBody, At, QueueInv, Pointers, Reservations, Creating
  <2>2. op'[c].pc = "body" /\ \A d \in Contexts \ {c} : op'[d] = op[d]
    BY <1>1, <2>1
  <2>3. \A h \in Handles : Alive(h)' <=> Alive(h)
    BY <1>1, <2>1, <2>2 DEF Alive
  <2>4. /\ \A u \in Slots \ {s} : slot'[u] = slot[u]
        /\ slot'[s] = IF op[c].port # NoHandle THEN "LIVE" ELSE "FREE"
    BY <1>1, <1>5, <2>1 DEF CreatePublish, CreateUndo, Zero
  <2>5. \A d \in Contexts \ {c} : op[d].pc \in Creating => op[d].target # s
    BY <2>1 DEF QueueInv, Reservations, Creating
  <2>6. OneTask' /\ Buried'
    BY <2>1, <2>2, <2>3 DEF Tenancy, OneTask, Buried, Given
  <2>7. Housed'
    <3>1. ASSUME NEW h \in Handles, Alive(h)'
          PROVE  \/ slot'[arg[h]] \in {"LIVE", "DELETING"}
                 \/ \E d \in Contexts : /\ op'[d].pc = "publish" /\ op'[d].port = h
                                        /\ op'[d].target = arg[h]
      <4>1. Alive(h) /\ arg[h] \in Slots /\ h # NoHandle
        BY <1>1, <2>3, <3>1 DEF QueueInv, Pointers
      <4>2. CASE slot[arg[h]] \in {"LIVE", "DELETING"}
        BY <2>1, <2>4, <4>1, <4>2
      <4>3. ASSUME NEW d \in Contexts,
                   op[d].pc = "publish", op[d].port = h, op[d].target = arg[h]
            PROVE  \/ slot'[arg[h]] \in {"LIVE", "DELETING"}
                   \/ op'[d].pc = "publish" /\ op'[d].port = h /\ op'[d].target = arg[h]
        BY <2>2, <2>4, <4>1, <4>3
      <4>4. QED
        BY <4>1, <4>2, <4>3 DEF Tenancy, Housed
    <3>2. QED
      BY <2>1, <3>1 DEF Housed
  <2>8. Reserved'
    BY <2>2, <2>4, <2>5 DEF Tenancy, Reserved
  <2>9. QED
    BY <2>6, <2>7, <2>8 DEF Tenancy
<1>6. QED
  BY <1>2, <1>3, <1>4, <1>5

\* Marking a live slot leaves its task with it.
LEMMA TenancyDelete ==
  ASSUME QueueInv, Tenancy, NEW c \in Contexts, op[c].pc \in {"body", "exit"}, NEW s \in Slots,
         NEW back \in {"body", "exit", "abort"}, Delete(c, s, back)
  PROVE  Tenancy'
<1>1. op \in [Contexts -> Call] /\ slot \in [Slots -> SlotState]
      /\ Handles \subseteq Contexts
  BY DEF QueueInv, TypeOK, Contexts
<1>2. CASE DeleteLock(c, s, back)
  <2>1. /\ slot[s] = "LIVE" /\ slot' = [slot EXCEPT ![s] = "DELETING"]
        /\ op' = [op EXCEPT ![c] = [pc |-> "unport", target |-> s, port |-> handle[s], back |-> back]]
        /\ UNCHANGED arg
    BY <1>2 DEF DeleteLock
  <2>2. op'[c].pc = "unport" /\ \A d \in Contexts \ {c} : op'[d] = op[d]
    BY <1>1, <2>1
  <2>3. \A h \in Handles : Alive(h)' <=> Alive(h)
    BY <1>1, <2>2 DEF Alive
  <2>4. OneTask' /\ Buried'
    BY <2>1, <2>2, <2>3 DEF Tenancy, OneTask, Buried, Given
  <2>5. Housed'
    BY <1>1, <2>1, <2>2, <2>3 DEF Tenancy, Housed, QueueInv, Pointers
  <2>6. Reserved'
    BY <1>1, <2>1, <2>2 DEF Tenancy, Reserved, Creating
  <2>7. QED
    BY <2>4, <2>5, <2>6 DEF Tenancy
<1>3. CASE DeleteRefused(c, s, back)
  <2>1. op' = [op EXCEPT ![c] = [pc |-> back, target |-> NoTask, port |-> NoHandle, back |-> "body"]]
        /\ UNCHANGED <<slot, arg>>
    BY <1>3 DEF DeleteRefused, At
  <2>2. QED
    BY <1>1, <2>1, TenancyFrame
<1>4. QED
  BY <1>2, <1>3 DEF Delete

\* A victim that waits at the gate, or is the caller, creates nothing.
LEMMA TenancyUnport ==
  ASSUME QueueInv, OwnInv, Tenancy, NEW c \in Contexts, DeletePort(c),
         op[c].port = c \/ op[op[c].port].pc \in {"none", "gate"}
  PROVE  Tenancy'
<1> DEFINE h == op[c].port
           s == op[c].target
<1>1. /\ op \in [Contexts -> Call] /\ arg \in [Handles -> Link]
      /\ Handles \subseteq Contexts /\ NoHandle \notin Contexts
  BY TaskTableAssumption DEF QueueInv, TypeOK, Contexts
<1>2. /\ op[c].pc = "unport" /\ Given(h, s) /\ UNCHANGED slot
      /\ arg' = [x \in Handles |-> IF x = h THEN NoTask ELSE arg[x]]
  BY DEF DeletePort, OwnInv, Deleting
<1>3. h \in Handles
  BY <1>2 DEF Given
<1>4. /\ op'[h].pc = "none"
      /\ h # c => op'[c].pc = "reclaim" /\ op'[c].target = s
      /\ \A d \in Contexts \ {c, h} : op'[d] = op[d]
  <2>1. Gone.pc = "none"
    BY DEF Gone, At
  <2>2. \A r \in Call : [r EXCEPT !.pc = "reclaim"].pc = "reclaim"
                        /\ [r EXCEPT !.pc = "reclaim"].target = r.target
    BY DEF Call
  <2>3. QED
    BY <1>1, <1>2, <1>3, <2>1, <2>2 DEF DeletePort
<1>5. \A g \in Handles : Alive(g)' => Alive(g) /\ g # h /\ arg'[g] = arg[g] /\ arg[g] # s
  <2> SUFFICES ASSUME NEW g \in Handles, Alive(g)'
               PROVE  Alive(g) /\ g # h /\ arg'[g] = arg[g] /\ arg[g] # s
    OBVIOUS
  <2>1. g # h
    BY <1>4 DEF Alive
  <2>2. Alive(g)
    <3>1. CASE g = c
      BY <1>2, <3>1 DEF Alive
    <3>2. CASE g # c
      BY <1>1, <1>4, <2>1, <3>2 DEF Alive
    <3>3. QED
      BY <3>1, <3>2
  <2>3. arg'[g] = arg[g]
    BY <1>2, <2>1
  <2>4. arg[g] # s
    BY <1>2, <1>3, <2>1, <2>2 DEF Given, Tenancy, OneTask
  <2>5. QED
    BY <2>1, <2>2, <2>3, <2>4
<1>6. \A d \in Contexts : op[d].pc \in Creating => d # c /\ d # h /\ op'[d] = op[d]
  BY <1>2, <1>4 DEF Creating
<1>7. OneTask'
  BY <1>5 DEF Tenancy, OneTask
<1>8. Housed'
  BY <1>2, <1>5, <1>6 DEF Tenancy, Housed, Creating
<1>9. Buried'
  <2>1. ASSUME NEW d \in Contexts, op'[d].pc = "reclaim"
        PROVE  \/ d = c /\ op'[d].target = s
               \/ op'[d] = op[d]
    BY <1>4, <2>1
  <2>2. QED
    BY <1>5, <2>1 DEF Tenancy, Buried, Given
<1>10. Reserved'
  BY <1>2, <1>6 DEF Tenancy, Reserved
<1>11. QED
  BY <1>7, <1>8, <1>9, <1>10 DEF Tenancy

\* A slot that is reclaimed has lost its task.
LEMMA TenancyReclaim ==
  ASSUME QueueInv, OwnInv, Tenancy, NEW c \in Contexts, DeleteReclaim(c)
  PROVE  Tenancy'
<1> DEFINE s == op[c].target
<1>1. op \in [Contexts -> Call] /\ slot \in [Slots -> SlotState] /\ Handles \subseteq Contexts
  BY DEF QueueInv, TypeOK, Contexts
<1>2. /\ op[c].pc = "reclaim" /\ s \in Slots /\ slot[s] = "DELETING" /\ UNCHANGED arg
      /\ op' = [op EXCEPT ![c] = [pc |-> op[c].back, target |-> NoTask, port |-> NoHandle, back |-> "body"]]
      /\ op[c].back \in {"body", "exit", "abort"}
  BY <1>1 DEF DeleteReclaim, At, OwnInv, QueueInv, Pointers, Deleting, Call
<1>3. /\ op'[c].pc \in {"body", "exit", "abort"}
      /\ \A d \in Contexts \ {c} : op'[d] = op[d]
  BY <1>1, <1>2
<1>4. slot' = [slot EXCEPT ![s] = "FREE"] \/ UNCHANGED slot
  BY DEF DeleteReclaim, Zero
<1>5. \A h \in Handles : (Alive(h)' <=> Alive(h)) /\ (Alive(h) => arg[h] # s /\ arg[h] \in Slots)
  BY <1>1, <1>2, <1>3 DEF Alive, Tenancy, Buried, Given, QueueInv, Pointers
<1>6. \A u \in Slots \ {s} : slot'[u] = slot[u]
  BY <1>1, <1>4
<1>7. OneTask' /\ Buried'
  BY <1>2, <1>3, <1>5 DEF Tenancy, OneTask, Buried, Given
<1>8. Housed'
  BY <1>2, <1>3, <1>5, <1>6 DEF Tenancy, Housed
<1>9. Reserved'
  <2>1. slot'[s] # "RESERVED"
    BY <1>1, <1>2, <1>4
  <2>2. QED
    BY <1>2, <1>3, <1>6, <2>1 DEF Tenancy, Reserved, Creating
<1>10. QED
  BY <1>7, <1>8, <1>9 DEF Tenancy

-----------------------------------------------------------------------------
(* Who acts when: until mk_start the boot thread alone, afterwards only    *)
(* port tasks, each of which deletes nobody but itself.                    *)

BootAlone ==
  /\ kernel = "running" => boot.phase = "up"
  /\ op[Boot].pc \in {"body"} \cup Creating \cup Deleting
  /\ op[Boot].pc \in Creating => boot.phase = "spawn" /\ boot.next <= Len(BootList)
  /\ op[Boot].pc \in Deleting => boot.phase = "rollback" /\ op[Boot].back = "body"
GateShut == kernel # "running" => \A h \in Handles : op[h].pc \in {"none", "gate"}
EndsSelf == \A h \in Handles : op[h].pc # "reclaim" /\ (op[h].pc = "unport" => op[h].port = h)

\* The current task has run, so its slot is in use or about to be published.
InUse(s) == slot[s] \in {"LIVE", "DELETING"} \/ \E h \in Handles : Given(h, s)
CurrentKept == sch.current # NoTask => kernel = "running" /\ InUse(sch.current)

Roles == BootAlone /\ GateShut /\ EndsSelf /\ CurrentKept

\* s_current_task is written when a task starts and when the kernel is initialised,
\* at which time it was null already.
LEMMA CurrentSteps ==
  ASSUME QueueInv, Dormant, Next, ~Reset
  PROVE  sch'.current = sch.current \/ \E h \in Handles : MarkCurrent(h)
<1>1. /\ sch \in Sched /\ sch.sleep = NoTask
      /\ Queued(sch, Live) /\ Live \in SUBSET Tasks /\ Slots = Tasks
  BY DEF QueueInv, TypeOK, ReadyListsExact, Live, Slots
<1>2. ASSUME NEW c \in Contexts, NEW p \in Nat, NEW e, CreateReserve(c, p, e)
      PROVE  sch'.current = sch.current
  <2>1. PICK s \in First(Free) : sch' = NewTcb(sch, s, p)
    BY <1>2 DEF CreateReserve
  <2>2. s \in Tasks
    BY <1>1 DEF First, Free
  <2>3. QED
    BY <1>1, <2>1, <2>2, NewTcbFields
<1>3. ASSUME NEW s \in Slots, Zero(s, "FREE")
      PROVE  sch'.current = sch.current
  BY <1>1, <1>3, BlankTcbFields DEF Zero
<1>4. ASSUME NEW c, NEW s \in Slots, NEW back, Delete(c, s, back)
      PROVE  sch'.current = sch.current
  <2>1. CASE DeleteLock(c, s, back)
    <3> DEFINE marked == [sch EXCEPT !.state[s] = "DELETED"]
    <3>1. marked \in Sched /\ marked.current = sch.current
      BY <1>1, StateFrame DEF TaskState
    <3>2. sch' = RemoveReady(marked, s)
      BY <2>1 DEF DeleteLock
    <3> HIDE DEF marked
    <3>3. QED
      BY <1>1, <3>1, <3>2, RemoveReadyFields
  <2>2. CASE DeleteRefused(c, s, back)
    BY <2>2 DEF DeleteRefused
  <2>3. QED
    BY <1>4, <2>1, <2>2 DEF Delete
<1>5. ASSUME NEW c \in Contexts, Proceed(c)
      PROVE  sch'.current = sch.current
  <2>1. CASE CreatePublish(c)
    <3>1. op[c].target \in Tasks /\ sch' = AddReady(sch, op[c].target)
      BY <1>1, <2>1 DEF CreatePublish, QueueInv, Pointers, Creating
    <3>2. QED
      BY <1>1, <3>1, AddReadyFields
  <2>2. CASE CreateUndo(c)
    BY <1>3, <2>2 DEF CreateUndo, QueueInv, Pointers, Creating
  <2>3. CASE DeleteReclaim(c)
    BY <1>3, <2>3 DEF DeleteReclaim, QueueInv, Pointers, Deleting
  <2>4. CASE DeletePort(c) \/ CreatePortFails(c) \/ \E h \in Handles : CreatePort(c, h)
    BY <2>4 DEF DeletePort, CreatePortFails, CreatePort
  <2>5. QED
    BY <1>5, <2>1, <2>2, <2>3, <2>4 DEF Proceed
<1>6. ASSUME NEW h \in Handles,
             Wrapper(h) \/ JobEnds(h) \/ ServiceSpawns(h) \/ ServiceDeletes(h)
      PROVE  sch'.current = sch.current \/ MarkCurrent(h)
  <2>1. CASE PassGate(h)
    BY <2>1 DEF PassGate
  <2>2. CASE MarkRunning(h)
    <3>1. arg[h] \in Tasks
      BY <1>1, <2>2 DEF MarkRunning, QueueInv, Pointers, Alive
    <3>2. QED
      BY <1>1, <2>2, <3>1, StateFrame DEF MarkRunning, TaskState
  <2>3. CASE WrapperDelete(h)
    BY <1>4, <2>3 DEF WrapperDelete, QueueInv, Pointers, Alive
  <2>4. CASE JobEnds(h)
    <3>1. Self(h) # NoTask => Self(h) \in Slots
      BY DEF Self, First, Live
    <3>2. QED
      BY <1>4, <2>4, <3>1 DEF JobEnds
  <2>5. CASE ServiceSpawns(h)
    <3>1. h \in Contexts /\ JobPrio \in Nat
      BY TaskTableAssumption DEF Contexts
    <3>2. QED
      BY <1>2, <2>5, <3>1 DEF ServiceSpawns, CreateFull
  <2>6. CASE ServiceDeletes(h)
    BY <1>4, <2>6 DEF ServiceDeletes
  <2>7. QED
    BY <1>6, <2>1, <2>2, <2>3, <2>4, <2>5, <2>6 DEF Wrapper
<1>7. CASE BootStep
  <2>1. CASE BootInit
    BY <2>1 DEF BootInit, Dormant
  <2>2. CASE BootSpawn
    <3>1. boot.next \in 1 .. Len(BootList)
      BY <2>2, TaskTableAssumption DEF BootSpawn, QueueInv, TypeOK
    <3>2. BootList[boot.next] \in Item
      BY <3>1, TaskTableAssumption
    <3>3. BootList[boot.next].prio \in Nat /\ Boot \in Contexts
      BY <3>2 DEF Item, Contexts
    <3>4. QED
      BY <1>2, <2>2, <3>3 DEF BootSpawn, CreateFull
  <2>3. CASE BootRollback /\ boot.made # <<>>
    <3>1. Last(boot.made) \in Slots
      BY <2>3 DEF Last, QueueInv, TypeOK
    <3>2. QED
      BY <1>4, <2>3, <3>1 DEF BootRollback
  <2>4. CASE (BootRollback /\ boot.made = <<>>) \/ BootStart \/ BootIdle
    BY <2>4 DEF BootRollback, BootStart, BootIdle, vars
  <2>5. QED
    BY <1>7, <2>1, <2>2, <2>3, <2>4 DEF BootStep
<1>8. CASE SystemTick
  BY <1>1, <1>8, TickAwake, AccountQueued DEF SystemTick
<1>9. QED
  BY <1>5, <1>6, <1>7, <1>8 DEF Next

\* At power-up there is neither a port task nor a current task.
LEMMA TenancyInit == Init => Tenancy /\ Roles
<1> SUFFICES ASSUME Init PROVE Tenancy /\ Roles
  OBVIOUS
<1>1. /\ \A h \in Handles : op[h].pc = "none"
      /\ op[Boot].pc = "body" /\ sch.current = NoTask
      /\ kernel = "off" /\ \A s \in Slots : slot[s] = "FREE"
  BY TaskTableAssumption DEF Init, Contexts, AtBody, Gone, At, InitSched
<1>2. Tenancy
  BY <1>1 DEF Tenancy, OneTask, Housed, Buried, Reserved, Alive, Given, Contexts
<1>3. Roles
  BY <1>1 DEF Roles, BootAlone, GateShut, EndsSelf, CurrentKept, Creating, Deleting
<1>4. QED
  BY <1>2, <1>3

\* What a step of a port task must keep for the roles to be kept.
LEMMA RolesFrame ==
  ASSUME QueueInv, Dormant, Roles, Next, ~Reset,
         kernel = "running", UNCHANGED <<kernel, boot>>, op'[Boot] = op[Boot],
         \A g \in Handles : op'[g].pc # "reclaim" /\ (op'[g].pc = "unport" => op'[g].port = g),
         \A s \in Slots : InUse(s) => InUse(s)'
  PROVE  Roles'
<1>1. BootAlone' /\ GateShut' /\ EndsSelf'
  BY DEF Roles, BootAlone, GateShut, EndsSelf
<1>2. CurrentKept'
  <2>1. CASE sch'.current = sch.current
    <3>1. sch.current # NoTask => sch.current \in Slots /\ InUse(sch.current)
      BY DEF QueueInv, TypeOK, Sched, Link, Slots, Roles, CurrentKept
    <3>2. QED
      BY <2>1, <3>1 DEF CurrentKept, InUse, Given
  <2>2. ASSUME NEW h \in Handles, MarkCurrent(h)
        PROVE  CurrentKept'
    <3>1. sch \in Sched /\ arg[h] \in Slots /\ Given(h, arg[h])
      BY <2>2 DEF MarkCurrent, QueueInv, TypeOK, Pointers, Alive, Given
    <3>2. sch'.current = arg[h]
      BY <2>2, <3>1 DEF MarkCurrent, Sched
    <3>3. InUse(arg[h])' /\ UNCHANGED arg
      BY <2>2, <3>1 DEF InUse, MarkCurrent
    <3>4. QED
      BY <3>2, <3>3 DEF CurrentKept, InUse, Given
  <2>3. QED
    BY <2>1, <2>2, CurrentSteps
<1>3. QED
  BY <1>1, <1>2 DEF Roles

\* A port task acts only when the kernel runs.
LEMMA TaskRuns ==
  ASSUME Roles, NEW h \in Handles, Proceed(h) \/ Wrapper(h) \/ JobEnds(h) \/ ServiceSpawns(h)
  PROVE  kernel = "running" /\ kernel' = kernel
<1>1. kernel = "running"
  <2>1. CASE op[h].pc = "gate"
    BY <2>1 DEF Proceed, CreatePort, CreatePortFails, CreatePublish, CreateUndo, DeletePort,
                DeleteReclaim, Wrapper, PassGate, MarkRunning, MarkCurrent, WrapperDelete,
                JobEnds, ServiceSpawns
  <2>2. CASE op[h].pc = "none"
    BY <2>2 DEF Proceed, CreatePort, CreatePortFails, CreatePublish, CreateUndo, DeletePort,
                DeleteReclaim, Wrapper, PassGate, MarkRunning, MarkCurrent, WrapperDelete,
                JobEnds, ServiceSpawns
  <2>3. QED
    BY <2>1, <2>2 DEF Roles, GateShut
<1>2. kernel' = kernel
  BY DEF Proceed, CreatePort, CreatePortFails, CreatePublish, CreateUndo, DeletePort,
         DeleteReclaim, Wrapper, PassGate, MarkRunning, MarkCurrent, WrapperDelete, JobEnds,
         ServiceSpawns, Delete, DeleteLock, DeleteRefused, CreateReserve, CreateFull
<1>3. QED
  BY <1>1, <1>2

\* A port task that runs keeps both invariants: it takes no slot from another task
\* and deletes none.
LEMMA TaskKeeps ==
  ASSUME QueueInv, Dormant, OwnInv, Tenancy, Roles, ~AppDeletes, Next, ~Reset,
         NEW h \in Handles, Proceed(h) \/ Wrapper(h) \/ JobEnds(h) \/ ServiceSpawns(h)
  PROVE  Tenancy' /\ Roles'
<1>1. /\ op \in [Contexts -> Call] /\ slot \in [Slots -> SlotState] /\ arg \in [Handles -> Link]
      /\ handle \in [Slots -> Handles \cup {NoHandle}]
      /\ h \in Contexts /\ Boot \in Contexts /\ h # Boot
      /\ Handles \subseteq Contexts /\ NoHandle \notin Contexts
  BY TaskTableAssumption DEF QueueInv, TypeOK, Contexts
<1>2. kernel = "running" /\ op[Boot].pc = "body"
  BY TaskRuns DEF Roles, BootAlone, Creating, Deleting
<1>3. ASSUME NEW s \in Slots, NEW back \in {"body", "exit", "abort"}, Delete(h, s, back),
             op[h].pc \in {"body", "exit"}, slot[s] = "LIVE" => handle[s] = h
      PROVE  Tenancy' /\ Roles'
  <2>1. Tenancy'
    BY <1>1, <1>3, TenancyDelete
  <2>2. /\ UNCHANGED <<kernel, boot, arg>>
        /\ \A d \in Contexts \ {h} : op'[d] = op[d]
        /\ op'[h].pc # "none" /\ op'[h].pc # "reclaim"
        /\ op'[h].pc = "unport" => op'[h].port = h
        /\ \A u \in Slots \ {s} : slot'[u] = slot[u]
        /\ slot'[s] = slot[s] \/ slot'[s] = "DELETING"
    BY <1>1, <1>3 DEF Delete, DeleteLock, DeleteRefused, Deleted, At
  <2>3. \A u \in Slots : InUse(u) => InUse(u)'
    BY <1>1, <2>2 DEF InUse, Given, Alive
  <2>4. Roles'
    BY <1>1, <1>2, <2>2, <2>3, RolesFrame DEF Roles, EndsSelf
  <2>5. QED
    BY <2>1, <2>4
<1>4. ASSUME \/ \E p \in Nat, e \in Entries : CreateReserve(h, p, e)
             \/ CreatePortFails(h) \/ CreatePublish(h) \/ CreateUndo(h)
      PROVE  Tenancy' /\ Roles'
  <2>1. Tenancy'
    BY <1>1, <1>4, TenancyCreate
  <2>2. /\ UNCHANGED <<kernel, boot, arg>>
        /\ op'[h].pc \in {"port", "publish", "body"}
        /\ \A d \in Contexts \ {h} : op'[d] = op[d]
    <3>1. UNCHANGED <<kernel, boot, arg>>
      BY <1>1, <1>4
         DEF CreateReserve, CreatePortFails, CreatePublish, CreateUndo, Created
    <3>2. /\ \A r \in Call : [r EXCEPT !.pc = "publish"].pc = "publish"
          /\ AtBody.pc = "body" /\ \A u : At("port", u).pc = "port"
      BY DEF Call, AtBody, At
    <3>3. PICK r : op' = [op EXCEPT ![h] = r] /\ r.pc \in {"port", "publish", "body"}
      BY <1>1, <1>4, <3>2 DEF CreateReserve, CreatePortFails, CreatePublish, CreateUndo
    <3>4. QED
      BY <1>1, <3>1, <3>3
  <2>3. \A u \in Slots : slot[u] \in {"LIVE", "DELETING"} => slot'[u] = slot[u]
    <3>1. op[h].pc = "publish" => op[h].target \in Slots /\ slot[op[h].target] = "RESERVED"
      BY <1>1 DEF QueueInv, Pointers, Reservations, Creating
    <3>2. QED
      BY <1>1, <1>4, <3>1
         DEF CreateReserve, CreatePortFails, CreatePublish, CreateUndo, Zero, First, Free
  <2>4. \A u \in Slots : InUse(u) => InUse(u)'
    <3>1. op[h].pc # "none"
      BY <1>4 DEF CreateReserve, CreatePortFails, CreatePublish, CreateUndo
    <3>2. QED
      BY <1>1, <2>2, <2>3, <3>1 DEF InUse, Given, Alive
  <2>5. Roles'
    BY <1>1, <1>2, <2>2, <2>4, RolesFrame DEF Roles, EndsSelf
  <2>6. QED
    BY <2>1, <2>5
<1>5. ASSUME UNCHANGED <<kernel, boot, arg, slot>>, op[h].pc \notin {"none", "port", "publish"},
             op'[h].pc \notin {"none", "port", "publish", "unport", "reclaim"},
             \A d \in Contexts \ {h} : op'[d] = op[d]
      PROVE  Tenancy' /\ Roles'
  <2>1. Tenancy'
    BY <1>5, TenancyFrame
  <2>2. \A u \in Slots : InUse(u) => InUse(u)'
    BY <1>1, <1>5 DEF InUse, Given, Alive
  <2>3. Roles'
    BY <1>1, <1>2, <1>5, <2>2, RolesFrame DEF Roles, EndsSelf
  <2>4. QED
    BY <2>1, <2>3
<1>6. CASE \E g \in Handles : CreatePort(h, g)
  <2>1. PICK g \in Handles : CreatePort(h, g)
    BY <1>6
  <2>2. Tenancy'
    BY <1>1, <2>1, TenancyCreate
  <2>3. /\ UNCHANGED <<kernel, boot, slot>> /\ op[g].pc = "none" /\ op[h].pc = "port"
        /\ \A x \in Handles \ {g} : arg'[x] = arg[x]
        /\ op'[h].pc = "publish" /\ op'[g].pc = "gate"
        /\ \A d \in Contexts \ {h, g} : op'[d] = op[d]
    <3>1. /\ [At("publish", op[h].target) EXCEPT !.port = g].pc = "publish"
          /\ At("gate", NoTask).pc = "gate"
      BY DEF At
    <3>2. QED
      BY <1>1, <2>1, <3>1 DEF CreatePort, Alive
  <2>4. \A u \in Slots : InUse(u) => InUse(u)'
    BY <1>1, <2>3 DEF InUse, Given, Alive
  <2>5. g # Boot
    BY TaskTableAssumption
  <2>6. Roles'
    BY <1>1, <1>2, <2>3, <2>4, <2>5, RolesFrame DEF Roles, EndsSelf
  <2>7. QED
    BY <2>2, <2>6
<1>7. CASE DeletePort(h)
  <2>1. op[h].pc = "unport" /\ op[h].port = h /\ op[h].target \in Slots
    BY <1>1, <1>7 DEF DeletePort, Roles, EndsSelf, QueueInv, Pointers, Deleting
  <2>2. Tenancy'
    BY <1>1, <1>7, <2>1, TenancyUnport
  <2>3. /\ UNCHANGED <<kernel, boot, slot>> /\ op'[h].pc = "none"
        /\ \A x \in Handles \ {h} : arg'[x] = arg[x]
        /\ \A d \in Contexts \ {h} : op'[d] = op[d]
    <3>1. Gone.pc = "none"
      BY DEF Gone, At
    <3>2. QED
      BY <1>1, <1>7, <2>1, <3>1 DEF DeletePort
  <2>4. slot[arg[h]] = "DELETING"
    BY <1>1, <2>1 DEF OwnInv, Given, Deleting
  <2>5. \A u \in Slots : InUse(u) => InUse(u)'
    BY <1>1, <2>3, <2>4 DEF InUse, Given, Alive
  <2>6. Roles'
    BY <1>1, <1>2, <2>3, <2>5, RolesFrame DEF Roles, EndsSelf
  <2>7. QED
    BY <2>2, <2>6
<1>8. CASE PassGate(h) \/ MarkRunning(h) \/ MarkCurrent(h) \/ (JobEnds(h) /\ Self(h) = NoTask)
  <2>1. PICK p \in {"mark", "current", "body", "exit"} : op' = [op EXCEPT ![h].pc = p]
    BY <1>8 DEF PassGate, MarkRunning, MarkCurrent, JobEnds
  <2>2. op[h].pc \in {"gate", "mark", "current", "body"} /\ UNCHANGED <<kernel, boot, arg, slot>>
    BY <1>8 DEF PassGate, MarkRunning, MarkCurrent, JobEnds
  <2>3. \A r \in Call : [r EXCEPT !.pc = p].pc = p
    BY DEF Call
  <2>4. op'[h].pc = p /\ \A d \in Contexts \ {h} : op'[d] = op[d]
    BY <1>1, <2>1, <2>3
  <2>5. QED
    BY <1>5, <2>2, <2>4
<1>9. CASE JobEnds(h) /\ Self(h) # NoTask
  <2>1. Self(h) \in Slots /\ handle[Self(h)] = h
    BY <1>9 DEF Self, First, Live
  <2>2. QED
    BY <1>3, <1>9, <2>1 DEF JobEnds
<1>10. CASE WrapperDelete(h)
  <2>1. op[h].pc = "exit" /\ arg[h] \in Slots /\ Delete(h, arg[h], "abort")
    BY <1>10 DEF WrapperDelete, QueueInv, Pointers, Alive
  <2>2. slot[arg[h]] = "LIVE" => handle[arg[h]] = h
    BY <2>1 DEF OwnInv, Live, Given, Alive, Tenancy, OneTask
  <2>3. QED
    BY <1>3, <2>1, <2>2
<1>11. CASE ServiceSpawns(h) /\ CreateFull(h)
  <2>1. UNCHANGED <<kernel, boot, arg, slot, op>> /\ op[h].pc = "body"
    BY <1>1, <1>11 DEF CreateFull, Created
  <2>2. QED
    BY <1>5, <2>1
<1>12. CASE ServiceSpawns(h) /\ CreateReserve(h, JobPrio, "job")
  <2>1. JobPrio \in Nat /\ "job" \in Entries
    BY TaskTableAssumption DEF Entries
  <2>2. QED
    BY <1>4, <1>12, <2>1
<1>13. ~DeleteReclaim(h)
  BY DEF DeleteReclaim, Roles, EndsSelf
<1>14. QED
  BY <1>4, <1>6, <1>7, <1>8, <1>9, <1>10, <1>11, <1>12, <1>13 DEF Proceed, Wrapper, ServiceSpawns

\* The boot thread acts before the gate opens, when no port task is past it.
LEMMA BootKeeps ==
  ASSUME QueueInv, Dormant, OwnInv, Tenancy, Roles, Next, ~Reset, Proceed(Boot) \/ BootStep
  PROVE  Tenancy' /\ Roles'
<1>1. /\ op \in [Contexts -> Call] /\ arg \in [Handles -> Link]
      /\ Boot \in Contexts /\ Boot \notin Handles
      /\ Handles \subseteq Contexts /\ NoHandle \notin Contexts
      /\ boot \in [phase : Phase, next : Nat \ {0}, made : Seq(Slots)]
      /\ Len(BootList) \in Nat
  BY TaskTableAssumption DEF QueueInv, TypeOK, Contexts
<1>2. boot.phase \in {"init", "spawn", "rollback", "failed"}
  BY <1>1 DEF Proceed, CreatePort, CreatePortFails, CreatePublish, CreateUndo, DeletePort,
              DeleteReclaim, BootStep, BootInit, BootSpawn, BootStart, BootRollback, BootIdle,
              Roles, BootAlone, Creating, Deleting
<1>3. /\ kernel # "running" /\ sch.current = NoTask
      /\ \A h \in Handles : op[h].pc \in {"none", "gate"}
  BY <1>2 DEF Roles, BootAlone, GateShut, CurrentKept
<1>4. sch'.current = NoTask
  BY <1>3, CurrentSteps DEF MarkCurrent
<1>5. ASSUME BootAlone', \A h \in Handles : op'[h].pc \in {"none", "gate"}
      PROVE  Roles'
  BY <1>4, <1>5 DEF Roles, GateShut, EndsSelf, CurrentKept
<1>6. ASSUME NEW r \in Call, op' = [op EXCEPT ![Boot] = r], kernel' = kernel,
             r.pc \in {"body"} \cup Creating \cup Deleting,
             r.pc \in Creating => boot'.phase = "spawn" /\ boot'.next <= Len(BootList),
             r.pc \in Deleting => boot'.phase = "rollback" /\ r.back = "body"
      PROVE  Roles'
  <2>1. op'[Boot] = r /\ \A h \in Handles : op'[h] = op[h]
    BY <1>1, <1>6
  <2>2. BootAlone'
    BY <1>3, <1>6, <2>1 DEF BootAlone
  <2>3. QED
    BY <1>3, <1>5, <2>1, <2>2
<1>7. AtBody \in Call /\ AtBody.pc = "body"
  BY DEF AtBody, At, Call, Pc, Link
<1>8. ASSUME NEW s \in Slots, Delete(Boot, s, "body"), BootRollback
      PROVE  Tenancy' /\ Roles'
  <2>1. op[Boot].pc = "body" /\ boot.phase = "rollback"
    BY <1>8 DEF BootRollback
  <2>2. Tenancy'
    BY <1>1, <1>8, <2>1, TenancyDelete
  <2>3. CASE DeleteLock(Boot, s, "body")
    <3> DEFINE r == [pc |-> "unport", target |-> s, port |-> handle[s], back |-> "body"]
    <3>1. r \in Call
      BY DEF Call, Pc, Link, Slots, QueueInv, TypeOK
    <3>2. op' = [op EXCEPT ![Boot] = r] /\ UNCHANGED <<kernel, boot>>
      BY <2>3 DEF DeleteLock
    <3>3. Roles'
      BY <1>6, <2>1, <3>1, <3>2 DEF Creating, Deleting
    <3>4. QED
      BY <2>2, <3>3
  <2>4. CASE DeleteRefused(Boot, s, "body")
    <3>1. op' = [op EXCEPT ![Boot] = AtBody] /\ UNCHANGED kernel
      BY <2>4 DEF DeleteRefused, AtBody
    <3>2. Roles'
      BY <1>6, <1>7, <3>1 DEF Creating, Deleting
    <3>3. QED
      BY <2>2, <3>2
  <2>5. QED
    BY <1>8, <2>3, <2>4 DEF Delete
<1>9. CASE CreatePublish(Boot) \/ CreateUndo(Boot)
  <2>1. Tenancy'
    BY <1>1, <1>9, TenancyCreate
  <2>2. op' = [op EXCEPT ![Boot] = AtBody] /\ UNCHANGED kernel
    BY <1>9 DEF CreatePublish, CreateUndo
  <2>3. Roles'
    BY <1>6, <1>7, <2>2 DEF Creating, Deleting
  <2>4. QED
    BY <2>1, <2>3
<1>10. CASE CreatePortFails(Boot)
  <2>1. Tenancy'
    BY <1>1, <1>10, TenancyCreate
  <2>2. /\ [op[Boot] EXCEPT !.pc = "publish"] \in Call
        /\ [op[Boot] EXCEPT !.pc = "publish"].pc = "publish"
    BY <1>1 DEF Call, Pc
  <2>3. /\ op' = [op EXCEPT ![Boot] = [op[Boot] EXCEPT !.pc = "publish"]]
        /\ UNCHANGED <<kernel, boot>> /\ op[Boot].pc = "port"
    BY <1>1, <1>10 DEF CreatePortFails
  <2>4. Roles'
    BY <1>6, <2>2, <2>3 DEF Creating, Deleting, Roles, BootAlone
  <2>5. QED
    BY <2>1, <2>4
<1>11. CASE \E g \in Handles : CreatePort(Boot, g)
  <2>1. PICK g \in Handles : CreatePort(Boot, g)
    BY <1>11
  <2>2. Tenancy'
    BY <1>1, <2>1, TenancyCreate
  <2>3. /\ UNCHANGED <<kernel, boot>> /\ op[Boot].pc = "port"
        /\ op'[Boot].pc = "publish" /\ op'[g].pc = "gate"
        /\ \A h \in Handles \ {g} : op'[h] = op[h]
    <3>1. /\ [At("publish", op[Boot].target) EXCEPT !.port = g].pc = "publish"
          /\ At("gate", NoTask).pc = "gate"
      BY DEF At
    <3>2. QED
      BY <1>1, <2>1, <3>1 DEF CreatePort
  <2>4. BootAlone'
    BY <2>3 DEF Roles, BootAlone, Creating, Deleting
  <2>5. QED
    BY <1>3, <1>5, <2>2, <2>3, <2>4
<1>12. CASE DeletePort(Boot)
  <2>1. op[Boot].pc = "unport" /\ op[Boot].port \in Handles
    BY <1>1, <1>12 DEF DeletePort, OwnInv, Given
  <2>2. Tenancy'
    BY <1>1, <1>3, <1>12, <2>1, TenancyUnport
  <2>3. /\ UNCHANGED <<kernel, boot>>
        /\ op'[Boot].pc = "reclaim" /\ op'[Boot].back = op[Boot].back
        /\ \A h \in Handles : op'[h].pc \in {"none", "gate"}
    <3>1. Gone.pc = "none"
      BY DEF Gone, At
    <3>2. \A r \in Call : /\ [r EXCEPT !.pc = "reclaim"].pc = "reclaim"
                          /\ [r EXCEPT !.pc = "reclaim"].back = r.back
      BY DEF Call
    <3>3. QED
      BY <1>1, <1>3, <1>12, <2>1, <3>1, <3>2 DEF DeletePort
  <2>4. BootAlone'
    BY <2>1, <2>3 DEF Roles, BootAlone, Creating, Deleting
  <2>5. QED
    BY <1>5, <2>2, <2>3, <2>4
<1>13. CASE DeleteReclaim(Boot)
  <2>1. Tenancy'
    BY <1>1, <1>13, TenancyReclaim
  <2>2. op[Boot].back = "body"
    BY <1>13 DEF DeleteReclaim, Roles, BootAlone, Deleting
  <2>3. op' = [op EXCEPT ![Boot] = AtBody] /\ UNCHANGED kernel
    BY <1>13, <2>2 DEF DeleteReclaim, AtBody
  <2>4. Roles'
    BY <1>6, <1>7, <2>3 DEF Creating, Deleting
  <2>5. QED
    BY <2>1, <2>4
<1>14. CASE BootSpawn
  <2>1. boot.next \in 1 .. Len(BootList) /\ boot.phase = "spawn"
    BY <1>1, <1>14 DEF BootSpawn
  <2>2. BootList[boot.next] \in Item
    BY <2>1, TaskTableAssumption
  <2>3. BootList[boot.next].prio \in Nat /\ BootList[boot.next].entry \in Entries
    BY <2>2 DEF Item
  <2>4. CASE CreateReserve(Boot, BootList[boot.next].prio, BootList[boot.next].entry)
    <3>1. Tenancy'
      BY <1>1, <2>3, <2>4, TenancyCreate
    <3>2. PICK s \in Slots : op' = [op EXCEPT ![Boot] = At("port", s)]
      BY <2>4 DEF CreateReserve, First, Free
    <3>3. At("port", s) \in Call /\ At("port", s).pc = "port"
      BY DEF At, Call, Pc, Link, Slots
    <3>4. UNCHANGED <<kernel, boot>>
      BY <2>4 DEF CreateReserve
    <3>5. boot'.phase = "spawn" /\ boot'.next <= Len(BootList)
      BY <1>1, <2>1, <3>4
    <3> DEFINE r == At("port", s)
    <3>6. r \in Call /\ r.pc = "port" /\ op' = [op EXCEPT ![Boot] = r] /\ kernel' = kernel
      BY <3>2, <3>3, <3>4
    <3> HIDE DEF r
    <3>7. Roles'
      BY <1>6, <3>5, <3>6 DEF Creating, Deleting
    <3>8. QED
      BY <3>1, <3>7
  <2>5. CASE CreateFull(Boot)
    <3>1. UNCHANGED <<slot, arg, op, kernel>> /\ op[Boot].pc = "body"
      BY <2>5 DEF CreateFull
    <3>2. Tenancy'
      BY <3>1, TenancyFrame
    <3>3. BootAlone'
      BY <1>3, <3>1 DEF BootAlone, Creating, Deleting
    <3>4. QED
      BY <1>3, <1>5, <3>1, <3>2, <3>3
  <2>6. QED
    BY <1>14, <2>4, <2>5 DEF BootSpawn
<1>15. CASE BootInit \/ BootStart \/ BootIdle \/ (BootRollback /\ boot.made = <<>>)
  <2>1. UNCHANGED <<slot, arg, op>>
    BY <1>15 DEF BootInit, BootStart, BootIdle, BootRollback, vars
  <2>2. Tenancy'
    BY <2>1, TenancyFrame
  <2>3. op[Boot].pc = "body"
    <3>1. boot.phase = "spawn" => boot.next > Len(BootList)
      BY <1>15 DEF BootInit, BootStart, BootIdle, BootRollback
    <3>2. boot.phase = "rollback" => op[Boot].pc = "body"
      BY <1>15 DEF BootInit, BootStart, BootIdle, BootRollback
    <3>3. QED
      BY <1>1, <3>1, <3>2 DEF Roles, BootAlone
  <2>4. kernel' = "running" => boot'.phase = "up"
    BY <1>1, <1>3, <1>15 DEF BootInit, BootStart, BootIdle, BootRollback, vars
  <2>5. BootAlone'
    BY <2>1, <2>3, <2>4 DEF BootAlone, Creating, Deleting
  <2>6. QED
    BY <1>3, <1>5, <2>1, <2>2, <2>5
<1>16. CASE BootRollback /\ boot.made # <<>>
  <2>1. Last(boot.made) \in Slots
    BY <1>1, <1>16 DEF Last
  <2>2. QED
    BY <1>8, <1>16, <2>1 DEF BootRollback
<1>17. QED
  BY <1>9, <1>10, <1>11, <1>12, <1>13, <1>14, <1>15, <1>16 DEF Proceed, BootStep

\* Every step, a restart included, preserves both invariants.
LEMMA TenancyNext ==
  ASSUME ~AppDeletes
  PROVE  QueueInv /\ Dormant /\ OwnInv /\ Tenancy /\ Roles /\ [Next]_vars => Tenancy' /\ Roles'
<1> SUFFICES ASSUME QueueInv, Dormant, OwnInv, Tenancy, Roles, [Next]_vars
             PROVE  Tenancy' /\ Roles'
  OBVIOUS
<1>1. CASE Reset
  <2>1. Init'
    BY <1>1, ResetInit
  <2>2. QED
    BY <2>1, TenancyInit, PTL
<1>2. CASE Next /\ ~Reset
  <2>1. ~\E h \in Handles : ServiceDeletes(h)
    BY DEF ServiceDeletes
  <2>2. ASSUME NEW h \in Handles, Proceed(h) \/ Wrapper(h) \/ JobEnds(h) \/ ServiceSpawns(h)
        PROVE  Tenancy' /\ Roles'
    BY <1>2, <2>2, TaskKeeps
  <2>3. CASE Proceed(Boot) \/ BootStep
    BY <1>2, <2>3, BootKeeps
  <2>4. CASE SystemTick
    <3>1. UNCHANGED <<slot, kernel, op, arg, boot>>
      BY <2>4 DEF SystemTick
    <3>2. Tenancy'
      BY <3>1, TenancyFrame
    <3>3. sch'.current = sch.current
      <4>1. sch \in Sched /\ Live \in SUBSET Tasks /\ Queued(sch, Live) /\ sch.sleep = NoTask
        BY DEF QueueInv, TypeOK, ReadyListsExact, Live, Slots
      <4>2. QED
        BY <2>4, <4>1, TickAwake, AccountQueued DEF SystemTick
    <3>4. Roles'
      BY <3>1, <3>3 DEF Roles, BootAlone, GateShut, EndsSelf, CurrentKept, InUse, Given, Alive
    <3>5. QED
      BY <3>2, <3>4
  <2>5. QED
    BY <1>2, <2>1, <2>2, <2>3, <2>4 DEF Next, Contexts
<1>3. CASE UNCHANGED vars
  <2>1. Tenancy'
    BY <1>3, TenancyFrame DEF vars
  <2>2. Roles'
    BY <1>3 DEF vars, Roles, BootAlone, GateShut, EndsSelf, CurrentKept, InUse, Given, Alive
  <2>3. QED
    BY <2>1, <2>2
<1>4. QED
  BY <1>1, <1>2, <1>3

\* Where no task deletes another, a slot between its reservation and its publication
\* has exactly one creator, which is still at work on it: none is left behind reserved
\* (mk_task.c:53-98).
THEOREM ReservationsAlwaysOwned ==
  ASSUME ~AppDeletes PROVE Spec => []ReservationsOwned
<1>1. Init => QueueInv /\ Dormant /\ OwnInv /\ Tenancy /\ Roles
  BY QueueInvInit, DormantInit, OwnInit, TenancyInit
<1>2. QueueInv /\ Tenancy => ReservationsOwned
  <2> SUFFICES ASSUME QueueInv, Tenancy PROVE ReservationsOwned
    OBVIOUS
  <2>1. ASSUME NEW c \in Contexts, op[c].pc \in {"port", "publish"}
        PROVE  slot[op[c].target] = "RESERVED" /\ CreatorsOf(op[c].target) = {c}
    BY <2>1 DEF QueueInv, Reservations, Creating, CreatorsOf
  <2>2. ASSUME NEW s \in Slots, slot[s] = "RESERVED"
        PROVE  CreatorsOf(s) # {}
    BY <2>2 DEF Tenancy, Reserved, Creating, CreatorsOf
  <2>3. QED
    BY <2>1, <2>2 DEF ReservationsOwned
<1>3. QED
  BY <1>1, <1>2, QueueInvNext, OwnNext, TenancyNext, PTL DEF Spec

\* Where no task deletes another, the task the tick charges never sits in a slot that
\* was given back (mk_scheduler.c:189-213).
THEOREM CurrentAlwaysOccupied ==
  ASSUME ~AppDeletes PROVE Spec => []CurrentOccupied
<1>1. Init => QueueInv /\ Dormant /\ OwnInv /\ Tenancy /\ Roles
  BY QueueInvInit, DormantInit, OwnInit, TenancyInit
<1>2. QueueInv /\ Tenancy /\ Roles => CurrentOccupied
  <2> SUFFICES ASSUME QueueInv, Tenancy, Roles, sch.current # NoTask
               PROVE  slot[sch.current] # "FREE"
    BY DEF CurrentOccupied
  <2>1. InUse(sch.current)
    BY DEF Roles, CurrentKept
  <2>2. ASSUME NEW h \in Handles, Given(h, sch.current)
        PROVE  slot[sch.current] # "FREE"
    BY <2>2 DEF Given, Tenancy, Housed, QueueInv, Reservations, Creating
  <2>3. QED
    BY <2>1, <2>2 DEF InUse
<1>3. QED
  BY <1>1, <1>2, QueueInvNext, OwnNext, TenancyNext, PTL DEF Spec

-----------------------------------------------------------------------------
(* The boot thread's list of the tasks it made accounts for every slot in  *)
(* use as long as the kernel does not run.                                 *)

Made(s) == \E i \in 1 .. Len(boot.made) : boot.made[i] = s

BooksKept ==
  /\ boot.phase \in {"init", "failed"} => boot.made = <<>>
  /\ kernel # "running" => \A s \in Slots :
       slot[s] # "FREE" => Made(s) \/ (op[Boot].pc \in Creating /\ op[Boot].target = s)
  /\ kernel # "running" => \A s \in Slots :
       slot[s] = "DELETING" => op[Boot].pc \in Deleting /\ op[Boot].target = s
  /\ op[Boot].pc \in Deleting => /\ boot.made # <<>> /\ op[Boot].target = Last(boot.made)
                                 /\ handle[op[Boot].target] = op[Boot].port

\* Forgetting the last task made forgets no other.
LEMMA MadeFront ==
  ASSUME boot.made \in Seq(Slots), boot.made # <<>>, boot'.made = Front(boot.made)
  PROVE  /\ Last(boot.made) \in Slots
         /\ \A s \in Slots \ {Last(boot.made)} : Made(s) => Made(s)'
<1> DEFINE q == boot.made
<1>1. Len(q) \in Nat \ {0} /\ q[Len(q)] \in Slots
  OBVIOUS
<1>2. Len(Front(q)) = Len(q) - 1 /\ \A i \in 1 .. Len(q) - 1 : Front(q)[i] = q[i]
  BY <1>1 DEF Front
<1>3. ASSUME NEW s \in Slots \ {Last(q)}, Made(s)
      PROVE  Made(s)'
  <2>1. PICK i \in 1 .. Len(q) : q[i] = s
    BY <1>3 DEF Made
  <2>2. i \in 1 .. Len(q) - 1
    BY <1>1, <1>3, <2>1 DEF Last
  <2>3. QED
    BY <1>2, <2>1, <2>2 DEF Made
<1>4. QED
  BY <1>1, <1>3 DEF Last

\* A deletion the boot thread makes during rollback.
LEMMA BooksDelete ==
  ASSUME QueueInv, Tenancy, Roles, BooksKept, kernel # "running", op[Boot].pc = "body",
         boot.phase = "rollback", boot.made # <<>>, Delete(Boot, Last(boot.made), "body")
  PROVE  BooksKept'
<1> DEFINE s == Last(boot.made)
<1>1. /\ op \in [Contexts -> Call] /\ slot \in [Slots -> SlotState] /\ Boot \in Contexts
      /\ boot \in [phase : Phase, next : Nat \ {0}, made : Seq(Slots)] /\ s \in Slots
  BY DEF QueueInv, TypeOK, Contexts, Last
<1>2. \A u \in Slots : slot[u] \notin {"RESERVED", "DELETING"} /\ (slot[u] # "FREE" => Made(u))
  <2>1. \A c \in Contexts : op[c].pc \notin Creating
    BY DEF Roles, GateShut, Contexts, Creating
  <2>2. QED
    BY <2>1 DEF BooksKept, Tenancy, Reserved, Creating, Deleting
<1>3. CASE DeleteLock(Boot, s, "body")
  <2>1. /\ slot' = [slot EXCEPT ![s] = "DELETING"] /\ UNCHANGED <<handle, kernel, boot>>
        /\ op' = [op EXCEPT ![Boot] = [pc |-> "unport", target |-> s, port |-> handle[s], back |-> "body"]]
    BY <1>3 DEF DeleteLock
  <2>2. op'[Boot].pc = "unport" /\ op'[Boot].target = s /\ op'[Boot].port = handle'[s]
    BY <1>1, <2>1
  <2>3. Made(s)
    BY <1>1 DEF Made, Last
  <2>4. \A u \in Slots : slot'[u] # "FREE" => Made(u)'
    BY <1>1, <1>2, <2>1, <2>3 DEF Made
  <2>5. \A u \in Slots : slot'[u] = "DELETING" => u = s
    BY <1>1, <1>2, <2>1
  <2>6. QED
    BY <2>1, <2>2, <2>4, <2>5 DEF BooksKept, Deleting
<1>4. CASE DeleteRefused(Boot, s, "body")
  <2>1. /\ slot[s] # "LIVE" /\ UNCHANGED <<slot, kernel>>
        /\ op'[Boot].pc = "body" /\ boot' = [boot EXCEPT !.made = Front(boot.made)]
    BY <1>1, <1>4 DEF DeleteRefused, Deleted, At
  <2>2. boot'.made = Front(boot.made) /\ boot'.phase = "rollback"
    BY <1>1, <2>1
  <2>3. slot[s] = "FREE"
    BY <1>1, <1>2, <2>1 DEF SlotState
  <2>4. \A u \in Slots : slot[u] # "FREE" => Made(u)'
    BY <1>1, <1>2, <2>2, <2>3, MadeFront
  <2>5. QED
    BY <1>2, <2>1, <2>2, <2>4 DEF BooksKept, Deleting
<1>5. QED
  BY <1>3, <1>4 DEF Delete

\* At power-up the list is empty, and so is the table.
LEMMA BooksInit == Init => BooksKept
BY TaskTableAssumption DEF Init, BooksKept, Contexts, AtBody, At, Deleting

\* The steps of a creation: the slot is on its way into the list, or given back.
LEMMA BooksCreate ==
  ASSUME QueueInv, OwnInv, Roles, BooksKept, kernel # "running",
         \/ \E p \in Nat, e \in Entries : boot.phase = "spawn" /\ CreateReserve(Boot, p, e)
         \/ boot.phase = "spawn" /\ CreateFull(Boot)
         \/ \E h \in Handles : CreatePort(Boot, h)
         \/ CreatePortFails(Boot) \/ CreatePublish(Boot) \/ CreateUndo(Boot)
  PROVE  BooksKept'
<1>1. /\ op \in [Contexts -> Call] /\ slot \in [Slots -> SlotState]
      /\ Boot \in Contexts /\ Boot \notin Handles /\ Handles \subseteq Contexts
      /\ boot \in [phase : Phase, next : Nat \ {0}, made : Seq(Slots)] /\ NoTask \notin Slots
  BY TaskTableAssumption, QueueAssumption DEF QueueInv, TypeOK, Contexts, Slots
<1>2. kernel' = kernel /\ boot.phase = "spawn" /\ op[Boot].pc \notin Deleting
  BY DEF CreateReserve, CreateFull, CreatePort, CreatePortFails, CreatePublish, CreateUndo,
         Roles, BootAlone, Creating, Deleting
<1>3. \A u \in Slots : slot[u] # "DELETING"
  BY <1>2 DEF BooksKept
<1>4. ASSUME NEW p \in Nat, NEW e \in Entries, CreateReserve(Boot, p, e)
      PROVE  BooksKept'
  <2>1. PICK s \in Slots : /\ slot' = [slot EXCEPT ![s] = "RESERVED"]
                           /\ op' = [op EXCEPT ![Boot] = At("port", s)]
    BY <1>4 DEF CreateReserve, First, Free
  <2>2. At("port", s).pc = "port" /\ At("port", s).target = s
    BY DEF At
  <2>3. op'[Boot].pc = "port" /\ op'[Boot].target = s /\ UNCHANGED boot /\ op[Boot].pc = "body"
    BY <1>1, <1>4, <2>1, <2>2 DEF CreateReserve
  <2>4. \A u \in Slots : slot'[u] # "FREE" => Made(u)' \/ u = s
    BY <1>1, <1>2, <2>1, <2>3 DEF BooksKept, Made, Creating
  <2>5. \A u \in Slots : slot'[u] # "DELETING"
    BY <1>1, <1>3, <2>1
  <2>6. QED
    BY <1>2, <2>3, <2>4, <2>5 DEF BooksKept, Creating, Deleting
<1>5. CASE CreateFull(Boot)
  <2>1. /\ UNCHANGED <<slot, op>> /\ boot'.made = boot.made
        /\ boot'.phase \in {"spawn", "rollback"}
    BY <1>1, <1>2, <1>5 DEF CreateFull, Created
  <2>2. \A u \in Slots : Made(u)' <=> Made(u)
    BY <2>1 DEF Made
  <2>3. QED
    BY <1>2, <1>3, <2>1, <2>2 DEF BooksKept
<1>6. CASE CreatePortFails(Boot) \/ \E h \in Handles : CreatePort(Boot, h)
  <2>1. op[Boot].pc = "port" /\ UNCHANGED <<slot, boot>>
    BY <1>6 DEF CreatePort, CreatePortFails
  <2>2. op'[Boot].pc = "publish" /\ op'[Boot].target = op[Boot].target
    <3>1. \A r \in Call : /\ [r EXCEPT !.pc = "publish"].pc = "publish"
                          /\ [r EXCEPT !.pc = "publish"].target = r.target
      BY DEF Call
    <3>2. \A h : /\ [At("publish", op[Boot].target) EXCEPT !.port = h].pc = "publish"
                 /\ [At("publish", op[Boot].target) EXCEPT !.port = h].target = op[Boot].target
      BY DEF At
    <3>3. CASE CreatePortFails(Boot)
      BY <1>1, <3>1, <3>3 DEF CreatePortFails
    <3>4. ASSUME NEW h \in Handles, CreatePort(Boot, h)
          PROVE  op'[Boot] = [At("publish", op[Boot].target) EXCEPT !.port = h]
      BY <1>1, <3>4 DEF CreatePort
    <3>5. QED
      BY <1>6, <3>2, <3>3, <3>4
  <2>3. \A u \in Slots : Made(u)' <=> Made(u)
    BY <2>1 DEF Made
  <2>4. QED
    BY <1>2, <1>3, <2>1, <2>2, <2>3 DEF BooksKept, Creating, Deleting
<1>7. CASE CreatePublish(Boot) \/ CreateUndo(Boot)
  <2> DEFINE s == op[Boot].target
  <2>1. /\ op[Boot].pc = "publish" /\ s \in Slots /\ op'[Boot].pc = "body"
    BY <1>1, <1>7 DEF CreatePublish, CreateUndo, AtBody, At, QueueInv, Pointers, Creating
  <2>2. boot'.phase \in {"spawn", "rollback"}
    BY <1>1, <1>2, <1>7 DEF CreatePublish, CreateUndo, Created
  <2>3. \A u \in Slots \ {s} : slot'[u] = slot[u] /\ (slot[u] # "FREE" => Made(u))
    BY <1>1, <1>2, <1>7, <2>1 DEF CreatePublish, CreateUndo, Zero, BooksKept
  <2>4. \A u \in Slots : slot'[u] # "FREE" => Made(u)'
    <3>1. CASE CreatePublish(Boot)
      <4>1. boot'.made = Append(boot.made, s)
        BY <1>1, <2>1, <3>1 DEF CreatePublish, Created
      <4>2. /\ Len(Append(boot.made, s)) = Len(boot.made) + 1 /\ Len(boot.made) \in Nat
            /\ Append(boot.made, s)[Len(boot.made) + 1] = s
            /\ \A i \in 1 .. Len(boot.made) : Append(boot.made, s)[i] = boot.made[i]
        BY <1>1, <2>1
      <4>3. \A u \in Slots : Made(u) \/ u = s => Made(u)'
        BY <4>1, <4>2 DEF Made
      <4>4. QED
        BY <2>3, <4>3
    <3>2. CASE CreateUndo(Boot)
      <4>1. boot'.made = boot.made
        BY <1>1, <3>2 DEF CreateUndo, Created
      <4>2. slot'[s] = "FREE"
        BY <1>1, <2>1, <3>2 DEF CreateUndo, Zero
      <4>3. \A u \in Slots : Made(u) => Made(u)'
        BY <4>1 DEF Made
      <4>4. QED
        BY <2>1, <2>3, <4>2, <4>3
    <3>3. QED
      BY <1>7, <3>1, <3>2
  <2>5. slot'[s] # "DELETING"
    BY <1>1, <1>7, <2>1 DEF CreatePublish, CreateUndo, Zero
  <2>6. QED
    BY <1>2, <1>3, <2>1, <2>2, <2>3, <2>4, <2>5 DEF BooksKept, Deleting
<1>8. QED
  BY <1>4, <1>5, <1>6, <1>7

\* The rest of a deletion: once the port task is gone the slot is free again.
LEMMA BooksReclaim ==
  ASSUME QueueInv, OwnInv, Roles, BooksKept, kernel # "running",
         DeletePort(Boot) \/ DeleteReclaim(Boot)
  PROVE  BooksKept'
<1> DEFINE s == op[Boot].target
<1>1. /\ op \in [Contexts -> Call] /\ slot \in [Slots -> SlotState]
      /\ Boot \in Contexts /\ Boot \notin Handles /\ Handles \subseteq Contexts
      /\ boot \in [phase : Phase, next : Nat \ {0}, made : Seq(Slots)] /\ NoHandle \notin Contexts
  BY TaskTableAssumption DEF QueueInv, TypeOK, Contexts
<1>2. /\ op[Boot].pc \in Deleting /\ kernel' = kernel /\ s \in Slots /\ slot[s] = "DELETING"
      /\ boot.phase = "rollback" /\ op[Boot].back = "body"
      /\ boot.made # <<>> /\ s = Last(boot.made) /\ handle[s] = op[Boot].port
  BY <1>1 DEF DeletePort, DeleteReclaim, Deleting, QueueInv, Pointers, OwnInv, Roles, BootAlone,
              BooksKept
<1>3. \A u \in Slots : slot[u] # "FREE" => Made(u)
  BY <1>2 DEF BooksKept, Creating, Deleting
<1>4. CASE DeletePort(Boot)
  <2>1. op[Boot].pc = "unport" /\ op[Boot].port \in Handles /\ UNCHANGED <<slot, handle, boot>>
    BY <1>1, <1>4 DEF DeletePort, OwnInv, Given
  <2>2. op'[Boot].pc = "reclaim" /\ op'[Boot].target = s /\ op'[Boot].port = op[Boot].port
    <3>1. \A r \in Call : /\ [r EXCEPT !.pc = "reclaim"].pc = "reclaim"
                          /\ [r EXCEPT !.pc = "reclaim"].target = r.target
                          /\ [r EXCEPT !.pc = "reclaim"].port = r.port
      BY DEF Call
    <3>2. QED
      BY <1>1, <1>4, <2>1, <3>1 DEF DeletePort
  <2>3. \A u \in Slots : Made(u)' <=> Made(u)
    BY <2>1 DEF Made
  <2>4. QED
    BY <1>2, <1>3, <2>1, <2>2, <2>3 DEF BooksKept, Creating, Deleting
<1>5. CASE DeleteReclaim(Boot)
  <2>1. /\ slot' = [slot EXCEPT ![s] = "FREE"]
        /\ op' = [op EXCEPT ![Boot] = At("body", NoTask)]
        /\ boot' = [boot EXCEPT !.made = Front(boot.made)]
    BY <1>2, <1>5 DEF DeleteReclaim, Zero, Deleted
  <2>2. boot'.made = Front(boot.made) /\ boot'.phase = "rollback" /\ op'[Boot].pc = "body"
    BY <1>1, <1>2, <2>1 DEF At
  <2>3. \A u \in Slots : slot'[u] # "FREE" => Made(u)'
    BY <1>1, <1>2, <1>3, <2>1, <2>2, MadeFront
  <2>4. \A u \in Slots : slot'[u] # "DELETING"
    BY <1>1, <1>2, <2>1 DEF BooksKept
  <2>5. QED
    BY <1>2, <2>2, <2>3, <2>4 DEF BooksKept, Deleting
<1>6. QED
  BY <1>4, <1>5

\* Every step, a restart included, keeps the books.
LEMMA BooksNext ==
  ASSUME ~AppDeletes
  PROVE  QueueInv /\ Dormant /\ OwnInv /\ Tenancy /\ Roles /\ BooksKept /\ [Next]_vars
           => BooksKept'
<1> SUFFICES ASSUME QueueInv, Dormant, OwnInv, Tenancy, Roles, BooksKept, [Next]_vars
             PROVE  BooksKept'
  OBVIOUS
<1>1. CASE Reset
  BY <1>1, ResetInit, BooksInit, PTL
<1>2. Roles'
  BY TenancyNext
<1>3. CASE kernel' = "running"
  BY <1>2, <1>3 DEF BooksKept, Roles, BootAlone
<1>4. CASE Next /\ ~Reset /\ kernel' # "running"
  <2>1. ~\E h \in Handles : ServiceDeletes(h)
    BY DEF ServiceDeletes
  <2>2. ~\E h \in Handles : Proceed(h) \/ Wrapper(h) \/ JobEnds(h) \/ ServiceSpawns(h)
    BY <1>4, TaskRuns
  <2>3. Proceed(Boot) \/ BootStep
    BY <1>4, <2>1, <2>2 DEF Next, Contexts, SystemTick
  <2>4. CASE kernel = "running"
    BY <1>4, <2>3, <2>4
       DEF Proceed, CreatePort, CreatePortFails, CreatePublish, CreateUndo, DeletePort,
           DeleteReclaim, BootStep, BootInit, BootSpawn, BootStart, BootRollback, BootIdle, vars,
           Delete, DeleteLock, DeleteRefused, CreateReserve, CreateFull, Roles, BootAlone
  <2>5. CASE kernel # "running"
    <3>1. CASE Proceed(Boot)
      BY <2>5, <3>1, BooksCreate, BooksReclaim DEF Proceed
    <3>2. CASE BootSpawn
      <4>1. boot.next \in 1 .. Len(BootList) /\ boot.phase = "spawn"
        BY <3>2, TaskTableAssumption DEF BootSpawn, QueueInv, TypeOK
      <4>2. BootList[boot.next] \in Item
        BY <4>1, TaskTableAssumption
      <4>3. BootList[boot.next].prio \in Nat /\ BootList[boot.next].entry \in Entries
        BY <4>2 DEF Item
      <4>4. QED
        BY <2>5, <3>2, <4>1, <4>3, BooksCreate DEF BootSpawn
    <3>3. CASE BootRollback /\ boot.made # <<>>
      BY <2>5, <3>3, BooksDelete DEF BootRollback
    <3>4. CASE BootInit \/ BootIdle \/ (BootRollback /\ boot.made = <<>>)
      <4>1. UNCHANGED <<slot, op, handle>> /\ boot'.made = boot.made
        BY <3>4 DEF BootInit, BootIdle, BootRollback, vars, QueueInv, TypeOK
      <4>2. boot'.phase \in {"init", "failed"} => boot'.made = <<>>
        BY <3>4, <4>1 DEF BootInit, BootIdle, BootRollback, vars, BooksKept
      <4>3. \A u \in Slots : Made(u)' <=> Made(u)
        BY <4>1 DEF Made
      <4>4. QED
        BY <2>5, <4>1, <4>2, <4>3 DEF BooksKept
    <3>5. CASE BootStart
      BY <1>4, <3>5 DEF BootStart
    <3>6. QED
      BY <2>3, <3>1, <3>2, <3>3, <3>4, <3>5 DEF BootStep
  <2>6. QED
    BY <2>4, <2>5
<1>5. CASE UNCHANGED vars
  BY <1>5 DEF vars, BooksKept, Made
<1>6. QED
  BY <1>1, <1>3, <1>4, <1>5

\* A boot that fails leaves no slot in use, no queue entry and no port task behind,
\* wherever in the boot list it failed (kernel_manager.cpp:65-90).
THEOREM RollbackAlwaysClean ==
  ASSUME ~AppDeletes PROVE Spec => []RollbackClean
<1>1. Init => QueueInv /\ Dormant /\ OwnInv /\ Tenancy /\ Roles /\ BooksKept
  BY QueueInvInit, DormantInit, OwnInit, TenancyInit, BooksInit
<1>2. QueueInv /\ Tenancy /\ Roles /\ BooksKept => RollbackClean
  <2> SUFFICES ASSUME QueueInv, Tenancy, Roles, BooksKept, boot.phase = "failed"
               PROVE  /\ \A s \in Slots : slot[s] = "FREE"
                      /\ Queued(sch, {}) /\ liveCount = 0
                      /\ \A h \in Handles : ~Alive(h)
    BY DEF RollbackClean
  <2>1. \A s \in Slots : slot[s] = "FREE"
    <3>1. kernel # "running" /\ boot.made = <<>> /\ op[Boot].pc \notin Creating
      BY DEF Roles, BootAlone, BooksKept, Creating
    <3>2. \A s \in Slots : ~Made(s)
      BY <3>1 DEF Made
    <3>3. QED
      BY <3>1, <3>2 DEF BooksKept
  <2>2. Live = {}
    BY <2>1 DEF Live
  <2>3. Queued(sch, {}) /\ liveCount = 0
    BY <2>2, FS_EmptySet DEF QueueInv, ReadyListsExact
  <2>4. \A h \in Handles : ~Alive(h)
    BY <2>1 DEF Tenancy, Housed, QueueInv, Pointers, Reservations, Creating
  <2>5. QED
    BY <2>1, <2>3, <2>4
<1>3. QED
  BY <1>1, <1>2, QueueInvNext, OwnNext, TenancyNext, BooksNext, PTL DEF Spec
=============================================================================
