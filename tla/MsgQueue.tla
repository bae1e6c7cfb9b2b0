------------------------------ MODULE MsgQueue ------------------------------
(***************************************************************************)
(* The message queue of ipc/mk_queue.c: a ring buffer under a spinlock of  *)
(* its own.  Tasks poll it, one critical section per look, until it takes  *)
(* or gives the item or their time is up; interrupts send without waiting. *)
(*                                                                         *)
(* The clients are the most general ones that can tell a lost, doubled or  *)
(* reordered item: each numbers what it sends, goes on to the next number  *)
(* when a call reports MK_OK, and sends the same item again when it does   *)
(* not.  Item contents and deletion of the queue are left out.             *)
(***************************************************************************)
EXTENDS Naturals, Sequences

CONSTANTS
  Users,      \* tasks that use the queue
  Isrs,       \* interrupts that send to it
  NoItem,     \* what a buffer slot holds before its first use
  Cap,        \* cap
  MaxItems    \* bound on the items each client sends

Clients == Users \cup Isrs
Items == Clients \X (1 .. MaxItems)

ASSUME QueueAssumption ==
  /\ Cap \in Nat \ {0} /\ MaxItems \in Nat
  /\ NoItem \notin Items /\ Users \cap Isrs = {}

VARIABLES
  buf, head, tail, count,   \* the fields of mk_queue
  call,     \* the call each task is in
  sent,     \* how many items each client was told are sent
  shown,    \* the item each task was given last
  log       \* the items received, in order

ring == <<buf, head, tail, count>>
vars == <<ring, call, sent, shown, log>>

Index == 0 .. Cap - 1
Op == {"send", "receive", "peek"}
Wait == {"try", "timed", "forever"}     \* timeout_ms: 0, a number, 0xFFFFFFFF
Call == [pc : {"out", "look", "refused"}, op : Op, wait : Wait]

TypeOK ==
  /\ buf \in [Index -> Items \cup {NoItem}]
  /\ head \in Index /\ tail \in Index /\ count \in 0 .. Cap
  /\ call \in [Users -> Call]
  /\ sent \in [Clients -> 0 .. MaxItems]
  /\ shown \in [Users -> Items \cup {NoItem}]
  /\ log \in Seq(Items)

Init ==
  /\ buf = [i \in Index |-> NoItem]
  /\ head = 0 /\ tail = 0 /\ count = 0
  /\ call = [t \in Users |-> [pc |-> "out", op |-> "send", wait |-> "try"]]
  /\ sent = [c \in Clients |-> 0]
  /\ shown = [t \in Users |-> NoItem]
  /\ log = << >>

-----------------------------------------------------------------------------
After(i) == (i + 1) % Cap

\* The next item of a client goes to the tail, and the client is told so.
Store(c) ==
  /\ sent[c] < MaxItems
  /\ buf' = [buf EXCEPT ![tail] = <<c, sent[c] + 1>>]
  /\ tail' = After(tail)
  /\ count' = count + 1
  /\ sent' = [sent EXCEPT ![c] = @ + 1]
  /\ UNCHANGED head

Begin(t, op, wait) ==
  /\ call[t].pc = "out"
  /\ op = "send" => sent[t] < MaxItems
  /\ call' = [call EXCEPT ![t] = [pc |-> "look", op |-> op, wait |-> wait]]
  /\ UNCHANGED <<ring, sent, shown, log>>

At(t, op) == call[t].pc = "look" /\ call[t].op = op
Goto(t, pc) == call' = [call EXCEPT ![t].pc = pc]

\* Mutants of Send: the test for room off by one; the item stored and the call that
\* has stored it still told to try again.
SendOneMore(t) ==
  /\ At(t, "send") /\ count <= Cap
  /\ Store(t)
  /\ Goto(t, "out")
  /\ UNCHANGED <<shown, log>>

SendUntold(t) ==
  /\ At(t, "send") /\ count < Cap
  /\ buf' = [buf EXCEPT ![tail] = <<t, sent[t] + 1>>]
  /\ tail' = After(tail)
  /\ count' = count + 1
  /\ Goto(t, IF count + 1 = Cap THEN "refused" ELSE "out")
  /\ sent' = [sent EXCEPT ![t] = IF count + 1 = Cap THEN @ ELSE @ + 1]
  /\ UNCHANGED <<head, shown, log>>

Send(t) ==
  /\ At(t, "send") /\ count < Cap
  /\ Store(t)
  /\ Goto(t, "out")
  /\ UNCHANGED <<shown, log>>

\* Mutant of Receive: the head stops at the last slot.
ReceiveNoWrap(t) ==
  /\ At(t, "receive") /\ count > 0
  /\ shown' = [shown EXCEPT ![t] = buf[head]]
  /\ log' = Append(log, buf[head])
  /\ head' = IF head = Cap - 1 THEN head ELSE After(head)
  /\ count' = count - 1
  /\ Goto(t, "out")
  /\ UNCHANGED <<buf, tail, sent>>

Receive(t) ==
  /\ At(t, "receive") /\ count > 0
  /\ shown' = [shown EXCEPT ![t] = buf[head]]
  /\ log' = Append(log, buf[head])
  /\ head' = After(head)
  /\ count' = count - 1
  /\ Goto(t, "out")
  /\ UNCHANGED <<buf, tail, sent>>

Peek(t) ==
  /\ At(t, "peek") /\ count > 0
  /\ shown' = [shown EXCEPT ![t] = buf[head]]
  /\ Goto(t, "out")
  /\ UNCHANGED <<ring, sent, log>>

\* A look that finds no room, or nothing to take.
Refused(t) ==
  /\ \/ At(t, "send") /\ ~(count < Cap)
     \/ (At(t, "receive") \/ At(t, "peek")) /\ ~(count > 0)
  /\ Goto(t, "refused")
  /\ UNCHANGED <<ring, sent, shown, log>>

\* Mutant of TimedOut: the time is looked at before the queue.
TimedOutFirst(t) ==
  /\ call[t].pc # "out" /\ call[t].wait # "forever"
  /\ Goto(t, "out")
  /\ UNCHANGED <<ring, sent, shown, log>>

\* MK_ERR_TIMEOUT: a call without a timeout after one look, a timed one once its
\* time is up.
TimedOut(t) ==
  /\ call[t].pc = "refused" /\ call[t].wait # "forever"
  /\ Goto(t, "out")
  /\ UNCHANGED <<ring, sent, shown, log>>

LookAgain(t) ==
  /\ call[t].pc = "refused" /\ call[t].wait # "try"
  /\ Goto(t, "look")
  /\ UNCHANGED <<ring, sent, shown, log>>

SendIsr(c) == count < Cap /\ Store(c) /\ UNCHANGED <<call, shown, log>>

SendIsrBusy(c) == ~(count < Cap) /\ sent[c] < MaxItems /\ UNCHANGED vars

Next ==
  \/ \E t \in Users :
       \/ \E op \in Op, wait \in Wait : Begin(t, op, wait)
       \/ Send(t) \/ Receive(t) \/ Peek(t) \/ Refused(t) \/ TimedOut(t) \/ LookAgain(t)
  \/ \E c \in Isrs : SendIsr(c) \/ SendIsrBusy(c)

Spec == Init /\ [][Next]_vars

-----------------------------------------------------------------------------
\* The count tells a full ring from an empty one: the tail is where it says, however
\* often both ends have wrapped (mk_queue.c:55-58, 75-78).
RingExact == tail = (head + count) % Cap

\* The slot that holds the k-th of the items under way, and those items.
Place(k) == IF head + k <= Cap THEN head + k - 1 ELSE head + k - 1 - Cap
Contents == [k \in 1 .. count |-> buf[Place(k)]]

\* What has passed is what the clients were told is sent: each item once, those of one
\* client in order, and no others.
AsTold(passed, told) ==
  /\ \A c \in Clients : \A n \in 1 .. told[c] : \E k \in 1 .. Len(passed) : passed[k] = <<c, n>>
  /\ \A k \in 1 .. Len(passed) : passed[k][2] <= told[passed[k][1]]
  /\ \A j, k \in 1 .. Len(passed) :
       j < k /\ passed[j][1] = passed[k][1] => passed[j][2] < passed[k][2]

\* Every item that a client was told is sent has arrived or is under way, whatever timed
\* out and was tried again (mk_queue.c:50-102).
NothingLost == AsTold(log \o Contents, sent)

\* What the calls in progress ask of the channel, and which have just been refused.
Request == [send |-> "put", receive |-> "get", peek |-> "look"]
Asks == [t \in Users |-> IF call[t].pc = "out" THEN "nothing" ELSE Request[call[t].op]]
Denied == [t \in Users |-> call[t].pc = "refused"]

Channel == INSTANCE BoundedChannel WITH chan <- Contents, asks <- Asks, refused <- Denied

\* The ring is a bounded first-in-first-out channel, and a call that fails has met it
\* full or empty (mk_queue.c:50-121).
ImplementsChannel == Channel!Spec
=============================================================================
