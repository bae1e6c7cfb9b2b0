--------------------------- MODULE MsgQueueProofs ---------------------------
(***************************************************************************)
(* For any capacity and any clients: head, tail and count always agree,    *)
(* what is sent arrives once and in order, and the ring buffer is a        *)
(* bounded first-in-first-out channel.                                     *)
(***************************************************************************)
EXTENDS MsgQueue, SequenceTheorems, TLAPS

\* The remainder of a position at most once round the ring.
LEMMA Wrapped ==
  ASSUME NEW h \in Index, NEW k \in 0 .. Cap
  PROVE  (h + k) % Cap = IF h + k < Cap THEN h + k ELSE h + k - Cap
<1>1. Cap \in Nat /\ Cap > 0 /\ h \in Nat /\ h < Cap /\ k \in Nat /\ k <= Cap
  BY QueueAssumption DEF Index
<1>2. CASE h + k < Cap
  BY <1>1, <1>2
<1>3. CASE ~(h + k < Cap)
  BY <1>1, <1>3
<1>4. QED
  BY <1>2, <1>3

\* One step round the ring.
LEMMA AfterIs ==
  ASSUME NEW i \in Index
  PROVE  After(i) \in Index /\ After(i) = IF i + 1 = Cap THEN 0 ELSE i + 1
<1>1. Cap \in Nat /\ Cap > 0 /\ i \in Nat /\ i < Cap /\ 1 \in 0 .. Cap
  BY QueueAssumption DEF Index
<1>2. (i + 1) % Cap = IF i + 1 < Cap THEN i + 1 ELSE i + 1 - Cap
  BY <1>1, Wrapped
<1>3. QED
  BY <1>1, <1>2 DEF After, Index

\* Without remainders: where the tail is.
LEMMA TailIs ==
  ASSUME TypeOK, RingExact
  PROVE  tail = IF head + count < Cap THEN head + count ELSE head + count - Cap
BY Wrapped DEF TypeOK, RingExact

\* The items under way form a sequence; their slots are slots of the ring.
LEMMA ContentsType ==
  ASSUME TypeOK
  PROVE  /\ Contents \in Seq(Items \cup {NoItem}) /\ Len(Contents) = count
         /\ \A k \in 1 .. count : Place(k) \in Index /\ Contents[k] = buf[Place(k)]
<1>1. head \in Nat /\ head < Cap /\ count \in Nat /\ count <= Cap /\ Cap \in Nat
  BY QueueAssumption DEF TypeOK, Index
<1>2. \A k \in 1 .. count : Place(k) \in Index
  BY <1>1 DEF Place, Index
<1>3. \A k \in 1 .. count : buf[Place(k)] \in Items \cup {NoItem}
  BY <1>2 DEF TypeOK
<1>4. QED
  BY <1>1, <1>2, <1>3 DEF Contents

-----------------------------------------------------------------------------
\* The inductive invariant: what is received is an item only because every slot
\* between head and tail has been written.
QueueInv == TypeOK /\ RingExact /\ Contents \in Seq(Items)

\* The initial state is well typed and empty.
LEMMA RingInit == Init => QueueInv
<1> SUFFICES ASSUME Init PROVE QueueInv
  OBVIOUS
<1>1. Cap \in Nat /\ Cap > 0 /\ 0 \in Index /\ 0 \in 0 .. Cap /\ MaxItems \in Nat
  BY QueueAssumption DEF Index
<1>2. RingExact
  BY <1>1, Wrapped DEF Init, RingExact
<1>3. TypeOK
  BY <1>1 DEF Init, TypeOK, Call, Op, Wait
<1>4. Contents = << >>
  BY <1>3, ContentsType DEF Init
<1>5. QED
  BY <1>2, <1>3, <1>4 DEF QueueInv

\* Storing an item with room left appends it.
LEMMA StoreEffect ==
  ASSUME TypeOK, RingExact, NEW c \in Clients, count < Cap, Store(c)
  PROVE  /\ buf' \in [Index -> Items \cup {NoItem}] /\ head' \in Index
         /\ tail' \in Index /\ count' \in 0 .. Cap /\ sent' \in [Clients -> 0 .. MaxItems]
         /\ RingExact'
         /\ <<c, sent[c] + 1>> \in Items /\ Contents' = Append(Contents, <<c, sent[c] + 1>>)
<1> DEFINE i == <<c, sent[c] + 1>>
<1>1. Cap \in Nat /\ Cap > 0 /\ MaxItems \in Nat /\ head \in Nat /\ head < Cap
      /\ count \in Nat /\ sent[c] \in 0 .. MaxItems
  BY QueueAssumption DEF TypeOK, Index
<1>2. /\ buf' = [buf EXCEPT ![tail] = i] /\ head' = head /\ tail' = After(tail)
      /\ count' = count + 1 /\ sent' = [sent EXCEPT ![c] = sent[c] + 1]
      /\ sent[c] < MaxItems
  BY DEF Store
<1>3. i \in Items
  BY <1>1, <1>2 DEF Items
<1> HIDE DEF i
<1>4. tail \in Index /\ buf' \in [Index -> Items \cup {NoItem}] /\ buf'[tail] = i
      /\ \A j \in Index : j # tail => buf'[j] = buf[j]
  BY <1>2, <1>3 DEF TypeOK
<1>5. sent' \in [Clients -> 0 .. MaxItems]
  <2>1. sent[c] + 1 \in 0 .. MaxItems
    BY <1>1, <1>2
  <2>2. QED
    BY <1>2, <2>1 DEF TypeOK
<1>6. tail' \in Index /\ tail' = IF tail + 1 = Cap THEN 0 ELSE tail + 1
  BY <1>2, <1>4, AfterIs
<1>7. tail = IF head + count < Cap THEN head + count ELSE head + count - Cap
  BY TailIs
<1>8. head' \in Index /\ count' \in 0 .. Cap
  BY <1>1, <1>2 DEF TypeOK
<1>9. RingExact'
  <2>1. tail' = IF head + count + 1 < Cap THEN head + count + 1 ELSE head + count + 1 - Cap
    BY <1>1, <1>6, <1>7
  <2>2. (head + (count + 1)) % Cap = IF head + (count + 1) < Cap THEN head + (count + 1)
                                     ELSE head + (count + 1) - Cap
    BY <1>2, <1>8, Wrapped
  <2>3. QED
    BY <1>1, <1>2, <2>1, <2>2 DEF RingExact
<1>10. \A k \in 1 .. count : Place(k) \in Index /\ Place(k) # tail
  <2>1. ASSUME NEW k \in 1 .. count PROVE Place(k) # tail
    <3>1. k \in Nat /\ 1 <= k /\ k <= count
      BY <1>1
    <3>2. QED
      BY <1>1, <1>7, <3>1 DEF Place
  <2>2. QED
    BY <2>1, ContentsType
<1>11. Place(count + 1) = tail
  BY <1>1, <1>7 DEF Place
<1>12. Contents' = [k \in 1 .. count + 1 |-> buf'[Place(k)]]
  BY <1>2 DEF Contents, Place
<1>13. \A k \in 1 .. count + 1 : buf'[Place(k)] = IF k <= count THEN buf[Place(k)] ELSE i
  BY <1>1, <1>4, <1>10, <1>11
<1>14. Contents' = Append(Contents, i)
  <2> DEFINE S == Items \cup {NoItem}
  <2>1. /\ Append(Contents, i) \in Seq(S) /\ Len(Append(Contents, i)) = count + 1
        /\ \A k \in 1 .. count : Append(Contents, i)[k] = Contents[k]
        /\ Append(Contents, i)[count + 1] = i
    BY <1>3, ContentsType, AppendProperties
  <2>2. \A k \in 1 .. count + 1 : buf'[Place(k)] \in S
    BY <1>1, <1>3, <1>13, ContentsType DEF TypeOK
  <2>3. /\ Contents' \in Seq(S) /\ Len(Contents') = count + 1
        /\ \A k \in 1 .. count + 1 : Contents'[k] = buf'[Place(k)]
    BY <1>1, <1>12, <2>2
  <2>4. \A k \in 1 .. count + 1 : Contents'[k] = Append(Contents, i)[k]
    BY <1>1, <1>13, <2>1, <2>3, ContentsType
  <2>5. QED
    BY <2>1, <2>3, <2>4, SeqEqual
<1>15. QED
  BY <1>3, <1>4, <1>5, <1>6, <1>8, <1>9, <1>14 DEF i

\* Receiving the item at the head takes the oldest one out.
LEMMA ReceiveEffect ==
  ASSUME TypeOK, RingExact, NEW t \in Users, Receive(t)
  PROVE  /\ head' \in Index /\ count' \in 0 .. Cap
         /\ RingExact'
         /\ Contents # << >> /\ buf[head] = Head(Contents) /\ Contents' = Tail(Contents)
<1>1. Cap \in Nat /\ Cap > 0 /\ head \in Nat /\ head < Cap /\ count \in Nat /\ count <= Cap
      /\ count > 0
  BY QueueAssumption DEF TypeOK, Index, Receive
<1>2. buf' = buf /\ tail' = tail /\ head' = After(head) /\ count' = count - 1
  BY DEF Receive
<1>3. head' \in Index /\ head' = IF head + 1 = Cap THEN 0 ELSE head + 1
  BY <1>2, AfterIs DEF TypeOK
<1>4. count' \in 0 .. Cap
  BY <1>1, <1>2
<1>5. RingExact'
  <2>1. tail = IF head + count < Cap THEN head + count ELSE head + count - Cap
    BY TailIs
  <2>2. tail = IF head' + count' < Cap THEN head' + count' ELSE head' + count' - Cap
    BY <1>1, <1>2, <1>3, <2>1
  <2>3. (head' + count') % Cap = IF head' + count' < Cap THEN head' + count'
                                 ELSE head' + count' - Cap
    BY <1>3, <1>4, Wrapped
  <2>4. QED
    BY <1>2, <2>2, <2>3 DEF RingExact
<1>6. Place(1) = head
  BY <1>1 DEF Place
<1>7. Contents # << >> /\ buf[head] = Head(Contents)
  BY <1>1, <1>6, ContentsType
<1> DEFINE Q(k) == IF head' + k <= Cap THEN head' + k - 1 ELSE head' + k - 1 - Cap
<1>8. \A k \in 1 .. count - 1 : Q(k) = Place(k + 1)
  BY <1>1, <1>3 DEF Place
<1>9. Contents' = [k \in 1 .. count - 1 |-> buf[Q(k)]]
  BY <1>2 DEF Contents, Place
<1> HIDE DEF Q
<1>10. \A k \in 1 .. count - 1 : Contents[k + 1] = buf[Q(k)]
  BY <1>1, <1>8, ContentsType
<1>11. Contents' = Tail(Contents)
  <2> DEFINE S == Items \cup {NoItem}
  <2>1. /\ Tail(Contents) \in Seq(S) /\ Len(Tail(Contents)) = count - 1
        /\ \A k \in 1 .. count - 1 : Tail(Contents)[k] = Contents[k + 1]
    BY <1>7, ContentsType, HeadTailProperties
  <2>2. \A k \in 1 .. count - 1 : buf[Q(k)] \in S
    BY <1>10, <2>1, ElementOfSeq
  <2>3. /\ Contents' \in Seq(S) /\ Len(Contents') = count - 1
        /\ \A k \in 1 .. count - 1 : Contents'[k] = buf[Q(k)]
    BY <1>1, <1>9, <2>2
  <2>4. QED
    BY <1>10, <2>1, <2>3, SeqEqual
<1>12. QED
  BY <1>3, <1>4, <1>5, <1>7, <1>11

-----------------------------------------------------------------------------
\* A call that moves on without touching the ring.
LEMMA GotoType ==
  ASSUME TypeOK, NEW t \in Users, NEW pc \in {"out", "look", "refused"}, Goto(t, pc)
  PROVE  /\ call' \in [Users -> Call]
         /\ call'[t] = [call[t] EXCEPT !.pc = pc] /\ call'[t].pc = pc
         /\ \A u \in Users : u # t => call'[u] = call[u]
<1> DEFINE c == [call[t] EXCEPT !.pc = pc]
<1>1. c \in Call /\ c.pc = pc
  BY DEF TypeOK, Call
<1>2. call' = [call EXCEPT ![t] = c]
  BY DEF Goto
<1> HIDE DEF c
<1>3. QED
  BY <1>1, <1>2 DEF TypeOK, c

\* Every step keeps the invariant.
LEMMA RingNext == QueueInv /\ [Next]_vars => QueueInv'
<1> SUFFICES ASSUME TypeOK, RingExact, Contents \in Seq(Items), [Next]_vars PROVE QueueInv'
  BY DEF QueueInv
<1>1. ASSUME UNCHANGED <<ring, sent, log>>, call' \in [Users -> Call],
             shown' \in [Users -> Items \cup {NoItem}]
      PROVE  QueueInv'
  <2>1. Contents' = Contents
    BY <1>1 DEF ring, Contents, Place
  <2>2. QED
    BY <1>1, <2>1 DEF QueueInv, TypeOK, RingExact, ring
<1>2. ASSUME NEW t \in Users, NEW op \in Op, NEW wait \in Wait, Begin(t, op, wait)
      PROVE  QueueInv'
  <2>1. [pc |-> "look", op |-> op, wait |-> wait] \in Call
    BY DEF Call
  <2>2. call' \in [Users -> Call] /\ UNCHANGED <<ring, sent, shown, log>>
    BY <1>2, <2>1 DEF Begin, TypeOK
  <2>3. QED
    BY <1>1, <2>2 DEF TypeOK
<1>3. ASSUME NEW c \in Clients, count < Cap, Store(c), call' \in [Users -> Call],
             UNCHANGED <<shown, log>>
      PROVE  QueueInv'
  <2>1. PICK i \in Items : Contents' = Append(Contents, i)
    BY <1>3, StoreEffect
  <2>2. Contents' \in Seq(Items)
    BY <2>1, AppendProperties
  <2>3. QED
    BY <1>3, <2>2, StoreEffect DEF QueueInv, TypeOK
<1>4. ASSUME NEW t \in Users, Send(t) PROVE QueueInv'
  <2>1. t \in Clients /\ Store(t) /\ count < Cap /\ UNCHANGED <<shown, log>>
    BY <1>4 DEF Send, Clients
  <2>2. call' \in [Users -> Call]
    BY <1>4, GotoType DEF Send
  <2>3. QED
    BY <1>3, <2>1, <2>2
<1>5. ASSUME NEW c \in Isrs, SendIsr(c) PROVE QueueInv'
  BY <1>3, <1>5 DEF SendIsr, Clients, TypeOK
<1>6. ASSUME NEW t \in Users, Receive(t) PROVE QueueInv'
  <2>1. call' \in [Users -> Call]
    BY <1>6, GotoType DEF Receive
  <2>2. buf[head] \in Items /\ Contents' \in Seq(Items)
    BY <1>6, ReceiveEffect, HeadTailProperties
  <2>3. log' \in Seq(Items)
    BY <1>6, <2>2, AppendProperties DEF Receive, TypeOK
  <2>4. shown' \in [Users -> Items \cup {NoItem}]
    BY <1>6, <2>2 DEF Receive, TypeOK
  <2>5. UNCHANGED <<buf, tail, sent>>
    BY <1>6 DEF Receive
  <2>6. QED
    BY <1>6, <2>1, <2>2, <2>3, <2>4, <2>5, ReceiveEffect DEF QueueInv, TypeOK
<1>7. ASSUME NEW t \in Users, Peek(t) PROVE QueueInv'
  <2>1. call' \in [Users -> Call] /\ UNCHANGED <<ring, sent, log>>
    BY <1>7, GotoType DEF Peek
  <2>2. shown' \in [Users -> Items \cup {NoItem}]
    BY <1>7 DEF Peek, TypeOK
  <2>3. QED
    BY <1>1, <2>1, <2>2
<1>8. ASSUME NEW t \in Users, Refused(t) \/ TimedOut(t) \/ LookAgain(t) PROVE QueueInv'
  <2>1. call' \in [Users -> Call] /\ UNCHANGED <<ring, sent, shown, log>>
    BY <1>8, GotoType DEF Refused, TimedOut, LookAgain
  <2>2. QED
    BY <1>1, <2>1 DEF TypeOK
<1>9. ASSUME NEW c \in Isrs, SendIsrBusy(c) PROVE UNCHANGED vars
  BY <1>9 DEF SendIsrBusy
<1>10. CASE UNCHANGED vars
  BY <1>1, <1>10 DEF vars, TypeOK
<1>11. QED
  BY <1>2, <1>4, <1>5, <1>6, <1>7, <1>8, <1>9, <1>10 DEF Next

\* So it holds throughout.
LEMMA QueueAlways == Spec => []QueueInv
BY RingInit, RingNext, PTL DEF Spec

-----------------------------------------------------------------------------
\* The ring, the calls under way and the items received stay well typed: no slot is
\* read before it was written (mk_queue.c:50-121).
THEOREM MsgQueueTypeCorrect == Spec => []TypeOK
<1>1. QueueInv => TypeOK
  BY DEF QueueInv
<1>2. QED
  BY <1>1, QueueAlways, PTL

\* Head, tail and count always agree (mk_queue.c:55-58, 75-78, 95-98).
THEOREM RingAlwaysExact == Spec => []RingExact
<1>1. QueueInv => RingExact
  BY DEF QueueInv
<1>2. QED
  BY <1>1, QueueAlways, PTL

-----------------------------------------------------------------------------
(* What is sent arrives                                                    *)

\* A step that leaves the ring alone keeps what is under way.
LEMMA RingKept == UNCHANGED ring => Contents' = Contents
BY DEF ring, Contents, Place

\* One more item at the end.
LEMMA OneMore ==
  ASSUME NEW s \in Seq(Items), NEW i \in Items
  PROVE  /\ Append(s, i) \in Seq(Items) /\ Len(s) \in Nat /\ Len(Append(s, i)) = Len(s) + 1
         /\ \A k \in 1 .. Len(s) : Append(s, i)[k] = s[k] /\ s[k] \in Items
         /\ Append(s, i)[Len(s) + 1] = i
BY AppendProperties, ElementOfSeq

\* A client that is told of one more has sent one more.
LEMMA TellOneMore ==
  ASSUME TypeOK, NEW s \in Seq(Items), AsTold(s, sent), NEW c \in Clients,
         sent' = [sent EXCEPT ![c] = sent[c] + 1], <<c, sent[c] + 1>> \in Items
  PROVE  AsTold(Append(s, <<c, sent[c] + 1>>), sent')
<1> DEFINE i == <<c, sent[c] + 1>>
           r == Append(s, i)
<1>1. sent[c] \in Nat /\ sent'[c] = sent[c] + 1 /\ \A d \in Clients : d # c => sent'[d] = sent[d]
  BY DEF TypeOK
<1>2. i \in Items /\ i[1] = c /\ i[2] = sent[c] + 1
  OBVIOUS
<1> HIDE DEF i
<1>3. /\ Len(s) \in Nat /\ Len(r) = Len(s) + 1 /\ r[Len(s) + 1] = i
      /\ \A k \in 1 .. Len(s) : r[k] = s[k] /\ s[k] \in Items
  BY <1>2, OneMore
<1>4. \A x \in Items : x[1] \in Clients /\ x[2] \in Nat
  BY QueueAssumption DEF Items
<1>5. \A k \in 1 .. Len(s) : s[k][1] \in Clients /\ s[k][2] \in Nat /\ s[k][2] <= sent[s[k][1]]
  BY <1>3, <1>4 DEF AsTold
<1> HIDE DEF r
<1>6. ASSUME NEW d \in Clients, NEW n \in 1 .. sent'[d] PROVE \E k \in 1 .. Len(r) : r[k] = <<d, n>>
  <2>1. CASE d = c /\ n = sent[c] + 1
    <3>1. i = <<d, n>> /\ Len(s) + 1 \in 1 .. Len(r)
      BY <1>3, <2>1 DEF i
    <3>2. QED
      BY <1>3, <3>1
  <2>2. CASE ~(d = c /\ n = sent[c] + 1)
    <3>1. n \in 1 .. sent[d]
      BY <1>1, <1>6, <2>2
    <3>2. PICK k \in 1 .. Len(s) : s[k] = <<d, n>>
      BY <3>1 DEF AsTold
    <3>3. k \in 1 .. Len(r) /\ r[k] = <<d, n>>
      BY <1>3, <3>2
    <3>4. QED
      BY <3>3
  <2>3. QED
    BY <2>1, <2>2
<1>7. ASSUME NEW k \in 1 .. Len(r) PROVE r[k][2] <= sent'[r[k][1]]
  <2>1. CASE k = Len(s) + 1
    BY <1>1, <1>2, <1>3, <2>1
  <2>2. CASE k # Len(s) + 1
    <3>1. k \in 1 .. Len(s) /\ r[k] = s[k]
      BY <1>3, <2>2
    <3>2. sent[s[k][1]] \in Nat /\ sent[s[k][1]] <= sent'[s[k][1]] /\ sent'[s[k][1]] \in Nat
      BY <1>1, <1>5, <3>1 DEF TypeOK
    <3>3. QED
      BY <1>5, <3>1, <3>2
  <2>3. QED
    BY <2>1, <2>2
<1>8. ASSUME NEW j \in 1 .. Len(r), NEW k \in 1 .. Len(r), j < k, r[j][1] = r[k][1]
      PROVE  r[j][2] < r[k][2]
  <2>1. j \in 1 .. Len(s) /\ r[j] = s[j]
    BY <1>3, <1>8
  <2>2. CASE k = Len(s) + 1
    <3>1. s[j][1] = c /\ s[j][2] <= sent[c] /\ s[j][2] \in Nat
      BY <1>2, <1>3, <1>5, <1>8, <2>1, <2>2
    <3>2. QED
      BY <1>1, <1>2, <1>3, <2>1, <2>2, <3>1
  <2>3. CASE k # Len(s) + 1
    <3>1. k \in 1 .. Len(s) /\ r[k] = s[k]
      BY <1>3, <2>3
    <3>2. QED
      BY <1>8, <2>1, <3>1 DEF AsTold
  <2>4. QED
    BY <2>2, <2>3
<1>9. AsTold(r, sent')
  BY <1>6, <1>7, <1>8 DEF AsTold
<1>10. QED
  BY <1>9 DEF r, i

\* The first item under way joins those that have arrived.
LEMMA HandOver ==
  ASSUME NEW s \in Seq(Items), NEW u \in Seq(Items), u # << >>
  PROVE  Append(s, Head(u)) \o Tail(u) = s \o u
<1>1. Head(u) \in Items /\ Tail(u) \in Seq(Items) /\ Len(u) \in Nat /\ Len(u) > 0
      /\ Len(Tail(u)) = Len(u) - 1 /\ Head(u) = u[1]
      /\ \A k \in 1 .. Len(u) - 1 : Tail(u)[k] = u[k + 1]
  BY HeadTailProperties, EmptySeq
<1>2. Append(s, Head(u)) \in Seq(Items) /\ Len(Append(s, Head(u))) = Len(s) + 1
      /\ Append(s, Head(u))[Len(s) + 1] = u[1] /\ Len(s) \in Nat
      /\ \A k \in 1 .. Len(s) : Append(s, Head(u))[k] = s[k]
  BY <1>1, OneMore
<1> DEFINE a == Append(s, Head(u))
<1> HIDE DEF a
<1>3. a \o Tail(u) \in Seq(Items) /\ Len(a \o Tail(u)) = Len(s) + Len(u)
      /\ \A k \in 1 .. Len(s) + Len(u) :
           (a \o Tail(u))[k] = IF k <= Len(s) + 1 THEN a[k] ELSE Tail(u)[k - (Len(s) + 1)]
  BY <1>1, <1>2, ConcatProperties DEF a
<1>4. s \o u \in Seq(Items) /\ Len(s \o u) = Len(s) + Len(u)
      /\ \A k \in 1 .. Len(s) + Len(u) : (s \o u)[k] = IF k <= Len(s) THEN s[k] ELSE u[k - Len(s)]
  BY ConcatProperties
<1>5. ASSUME NEW k \in 1 .. Len(s) + Len(u) PROVE (a \o Tail(u))[k] = (s \o u)[k]
  <2>1. CASE k <= Len(s)
    BY <1>1, <1>2, <1>3, <1>4, <2>1 DEF a
  <2>2. CASE k = Len(s) + 1
    BY <1>1, <1>2, <1>3, <1>4, <2>2 DEF a
  <2>3. CASE k > Len(s) + 1
    <3>1. k - (Len(s) + 1) \in 1 .. Len(u) - 1 /\ k - (Len(s) + 1) + 1 = k - Len(s)
          /\ ~(k <= Len(s)) /\ ~(k <= Len(s) + 1)
      BY <1>1, <1>2, <2>3
    <3>2. Tail(u)[k - (Len(s) + 1)] = u[k - Len(s)]
      BY <1>1, <3>1
    <3>3. QED
      BY <1>3, <1>4, <3>1, <3>2
  <2>4. k <= Len(s) \/ k = Len(s) + 1 \/ k > Len(s) + 1
    BY <1>1, <1>2
  <2>5. QED
    BY <2>1, <2>2, <2>3, <2>4
<1>6. a \o Tail(u) = s \o u
  BY <1>3, <1>4, <1>5, SeqEqual
<1>7. QED
  BY <1>6 DEF a

\* An item that goes under way is the last of all.
LEMMA SetOff ==
  ASSUME NEW s \in Seq(Items), NEW u \in Seq(Items), NEW i \in Items
  PROVE  s \o Append(u, i) = Append(s \o u, i)
<1>1. Append(u, i) \in Seq(Items) /\ Len(u) \in Nat /\ Len(s) \in Nat
      /\ Len(Append(u, i)) = Len(u) + 1 /\ Append(u, i)[Len(u) + 1] = i
      /\ \A k \in 1 .. Len(u) : Append(u, i)[k] = u[k]
  BY OneMore
<1> DEFINE a == Append(u, i)
           b == Append(s \o u, i)
<1> HIDE DEF a
<1>2. s \o u \in Seq(Items) /\ Len(s \o u) = Len(s) + Len(u)
      /\ \A k \in 1 .. Len(s) + Len(u) : (s \o u)[k] = IF k <= Len(s) THEN s[k] ELSE u[k - Len(s)]
  BY ConcatProperties
<1>3. b \in Seq(Items) /\ Len(b) = Len(s) + Len(u) + 1 /\ b[Len(s) + Len(u) + 1] = i
      /\ \A k \in 1 .. Len(s) + Len(u) : b[k] = (s \o u)[k]
  BY <1>2, OneMore
<1> HIDE DEF b
<1>4. s \o a \in Seq(Items) /\ Len(s \o a) = Len(s) + Len(u) + 1
      /\ \A k \in 1 .. Len(s) + Len(u) + 1 : (s \o a)[k] = IF k <= Len(s) THEN s[k] ELSE a[k - Len(s)]
  BY <1>1, ConcatProperties DEF a
<1>5. ASSUME NEW k \in 1 .. Len(s) + Len(u) + 1 PROVE (s \o a)[k] = b[k]
  <2>1. CASE k <= Len(s)
    <3>1. k \in 1 .. Len(s) + Len(u)
      BY <1>1, <2>1
    <3>2. QED
      BY <1>2, <1>3, <1>4, <2>1, <3>1
  <2>2. CASE k = Len(s) + Len(u) + 1
    BY <1>1, <1>3, <1>4, <2>2 DEF a
  <2>3. CASE k > Len(s) /\ k < Len(s) + Len(u) + 1
    <3>1. k - Len(s) \in 1 .. Len(u) /\ k \in 1 .. Len(s) + Len(u) /\ ~(k <= Len(s))
      BY <1>1, <2>3
    <3>2. a[k - Len(s)] = u[k - Len(s)]
      BY <1>1, <3>1 DEF a
    <3>3. QED
      BY <1>2, <1>3, <1>4, <3>1, <3>2
  <2>4. \/ k <= Len(s) \/ k = Len(s) + Len(u) + 1
        \/ k > Len(s) /\ k < Len(s) + Len(u) + 1
    BY <1>1
  <2>5. QED
    BY <2>1, <2>2, <2>3, <2>4
<1>6. s \o a = b
  BY <1>3, <1>4, <1>5, SeqEqual
<1>7. QED
  BY <1>6 DEF a, b

\* Nothing is lost from the start.
LEMMA LostInit == Init => NothingLost
<1> SUFFICES ASSUME Init PROVE NothingLost
  OBVIOUS
<1>1. Contents = << >> /\ log = << >>
  BY RingInit, ContentsType DEF QueueInv, Init
<1>2. log \o Contents = << >> /\ \A c \in Clients : sent[c] = 0
  BY <1>1 DEF Init
<1>3. QED
  BY <1>2 DEF NothingLost, AsTold

\* A step that stores, receives or leaves the ring alone loses nothing.
LEMMA LostNext == QueueInv /\ NothingLost /\ [Next]_vars => NothingLost'
<1> SUFFICES ASSUME QueueInv, NothingLost, [Next]_vars PROVE NothingLost'
  OBVIOUS
<1>1. TypeOK /\ RingExact /\ Contents \in Seq(Items) /\ log \in Seq(Items)
      /\ AsTold(log \o Contents, sent)
  BY DEF QueueInv, TypeOK, NothingLost
<1>2. ASSUME UNCHANGED <<ring, sent, log>> PROVE NothingLost'
  BY <1>1, <1>2, RingKept DEF NothingLost
<1>3. ASSUME NEW c \in Clients, count < Cap, Store(c), UNCHANGED log PROVE NothingLost'
  <2>1. <<c, sent[c] + 1>> \in Items /\ Contents' = Append(Contents, <<c, sent[c] + 1>>)
    BY <1>1, <1>3, StoreEffect
  <2>2. sent' = [sent EXCEPT ![c] = sent[c] + 1] /\ log \o Contents \in Seq(Items)
    BY <1>1, <1>3, ConcatProperties DEF Store
  <2>3. AsTold(Append(log \o Contents, <<c, sent[c] + 1>>), sent')
    BY <1>1, <2>1, <2>2, TellOneMore
  <2>4. log' \o Contents' = Append(log \o Contents, <<c, sent[c] + 1>>)
    BY <1>1, <1>3, <2>1, SetOff
  <2>5. QED
    BY <2>3, <2>4 DEF NothingLost
<1>4. ASSUME NEW t \in Users, Receive(t) PROVE NothingLost'
  <2>1. Contents # << >> /\ buf[head] = Head(Contents) /\ Contents' = Tail(Contents)
    BY <1>1, <1>4, ReceiveEffect
  <2>2. log' = Append(log, buf[head]) /\ sent' = sent
    BY <1>4 DEF Receive
  <2>3. log' \o Contents' = log \o Contents
    BY <1>1, <2>1, <2>2, HandOver
  <2>4. QED
    BY <1>1, <2>2, <2>3 DEF NothingLost
<1>5. QED
  BY <1>2, <1>3, <1>4 DEF Next, Begin, Send, Peek, Refused, TimedOut, LookAgain, SendIsr,
    SendIsrBusy, vars, Clients

\* What the clients were told is sent has arrived or is under way, each item once and
\* those of one client in order, for any capacity and however many items: a ring that
\* wraps, a call that times out and an interrupt in between lose and double none
\* (mk_queue.c:50-102).
THEOREM NothingIsLost == Spec => []NothingLost
BY LostInit, LostNext, QueueAlways, PTL DEF Spec

-----------------------------------------------------------------------------
(* Refinement                                                              *)

\* A step that changes the entry of one call changes the channel's view of that one.
LEMMA ViewStep ==
  ASSUME TypeOK, NEW t \in Users, \A u \in Users : u # t => call'[u] = call[u]
  PROVE  /\ Asks' = [Asks EXCEPT ![t] = IF call'[t].pc = "out" THEN "nothing"
                                        ELSE Request[call'[t].op]]
         /\ Denied' = [Denied EXCEPT ![t] = (call'[t].pc = "refused")]
BY DEF Asks, Denied

\* A call that moves to pc.
LEMMA GotoView ==
  ASSUME TypeOK, NEW t \in Users, NEW pc \in {"out", "look", "refused"}, Goto(t, pc)
  PROVE  /\ Asks' = [Asks EXCEPT ![t] = IF pc = "out" THEN "nothing" ELSE Request[call[t].op]]
         /\ Denied' = [Denied EXCEPT ![t] = (pc = "refused")]
<1>1. call'[t].op = call[t].op /\ call'[t].pc = pc
  <2>1. call[t] \in Call
    BY DEF TypeOK
  <2>2. [call[t] EXCEPT !.pc = pc].op = call[t].op
    BY <2>1 DEF Call
  <2>3. QED
    BY <2>2, GotoType
<1>2. \A u \in Users : u # t => call'[u] = call[u]
  BY GotoType
<1>3. QED
  BY <1>1, <1>2, ViewStep

\* What the channel sees of one call.
LEMMA ViewOf ==
  ASSUME NEW t \in Users
  PROVE  /\ Asks[t] = IF call[t].pc = "out" THEN "nothing" ELSE Request[call[t].op]
         /\ Denied[t] = (call[t].pc = "refused")
BY DEF Asks, Denied

\* Putting back what it sees changes nothing.
LEMMA ViewSame ==
  ASSUME NEW t \in Users
  PROVE  /\ Asks = [Asks EXCEPT ![t] = Asks[t]] /\ Denied = [Denied EXCEPT ![t] = Denied[t]]
BY DEF Asks, Denied

\* The initial state is the channel's.
LEMMA ChannelInit == Init => Channel!Init
<1> SUFFICES ASSUME Init PROVE Channel!Init
  OBVIOUS
<1>1. Contents = << >>
  BY RingInit, ContentsType DEF QueueInv, Init
<1>2. QED
  BY <1>1 DEF Channel!Init, Init, Asks, Denied

\* Every step of the queue is one of the channel, or none.
LEMMA ChannelStep ==
  ASSUME TypeOK, RingExact, Contents \in Seq(Items), [Next]_vars
  PROVE  [Channel!Next]_(Channel!vars)
<1> DEFINE Goal == [Channel!Next]_(Channel!vars)
<1> SUFFICES Goal
  OBVIOUS
<1>1. Len(Contents) = count /\ count \in 0 .. Cap /\ Cap \in Nat
      /\ (Contents = << >> <=> count = 0)
  BY ContentsType, QueueAssumption DEF TypeOK
<1>2. ASSUME NEW t \in Users, NEW op \in Op, NEW wait \in Wait, Begin(t, op, wait) PROVE Goal
  <2>1. Contents' = Contents /\ shown' = shown
    BY <1>2, RingKept DEF Begin
  <2>2. call'[t] = [pc |-> "look", op |-> op, wait |-> wait]
        /\ \A u \in Users : u # t => call'[u] = call[u]
    BY <1>2 DEF Begin, TypeOK
  <2>3. Asks' = [Asks EXCEPT ![t] = Request[op]] /\ Denied' = [Denied EXCEPT ![t] = FALSE]
    <3>1. call'[t].pc = "look" /\ call'[t].op = op
      BY <2>2
    <3>2. QED
      BY <2>2, <3>1, ViewStep
  <2>4. Asks[t] = "nothing" /\ ~Denied[t] /\ Request[op] \in {"put", "get", "look"}
    <3>1. call[t].pc = "out"
      BY <1>2 DEF Begin
    <3>2. Request[op] \in {"put", "get", "look"}
      BY DEF Request, Op
    <3>3. QED
      BY <3>1, <3>2, ViewOf
  <2>5. Denied' = Denied
    BY <2>3, <2>4, ViewSame DEF Denied
  <2>6. Channel!Ask(t)
    BY <2>1, <2>3, <2>4, <2>5 DEF Channel!Ask
  <2>7. QED
    BY <2>6 DEF Channel!Next
<1>3. ASSUME NEW c \in Clients, count < Cap, Store(c)
      PROVE  \E i \in Items : Channel!Enqueue(i)
  BY <1>1, <1>3, StoreEffect DEF Channel!Enqueue
<1>4. ASSUME NEW t \in Users, call[t].pc = "look", Goto(t, "out") PROVE Channel!Served(t)
  <2>1. Asks' = [Asks EXCEPT ![t] = "nothing"] /\ Denied' = [Denied EXCEPT ![t] = FALSE]
    BY <1>4, GotoView
  <2>2. ~Denied[t] /\ Denied' = Denied
    BY <1>4, <2>1, ViewOf, ViewSame
  <2>3. QED
    BY <2>1, <2>2 DEF Channel!Served
<1>5. ASSUME NEW t \in Users, Send(t) PROVE Goal
  <2>1. \E i \in Items : Channel!Enqueue(i)
    BY <1>3, <1>5 DEF Send, Clients
  <2>2. Channel!Served(t) /\ Asks[t] = "put" /\ shown' = shown
    BY <1>4, <1>5, ViewOf DEF Send, At, Request
  <2>3. Channel!Put(t)
    BY <2>1, <2>2 DEF Channel!Put
  <2>4. QED
    BY <2>3 DEF Channel!Next
<1>6. ASSUME NEW t \in Users, shown' = [shown EXCEPT ![t] = buf[head]], count > 0
      PROVE  Channel!Show(t)
  <2>1. Place(1) = head
    BY QueueAssumption DEF TypeOK, Index, Place
  <2>2. Contents # << >> /\ Head(Contents) = buf[head]
    BY <1>1, <1>6, <2>1, ContentsType
  <2>3. QED
    BY <1>6, <2>2 DEF Channel!Show
<1>7. ASSUME NEW t \in Users, Receive(t) PROVE Goal
  <2>1. Contents' = Tail(Contents)
    BY <1>7, ReceiveEffect
  <2>2. Channel!Served(t) /\ Asks[t] = "get" /\ Channel!Show(t)
    <3>1. call[t].pc = "look" /\ call[t].op = "receive" /\ Goto(t, "out") /\ count > 0
          /\ shown' = [shown EXCEPT ![t] = buf[head]]
      BY <1>7 DEF Receive, At
    <3>2. Asks[t] = "get"
      BY <3>1, ViewOf DEF Request
    <3>3. QED
      BY <1>4, <1>6, <3>1, <3>2
  <2>3. Channel!Get(t)
    BY <2>1, <2>2 DEF Channel!Get
  <2>4. QED
    BY <2>3 DEF Channel!Next
<1>8. ASSUME NEW t \in Users, Peek(t) PROVE Goal
  <2>1. Channel!Served(t) /\ Asks[t] = "look" /\ Channel!Show(t)
    <3>1. call[t].pc = "look" /\ call[t].op = "peek" /\ Goto(t, "out") /\ count > 0
          /\ shown' = [shown EXCEPT ![t] = buf[head]]
      BY <1>8 DEF Peek, At
    <3>2. Asks[t] = "look"
      BY <3>1, ViewOf DEF Request
    <3>3. QED
      BY <1>4, <1>6, <3>1, <3>2
  <2>2. Contents' = Contents
    BY <1>8, RingKept DEF Peek
  <2>3. Channel!Look(t)
    BY <2>1, <2>2 DEF Channel!Look
  <2>4. QED
    BY <2>3 DEF Channel!Next
<1>9. ASSUME NEW t \in Users, Refused(t) PROVE Goal
  <2>1. Denied' = [Denied EXCEPT ![t] = TRUE] /\ Asks' = [Asks EXCEPT ![t] = Asks[t]]
    BY <1>9, GotoView, ViewOf, ViewSame DEF Refused, At
  <2>2. \/ Asks[t] = "put" /\ Len(Contents) = Cap
        \/ Asks[t] \in {"get", "look"} /\ Contents = << >>
    BY <1>1, <1>9, ViewOf DEF Refused, At, Request
  <2>3. Contents' = Contents /\ shown' = shown /\ Asks' = Asks
    BY <1>9, <2>1, RingKept, ViewSame DEF Refused
  <2>4. Channel!Refuse(t)
    BY <2>1, <2>2, <2>3 DEF Channel!Refuse
  <2>5. QED
    BY <2>4 DEF Channel!Next
<1>10. ASSUME NEW t \in Users, TimedOut(t) PROVE Goal
  <2>1. /\ Denied' = [Denied EXCEPT ![t] = FALSE]
        /\ Asks' = [Asks EXCEPT ![t] = "nothing"] /\ Denied[t]
    BY <1>10, GotoView, ViewOf DEF TimedOut
  <2>2. Contents' = Contents /\ shown' = shown
    BY <1>10, RingKept DEF TimedOut
  <2>3. Channel!GiveUp(t)
    BY <2>1, <2>2 DEF Channel!GiveUp
  <2>4. QED
    BY <2>3 DEF Channel!Next
<1>11. ASSUME NEW t \in Users, LookAgain(t) PROVE Goal
  <2>1. /\ Denied' = [Denied EXCEPT ![t] = FALSE]
        /\ Asks' = [Asks EXCEPT ![t] = Asks[t]] /\ Denied[t]
    BY <1>11, GotoView, ViewOf, ViewSame DEF LookAgain
  <2>2. Contents' = Contents /\ shown' = shown /\ Asks' = Asks
    BY <1>11, <2>1, RingKept, ViewSame DEF LookAgain
  <2>3. Channel!Retry(t)
    BY <2>1, <2>2 DEF Channel!Retry
  <2>4. QED
    BY <2>3 DEF Channel!Next
<1>12. ASSUME NEW c \in Isrs, SendIsr(c) PROVE Goal
  <2>1. \E i \in Items : Channel!Enqueue(i)
    BY <1>3, <1>12 DEF SendIsr, Clients
  <2>2. Asks' = Asks /\ Denied' = Denied /\ shown' = shown
    BY <1>12 DEF SendIsr, Asks, Denied
  <2>3. Channel!PutNow
    BY <2>1, <2>2 DEF Channel!PutNow
  <2>4. QED
    BY <2>3 DEF Channel!Next
<1>13. ASSUME UNCHANGED vars PROVE Goal
  <2>1. Contents' = Contents /\ Asks' = Asks /\ Denied' = Denied /\ shown' = shown
    BY <1>13, RingKept DEF vars, Asks, Denied
  <2>2. QED
    BY <2>1 DEF Channel!vars
<1>14. ASSUME NEW c \in Isrs, SendIsrBusy(c) PROVE Goal
  BY <1>13, <1>14 DEF SendIsrBusy
<1> HIDE DEF Goal
<1>15. QED
  BY <1>2, <1>5, <1>7, <1>8, <1>9, <1>10, <1>11, <1>12, <1>13, <1>14 DEF Next

\* The ring buffer is a bounded first-in-first-out channel, for any capacity, any
\* tasks and any interrupts (mk_queue.c:50-121).
THEOREM QueueImplementsChannel == Spec => ImplementsChannel
<1>1. QueueInv /\ [Next]_vars => [Channel!Next]_(Channel!vars)
  BY ChannelStep DEF QueueInv
<1>2. QED
  BY <1>1, ChannelInit, QueueAlways, PTL DEF Spec, ImplementsChannel, Channel!Spec
=============================================================================
