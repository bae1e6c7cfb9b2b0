--------------------------- MODULE WatchdogProofs ---------------------------
(***************************************************************************)
(* For any number of tasks, slots and scanners and any timeouts: the pass  *)
(* is run by one task at a time, the mode is the one the score stands for, *)
(* and no stall that was marked goes unrecorded.                           *)
(***************************************************************************)
EXTENDS Watchdog, TLAPS

Inside(k) == scan[k].pc # "idle"

\* Only a scanner between the scan and the end of the reports holds notices.
NoticesInHand ==
  \A k \in Scanners : scan[k].notices # NoNotice => scan[k].pc \in {"fault", "save"}

\* The fixed records are well typed.
LEMMA BlankTypes == Blank \in Slot /\ Idle \in Scan /\ NoNotice \in [Slots -> Names \cup {NoName}]
<1>1. NoNotice \in [Slots -> Names \cup {NoName}]
  BY DEF NoNotice
<1>2. Blank \in Slot
  BY WatchdogAssumption DEF Blank, Slot
<1>3. 0 \in 0 .. MaxScan
  BY WatchdogAssumption
<1>4. Idle \in Scan
  BY <1>1, <1>3 DEF Idle, Scan, Pc, Cause
<1>5. QED
  BY <1>1, <1>2, <1>4

\* The initial state is well typed.
LEMMA TypeInit == Init => TypeOK
<1> SUFFICES ASSUME Init PROVE TypeOK
  OBVIOUS
<1>1. health \in Health
  BY WatchdogAssumption DEF Init, Health, Mode
<1>2. wd \in [Slots -> Slot] /\ scan \in [Scanners -> Scan]
  BY BlankTypes DEF Init
<1>3. report \in Cause /\ crash \in Names \cup {NoName} /\ running \in BOOLEAN
  BY DEF Init, Cause
<1>4. QED
  BY <1>1, <1>2, <1>3 DEF TypeOK

-----------------------------------------------------------------------------
(* What the steps of a scanner do to its record                            *)

\* The scan: its notices are the freshly overdue, and the record stays well typed.
LEMMA ScanEffect ==
  ASSUME TypeOK, NEW k \in Scanners, ScanDogs(k)
  PROVE  \E r \in Scan :
           /\ scan' = [scan EXCEPT ![k] = r]
           /\ r.pc = AfterNotice(r.notices)
           /\ \A s \in Slots :
                r.notices[s] = IF Overdue(s, scan[k].since) /\ ~wd[s].stalled
                               THEN wd[s].name ELSE NoName
<1> DEFINE late == {s \in Slots : Overdue(s, scan[k].since)}
           notices == [s \in Slots |-> IF s \in late \cap Unmarked THEN wd[s].name ELSE NoName]
<1>1. notices \in [Slots -> Names \cup {NoName}]
  BY DEF TypeOK, Slot
<1>2. PICK cause \in Cause :
        scan' = [scan EXCEPT ![k] = [pc |-> AfterNotice(notices), since |-> 0,
                                     notices |-> notices, cause |-> cause]]
  BY DEF ScanDogs, ScanWith
<1>3. AfterNotice(notices) \in Pc
  BY DEF AfterNotice, Pc
<1>4. \A s \in Slots : notices[s] = IF Overdue(s, scan[k].since) /\ ~wd[s].stalled
                                    THEN wd[s].name ELSE NoName
  BY DEF Unmarked
<1> HIDE DEF notices
<1> DEFINE r == [pc |-> AfterNotice(notices), since |-> 0, notices |-> notices, cause |-> cause]
<1>5. r \in Scan
  BY <1>1, <1>3, WatchdogAssumption DEF Scan
<1>6. QED
  BY <1>2, <1>4, <1>5

\* Saving a notice takes it out of hand.
LEMMA SaveEffect ==
  ASSUME TypeOK, NEW k \in Scanners, Save(k)
  PROVE  /\ crash' \in Names
         /\ \E r \in Scan :
              /\ scan' = [scan EXCEPT ![k] = r] /\ r.pc = AfterNotice(r.notices)
              /\ \A u \in Slots : r.notices[u] = scan[k].notices[u] \/ crash' = scan[k].notices[u]
<1>1. PICK s \in Slots :
        /\ scan[k].notices[s] # NoName /\ crash' = scan[k].notices[s]
        /\ scan' = [scan EXCEPT ![k].notices = [scan[k].notices EXCEPT ![s] = NoName],
                                ![k].pc = AfterNotice([scan[k].notices EXCEPT ![s] = NoName])]
  BY DEF Save, IsFirst
<1> DEFINE rest == [scan[k].notices EXCEPT ![s] = NoName]
           r == [scan[k] EXCEPT !.notices = rest, !.pc = AfterNotice(rest)]
<1>2. scan[k] \in Scan /\ scan[k].notices \in [Slots -> Names \cup {NoName}]
  BY DEF TypeOK, Scan
<1>3. rest \in [Slots -> Names \cup {NoName}] /\ crash' \in Names
  BY <1>1, <1>2
<1>4. AfterNotice(rest) \in Pc
  BY DEF AfterNotice, Pc
<1>5. scan' = [scan EXCEPT ![k] = r]
  BY <1>1 DEF TypeOK
<1> HIDE DEF rest
<1>6. r \in Scan /\ r.notices = rest /\ r.pc = AfterNotice(rest)
  BY <1>2, <1>3, <1>4 DEF Scan
<1>7. \A u \in Slots : rest[u] = scan[k].notices[u] \/ crash' = scan[k].notices[u]
  BY <1>1, <1>2 DEF rest
<1> HIDE DEF r
<1>8. QED
  BY <1>3, <1>5, <1>6, <1>7

\* The remaining steps inside the pass touch neither the notices nor the flag.
LEMMA PlainEffect ==
  ASSUME TypeOK, NEW k \in Scanners, Stamp(k) \/ CheckHeap(k) \/ Fault(k) \/ Recover(k)
  PROVE  \E r \in Scan :
           /\ scan' = [scan EXCEPT ![k] = r] /\ r.notices = scan[k].notices
           /\ r.pc = CASE scan[k].pc = "stamp" -> "heap" [] scan[k].pc = "heap" -> "scan"
                       [] scan[k].pc = "fault" -> "save" [] OTHER -> "close"
<1> DEFINE q == scan[k]
<1>1. q \in Scan
  BY DEF TypeOK
<1>2. CASE Stamp(k)
  <2> DEFINE r == [q EXCEPT !.pc = "heap", !.since = 0]
  <2>1. scan' = [scan EXCEPT ![k] = r] /\ q.pc = "stamp"
    BY <1>2 DEF Stamp, TypeOK
  <2>2. r \in Scan /\ r.notices = q.notices /\ r.pc = "heap"
    <3>1. 0 \in 0 .. MaxScan
      BY WatchdogAssumption
    <3>2. QED
      BY <1>1, <3>1 DEF Scan, Pc
  <2>3. QED
    BY <2>1, <2>2
<1>3. CASE CheckHeap(k)
  <2>1. PICK cause \in {"OK", "LOW HEAP"} :
          scan' = [scan EXCEPT ![k].pc = "scan", ![k].cause = cause]
    BY <1>3 DEF CheckHeap
  <2> DEFINE r == [q EXCEPT !.pc = "scan", !.cause = cause]
  <2>2. scan' = [scan EXCEPT ![k] = r] /\ q.pc = "heap"
    BY <1>3, <2>1 DEF CheckHeap
  <2>3. r \in Scan /\ r.notices = q.notices /\ r.pc = "scan"
    BY <1>1 DEF Scan, Pc, Cause
  <2>4. QED
    BY <2>2, <2>3
<1>4. CASE Fault(k)
  <2> DEFINE r == [q EXCEPT !.pc = "save"]
  <2>1. scan' = [scan EXCEPT ![k] = r] /\ q.pc = "fault"
    BY <1>4 DEF Fault, Goto
  <2>2. r \in Scan /\ r.notices = q.notices /\ r.pc = "save"
    BY <1>1 DEF Scan, Pc
  <2>3. QED
    BY <2>1, <2>2
<1>5. CASE Recover(k)
  <2> DEFINE r == [q EXCEPT !.pc = "close"]
  <2>1. scan' = [scan EXCEPT ![k] = r] /\ q.pc = "recover"
    BY <1>5 DEF Recover, Goto
  <2>2. r \in Scan /\ r.notices = q.notices /\ r.pc = "close"
    BY <1>1 DEF Scan, Pc
  <2>3. QED
    BY <2>1, <2>2
<1>6. QED
  BY <1>2, <1>3, <1>4, <1>5

-----------------------------------------------------------------------------
\* The mode a score stands for, and a health record that has it.
Earned(score) == IF score >= Good THEN "NORMAL"
                 ELSE IF score >= Fair THEN "DEGRADED_UI"
                 ELSE IF score >= Poor THEN "DEGRADED_NET" ELSE "SAFE_MODE"

HealthOK(h) == h \in Health /\ h.mode = Earned(h.score)

\* Changing the score and the mode changes nothing else.
LEMMA RecordOK ==
  ASSUME NEW h \in Health, NEW score \in 0 .. MaxScore
  PROVE  HealthOK([h EXCEPT !.score = score, !.mode = Earned(score)])
<1> DEFINE mode == Earned(score)
           r == [h EXCEPT !.score = score, !.mode = mode]
<1>1. mode \in Mode
  BY DEF Earned, Mode
<1>2. mode = Earned(score)
  OBVIOUS
<1> HIDE DEF mode
<1>3. r \in Health /\ r.score = score /\ r.mode = mode
  BY <1>1 DEF Health
<1>4. QED
  BY <1>2, <1>3 DEF HealthOK

\* A fault leaves the record well typed, with the mode the new score stands for.
LEMMA LoweredOK ==
  ASSUME NEW h \in Health, HealthOK(h)
  PROVE  HealthOK(Lowered(h))
<1> DEFINE score == IF h.score > Penalty THEN h.score - Penalty ELSE 0
           mode == IF score < Poor THEN "SAFE_MODE"
                   ELSE IF score < Fair THEN "DEGRADED_NET"
                   ELSE IF score < Good THEN "DEGRADED_UI" ELSE h.mode
<1>1. h.score \in 0 .. MaxScore
  BY DEF Health
<1>2. score \in 0 .. MaxScore /\ score <= h.score
  BY <1>1, WatchdogAssumption
<1>3. Lowered(h) = [h EXCEPT !.score = score, !.mode = mode]
  BY DEF Lowered
<1> HIDE DEF score
<1>4. Good \in Nat /\ Fair \in Nat /\ Poor \in Nat /\ Fair <= Good /\ Poor <= Fair
  BY WatchdogAssumption
<1>5. score >= Good => h.mode = "NORMAL"
  BY <1>1, <1>2, <1>4 DEF HealthOK, Earned
<1>6. mode = Earned(score)
  <2>1. CASE score >= Good
    <3>1. ~(score < Poor) /\ ~(score < Fair) /\ ~(score < Good)
      BY <1>2, <1>4, <2>1
    <3>2. QED
      BY <1>5, <2>1, <3>1 DEF Earned
  <2>2. CASE ~(score >= Good)
    <3>1. /\ (score < Good)
          /\ (score < Fair) = ~(score >= Fair) /\ (score < Poor) = ~(score >= Poor)
          /\ score < Poor => score < Fair
      BY <1>2, <1>4, <2>2
    <3>2. QED
      BY <2>2, <3>1 DEF Earned
  <2>3. QED
    BY <2>1, <2>2
<1> HIDE DEF mode
<1>7. QED
  BY <1>2, <1>3, <1>6, RecordOK

\* So does a recovered point.
LEMMA RaisedOK ==
  ASSUME NEW h \in Health, HealthOK(h), h.score < MaxScore
  PROVE  HealthOK(Raised(h))
<1> DEFINE score == h.score + 1
           mode == IF score >= Good THEN "NORMAL"
                   ELSE IF score >= Fair THEN "DEGRADED_UI"
                   ELSE IF score >= Poor THEN "DEGRADED_NET" ELSE h.mode
<1>1. h.score \in 0 .. MaxScore
  BY DEF Health
<1>2. score \in 0 .. MaxScore /\ score > h.score
  BY <1>1, WatchdogAssumption
<1>3. Raised(h) = [h EXCEPT !.score = score, !.mode = mode]
  BY DEF Raised
<1> HIDE DEF score
<1>4. Good \in Nat /\ Fair \in Nat /\ Poor \in Nat /\ Fair <= Good /\ Poor <= Fair
  BY WatchdogAssumption
<1>5. ~(score >= Poor) => h.mode = "SAFE_MODE"
  BY <1>1, <1>2, <1>4 DEF HealthOK, Earned
<1>6. mode = Earned(score)
  BY <1>5 DEF Earned
<1> HIDE DEF mode
<1>7. QED
  BY <1>2, <1>3, <1>6, RecordOK

\* The time waited plays no part in it.
LEMMA WaitedOK ==
  ASSUME NEW h \in Health, HealthOK(h), NEW n \in 0 .. RecoverEvery
  PROVE  HealthOK([h EXCEPT !.waited = n])
BY DEF Health, HealthOK

\* Every step keeps the health record well typed, in the mode of its score.
LEMMA HealthStep ==
  ASSUME TypeOK, ModeMatchesScore, [Next]_vars
  PROVE  health' \in Health /\ ModeMatchesScore'
<1>1. health \in Health /\ HealthOK(health)
  BY DEF TypeOK, ModeMatchesScore, HealthOK, Earned
<1>2. HealthOK(health') => health' \in Health /\ ModeMatchesScore'
  BY DEF HealthOK, Earned, ModeMatchesScore
<1>3. CASE UNCHANGED health
  BY <1>1, <1>2, <1>3
<1>4. CASE Tick
  <2> DEFINE n == IF health.waited = RecoverEvery THEN health.waited ELSE health.waited + 1
  <2>1. health' = [health EXCEPT !.waited = n]
    BY <1>4 DEF Tick
  <2>2. n \in 0 .. RecoverEvery
    BY <1>1, WatchdogAssumption DEF Health
  <2> HIDE DEF n
  <2>3. QED
    BY <1>1, <1>2, <2>1, <2>2, WaitedOK
<1>5. ASSUME NEW k \in Scanners, Fault(k) PROVE HealthOK(health')
  BY <1>1, <1>5, LoweredOK DEF Fault
<1>6. ASSUME NEW k \in Scanners, Recover(k) PROVE HealthOK(health')
  <2> DEFINE h == IF health.score < MaxScore THEN Raised(health) ELSE health
  <2>1. health' = health \/ health' = [h EXCEPT !.waited = 0]
    BY <1>6 DEF Recover
  <2>2. HealthOK(h) /\ h \in Health
    BY <1>1, RaisedOK DEF HealthOK
  <2>3. 0 \in 0 .. RecoverEvery
    BY WatchdogAssumption
  <2> HIDE DEF h
  <2>4. QED
    BY <1>1, <2>1, <2>2, <2>3, WaitedOK
<1>7. ASSUME NEW n \in Names, Register(n) \/ Feed(n) \/ Deregister(n) PROVE UNCHANGED health
  BY <1>7 DEF Register, Feed, Deregister
<1>8. ASSUME NEW k \in Scanners,
             \/ Enter(k) \/ Refused(k) \/ Stamp(k) \/ CheckHeap(k) \/ ScanDogs(k)
             \/ Save(k) \/ Close(k)
      PROVE  UNCHANGED health
  BY <1>8 DEF Enter, Refused, Stamp, CheckHeap, ScanDogs, ScanWith, Save, Close, vars
<1>9. CASE UNCHANGED vars
  BY <1>3, <1>9 DEF vars
<1>10. QED
  BY <1>2, <1>3, <1>4, <1>5, <1>6, <1>7, <1>8, <1>9 DEF Next, Pass

-----------------------------------------------------------------------------
\* The slots stay well typed.
LEMMA SlotStep ==
  ASSUME TypeOK, [Next]_vars
  PROVE  wd' \in [Slots -> Slot]
<1>1. CASE UNCHANGED wd
  BY <1>1 DEF TypeOK
<1>2. \A s \in Slots : wd[s] \in Slot
  BY DEF TypeOK
<1>3. ASSUME NEW n \in Names, Register(n) PROVE wd' \in [Slots -> Slot]
  <2>1. ASSUME NEW s \in Slots,
               wd' = [wd EXCEPT ![s] = [Blank EXCEPT !.name = n, !.timeout = Timeout[n]]]
        PROVE  wd' \in [Slots -> Slot]
    <3>1. Timeout[n] \in Nat
      BY WatchdogAssumption
    <3>2. [Blank EXCEPT !.name = n, !.timeout = Timeout[n]] \in Slot
      BY <3>1, BlankTypes DEF Slot
    <3>3. QED
      BY <2>1, <3>2 DEF TypeOK
  <2>2. QED
    BY <1>1, <1>3, <2>1 DEF Register
<1>4. ASSUME NEW n \in Names, Feed(n) PROVE wd' \in [Slots -> Slot]
  <2>1. \A s \in Slots : [wd[s] EXCEPT !.age = 0, !.seen = TRUE, !.stalled = FALSE] \in Slot
    <3>1. 0 \in 0 .. MaxAge
      BY WatchdogAssumption
    <3>2. QED
      BY <1>2, <3>1 DEF Slot
  <2>2. QED
    BY <1>2, <1>4, <2>1 DEF Feed
<1>5. ASSUME NEW n \in Names, Deregister(n) PROVE wd' \in [Slots -> Slot]
  BY <1>2, <1>5, BlankTypes DEF Deregister
<1>6. CASE Tick
  <2> DEFINE age(s) == IF wd[s].name = NoName \/ wd[s].age = MaxAge THEN wd[s].age
                       ELSE wd[s].age + 1
  <2>1. \A s \in Slots : age(s) \in 0 .. MaxAge
    BY <1>2, WatchdogAssumption DEF Slot
  <2>2. wd' = [s \in Slots |-> [wd[s] EXCEPT !.age = age(s)]]
    BY <1>6 DEF Tick
  <2> HIDE DEF age
  <2>3. \A s \in Slots : [wd[s] EXCEPT !.age = age(s)] \in Slot
    BY <1>2, <2>1 DEF Slot
  <2>4. QED
    BY <2>2, <2>3
<1>7. ASSUME NEW k \in Scanners, ScanDogs(k) PROVE wd' \in [Slots -> Slot]
  <2> DEFINE late == {s \in Slots : Overdue(s, scan[k].since)}
  <2>1. wd' = [s \in Slots |-> [wd[s] EXCEPT !.stalled = @ \/ s \in late]]
    BY <1>7 DEF ScanDogs, ScanWith
  <2> HIDE DEF late
  <2>2. \A s \in Slots : [wd[s] EXCEPT !.stalled = @ \/ s \in late] \in Slot
    <3>1. ASSUME NEW s \in Slots PROVE (wd[s].stalled \/ s \in late) \in BOOLEAN
      OBVIOUS
    <3>2. QED
      BY <1>2, <3>1 DEF Slot
  <2>3. QED
    BY <2>1, <2>2
<1>8. ASSUME NEW k \in Scanners,
             \/ Enter(k) \/ Refused(k) \/ Stamp(k) \/ CheckHeap(k) \/ Fault(k)
             \/ Save(k) \/ Recover(k) \/ Close(k)
      PROVE  UNCHANGED wd
  BY <1>8 DEF Enter, Refused, Stamp, CheckHeap, Fault, Save, Recover, Close, vars
<1>9. CASE UNCHANGED vars
  BY <1>1, <1>9 DEF vars
<1>10. QED
  BY <1>1, <1>3, <1>4, <1>5, <1>6, <1>7, <1>8, <1>9 DEF Next, Pass

-----------------------------------------------------------------------------
\* The scanners' records stay well typed, and what one of them holds of notices it
\* holds only while it reports them.
LEMMA ScanTypeStep ==
  ASSUME TypeOK, NoticesInHand, [Next]_vars
  PROVE  /\ scan' \in [Scanners -> Scan] /\ NoticesInHand'
         /\ running' \in BOOLEAN /\ report' \in Cause /\ crash' \in Names \cup {NoName}
<1> DEFINE Goal == /\ scan' \in [Scanners -> Scan] /\ NoticesInHand'
                   /\ running' \in BOOLEAN /\ report' \in Cause
                   /\ crash' \in Names \cup {NoName}
<1> SUFFICES Goal
  OBVIOUS
<1>1. CASE UNCHANGED <<scan, running, report, crash>>
  BY <1>1 DEF TypeOK, NoticesInHand
<1>2. ASSUME NEW k \in Scanners, NEW r \in Scan, scan' = [scan EXCEPT ![k] = r],
             r.notices # NoNotice => r.pc \in {"fault", "save"}
      PROVE  scan' \in [Scanners -> Scan] /\ NoticesInHand'
  BY <1>2 DEF TypeOK, NoticesInHand
<1>3. CASE Tick
  <2> DEFINE since(k) == IF Stamped(k) THEN scan[k].since + 1 ELSE scan[k].since
  <2>1. \A k \in Scanners : since(k) \in 0 .. MaxScan
    BY <1>3, WatchdogAssumption DEF Tick, TypeOK, Scan
  <2>2. scan' = [k \in Scanners |-> [scan[k] EXCEPT !.since = since(k)]]
        /\ UNCHANGED <<running, report, crash>>
    BY <1>3 DEF Tick
  <2> HIDE DEF since
  <2>3. \A k \in Scanners : LET r == [scan[k] EXCEPT !.since = since(k)]
                            IN  r \in Scan /\ r.notices = scan[k].notices /\ r.pc = scan[k].pc
    BY <2>1 DEF TypeOK, Scan
  <2>4. QED
    BY <2>2, <2>3 DEF TypeOK, NoticesInHand
<1>4. ASSUME NEW k \in Scanners, Enter(k) PROVE Goal
  <2> DEFINE r == [scan[k] EXCEPT !.pc = "stamp"]
  <2>1. scan' = [scan EXCEPT ![k] = r] /\ running' = TRUE /\ UNCHANGED <<report, crash>>
    BY <1>4 DEF Enter, Goto
  <2>2. r \in Scan /\ r.notices = scan[k].notices
    BY DEF TypeOK, Scan, Pc
  <2>3. scan[k].notices = NoNotice
    BY <1>4 DEF Enter, NoticesInHand
  <2> HIDE DEF r
  <2>4. QED
    BY <1>2, <2>1, <2>2, <2>3 DEF TypeOK
<1>5. ASSUME NEW k \in Scanners, Stamp(k) \/ CheckHeap(k) \/ Fault(k) \/ Recover(k)
      PROVE  Goal
  <2>1. PICK r \in Scan :
          /\ scan' = [scan EXCEPT ![k] = r] /\ r.notices = scan[k].notices
          /\ r.pc = CASE scan[k].pc = "stamp" -> "heap" [] scan[k].pc = "heap" -> "scan"
                      [] scan[k].pc = "fault" -> "save" [] OTHER -> "close"
    BY <1>5, PlainEffect
  <2>2. UNCHANGED <<running, report, crash>>
    BY <1>5 DEF Stamp, CheckHeap, Fault, Recover
  <2>3. scan[k].pc \in {"stamp", "heap", "fault", "recover"}
    BY <1>5 DEF Stamp, CheckHeap, Fault, Recover
  <2>4. r.notices # NoNotice => r.pc = "save"
    BY <2>1, <2>3 DEF NoticesInHand
  <2>5. QED
    BY <1>2, <2>1, <2>2, <2>4 DEF TypeOK
<1>6. ASSUME NEW k \in Scanners, ScanDogs(k) PROVE Goal
  <2>1. PICK r \in Scan : scan' = [scan EXCEPT ![k] = r] /\ r.pc = AfterNotice(r.notices)
    BY <1>6, ScanEffect
  <2>2. UNCHANGED <<running, report, crash>>
    BY <1>6 DEF ScanDogs, ScanWith
  <2>3. QED
    BY <1>2, <2>1, <2>2 DEF TypeOK, AfterNotice
<1>7. ASSUME NEW k \in Scanners, Save(k) PROVE Goal
  <2>1. PICK r \in Scan : scan' = [scan EXCEPT ![k] = r] /\ r.pc = AfterNotice(r.notices)
    BY <1>7, SaveEffect
  <2>2. crash' \in Names /\ UNCHANGED <<running, report>>
    BY <1>7, SaveEffect DEF Save
  <2>3. QED
    BY <1>2, <2>1, <2>2 DEF TypeOK, AfterNotice
<1>8. ASSUME NEW k \in Scanners, Close(k) PROVE Goal
  <2>1. scan' = [scan EXCEPT ![k] = Idle] /\ running' = FALSE /\ UNCHANGED crash
        /\ report' = scan[k].cause
    BY <1>8 DEF Close
  <2>2. scan[k].cause \in Cause
    BY DEF TypeOK, Scan
  <2>3. Idle \in Scan /\ Idle.notices = NoNotice
    BY BlankTypes DEF Idle
  <2>4. QED
    BY <1>2, <2>1, <2>2, <2>3 DEF TypeOK
<1>9. ASSUME NEW n \in Names, Register(n) \/ Feed(n) \/ Deregister(n)
      PROVE  UNCHANGED <<scan, running, report, crash>>
  BY <1>9 DEF Register, Feed, Deregister
<1>10. ASSUME NEW k \in Scanners, Refused(k) PROVE UNCHANGED <<scan, running, report, crash>>
  BY <1>10 DEF Refused, vars
<1>11. CASE UNCHANGED vars
  BY <1>1, <1>11 DEF vars
<1> HIDE DEF Goal
<1>12. QED
  BY <1>1, <1>3, <1>4, <1>5, <1>6, <1>7, <1>8, <1>9, <1>10, <1>11 DEF Next, Pass

-----------------------------------------------------------------------------
\* One task at a time is inside the pass: a task inside stays inside with the flag
\* set, until Close gives both up.
LEMMA OnePassStep ==
  ASSUME TypeOK, OnePass, [Next]_vars
  PROVE  OnePass'
<1>1. CASE UNCHANGED <<running, scan>>
  BY <1>1 DEF OnePass
<1>2. ASSUME \A k \in Scanners : scan'[k].pc # "idle" <=> scan[k].pc # "idle",
             UNCHANGED running
      PROVE  OnePass'
  BY <1>2 DEF OnePass
<1>3. CASE Tick
  <2>1. \A k \in Scanners : scan'[k].pc = scan[k].pc
    BY <1>3 DEF Tick, TypeOK, Scan
  <2>2. QED
    BY <1>2, <1>3, <2>1 DEF Tick
<1>4. ASSUME NEW k \in Scanners, Enter(k) PROVE OnePass'
  <2>1. scan' = [scan EXCEPT ![k] = [scan[k] EXCEPT !.pc = "stamp"]] /\ running' = TRUE
    BY <1>4 DEF Enter, Goto
  <2>2. \A j \in Scanners : scan[j].pc = "idle"
    BY <1>4 DEF Enter, OnePass
  <2>3. [scan[k] EXCEPT !.pc = "stamp"].pc = "stamp"
    BY DEF TypeOK, Scan
  <2>4. scan'[k].pc = "stamp" /\ \A j \in Scanners : j # k => scan'[j] = scan[j]
    BY <2>1, <2>3 DEF TypeOK
  <2>5. QED
    BY <2>1, <2>2, <2>4 DEF OnePass
<1>5. ASSUME NEW k \in Scanners, NEW r \in Scan, scan' = [scan EXCEPT ![k] = r],
             scan[k].pc # "idle", r.pc # "idle", UNCHANGED running
      PROVE  OnePass'
  BY <1>2, <1>5 DEF TypeOK
<1>6. ASSUME NEW k \in Scanners, Stamp(k) \/ CheckHeap(k) \/ Fault(k) \/ Recover(k)
      PROVE  OnePass'
  <2>1. scan[k].pc # "idle" /\ UNCHANGED running
    BY <1>6 DEF Stamp, CheckHeap, Fault, Recover
  <2>2. PICK r \in Scan : scan' = [scan EXCEPT ![k] = r] /\ r.pc # "idle"
    BY <1>6, PlainEffect
  <2>3. QED
    BY <1>5, <2>1, <2>2
<1>7. ASSUME NEW k \in Scanners, ScanDogs(k) \/ Save(k) PROVE OnePass'
  <2>1. scan[k].pc # "idle" /\ UNCHANGED running
    BY <1>7 DEF ScanDogs, ScanWith, Save
  <2>2. PICK r \in Scan : scan' = [scan EXCEPT ![k] = r] /\ r.pc = AfterNotice(r.notices)
    BY <1>7, ScanEffect, SaveEffect
  <2>3. QED
    BY <1>5, <2>1, <2>2 DEF AfterNotice
<1>8. ASSUME NEW k \in Scanners, Close(k) PROVE OnePass'
  <2>1. scan' = [scan EXCEPT ![k] = Idle] /\ running' = FALSE /\ scan[k].pc # "idle"
    BY <1>8 DEF Close
  <2>2. \A j \in Scanners : scan'[j].pc = "idle"
    BY <2>1 DEF OnePass, TypeOK, Idle
  <2>3. QED
    BY <2>1, <2>2 DEF OnePass
<1>9. ASSUME NEW n \in Names, Register(n) \/ Feed(n) \/ Deregister(n)
      PROVE  UNCHANGED <<running, scan>>
  BY <1>9 DEF Register, Feed, Deregister
<1>10. ASSUME NEW k \in Scanners, Refused(k) PROVE UNCHANGED <<running, scan>>
  BY <1>10 DEF Refused, vars
<1>11. CASE UNCHANGED vars
  BY <1>1, <1>11 DEF vars
<1>12. QED
  BY <1>1, <1>3, <1>4, <1>6, <1>7, <1>8, <1>9, <1>10, <1>11 DEF Next, Pass

-----------------------------------------------------------------------------
\* A notice in hand stays in hand until it is saved.
LEMMA NoticesKept ==
  ASSUME TypeOK, NoticesInHand, [Next]_vars, NEW j \in Scanners, NEW s \in Slots
  PROVE  scan[j].notices[s] \in {NoName, scan'[j].notices[s], crash'}
<1> DEFINE Goal == scan[j].notices[s] \in {NoName, scan'[j].notices[s], crash'}
<1> SUFFICES Goal
  OBVIOUS
<1>1. CASE scan'[j].notices = scan[j].notices
  BY <1>1
<1>2. CASE Tick
  <2>1. scan'[j].notices = scan[j].notices
    BY <1>2 DEF Tick, TypeOK, Scan
  <2>2. QED
    BY <1>1, <2>1
<1>3. ASSUME NEW k \in Scanners, k # j, NEW r, scan' = [scan EXCEPT ![k] = r] PROVE Goal
  <2>1. scan'[j] = scan[j]
    BY <1>3 DEF TypeOK
  <2>2. QED
    BY <1>1, <2>1
<1>4. scan[j].pc \notin {"fault", "save"} => scan[j].notices[s] = NoName
  BY DEF NoticesInHand, NoNotice
<1>5. ASSUME NEW k \in Scanners, Enter(k) PROVE Goal
  <2>1. scan' = [scan EXCEPT ![k] = [scan[k] EXCEPT !.pc = "stamp"]] /\ scan[k].pc = "idle"
    BY <1>5 DEF Enter, Goto
  <2>2. QED
    BY <1>3, <1>4, <2>1
<1>6. ASSUME NEW k \in Scanners, Stamp(k) \/ CheckHeap(k) \/ Fault(k) \/ Recover(k)
      PROVE  Goal
  <2>1. PICK r \in Scan : scan' = [scan EXCEPT ![k] = r] /\ r.notices = scan[k].notices
    BY <1>6, PlainEffect
  <2>2. scan'[j].notices = scan[j].notices
    BY <2>1 DEF TypeOK
  <2>3. QED
    BY <1>1, <2>2
<1>7. ASSUME NEW k \in Scanners, ScanDogs(k) PROVE Goal
  <2>1. PICK r \in Scan : scan' = [scan EXCEPT ![k] = r]
    BY <1>7, ScanEffect
  <2>2. scan[k].pc = "scan"
    BY <1>7 DEF ScanDogs, ScanWith
  <2>3. QED
    BY <1>3, <1>4, <2>1, <2>2
<1>8. ASSUME NEW k \in Scanners, Save(k) PROVE Goal
  <2>1. PICK r \in Scan :
          /\ scan' = [scan EXCEPT ![k] = r]
          /\ \A u \in Slots : r.notices[u] = scan[k].notices[u] \/ crash' = scan[k].notices[u]
    BY <1>8, SaveEffect
  <2>2. CASE k = j
    <3>1. scan'[j] = r
      BY <2>1, <2>2 DEF TypeOK
    <3>2. QED
      BY <2>1, <2>2, <3>1
  <2>3. CASE k # j
    BY <1>3, <2>1, <2>3
  <2>4. QED
    BY <2>2, <2>3
<1>9. ASSUME NEW k \in Scanners, Close(k) PROVE Goal
  <2>1. scan' = [scan EXCEPT ![k] = Idle] /\ scan[k].pc = "close"
    BY <1>9 DEF Close
  <2>2. QED
    BY <1>3, <1>4, <2>1
<1>10. ASSUME NEW n \in Names, Register(n) \/ Feed(n) \/ Deregister(n) PROVE UNCHANGED scan
  BY <1>10 DEF Register, Feed, Deregister
<1>11. ASSUME NEW k \in Scanners, Refused(k) PROVE UNCHANGED scan
  BY <1>11 DEF Refused, vars
<1>12. CASE UNCHANGED vars
  BY <1>1, <1>12 DEF vars
<1>13. CASE UNCHANGED scan
  BY <1>1, <1>13
<1> HIDE DEF Goal
<1>14. QED
  BY <1>2, <1>5, <1>6, <1>7, <1>8, <1>9, <1>10, <1>11, <1>12, <1>13 DEF Next, Pass

\* Only the scan marks a stall, and it holds a notice of what it has just marked.
LEMMA NewStallNoticed ==
  ASSUME TypeOK, [Next]_vars, NEW s \in Slots, wd'[s].stalled, ~wd[s].stalled
  PROVE  \E k \in Scanners : scan'[k].notices[s] = wd'[s].name
<1>1. wd[s] \in Slot
  BY DEF TypeOK
<1>2. ~ UNCHANGED wd
  OBVIOUS
<1>3. ASSUME NEW n \in Names, Register(n) PROVE FALSE
  <2>1. PICK u \in Slots :
          wd' = [wd EXCEPT ![u] = [Blank EXCEPT !.name = n, !.timeout = Timeout[n]]]
    BY <1>2, <1>3 DEF Register
  <2>2. ~ [Blank EXCEPT !.name = n, !.timeout = Timeout[n]].stalled
    BY DEF Blank
  <2>3. QED
    BY <2>1, <2>2 DEF TypeOK
<1>4. ASSUME NEW n \in Names, Feed(n) PROVE FALSE
  <2>1. ~ [wd[s] EXCEPT !.age = 0, !.seen = TRUE, !.stalled = FALSE].stalled
    BY <1>1 DEF Slot
  <2>2. QED
    BY <1>4, <2>1 DEF Feed
<1>5. ASSUME NEW n \in Names, Deregister(n) PROVE FALSE
  BY <1>5 DEF Deregister, Blank
<1>6. CASE Tick
  <2> DEFINE age == IF wd[s].name = NoName \/ wd[s].age = MaxAge THEN wd[s].age
                    ELSE wd[s].age + 1
  <2>1. wd'[s] = [wd[s] EXCEPT !.age = age]
    BY <1>6 DEF Tick
  <2> HIDE DEF age
  <2>2. wd'[s].stalled = wd[s].stalled
    BY <1>1, <2>1 DEF Slot
  <2>3. QED
    BY <2>2
<1>7. ASSUME NEW k \in Scanners, ScanDogs(k) PROVE scan'[k].notices[s] = wd'[s].name
  <2>1. PICK r \in Scan :
          /\ scan' = [scan EXCEPT ![k] = r]
          /\ \A u \in Slots : r.notices[u] = IF Overdue(u, scan[k].since) /\ ~wd[u].stalled
                                             THEN wd[u].name ELSE NoName
    BY <1>7, ScanEffect
  <2> DEFINE late == {u \in Slots : Overdue(u, scan[k].since)}
  <2>2. wd' = [u \in Slots |-> [wd[u] EXCEPT !.stalled = @ \/ u \in late]]
    BY <1>7 DEF ScanDogs, ScanWith
  <2> HIDE DEF late
  <2>3. wd'[s].stalled = (wd[s].stalled \/ s \in late) /\ wd'[s].name = wd[s].name
    BY <1>1, <2>2 DEF Slot
  <2>4. Overdue(s, scan[k].since)
    BY <2>3 DEF late
  <2>5. scan'[k] = r
    BY <2>1 DEF TypeOK
  <2>6. QED
    BY <2>1, <2>3, <2>4, <2>5
<1>8. ASSUME NEW k \in Scanners,
             \/ Enter(k) \/ Refused(k) \/ Stamp(k) \/ CheckHeap(k) \/ Fault(k)
             \/ Save(k) \/ Recover(k) \/ Close(k)
      PROVE  UNCHANGED wd
  BY <1>8 DEF Enter, Refused, Stamp, CheckHeap, Fault, Save, Recover, Close, vars
<1>9. ~ UNCHANGED vars
  BY <1>2 DEF vars
<1>10. QED
  BY <1>2, <1>3, <1>4, <1>5, <1>6, <1>7, <1>8, <1>9 DEF Next, Pass

-----------------------------------------------------------------------------
\* The inductive invariant.
WatchInv == TypeOK /\ NoticesInHand /\ OnePass /\ ModeMatchesScore

\* The initial states satisfy it.
LEMMA WatchInit == Init => WatchInv
<1> SUFFICES ASSUME Init PROVE WatchInv
  OBVIOUS
<1>1. NoticesInHand /\ OnePass
  BY DEF Init, Idle, NoticesInHand, OnePass
<1>2. ModeMatchesScore
  <2>1. health.score = MaxScore /\ health.mode = "NORMAL" /\ MaxScore >= Good
    BY WatchdogAssumption DEF Init
  <2>2. QED
    BY <2>1 DEF ModeMatchesScore
<1>3. QED
  BY <1>1, <1>2, TypeInit DEF WatchInv

\* Every step keeps it.
LEMMA WatchNext == WatchInv /\ [Next]_vars => WatchInv'
<1> SUFFICES ASSUME WatchInv, [Next]_vars PROVE WatchInv'
  OBVIOUS
<1> USE DEF WatchInv
<1>1. TypeOK'
  BY SlotStep, HealthStep, ScanTypeStep DEF TypeOK
<1>2. NoticesInHand' /\ OnePass' /\ ModeMatchesScore'
  BY ScanTypeStep, OnePassStep, HealthStep
<1>3. QED
  BY <1>1, <1>2

\* So it holds throughout.
LEMMA WatchAlways == Spec => []WatchInv
BY WatchInit, WatchNext, PTL DEF Spec

\* Slots, scanners, health score and crash record stay well typed: the score never
\* leaves 0 .. MaxScore (mk_health.c:48-53, 89-90).
THEOREM WatchdogTypeCorrect == Spec => []TypeOK
<1>1. WatchInv => TypeOK
  BY DEF WatchInv
<1>2. QED
  BY <1>1, WatchAlways, PTL

\* However many tasks run the diagnostics, one at a time is inside the pass, and the
\* flag says so (mk_diagnostics.c:165-171, 268-272).
THEOREM PassIsExclusive == Spec => []OnePass
<1>1. WatchInv => OnePass
  BY DEF WatchInv
<1>2. QED
  BY <1>1, WatchAlways, PTL

\* Faults and recovery between them leave the mode the score stands for
\* (mk_health.c:64-70, 91-98).
THEOREM ModeAlwaysMatchesScore == Spec => []ModeMatchesScore
<1>1. WatchInv => ModeMatchesScore
  BY DEF WatchInv
<1>2. QED
  BY <1>1, WatchAlways, PTL

\* No stall is lost, however many there are and however many tasks run the pass: the pass
\* that marks it holds a notice of it, which goes only into the crash record
\* (mk_diagnostics.c:198-220).
THEOREM StallsLeaveRecords == Spec => StallLeavesRecord
<1>1. ASSUME WatchInv, [Next]_vars
      PROVE  [/\ \A s \in Slots :
                   wd'[s].stalled =>
                     wd[s].stalled \/ \E k \in Scanners : scan'[k].notices[s] = wd'[s].name
              /\ \A k \in Scanners, s \in Slots :
                   scan[k].notices[s] \in {NoName, scan'[k].notices[s], crash'}]_vars
  BY <1>1, NewStallNoticed, NoticesKept DEF WatchInv
<1>2. QED
  BY <1>1, WatchAlways, PTL DEF Spec, StallLeavesRecord
=============================================================================
