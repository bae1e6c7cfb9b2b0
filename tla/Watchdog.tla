------------------------------ MODULE Watchdog ------------------------------
(***************************************************************************)
(* The task watchdogs of core/mk_diagnostics.c, the health score of        *)
(* core/mk_health.c they lower, and the crash record of core/mk_crash.c    *)
(* they leave.  Tasks feed by name; any of several tasks may run the       *)
(* diagnostics pass (mk_diagnostics_tick), which stamps the time before    *)
(* it takes the kernel lock and reports after it has dropped it.           *)
(*                                                                         *)
(* Instants are kept as ages: the time since a feed, since a stamp, since  *)
(* the last recovery.  Left out: the stall callbacks (every caller passes  *)
(* a null one), the CPU load, the counters kept for reports, and the       *)
(* memory and network scores, which nothing lowers.                        *)
(***************************************************************************)
EXTENDS Integers

CONSTANTS
  Names,         \* names of watched tasks
  NoName,        \* a slot that is not registered
  Fed,           \* those whose code feeds its watchdog
  Jobs,          \* those that come and go while the kernel runs
  Scanners,      \* the tasks that run the diagnostics pass
  NSlots,        \* MK_DIAG_MAX_WATCHDOGS
  Timeout,       \* timeout_ms of each name, in ticks of this model
  MaxScan,       \* bound: ticks between the stamp and the locked scan
  MaxAge,        \* an age from which on nothing changes any more
  MaxScore, Penalty, Good, Fair, Poor,     \* 100, 20, 80, 60, 40
  RecoverEvery   \* the 60 seconds of mk_health_tick

ASSUME WatchdogAssumption ==
  /\ NoName \notin Names /\ Fed \subseteq Names /\ Jobs \subseteq Names
  /\ NSlots \in Nat /\ Timeout \in [Names -> Nat \ {0}]
  /\ MaxScan \in Nat /\ RecoverEvery \in Nat \ {0}
  /\ MaxAge \in Nat /\ \A n \in Names : MaxAge > Timeout[n] + MaxScan
  /\ MaxScore \in Nat /\ Penalty \in Nat
  /\ Good \in 1 .. MaxScore /\ Fair \in 1 .. Good /\ Poor \in 1 .. Fair

VARIABLES
  wd,        \* s_wd
  running,   \* s_tick_running
  scan,      \* each scanner's progress through mk_diagnostics_tick
  health,    \* s_snapshot, and the time since s_last_recover_us
  report,    \* s_health; s_healthy says whether it is "OK"
  crash      \* the task named by the crash record, NoName while there is none

vars == <<wd, running, scan, health, report, crash>>

Slots == 1 .. NSlots
Mode == {"NORMAL", "DEGRADED_UI", "DEGRADED_NET", "SAFE_MODE"}
Pc == {"idle", "stamp", "heap", "scan", "fault", "save", "recover", "close"}
Cause == Names \cup {"OK", "LOW HEAP"}
Slot == [name : Names \cup {NoName}, age : 0 .. MaxAge, timeout : Nat,
         seen : BOOLEAN, stalled : BOOLEAN]
Scan == [pc : Pc, since : 0 .. MaxScan, notices : [Slots -> Names \cup {NoName}], cause : Cause]
Health == [score : 0 .. MaxScore, mode : Mode, waited : 0 .. RecoverEvery]

TypeOK ==
  /\ wd \in [Slots -> Slot]
  /\ running \in BOOLEAN
  /\ scan \in [Scanners -> Scan]
  /\ health \in Health
  /\ report \in Cause
  /\ crash \in Names \cup {NoName}

Blank == [name |-> NoName, age |-> 0, timeout |-> 0, seen |-> FALSE, stalled |-> FALSE]
NoNotice == [s \in Slots |-> NoName]
Idle == [pc |-> "idle", since |-> 0, notices |-> NoNotice, cause |-> "OK"]

Init ==
  /\ wd = [s \in Slots |-> Blank]
  /\ running = FALSE
  /\ scan = [k \in Scanners |-> Idle]
  /\ health = [score |-> MaxScore, mode |-> "NORMAL", waited |-> 0]
  /\ report = "OK"
  /\ crash = NoName

-----------------------------------------------------------------------------
(* The tasks' side                                                         *)

Holding(n) == {s \in Slots : wd[s].name = n}
IsFirst(s, S) == s \in S /\ \A u \in S : s <= u
IsLast(s, S) == s \in S /\ \A u \in S : u <= s

\* mk_watchdog_register: the slot of that name, or the first empty one, is started
\* afresh; a full table drops the call.
Register(n) ==
  LET found == IF Holding(n) # {} THEN Holding(n) ELSE Holding(NoName)
  IN  /\ n \in Jobs \/ Holding(n) = {}
      /\ \/ found = {} /\ UNCHANGED wd
         \/ \E s \in Slots :
              /\ IsFirst(s, found)
              /\ wd' = [wd EXCEPT ![s] = [Blank EXCEPT !.name = n, !.timeout = Timeout[n]]]
      /\ UNCHANGED <<running, scan, health, report, crash>>

Feed(n) ==
  /\ n \in Fed
  /\ wd' = [s \in Slots |-> IF s \in Holding(n)
                            THEN [wd[s] EXCEPT !.age = 0, !.seen = TRUE, !.stalled = FALSE]
                            ELSE wd[s]]
  /\ UNCHANGED <<running, scan, health, report, crash>>

Deregister(n) ==
  /\ n \in Jobs
  /\ wd' = [s \in Slots |-> IF s \in Holding(n) THEN Blank ELSE wd[s]]
  /\ UNCHANGED <<running, scan, health, report, crash>>

Stamped(k) == scan[k].pc \in {"heap", "scan"}

\* Time passes; a pass is never more than MaxScan behind its stamp.
Tick ==
  /\ \A k \in Scanners : Stamped(k) => scan[k].since < MaxScan
  /\ wd' = [s \in Slots |->
              [wd[s] EXCEPT !.age = IF wd[s].name = NoName \/ @ = MaxAge THEN @ ELSE @ + 1]]
  /\ scan' = [k \in Scanners |-> [scan[k] EXCEPT !.since = IF Stamped(k) THEN @ + 1 ELSE @]]
  /\ health' = [health EXCEPT !.waited = IF @ = RecoverEvery THEN @ ELSE @ + 1]
  /\ UNCHANGED <<running, report, crash>>

-----------------------------------------------------------------------------
(* mk_diagnostics_tick                                                     *)

Goto(k, pc) == scan' = [scan EXCEPT ![k].pc = pc]

\* Mutant of Enter: the test of s_tick_running dropped.
EnterUntested(k) ==
  /\ scan[k].pc = "idle"
  /\ running' = TRUE
  /\ Goto(k, "stamp")
  /\ UNCHANGED <<wd, health, report, crash>>

Enter(k) ==
  /\ scan[k].pc = "idle" /\ ~running
  /\ running' = TRUE
  /\ Goto(k, "stamp")
  /\ UNCHANGED <<wd, health, report, crash>>

Refused(k) == scan[k].pc = "idle" /\ running /\ UNCHANGED vars

Stamp(k) ==
  /\ scan[k].pc = "stamp"
  /\ scan' = [scan EXCEPT ![k].pc = "heap", ![k].since = 0]
  /\ UNCHANGED <<wd, running, health, report, crash>>

CheckHeap(k) ==
  /\ scan[k].pc = "heap"
  /\ \E cause \in {"OK", "LOW HEAP"} : scan' = [scan EXCEPT ![k].pc = "scan", ![k].cause = cause]
  /\ UNCHANGED <<wd, running, health, report, crash>>

\* The age of a feed at the stamp, unsigned: a feed later than the stamp comes out
\* as some fifteen days, more than any timeout.
Expired(s, since) ==
  wd[s].age < since \/ wd[s].age - since > wd[s].timeout

AfterNotice(notices) == IF notices = NoNotice THEN "recover" ELSE "fault"

Overdue(s, since) == wd[s].name # NoName /\ wd[s].seen /\ Expired(s, since)

\* The locked scan: slots that are overdue are marked, the fresh ones among them are
\* noticed, and the last one names the cause.
ScanWith(k, fresh) ==
  LET late == {s \in Slots : Overdue(s, scan[k].since)}
      notices == [s \in Slots |-> IF s \in late \cap fresh THEN wd[s].name ELSE NoName]
  IN  /\ scan[k].pc = "scan"
      /\ wd' = [s \in Slots |-> [wd[s] EXCEPT !.stalled = @ \/ s \in late]]
      /\ \E cause \in Cause :
           /\ \/ late = {} /\ cause = scan[k].cause
              \/ \E s \in Slots : IsLast(s, late) /\ cause = wd[s].name
           /\ scan' = [scan EXCEPT ![k] = [pc |-> AfterNotice(notices), since |-> 0,
                                           notices |-> notices, cause |-> cause]]
      /\ UNCHANGED <<running, health, report, crash>>

Unmarked == {s \in Slots : ~wd[s].stalled}

\* Mutant of ScanDogs: the mark is set before it is tested.
ScanDogsMarked(k) == ScanWith(k, {})

\* Mutant of ScanDogs: the pass is spoilt only by a stall it is the first to see.
ScanDogsFresh(k) ==
  LET late == {s \in Unmarked : Overdue(s, scan[k].since)}
  IN  /\ scan[k].pc = "scan"
      /\ wd' = [s \in Slots |-> [wd[s] EXCEPT !.stalled = @ \/ s \in late]]
      /\ \E cause \in Cause :
           /\ \/ late = {} /\ cause = scan[k].cause
              \/ \E s \in late : cause = wd[s].name
           /\ scan' = [scan EXCEPT ![k].pc = "recover", ![k].cause = cause]
      /\ UNCHANGED <<running, health, report, crash>>

ScanDogs(k) == ScanWith(k, Unmarked)

\* Mutants of Lowered: no floor at zero, and a fault that leaves the mode alone.
LoweredThrough(h) == [h EXCEPT !.score = @ - Penalty]

LoweredModeless(h) == [h EXCEPT !.score = IF @ > Penalty THEN @ - Penalty ELSE 0]

\* mk_health_record_fault
Lowered(h) ==
  LET score == IF h.score > Penalty THEN h.score - Penalty ELSE 0
  IN  [h EXCEPT !.score = score,
                !.mode = IF score < Poor THEN "SAFE_MODE"
                         ELSE IF score < Fair THEN "DEGRADED_NET"
                         ELSE IF score < Good THEN "DEGRADED_UI" ELSE @]

Fault(k) ==
  /\ scan[k].pc = "fault"
  /\ health' = Lowered(health)
  /\ Goto(k, "save")
  /\ UNCHANGED <<wd, running, report, crash>>

\* mk_crash_save for the notice at hand; then the next one.
Save(k) ==
  LET notices == scan[k].notices
  IN  /\ scan[k].pc = "save"
      /\ \E s \in Slots :
           LET rest == [notices EXCEPT ![s] = NoName]
           IN  /\ IsFirst(s, {u \in Slots : notices[u] # NoName})
               /\ crash' = notices[s]
               /\ scan' = [scan EXCEPT ![k].notices = rest, ![k].pc = AfterNotice(rest)]
      /\ UNCHANGED <<wd, running, health, report>>

\* mk_health_tick: a point back, and the mode the new score has earned.
Raised(h) ==
  LET score == h.score + 1
  IN  [h EXCEPT !.score = score,
                !.mode = IF score >= Good THEN "NORMAL"
                         ELSE IF score >= Fair THEN "DEGRADED_UI"
                         ELSE IF score >= Poor THEN "DEGRADED_NET" ELSE @]

Recover(k) ==
  /\ scan[k].pc = "recover"
  /\ health' = IF health.waited < RecoverEvery THEN health
               ELSE [(IF health.score < MaxScore THEN Raised(health) ELSE health)
                       EXCEPT !.waited = 0]
  /\ Goto(k, "close")
  /\ UNCHANGED <<wd, running, report, crash>>

\* Mutant of Close: the flag is not given back.
CloseHolding(k) ==
  /\ scan[k].pc = "close"
  /\ report' = scan[k].cause
  /\ scan' = [scan EXCEPT ![k] = Idle]
  /\ UNCHANGED <<wd, running, health, crash>>

Close(k) ==
  /\ scan[k].pc = "close"
  /\ report' = scan[k].cause
  /\ scan' = [scan EXCEPT ![k] = Idle]
  /\ running' = FALSE
  /\ UNCHANGED <<wd, health, crash>>

-----------------------------------------------------------------------------
Pass(k) ==
  \/ Stamp(k) \/ CheckHeap(k) \/ ScanDogs(k) \/ Fault(k) \/ Save(k) \/ Recover(k) \/ Close(k)

Next ==
  \/ \E n \in Names : Register(n) \/ Feed(n) \/ Deregister(n)
  \/ Tick
  \/ \E k \in Scanners : Enter(k) \/ Refused(k) \/ Pass(k)

Spec == Init /\ [][Next]_vars

\* Time passes, and the tasks that run the pass loop for ever: one of them begins it
\* whenever nobody is in it, and whoever is in it gets through.
FairSpec ==
  /\ Spec
  /\ WF_vars(Tick)
  /\ WF_vars(\E k \in Scanners : Enter(k))
  /\ \A k \in Scanners : WF_vars(Pass(k))

-----------------------------------------------------------------------------
\* The pass is run by one task at a time, and the flag says exactly whether it is
\* under way (mk_diagnostics.c:165-171, 268-272).
OnePass ==
  /\ running <=> \E k \in Scanners : scan[k].pc # "idle"
  /\ \A j, k \in Scanners : scan[j].pc # "idle" /\ scan[k].pc # "idle" => j = k

\* The mode, raised and lowered in parts by faults and by recovery, is always the one
\* its score stands for (mk_health.c:64-70, 91-98).
ModeMatchesScore ==
  health.mode = IF health.score >= Good THEN "NORMAL"
                ELSE IF health.score >= Fair THEN "DEGRADED_UI"
                ELSE IF health.score >= Poor THEN "DEGRADED_NET" ELSE "SAFE_MODE"

\* No stall is lost, the first or a later one: the pass that marks a slot holds a notice
\* of the task in it, and a notice goes only into the crash record
\* (mk_diagnostics.c:198-220, mk_crash.c:44-47).
StallLeavesRecord ==
  [][/\ \A s \in Slots :
          wd'[s].stalled => wd[s].stalled \/ \E k \in Scanners : scan'[k].notices[s] = wd'[s].name
     /\ \A k \in Scanners, s \in Slots :
          scan[k].notices[s] \in {NoName, scan'[k].notices[s], crash'}]_vars

\* A task that has fed its watchdog and stops is marked stalled (architecture_microkernel.md:44),
\* as long as it stays registered.
OverdueIsMarked ==
  \A s \in Slots : Overdue(s, 0) ~> wd[s].stalled \/ ~Overdue(s, 0)

\* The health text never goes back to "OK" for good while a task stays stalled
\* (mk_diagnostics.c:205-210, 268-270).
StallIsShown ==
  \A s \in Slots : <>[]wd[s].stalled => <>[](report # "OK")
=============================================================================
