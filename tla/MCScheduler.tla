---------------------------- MODULE MCScheduler -----------------------------
(* Two priorities, one request beyond the range, a quantum of two ticks.   *)
EXTENDS Scheduler, TLC

CONSTANTS t1, t2, t3

MCTasks == {t1, t2, t3}
MCNPrio == 2
MCQuantum == 2
MCRequests == {0, 2}
MCDelays == {0, 2}
MCMaxTick == 2
Symmetry == Permutations(MCTasks)
=============================================================================
