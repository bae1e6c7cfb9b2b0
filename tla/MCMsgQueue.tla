----------------------------- MODULE MCMsgQueue -----------------------------
(* Two tasks, an interrupt, and a ring short enough to wrap several times.   *)
EXTENDS MsgQueue, TLC

CONSTANTS a, b, irq

Symmetry == Permutations({a, b})
=============================================================================
