--------------------------- MODULE RecursiveLock ----------------------------
(***************************************************************************)
(* What a mutex promises its users: while a task holds it, nobody else     *)
(* does; the task that holds it may take it again, and gives it up by as   *)
(* many unlocks as it made locks.                                          *)
(***************************************************************************)
EXTENDS Naturals

CONSTANTS Tasks, Mutexes

VARIABLE held     \* held[t][m]: locks of m by t that t has not undone

FreeFor(t, m) == \A u \in Tasks \ {t} : held[u][m] = 0

Init == held = [t \in Tasks |-> [m \in Mutexes |-> 0]]

Lock(t, m) == FreeFor(t, m) /\ held' = [held EXCEPT ![t][m] = @ + 1]

Unlock(t, m) == held[t][m] > 0 /\ held' = [held EXCEPT ![t][m] = @ - 1]

Next == \E t \in Tasks, m \in Mutexes : Lock(t, m) \/ Unlock(t, m)

Spec == Init /\ [][Next]_held
=============================================================================
