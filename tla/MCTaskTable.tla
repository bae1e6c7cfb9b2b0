---------------------------- MODULE MCTaskTable ----------------------------
(* Two levels and a quantum of two ticks.  The boot lists are those of       *)
(* KernelManager::startTasks (three services that must start) and of         *)
(* SystemController::start in small (a job that may fail to start follows).  *)
(* Services spawn jobs until the slots, each a tombstone after its job, run  *)
(* out.  The handles are too few for all of them, so a creation can meet a     *)
(* handle that was in use before.                                            *)
EXTENDS TaskTable, TLC

CONSTANTS h1, h2, h3, h4

Service == [prio |-> 1, entry |-> "service", required |-> TRUE]
Job == [prio |-> 0, entry |-> "job", required |-> FALSE]

FiveSlots == 1 .. 5
ThreeSlots == 1 .. 3
FourHandles == {h1, h2, h3, h4}
ThreeHandles == {h1, h2, h3}
ThreeServices == <<Service, Service, Service>>
ServiceAndJob == <<Service, Job>>
Permutable == Permutations(FourHandles)
=============================================================================
