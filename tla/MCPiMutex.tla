----------------------------- MODULE MCPiMutex ------------------------------
(* The tasks and priorities of the product: GUI 7, CLI 6, SYSTEM 3.          *)
EXTENDS PiMutex, TLC

CONSTANTS gui, cli, sys, display

MCTasks == {gui, cli, sys}
MCBase == (gui :> 7) @@ (cli :> 6) @@ (sys :> 3)
OneMutex == {display}
=============================================================================
