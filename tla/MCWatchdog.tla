----------------------------- MODULE MCWatchdog -----------------------------
(* The GUI and SYSTEM tasks feed their watchdogs; the OTA job registers one   *)
(* and never feeds it.  SYSTEM and the console run the diagnostics pass.      *)
EXTENDS Watchdog, TLC

CONSTANTS gui, ota, sys, cli

MCNames == {gui, sys, ota}
MCTimeout == [n \in Names |-> 1]
=============================================================================
