---------------------------- MODULE MCDemoRadio -----------------------------
(* Two callbacks may be owed: a client has come and gone, or another came,   *)
(* before the first was handled.                                             *)
EXTENDS Naturals, Sequences

CONSTANT MaxBleEvents
VARIABLES ctl, owed, callback, ble, greeted, wifi, flag, sys, cli, tidy, polled

ASSUME RadioAssumption == MaxBleEvents \in Nat \ {0}

Radio == INSTANCE DemoRadio

RadioSpec == Radio!FairSpec

\* Well typed, and the pills true (main.cpp:366-377).
RadioSound == Radio!TypeOK /\ Radio!PillsTrue

\* A client that stays is greeted (main.cpp:661-668).
HelloReaches == Radio!HelloReaches
=============================================================================
