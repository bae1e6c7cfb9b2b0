----------------------------- MODULE Dashboard ------------------------------
(***************************************************************************)
(* components/gui/gui_dashboard.cpp with the part of system_thread         *)
(* (main/app_main.cpp) that fills in the state to show: what each widget   *)
(* whose colour depends on the state looks like after create and after an  *)
(* update.  Layout, texts and numbers are left out, but for the system     *)
(* status, whose words choose the colours.                                 *)
(***************************************************************************)

Colour == {"green", "orange", "red"}

\* What the services report, as far as the colours depend on it.
Report == [joined : BOOLEAN, ap : BOOLEAN, synced : BOOLEAN, ble : {"off", "advertising", "connected"}]

\* system_status, as system_thread words it.
SystemStatus(r) ==
  CASE r.joined /\ r.synced -> "SYSTEM OK"
    [] r.joined /\ ~r.synced -> "SYNCING TIME"
    [] ~r.joined /\ r.ap -> "WIFI AP ON"
    [] ~r.joined /\ ~r.ap -> "NO WIFI"

Look == [wifi : Colour, ble : Colour, chip : Colour, dot : Colour]

ChipColour(r) ==
  [s \in {"SYSTEM OK", "SYNCING TIME", "WIFI AP ON", "NO WIFI"} |->
     CASE s = "SYSTEM OK" -> "green" [] s = "SYNCING TIME" -> "orange" [] OTHER -> "red"][SystemStatus(r)]

\* create: SYSTEM OK in green, before anything is known.
Created == [wifi |-> "red", ble |-> "red", chip |-> "green", dot |-> "green"]

\* Mutant of Updated: the chip is left alone with its dot.
UpdatedHalf(look, r) ==
  [wifi |-> IF r.joined THEN "green" ELSE IF r.ap THEN "orange" ELSE "red",
   ble  |-> [off |-> "red", advertising |-> "orange", connected |-> "green"][r.ble],
   chip |-> IF ChipColour(r) = "red" THEN look.chip ELSE ChipColour(r),
   dot  |-> IF ChipColour(r) = "red" THEN look.dot ELSE ChipColour(r)]

\* update: the branch that paints the chip red leaves its dot as it was.
Updated(look, r) ==
  [wifi |-> IF r.joined THEN "green" ELSE IF r.ap THEN "orange" ELSE "red",
   ble  |-> [off |-> "red", advertising |-> "orange", connected |-> "green"][r.ble],
   chip |-> ChipColour(r),
   dot  |-> IF ChipColour(r) = "red" THEN look.dot ELSE ChipColour(r)]

=============================================================================
