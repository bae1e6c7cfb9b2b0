------------------------------ MODULE MCParts -------------------------------
(* Three parts that share no state with one another: the storage and the     *)
(* Bluetooth service of the product build, and the screen of the Arduino     *)
(* build.  As nothing one of them does can be met by another, a behaviour    *)
(* exercises one part, and the run explores each of them alone.              *)
EXTENDS SettingsStore

CONSTANTS MaxLinks, MaxGapEvents, Themes, MaxResets

ASSUME PartsAssumption == MaxLinks \in Nat \ {0} /\ MaxGapEvents \in Nat \ {0}

VARIABLES
  part,
  gap, gapEvents, host, bleStatus, bleCall, tidy,
  theme, stored, console, asked, mode, gui, glass, resets

Ble == INSTANCE BleService
Demo == INSTANCE DemoScreen

bleVars == <<gap, gapEvents, host, bleStatus, bleCall, tidy>>
demoVars == <<theme, stored, console, asked, mode, gui, glass, resets>>
partsVars == <<part, vars, bleVars, demoVars>>

PartsInit == part \in {"store", "ble", "demo"} /\ Init /\ Ble!Init /\ Demo!Init

InStore(A) == part = "store" /\ A /\ UNCHANGED <<part, bleVars, demoVars>>
InBle(A) == part = "ble" /\ A /\ UNCHANGED <<part, vars, demoVars>>
InDemo(A) == part = "demo" /\ A /\ UNCHANGED <<part, vars, bleVars>>

PartsNext == InStore(Next) \/ InBle(Ble!Next) \/ InDemo(Demo!Next)

\* Each part with the fairness of its own specification.
PartsSpec ==
  /\ PartsInit /\ [][PartsNext]_partsVars
  /\ WF_partsVars(InBle(Ble!Host)) /\ WF_partsVars(InBle(Ble!BleMark))
  /\ WF_partsVars(InDemo(Demo!GuiTask))

-----------------------------------------------------------------------------
(* What the parts' own modules state; StoreSound is in SettingsStore.        *)

\* ble status and the dashboard tell what the controller does (ble_service.cpp:142-190).
BleSound == Ble!BleSound

\* After a client left, the device can be found again (ble_service.cpp:170-186).
BackOnAir == Ble!BackOnAir

\* A theme that stays covers the glass (main.cpp:594-604).
ThemeSettles == part = "demo" => []Demo!TypeOK /\ Demo!ThemeSettles
=============================================================================
