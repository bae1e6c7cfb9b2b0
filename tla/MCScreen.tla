------------------------------ MODULE MCScreen ------------------------------
EXTENDS Screen
Say(joined, ap, synced, ble) == [joined |-> joined, ap |-> ap, synced |-> synced, ble |-> ble]
TwoReports == {Say(TRUE, TRUE, TRUE, "advertising"), Say(FALSE, TRUE, TRUE, "connected")}
=============================================================================
