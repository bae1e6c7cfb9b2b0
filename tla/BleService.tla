----------------------------- MODULE BleService -----------------------------
(***************************************************************************)
(* components/connectivity/ble_service.cpp: advertising, the GAP callback  *)
(* in the NimBLE host's task, and the console's ble start and ble stop,    *)
(* which call the service from their own task; status_ has no lock.        *)
(*                                                                         *)
(* The controller is external: it advertises or not, keeps up to MaxLinks  *)
(* connections (the build allows several), stops advertising when a client *)
(* connects, and queues events for the host.  Left out: names, addresses,  *)
(* the fallback to a short name, and stop, which no code calls.            *)
(***************************************************************************)
EXTENDS Naturals, Sequences

CONSTANTS
  MaxLinks,      \* connections the controller keeps, at least one
  MaxGapEvents   \* bound: events not handled yet, at least one

VARIABLES
  gap,         \* the controller: advertising, connections
  gapEvents,   \* its events, oldest first
  host,        \* the host's task: "adv" before start_advertising, "flag" after adv_start
  bleStatus,   \* status_: state, advertising, connected
  bleCall,     \* the console's call: "none", or its flags still to be set
  tidy         \* history: no call met an event, a connection or another start

vars == <<gap, gapEvents, host, bleStatus, bleCall, tidy>>

GapEvent == {"SYNC", "CONNECTED", "CONNECT_FAILED", "DISCONNECTED", "ADV_COMPLETE"}
BleStatus == [state : {"INITIALIZED", "ADVERTISING", "CONNECTED", "FAILED"},
              advertising : BOOLEAN, connected : BOOLEAN]

TypeOK ==
  /\ gap \in [adv : BOOLEAN, links : 0..MaxLinks]
  /\ gapEvents \in Seq(GapEvent) /\ Len(gapEvents) <= MaxGapEvents
  /\ host \in {"idle", "adv", "flag"}
  /\ bleStatus \in BleStatus
  /\ bleCall \in {"none", "started", "stopped"}
  /\ tidy \in BOOLEAN

\* initialize has run and the host has been started.
Init ==
  /\ gap = [adv |-> FALSE, links |-> 0]
  /\ gapEvents = <<"SYNC">>
  /\ host = "idle"
  /\ bleStatus = [state |-> "INITIALIZED", advertising |-> FALSE, connected |-> FALSE]
  /\ bleCall = "none"
  /\ tidy = TRUE

-----------------------------------------------------------------------------
(* The controller and its clients                                          *)

Post(e) == Len(gapEvents) < MaxGapEvents /\ gapEvents' = Append(gapEvents, e)

GapStep(adv, links, e) ==
  /\ gap' = [adv |-> adv, links |-> links]
  /\ Post(e)
  /\ tidy' = (tidy /\ bleCall = "none")
  /\ UNCHANGED <<host, bleStatus, bleCall>>

ClientConnects == gap.adv /\ gap.links < MaxLinks /\ GapStep(FALSE, gap.links + 1, "CONNECTED")
ConnectFails == gap.adv /\ GapStep(FALSE, gap.links, "CONNECT_FAILED")
ClientLeaves == gap.links > 0 /\ GapStep(gap.adv, gap.links - 1, "DISCONNECTED")
AdvEnds == gap.adv /\ GapStep(FALSE, gap.links, "ADV_COMPLETE")

-----------------------------------------------------------------------------
(* start_advertising                                                       *)

Advertise == gap' = [gap EXCEPT !.adv = TRUE] /\ UNCHANGED bleStatus

\* The fields are refused, with what was on still on; or the start is, after a stop.
AdvertiseFails ==
  /\ gap' = gap \/ gap' = [gap EXCEPT !.adv = FALSE]
  /\ bleStatus' = [bleStatus EXCEPT !.state = "FAILED"]

MarkAdvertising == bleStatus' = [bleStatus EXCEPT !.advertising = TRUE, !.state = "ADVERTISING"]

-----------------------------------------------------------------------------
(* ble_on_sync and ble_gap_event, in the host's task                       *)

\* Mutant of SetConnected: the flag of the stopped advertising stays set.
SetConnectedOnly(c) ==
  bleStatus' = [bleStatus EXCEPT !.state = IF c THEN "CONNECTED" ELSE "ADVERTISING", !.connected = c]

SetConnected(c) ==
  bleStatus' = [state |-> IF c THEN "CONNECTED" ELSE "ADVERTISING", advertising |-> ~c, connected |-> c]

Handle(e) ==
  /\ host = "idle" /\ gapEvents # <<>> /\ Head(gapEvents) = e
  /\ gapEvents' = Tail(gapEvents)
  /\ UNCHANGED <<gap, bleCall, tidy>>

\* Without an address nothing is started.
OnSync == Handle("SYNC") /\ host' \in {"idle", "adv"} /\ UNCHANGED bleStatus
OnConnected == Handle("CONNECTED") /\ SetConnected(TRUE) /\ UNCHANGED host

\* Mutant of OnDisconnected: the case ends without a start, as the one above it does.
OnDisconnectedQuietly == Handle("DISCONNECTED") /\ SetConnected(FALSE) /\ UNCHANGED host

OnDisconnected == Handle("DISCONNECTED") /\ SetConnected(FALSE) /\ host' = "adv"

OnAdvOver ==
  /\ Handle("CONNECT_FAILED") \/ Handle("ADV_COMPLETE")
  /\ host' = "adv"
  /\ UNCHANGED bleStatus

HostStart ==
  /\ host = "adv"
  /\ \/ Advertise /\ host' = "flag"
     \/ AdvertiseFails /\ host' = "idle"
  /\ UNCHANGED <<gapEvents, bleCall, tidy>>

HostFlag ==
  /\ host = "flag"
  /\ MarkAdvertising
  /\ host' = "idle"
  /\ UNCHANGED <<gap, gapEvents, bleCall, tidy>>

Host == OnSync \/ OnConnected \/ OnDisconnected \/ OnAdvOver \/ HostStart \/ HostFlag

-----------------------------------------------------------------------------
(* ble_start and ble_stop                                                  *)

Quiet == gapEvents = <<>> /\ host = "idle"

BleStart ==
  /\ bleCall = "none"
  /\ \/ Advertise /\ bleCall' = "started"
     \/ AdvertiseFails /\ UNCHANGED bleCall
  /\ tidy' = (tidy /\ Quiet /\ gap.links = 0)
  /\ UNCHANGED <<gapEvents, host>>

BleStop ==
  /\ bleCall = "none"
  /\ gap' = [gap EXCEPT !.adv = FALSE]
  /\ bleCall' = "stopped"
  /\ tidy' = (tidy /\ Quiet)
  /\ UNCHANGED <<gapEvents, host, bleStatus>>

BleMark ==
  /\ \/ bleCall = "started" /\ MarkAdvertising
     \/ bleCall = "stopped"
        /\ bleStatus' = [bleStatus EXCEPT !.advertising = FALSE, !.state = "INITIALIZED"]
  /\ bleCall' = "none"
  /\ UNCHANGED <<gap, gapEvents, host, tidy>>

Controller == ClientConnects \/ ConnectFails \/ ClientLeaves \/ AdvEnds
Console == BleStart \/ BleStop

Next == Controller \/ Host \/ Console \/ BleMark

Spec == Init /\ [][Next]_vars

\* The host's task and a console call under way go on; nothing is assumed of clients,
\* of the controller's advertising or of the console's user.
FairSpec == Spec /\ WF_vars(Host) /\ WF_vars(BleMark)

-----------------------------------------------------------------------------
(* Properties                                                              *)

\* What ble status and the dashboard tell: with every event handled and no call under
\* way, a client is shown exactly while one is connected, and advertising exactly while
\* the controller advertises, unless the last start failed (ble_service.cpp:162-190).
Told ==
  tidy /\ Quiet /\ bleCall = "none" =>
    /\ bleStatus.connected <=> gap.links > 0
    /\ bleStatus.state # "FAILED" => (bleStatus.advertising <=> gap.adv)

\* What the run checks: nothing goes out of its type, and what is told is true
\* (ble_service.cpp:142-190).
BleSound == TypeOK /\ Told

\* The device does not drop off the air: after the last client left, a connection
\* attempt failed or the advertising ran out, the callback starts it again unless the
\* start fails or the console interferes (ble_service.cpp:170-186).
OverHow == {"DISCONNECTED", "CONNECT_FAILED", "ADV_COMPLETE"}
OffAir == gap.links = 0 /\ ~gap.adv /\ \E i \in 1..Len(gapEvents) : gapEvents[i] \in OverHow
BackOnAir == OffAir ~> gap.adv \/ bleStatus.state = "FAILED" \/ ~tidy

=============================================================================
