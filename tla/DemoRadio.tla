----------------------------- MODULE DemoRadio ------------------------------
(***************************************************************************)
(* The radios of the Arduino build (src/main.cpp): SYSTEM starts Bluetooth *)
(* and the hotspot, greets a new client and polls the station; the console *)
(* connects, disconnects, starts and stops advertising; the Bluetooth      *)
(* callbacks run in the stack's task.  They share atomic flags and nothing *)
(* else; a step ends where another task could meet the flags or a stack    *)
(* half changed.                                                           *)
(*                                                                         *)
(* The two stacks are external.  One client is modelled at a time, and of  *)
(* the hotspot's stations whether there is one; names, addresses, signal   *)
(* strength, the echo service and the time are left out.                   *)
(***************************************************************************)
EXTENDS Naturals, Sequences

CONSTANT MaxBleEvents     \* bound: callbacks the stack still owes, at least one

VARIABLES
  ctl,        \* the controller: advertising, a client connected
  owed,       \* "connect" and "disconnect" callbacks not run yet
  callback,   \* inside one: what it has done so far
  ble,        \* g_ble_connected, g_ble_advertising, g_ble_hello_pending
  greeted,    \* history: the client now connected was sent the greeting
  wifi,       \* the Wi-Fi driver: mode, station, a phone on the hotspot
  flag,       \* g_wifi_connected, g_wifi_connecting, g_wifi_ap_running
  sys,        \* SYSTEM: its place, and what it has started
  cli,        \* the console's place
  tidy,       \* history: no command met a callback, an event or a start since a clean one
  polled      \* history: "yes" after a whole poll in which mode and station did not change

bleVars == <<ctl, owed, callback, ble, greeted, tidy>>
wifiVars == <<wifi, flag, polled>>
vars == <<bleVars, wifiVars, sys, cli>>

TypeOK ==
  /\ ctl \in [adv : BOOLEAN, link : BOOLEAN]
  /\ owed \in Seq({"connect", "disconnect"}) /\ Len(owed) <= MaxBleEvents
  /\ callback \in {"idle", "connected", "silent", "left", "restarted"}
  /\ ble \in [conn : BOOLEAN, adv : BOOLEAN, hello : BOOLEAN]
  /\ wifi \in [mode : {"off", "ap", "apsta"}, sta : {"down", "joining", "up"}, phone : BOOLEAN]
  /\ flag \in [conn : BOOLEAN, ing : BOOLEAN, ap : BOOLEAN]
  /\ sys \in [at : {"start", "server", "marking", "hotspot", "poll", "notify", "status", "up", "down"},
              ble : BOOLEAN, wifi : BOOLEAN]
  /\ cli \in {"idle", "start", "started", "stop", "stopped", "mode", "begin", "left"}
  /\ greeted \in BOOLEAN /\ tidy \in BOOLEAN /\ polled \in {"no", "polling", "yes"}

Init ==
  /\ ctl = [adv |-> FALSE, link |-> FALSE] /\ owed = <<>> /\ callback = "idle"
  /\ ble = [conn |-> FALSE, adv |-> FALSE, hello |-> FALSE]
  /\ greeted = FALSE /\ tidy = TRUE
  /\ wifi = [mode |-> "off", sta |-> "down", phone |-> FALSE]
  /\ flag = [conn |-> FALSE, ing |-> FALSE, ap |-> FALSE]
  /\ sys = [at |-> "start", ble |-> FALSE, wifi |-> FALSE]
  /\ cli = "idle" /\ polled = "no"

-----------------------------------------------------------------------------
(* The client, and the callbacks                                           *)

\* SYSTEM is in init_ble, or the console in ble_start or ble_stop.
Server == sys.at \in {"server", "marking"}
Marking == Server \/ cli \in {"start", "started", "stop", "stopped"}

\* An event that finds nothing under way is clean: its callback sets every flag anew.
Clean == owed = <<>> /\ ~Marking

ClientJoins ==
  /\ ctl.adv /\ ~ctl.link /\ Len(owed) < MaxBleEvents
  /\ ctl' = [adv |-> FALSE, link |-> TRUE]
  /\ owed' = Append(owed, "connect")
  /\ greeted' = FALSE /\ tidy' = (Clean \/ (tidy /\ ~Marking))
  /\ UNCHANGED <<callback, ble, wifiVars, sys, cli>>

ClientLeaves ==
  /\ ctl.link /\ Len(owed) < MaxBleEvents
  /\ ctl' = [ctl EXCEPT !.link = FALSE]
  /\ owed' = Append(owed, "disconnect")
  /\ tidy' = ((Clean /\ ~ctl.adv) \/ (tidy /\ ~Marking))
  /\ UNCHANGED <<callback, ble, greeted, wifiVars, sys, cli>>

CallbackOver == callback' = "idle" /\ owed' = Tail(owed)

\* Mutant of OnConnect: the greeting is asked for before the client is marked connected.
OnConnectHelloFirst ==
  /\ \/ owed # <<>> /\ Head(owed) = "connect" /\ callback = "idle"
        /\ ble' = [ble EXCEPT !.hello = TRUE] /\ callback' = "connected" /\ UNCHANGED owed
     \/ callback = "connected" /\ ble' = [ble EXCEPT !.adv = FALSE]
        /\ callback' = "silent" /\ UNCHANGED owed
     \/ callback = "silent" /\ ble' = [ble EXCEPT !.conn = TRUE] /\ CallbackOver
  /\ UNCHANGED <<ctl, greeted, tidy, wifiVars, sys, cli>>

OnConnect ==
  /\ \/ owed # <<>> /\ Head(owed) = "connect" /\ callback = "idle"
        /\ ble' = [ble EXCEPT !.conn = TRUE] /\ callback' = "connected" /\ UNCHANGED owed
     \/ callback = "connected" /\ ble' = [ble EXCEPT !.adv = FALSE]
        /\ callback' = "silent" /\ UNCHANGED owed
     \/ callback = "silent" /\ ble' = [ble EXCEPT !.hello = TRUE] /\ CallbackOver
  /\ UNCHANGED <<ctl, greeted, tidy, wifiVars, sys, cli>>

\* Mutant of OnDisconnect: it leaves the starting of the advertising to the stack.
OnDisconnectPassive ==
  /\ \/ owed # <<>> /\ Head(owed) = "disconnect" /\ callback = "idle"
        /\ ble' = [ble EXCEPT !.conn = FALSE] /\ callback' = "left" /\ UNCHANGED <<ctl, owed>>
     \/ callback = "left" /\ callback' = "restarted" /\ UNCHANGED <<ctl, ble, owed>>
     \/ callback = "restarted" /\ ble' = [ble EXCEPT !.adv = TRUE] /\ CallbackOver /\ UNCHANGED ctl
  /\ UNCHANGED <<greeted, tidy, wifiVars, sys, cli>>

OnDisconnect ==
  /\ \/ owed # <<>> /\ Head(owed) = "disconnect" /\ callback = "idle"
        /\ ble' = [ble EXCEPT !.conn = FALSE] /\ callback' = "left" /\ UNCHANGED <<ctl, owed>>
     \/ callback = "left" /\ ctl' = [ctl EXCEPT !.adv = TRUE]
        /\ callback' = "restarted" /\ UNCHANGED <<ble, owed>>
     \/ callback = "restarted" /\ ble' = [ble EXCEPT !.adv = TRUE] /\ CallbackOver /\ UNCHANGED ctl
  /\ UNCHANGED <<greeted, tidy, wifiVars, sys, cli>>

-----------------------------------------------------------------------------
(* The Wi-Fi driver                                                        *)

Join(w, f, p) == wifi' = w /\ flag' = f /\ polled' = p

Station(to) ==
  /\ Join([wifi EXCEPT !.sta = to], flag, "no")
  /\ UNCHANGED <<bleVars, sys, cli>>

StationUp == wifi.sta = "joining" /\ Station("up")
StationFails == wifi.sta = "joining" /\ Station("down")
StationLost == wifi.sta = "up" /\ Station("down")
StationRetries == wifi.sta = "down" /\ wifi.mode = "apsta" /\ Station("joining")

Phone(there) ==
  /\ wifi.mode # "off" /\ wifi.phone # there
  /\ Join([wifi EXCEPT !.phone = there], flag, polled)
  /\ UNCHANGED <<bleVars, sys, cli>>

\* start_wifi_ap: the mode, then softAP, which may fail; leaving STA ends the station, and
\* a phone may lose the hotspot.
Hotspot(w, f, p) ==
  \E ok \in BOOLEAN, phone \in {w.phone, FALSE} :
    Join([mode |-> IF f.ing THEN "apsta" ELSE "ap",
          sta |-> IF f.ing THEN w.sta ELSE "down", phone |-> phone],
         [f EXCEPT !.ap = ok], p)

-----------------------------------------------------------------------------
(* SYSTEM                                                                  *)

SysGoto(at) == sys' = [sys EXCEPT !.at = at]

\* init_ble to g_pServer; init_wifi to its hotspot.  Each is done once, in this order.
SysStart ==
  /\ sys.at = "start"
  /\ \/ ~sys.ble /\ SysGoto("server") /\ UNCHANGED wifiVars
     \/ sys.ble /\ ~sys.wifi /\ Join([mode |-> "ap", sta |-> "down", phone |-> FALSE], flag, "no")
        /\ SysGoto("hotspot")
     \/ SysGoto("poll") /\ UNCHANGED wifiVars
  /\ UNCHANGED <<bleVars, cli>>

SysAdvertises ==
  /\ sys.at = "server"
  /\ ctl' = [ctl EXCEPT !.adv = TRUE]
  /\ SysGoto("marking")
  /\ UNCHANGED <<owed, callback, ble, greeted, tidy, wifiVars, cli>>

SysMarks ==
  /\ sys.at = "marking"
  /\ ble' = [ble EXCEPT !.adv = TRUE]
  /\ sys' = [sys EXCEPT !.at = "start", !.ble = TRUE]
  /\ UNCHANGED <<ctl, owed, callback, greeted, tidy, wifiVars, cli>>

SysHotspot ==
  /\ sys.at = "hotspot"
  /\ Hotspot(wifi, flag, "no")
  /\ sys' = [sys EXCEPT !.at = "poll", !.wifi = TRUE]
  /\ UNCHANGED <<bleVars, cli>>

\* g_wifi_ap_running from the mode; the exchange of the greeting's flag.
SysPoll ==
  /\ sys.at = "poll"
  /\ Join(wifi, [flag EXCEPT !.ap = wifi.mode # "off"], "polling")
  /\ ble' = [ble EXCEPT !.hello = FALSE]
  /\ SysGoto(IF ble.hello THEN "notify" ELSE "status")
  /\ UNCHANGED <<ctl, owed, callback, greeted, tidy, cli>>

SysNotify ==
  /\ sys.at = "notify"
  /\ greeted' = (greeted \/ (ble.conn /\ ctl.link))
  /\ SysGoto("status")
  /\ UNCHANGED <<ctl, owed, callback, ble, tidy, wifiVars, cli>>

SysStatus ==
  /\ sys.at = "status"
  /\ SysGoto(IF wifi.sta = "up" THEN "up" ELSE "down")
  /\ UNCHANGED <<bleVars, wifiVars, cli>>

SysShows ==
  /\ sys.at \in {"up", "down"}
  /\ Join(wifi,
          IF sys.at = "down" THEN [flag EXCEPT !.conn = FALSE]
          ELSE IF flag.conn THEN flag ELSE [flag EXCEPT !.conn = TRUE, !.ing = FALSE],
          IF polled = "polling" THEN "yes" ELSE polled)
  /\ SysGoto("start")
  /\ UNCHANGED <<bleVars, cli>>

System ==
  \/ SysStart \/ SysAdvertises \/ SysMarks \/ SysHotspot
  \/ SysPoll \/ SysNotify \/ SysStatus \/ SysShows

-----------------------------------------------------------------------------
(* The console                                                             *)

BleCommand ==
  /\ cli = "idle" /\ (sys.ble \/ Server)
  /\ \/ ~ble.adv /\ ~ble.conn /\ cli' = "start"
     \/ ble.adv /\ cli' = "stop"
  /\ tidy' = (tidy /\ Clean)
  /\ UNCHANGED <<ctl, owed, callback, ble, greeted, wifiVars, sys>>

BleActs ==
  /\ \/ cli = "start" /\ ctl' = [ctl EXCEPT !.adv = TRUE] /\ cli' = "started" /\ UNCHANGED ble
     \/ cli = "stop" /\ ctl' = [ctl EXCEPT !.adv = FALSE] /\ cli' = "stopped" /\ UNCHANGED ble
     \/ cli = "started" /\ ble' = [ble EXCEPT !.adv = TRUE] /\ cli' = "idle" /\ UNCHANGED ctl
     \/ cli = "stopped" /\ ble' = [ble EXCEPT !.adv = FALSE] /\ cli' = "idle" /\ UNCHANGED ctl
  /\ UNCHANGED <<owed, callback, greeted, tidy, wifiVars, sys>>

\* connect_wifi, from its first store; disconnect_wifi, from its first call.
WifiCommand ==
  /\ cli = "idle"
  /\ \/ Join(wifi, [flag EXCEPT !.ing = TRUE], "no") /\ cli' = "mode"
     \/ Join([wifi EXCEPT !.sta = "down"], flag, "no") /\ cli' = "left"
  /\ UNCHANGED <<bleVars, sys>>

WifiActs ==
  LET alone == [wifi EXCEPT !.sta = "down"]
  IN  /\ \/ cli = "mode" /\ cli' = "begin"
            /\ IF wifi.mode = "apsta" THEN Join(alone, flag, "no") ELSE Hotspot(alone, flag, "no")
         \/ cli = "begin" /\ Join([wifi EXCEPT !.mode = "apsta", !.sta = "joining"], flag, "no") /\ cli' = "idle"
         \/ cli = "left" /\ Join(wifi, [flag EXCEPT !.conn = FALSE, !.ing = FALSE], "no")
            /\ cli' = "idle"
      /\ UNCHANGED <<bleVars, sys>>

-----------------------------------------------------------------------------
Client == ClientJoins \/ ClientLeaves
Callbacks == OnConnect \/ OnDisconnect
Driver == StationUp \/ StationFails \/ StationLost \/ StationRetries \/ Phone(TRUE) \/ Phone(FALSE)
Command == BleCommand \/ WifiCommand
Acts == BleActs \/ WifiActs

Next == Client \/ Callbacks \/ Driver \/ System \/ Command \/ Acts

Spec == Init /\ [][Next]_vars

\* Tasks and callbacks go on; nothing is assumed of clients, routers and the user.
FairSpec == Spec /\ WF_vars(Callbacks) /\ WF_vars(System) /\ WF_vars(Acts)

-----------------------------------------------------------------------------
(* Properties.  The pills of render_dashboard, and their colours           *)

BlePill(f) == IF f.conn THEN "green" ELSE IF f.adv THEN "orange" ELSE "dim"
WifiPill(f, w) ==
  IF f.conn \/ (f.ap /\ w.phone) THEN "green"
  ELSE IF f.ing THEN "orange" ELSE IF f.ap THEN "accent" ELSE "dim"

\* The pills tell what the radios do.  Bluetooth: once every callback has run, green is a
\* client and orange is advertising; a command that met a callback may leave them wrong,
\* but the next client that comes or goes with nothing under way sets them right
\* (main.cpp:188-204, 375-378).  Wi-Fi: after a whole poll in which mode and station did
\* not change, green is a joined router or a phone on the hotspot, which may come and go
\* meanwhile (main.cpp:363-373, 655-690); so green alone does not tell of a phone.
PillsTrue ==
  /\ tidy /\ owed = <<>> /\ ~Marking =>
       BlePill(ble) = IF ctl.link THEN "green" ELSE IF ctl.adv THEN "orange" ELSE "dim"
  /\ polled = "yes" => (WifiPill(flag, wifi) = "green" <=> (wifi.sta = "up" \/ wifi.phone))

\* A client that stays is greeted, however its connection falls between the polls and
\* however often it or another came and went before (main.cpp:188-193, 661-668).
HelloReaches == ctl.link /\ ~greeted ~> greeted \/ ~ctl.link

=============================================================================
