---------------------------- MODULE Connectivity -----------------------------
(***************************************************************************)
(* The Wi-Fi service as main/app_main.cpp and the console use it:          *)
(* WIFI_CONN tries the saved network once after boot, while the console    *)
(* may connect and scan, the driver may bring the link up and down at any  *)
(* time, and the handler follows.                                          *)
(***************************************************************************)
EXTENDS WifiService

CONSTANTS joiner, shell     \* WIFI_CONN and the console task

ASSUME ConnectivityAssumption == joiner # shell /\ Callers = {joiner, shell}

VARIABLE boot           \* WIFI_CONN: "sleep", "connect", "gone"

netVars == <<wifiVars, boot>>

NetTypeOK == WifiTypeOK /\ boot \in {"sleep", "connect", "gone"}

NetInit == WifiInit /\ boot = "sleep"

-----------------------------------------------------------------------------
(* wifi_autoconn_thread                                                    *)

AutoSkip ==
  /\ boot = "sleep" /\ saved = NoNet
  /\ boot' = "gone"
  /\ UNCHANGED wifiVars

AutoConnect ==
  /\ boot = "sleep" /\ saved # NoNet
  /\ ConnectBegin(joiner, saved)
  /\ boot' = "connect"

AutoStep ==
  /\ boot = "connect"
  /\ \/ CallStep(joiner) /\ UNCHANGED boot
     \/ call[joiner].pc = "idle" /\ boot' = "gone" /\ UNCHANGED wifiVars

AutoTask == AutoSkip \/ AutoConnect \/ AutoStep

-----------------------------------------------------------------------------
Console ==
  /\ (\E n \in Networks : ConnectBegin(shell, n)) \/ ScanBegin(shell)
  /\ UNCHANGED boot

ConsoleStep == CallStep(shell) /\ UNCHANGED boot
Driver == (Up \/ JoinFails \/ Lost) /\ UNCHANGED boot
EventTask == Handler /\ UNCHANGED boot

NetNext == AutoTask \/ Console \/ ConsoleStep \/ Driver \/ EventTask

NetSpec == NetInit /\ [][NetNext]_netVars

\* Tasks are scheduled; nothing is assumed of the radio or of the console's user.
NetFairSpec == NetSpec /\ WF_netVars(AutoTask) /\ WF_netVars(ConsoleStep) /\ WF_netVars(EventTask)

-----------------------------------------------------------------------------
\* Well typed, and the status true.
Sound == NetTypeOK /\ StatusIsTrue

NoCalls == \A c \in Callers : call[c].pc = "idle"

\* After a call that joined, and until the next call, a lost connection is joined again
\* without a command, however often it is lost and however often joining fails, unless
\* the driver refuses a retry or calls were made into one another or into unhandled
\* events (wifi_service.cpp:45-59, 198-206).  Not so after other calls: a scan on a live
\* link leaves IDLE (:253), a join that came up too late FAILED (:214), and the handler
\* then gives up a link that is lost (:46-48).
LostIsRejoined ==
  orderly /\ outcome = "joined" /\ NoCalls /\ radio.link = "down"
    ~> radio.link # "down" \/ ~NoCalls \/ outcome # "joined"

=============================================================================
