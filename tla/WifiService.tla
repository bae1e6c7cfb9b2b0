----------------------------- MODULE WifiService -----------------------------
(***************************************************************************)
(* components/connectivity/wifi_service.cpp: the station side of the Wi-Fi *)
(* service, its event handler, and the radio driver it talks to.  Tasks    *)
(* call connect and scan; the handler runs in the driver's event task and  *)
(* takes the driver's events in order; both write status_ with no lock.    *)
(* What a task does between two calls it may block in is one step here.    *)
(*                                                                         *)
(* The radio is external: what a call to it may answer and which events it *)
(* posts.  Left out: signal strength, addresses, the hotspot's name and    *)
(* its client count, and stop and disconnect, which no code calls.         *)
(***************************************************************************)
EXTENDS Naturals, Sequences

CONSTANTS
  Callers,      \* tasks that call the service
  Networks,     \* names of networks
  NoNet,        \* an empty name
  MaxEvents     \* bound: driver events not handled yet

ASSUME WifiAssumption ==
  /\ NoNet \notin Networks /\ MaxEvents \in Nat /\ MaxEvents >= 2

VARIABLES
  radio,      \* the driver: link, configured network, networks that came up
  events,     \* its events, oldest first
  handler,    \* "retry" between the two halves of STA_DISCONNECTED
  status,     \* status_: state, whether ssid is set, has_ip, ap_running
  want,       \* s_want_sta
  bits,       \* wifi_event_group
  call,       \* each task's progress through a call
  saved,      \* settings.wifi_ssid
  orderly,    \* history: every call so far began with nothing under way
  outcome     \* history: whether the last call joined, and a retry was refused since it began

wifiVars == <<radio, events, handler, status, want, bits, call, saved, orderly, outcome>>

Name == Networks \cup {NoNet}
State == {"IDLE", "SCANNING", "CONNECTING", "CONNECTED", "DISCONNECTED", "FAILED"}
Event == {"STA_START", "STA_DISCONNECTED", "GOT_IP", "AP_START", "SCAN_DONE"}
Bit == {"CONNECTED", "FAIL"}
Pc == {"idle", "mark", "clear", "radio", "wait", "store", "scan"}
Radio == [link : {"down", "joining", "up"}, cfg : Name, joined : SUBSET Networks]
Status == [state : State, named : BOOLEAN, ip : BOOLEAN, ap : BOOLEAN]
Call == [pc : Pc, net : Name, got : SUBSET Bit]

WifiTypeOK ==
  /\ radio \in Radio
  /\ events \in Seq(Event) /\ Len(events) <= MaxEvents
  /\ handler \in {"idle", "retry"}
  /\ status \in Status
  /\ want \in BOOLEAN
  /\ bits \in SUBSET Bit
  /\ call \in [Callers -> Call]
  /\ saved \in Name
  /\ orderly \in BOOLEAN /\ outcome \in {"none", "joined", "refused"}

NoCall == [pc |-> "idle", net |-> NoNet, got |-> {}]

\* initialize and start have run; a name may have been saved before the reset.
WifiInit ==
  /\ radio = [link |-> "down", cfg |-> NoNet, joined |-> {}]
  /\ events = <<"STA_START", "AP_START">>
  /\ handler = "idle"
  /\ status = [state |-> "IDLE", named |-> FALSE, ip |-> FALSE, ap |-> FALSE]
  /\ want = FALSE
  /\ bits = {}
  /\ call = [c \in Callers |-> NoCall]
  /\ saved \in Name
  /\ orderly = TRUE /\ outcome = "none"

-----------------------------------------------------------------------------
(* The driver                                                              *)

Link(to) == [radio EXCEPT !.link = to]
Room(n) == Len(events) + n <= MaxEvents

\* What esp_wifi_connect may do: refuse, or drop the link it has and join the
\* configured network.
Answer(ok, r, posted) == [ok |-> ok, radio |-> r, posted |-> posted]
ConnectAnswers ==
  {Answer(FALSE, radio, <<>>),
   Answer(TRUE, Link("joining"), IF radio.link = "down" THEN <<>> ELSE <<"STA_DISCONNECTED">>)}

Up ==
  /\ radio.link = "joining" /\ Room(1)
  /\ radio' = [Link("up") EXCEPT !.joined = @ \cup {radio.cfg}]
  /\ events' = Append(events, "GOT_IP")
  /\ UNCHANGED <<handler, status, want, bits, call, saved, orderly, outcome>>

JoinFails ==
  /\ radio.link = "joining" /\ Room(1)
  /\ radio' = Link("down")
  /\ events' = Append(events, "STA_DISCONNECTED")
  /\ UNCHANGED <<handler, status, want, bits, call, saved, orderly, outcome>>

Lost ==
  /\ radio.link = "up" /\ Room(1)
  /\ radio' = Link("down")
  /\ events' = Append(events, "STA_DISCONNECTED")
  /\ UNCHANGED <<handler, status, want, bits, call, saved, orderly, outcome>>

-----------------------------------------------------------------------------
(* event_handler, in the driver's event task                               *)

Next1(e) == handler = "idle" /\ events # <<>> /\ Head(events) = e

\* The handler asks the driver to join, and ignores what it answers.
Noted(a) == outcome' = IF a.ok THEN outcome ELSE "refused"

OnStart ==
  /\ Next1("STA_START")
  /\ \/ /\ ~(want /\ status.named)
        /\ events' = Tail(events)
        /\ UNCHANGED <<radio, status, outcome>>
     \/ /\ want /\ status.named
        /\ \E a \in ConnectAnswers :
             radio' = a.radio /\ events' = Tail(events) \o a.posted /\ Noted(a)
        /\ status' = [status EXCEPT !.state = "CONNECTING"]
  /\ UNCHANGED <<handler, want, bits, call, saved, orderly>>

\* Mutant of Retry: only a join that failed is tried again.
RetryJoining == want /\ status.named /\ status.state = "CONNECTING"

Retry == want /\ status.named /\ status.state \in {"CONNECTING", "CONNECTED"}

\* Mutant of OnDisconnected: the address is kept.
OnDisconnectedKeepsIp ==
  /\ Next1("STA_DISCONNECTED")
  /\ events' = Tail(events)
  /\ handler' = IF Retry THEN "retry" ELSE "idle"
  /\ status' = [status EXCEPT !.state = "DISCONNECTED"]
  /\ bits' = bits \cup {"FAIL"}
  /\ UNCHANGED <<radio, want, call, saved, orderly, outcome>>

\* The half before publish, which may block.
OnDisconnected ==
  /\ Next1("STA_DISCONNECTED")
  /\ events' = Tail(events)
  /\ handler' = IF Retry THEN "retry" ELSE "idle"
  /\ status' = [status EXCEPT !.state = "DISCONNECTED", !.ip = FALSE]
  /\ bits' = bits \cup {"FAIL"}
  /\ UNCHANGED <<radio, want, call, saved, orderly, outcome>>

OnRetry ==
  /\ handler = "retry"
  /\ handler' = "idle"
  /\ \E a \in ConnectAnswers :
       /\ Room(Len(a.posted))
       /\ radio' = a.radio /\ events' = events \o a.posted /\ Noted(a)
  /\ status' = [status EXCEPT !.state = "CONNECTING"]
  /\ UNCHANGED <<want, bits, call, saved, orderly>>

OnGotIp ==
  /\ Next1("GOT_IP")
  /\ events' = Tail(events)
  /\ status' = [status EXCEPT !.state = "CONNECTED", !.ip = TRUE]
  /\ bits' = bits \cup {"CONNECTED"}
  /\ UNCHANGED <<radio, handler, want, call, saved, orderly, outcome>>

OnAccessPoint ==
  /\ Next1("AP_START")
  /\ status' = [status EXCEPT !.ap = TRUE]
  /\ events' = Tail(events)
  /\ UNCHANGED <<radio, handler, want, bits, call, saved, orderly, outcome>>

OnScanDone ==
  /\ Next1("SCAN_DONE")
  /\ events' = Tail(events)
  /\ UNCHANGED <<radio, handler, status, want, bits, call, saved, orderly, outcome>>

Handler == OnStart \/ OnDisconnected \/ OnRetry \/ OnGotIp \/ OnAccessPoint \/ OnScanDone

-----------------------------------------------------------------------------
(* The callers' side                                                       *)

AtRest == events = <<>> /\ handler = "idle" /\ \A c \in Callers : call[c].pc = "idle"
Goto(c, pc) == call' = [call EXCEPT ![c].pc = pc]
Set(field) == status' = [status EXCEPT !.state = field]

\* connect, to the check of esp_wifi_set_config (refused while a join is under way).
ConnectBegin(c, n) ==
  /\ call[c].pc = "idle"
  /\ want' = TRUE
  /\ orderly' = (orderly /\ AtRest)
  /\ \/ UNCHANGED <<radio, call>>
     \/ /\ radio.link # "joining"
        /\ radio' = [radio EXCEPT !.cfg = n]
        /\ call' = [call EXCEPT ![c] = [NoCall EXCEPT !.pc = "mark", !.net = n]]
  /\ UNCHANGED <<events, handler, status, bits, saved, outcome>>

ConnectMark(c) ==
  /\ call[c].pc = "mark"
  /\ status' = [status EXCEPT !.named = TRUE, !.state = "CONNECTING"]
  /\ outcome' = "none"
  /\ Goto(c, "clear")
  /\ UNCHANGED <<radio, events, handler, want, bits, saved, orderly>>

\* Mutant of ConnectClear: the bits of the last attempt stay.
ConnectClearNothing(c) ==
  /\ call[c].pc = "clear"
  /\ Goto(c, "radio")
  /\ UNCHANGED <<radio, events, handler, status, want, bits, saved, orderly, outcome>>

ConnectClear(c) ==
  /\ call[c].pc = "clear"
  /\ bits' = {}
  /\ Goto(c, "radio")
  /\ UNCHANGED <<radio, events, handler, status, want, saved, orderly, outcome>>

ConnectRadio(c) ==
  /\ call[c].pc = "radio"
  /\ \E a \in ConnectAnswers :
       /\ Room(Len(a.posted))
       /\ radio' = a.radio /\ events' = events \o a.posted
       /\ \/ a.ok /\ Goto(c, "wait") /\ UNCHANGED status
          \/ ~a.ok /\ call' = [call EXCEPT ![c] = NoCall] /\ Set("FAILED")
  /\ UNCHANGED <<handler, want, bits, saved, orderly, outcome>>

\* mk_event_wait returns the bits it saw last: none, when the time is up.
ConnectWait(c) ==
  /\ call[c].pc = "wait"
  /\ call' = [call EXCEPT ![c].pc = "store", ![c].got = bits]
  /\ UNCHANGED <<radio, events, handler, status, want, bits, saved, orderly, outcome>>

ConnectStore(c) ==
  /\ call[c].pc = "store"
  /\ call' = [call EXCEPT ![c] = NoCall]
  /\ outcome' = IF outcome = "refused" THEN "refused"
                 ELSE IF "CONNECTED" \in call[c].got THEN "joined" ELSE "none"
  /\ \/ "CONNECTED" \in call[c].got /\ Set("CONNECTED") /\ saved' = call[c].net
     \/ "CONNECTED" \notin call[c].got /\ Set("FAILED") /\ UNCHANGED saved
  /\ UNCHANGED <<radio, events, handler, want, bits, orderly>>

ScanBegin(c) ==
  /\ call[c].pc = "idle"
  /\ Set("SCANNING")
  /\ Goto(c, "scan")
  /\ orderly' = (orderly /\ AtRest) /\ outcome' = "none"
  /\ UNCHANGED <<radio, events, handler, want, bits, saved>>

\* esp_wifi_scan_start blocks until the scan is over; it is refused during a join.
ScanEnd(c) ==
  /\ call[c].pc = "scan"
  /\ Goto(c, "idle")
  /\ outcome' = "none"
  /\ \/ Set("FAILED") /\ UNCHANGED events
     \/ /\ radio.link # "joining" /\ Room(1)
        /\ Set("IDLE") /\ events' = Append(events, "SCAN_DONE")
  /\ UNCHANGED <<radio, handler, want, bits, saved, orderly>>

CallStep(c) ==
  \/ ConnectMark(c) \/ ConnectClear(c) \/ ConnectRadio(c) \/ ConnectWait(c)
  \/ ConnectStore(c) \/ ScanEnd(c)

-----------------------------------------------------------------------------
(* Properties                                                              *)

\* What wifi status and the dashboard tell.  Once the driver's events are handled, the
\* service has an address exactly while the link is up.  And as long as no call was made
\* into another call or an unhandled event, and the driver refused no retry, CONNECTED is
\* never left behind: the link is up, or being joined again (wifi_service.cpp:45-59,
\* 72-83, 205-216).  Of the other states nothing is said: a scan leaves IDLE (:253).
StatusIsTrue ==
  AtRest =>
    /\ status.ip <=> radio.link = "up"
    /\ orderly /\ outcome # "refused" /\ status.state = "CONNECTED" => radio.link # "down"

\* A network is saved only after a join to it has come up: the bits of an earlier
\* attempt never make a later one succeed (wifi_service.cpp:197-216).
SavedWasJoined == [][orderly => saved' = saved \/ saved' \in radio.joined]_wifiVars

=============================================================================
