--------------------------- MODULE ServicesProofs ----------------------------
(***************************************************************************)
(* The services of the product build, for any values and any bounds: the   *)
(* settings and their copy in flash, the Bluetooth service, both as parts  *)
(* of MCParts, and the Wi-Fi service with the tasks that use it.           *)
(***************************************************************************)
EXTENDS MCParts, Connectivity, SequenceTheorems, TLAPS

-----------------------------------------------------------------------------
(* The settings                                                            *)

Attempt == {"no", "trying", "done"}
Saver == [at : {"idle", "pass", "read", "write"}, key : 1..3, value : Values, ok : BOOLEAN]

\* A key is written.
Written(k) == nvs[k] = ram[k]

\* What a save that nothing has spoiled has done so far.
Progress(t) ==
  saver[t].ok /\ ~Doing(t, "idle") =>
    /\ Alone(t)
    /\ Doing(t, "pass") => saver[t].key = 1
    /\ Doing(t, "write") => saver[t].value = ram[Keys[saver[t].key]]
    /\ \A i \in 1..3 : i < saver[t].key => Written(Keys[i])

\* clean holds only between saves, with every key written, or with nothing saved yet.
CleanIsSaved == clean => ~Saving /\ Loaded(nvs) = ram

SaveInv == TypeOK /\ (\A t \in Savers : Progress(t)) /\ CleanIsSaved

-----------------------------------------------------------------------------
\* There are three keys, and every key is one of them.
LEMMA KeysListed ==
  /\ Keys[1] = "wifi_ssid" /\ Keys[2] = "wifi_pass" /\ Keys[3] = "brightness" /\ Len(Keys) = 3
  /\ \A i \in 1..3 : Keys[i] \in Key
  /\ \A k \in Key : \E i \in 1..3 : Keys[i] = k
BY DEF Keys, Key

\* A restart loads the flash when every key in it has been written.
LEMMA AllWritten ==
  ASSUME TypeOK', (\A i \in 1..3 : Written(Keys[i]))'
  PROVE  (Loaded(nvs) = ram)'
<1>1. \A k \in Key : nvs'[k] = ram'[k] /\ ram'[k] # Absent
  BY KeysListed, StoreAssumption DEF Written, TypeOK
<1>2. QED
  BY <1>1 DEF Loaded, TypeOK

\* What load makes of any flash is settings.
LEMMA LoadedTyped ==
  ASSUME NEW f \in [Key -> Values \cup {Absent}]
  PROVE  Loaded(f) \in [Key -> Values]
BY StoreAssumption DEF Loaded

\* A save that is not under way.
LEMMA IdleTyped == Idle \in Saver /\ Idle.at = "idle"
BY StoreAssumption DEF Idle, Saver

\* A save that goes on to another key, and one that begins.
Further(s, k, b) == [s EXCEPT !.at = "read", !.key = k, !.ok = b]
First(at, v, b) == [Idle EXCEPT !.at = at, !.value = v, !.ok = b]

LEMMA FurtherFields ==
  ASSUME NEW s \in Saver, NEW k \in 1..3, NEW b \in BOOLEAN
  PROVE  /\ Further(s, k, b) \in Saver /\ Further(s, k, b).at = "read"
         /\ Further(s, k, b).key = k /\ (Further(s, k, b).ok <=> b)
BY DEF Saver, Further

LEMMA FirstFields ==
  ASSUME NEW at \in {"pass", "read"}, NEW v \in Values, NEW b \in BOOLEAN
  PROVE  /\ First(at, v, b) \in Saver /\ First(at, v, b).at = at
         /\ First(at, v, b).key = 1 /\ (First(at, v, b).ok <=> b)
<1>1. Idle \in Saver /\ Idle.key = 1
  BY IdleTyped DEF Idle
<1>2. QED
  BY <1>1 DEF First, Saver

LEMMA InitSaved == Init => SaveInv
<1> SUFFICES ASSUME Init PROVE SaveInv
  OBVIOUS
<1>1. TypeOK
  <2>1. nvs \in [Key -> Values \cup {Absent}]
    BY DEF Init
  <2>2. ram \in [Key -> Values]
    BY <2>1, LoadedTyped DEF Init
  <2>3. saver \in [Savers -> Saver]
    BY IdleTyped DEF Init
  <2>4. joined \in Attempt /\ clean \in BOOLEAN
    BY Zenon DEF Init, Attempt
  <2>5. QED
    BY <2>1, <2>2, <2>3, <2>4 DEF TypeOK, Saver, Attempt
<1>2. \A t \in Savers : Progress(t)
  BY DEF Init, Progress, Doing, Idle
<1>3. CleanIsSaved
  BY DEF Init, CleanIsSaved, Saving, Doing, Idle
<1>4. QED
  BY <1>1, <1>2, <1>3 DEF SaveInv

-----------------------------------------------------------------------------
\* Spoiling leaves the saves where they are.
LEMMA SpoiledFields ==
  ASSUME TypeOK, NEW t \in Savers
  PROVE  /\ Spoiled(t) \in [Savers -> Saver]
         /\ \A u \in Savers : u # t /\ saver[u].at # "idle" => ~Spoiled(t)[u].ok
         /\ \A u \in Savers : u # t /\ saver[u].at = "idle" => Spoiled(t)[u] = saver[u]
                              \/ ~Spoiled(t)[u].ok
         /\ \A u \in Savers : Spoiled(t)[u].at = saver[u].at
<1>1. ASSUME NEW u \in Savers
      PROVE  [saver[u] EXCEPT !.ok = FALSE] \in Saver /\ saver[u] \in Saver
             /\ ~[saver[u] EXCEPT !.ok = FALSE].ok
             /\ [saver[u] EXCEPT !.ok = FALSE].at = saver[u].at
  BY DEF TypeOK, Saver
<1>2. ASSUME NEW u \in Savers, u # t, saver[u].at # "idle" PROVE ~Alone(t)
  BY <1>2 DEF Alone, Doing
<1>3. QED
  BY <1>1, <1>2 DEF Spoiled

\* A change begins a save of its own, which is good only if it is the only one.
LEMMA BeginSaved ==
  ASSUME SaveInv, NEW t \in Savers, NEW at \in {"pass", "read"}, NEW v \in Values,
         Begin(t, at, v), ram' \in [Key -> Values], joined' \in Attempt
  PROVE  SaveInv'
<1> DEFINE new == First(at, v, Alone(t))
<1>1. new \in Saver /\ new.at = at /\ new.key = 1 /\ (new.ok <=> Alone(t))
  <2>1. Alone(t) \in BOOLEAN
    BY DEF Alone
  <2>2. QED
    BY <2>1, FirstFields, Zenon
<1>2. /\ saver' \in [Savers -> Saver] /\ saver'[t] = new
      /\ \A u \in Savers : u # t => saver'[u] = Spoiled(t)[u]
  <2> HIDE DEF new
  <2>1. saver' = [Spoiled(t) EXCEPT ![t] = new]
    BY Zenon DEF Begin, new, First
  <2>2. QED
    BY <2>1, <1>1, SpoiledFields DEF SaveInv
<1> HIDE DEF new
<1>3. TypeOK'
  BY <1>2 DEF SaveInv, TypeOK, Begin, Saver, Attempt
<1>4. ASSUME NEW u \in Savers, u # t, saver'[u].ok, saver'[u].at # "idle" PROVE FALSE
  BY <1>2, <1>4, SpoiledFields DEF SaveInv
<1>5. ASSUME Alone(t) PROVE Alone(t)'
  BY <1>2, <1>5, SpoiledFields DEF SaveInv, Alone, Doing
<1>6. Progress(t)'
  BY <1>1, <1>2, <1>5 DEF Progress, Doing
<1>7. \A u \in Savers : Progress(u)'
  BY <1>4, <1>6 DEF Progress, Doing
<1>8. CleanIsSaved'
  BY DEF CleanIsSaved, Begin
<1>9. QED
  BY <1>3, <1>7, <1>8 DEF SaveInv

\* Every command and the end of a connection keep the invariant.
LEMMA ChangeSaved ==
  ASSUME SaveInv, NEW v \in Values,
         SetBrightness(v) \/ FactoryReset \/ Connected(v) \/ AutoTries \/ AutoConnected
  PROVE  SaveInv'
<1>1. /\ cli \in Savers /\ auto \in Savers /\ 0 \in Values
      /\ "brightness" \in Key /\ "wifi_ssid" \in Key
  BY StoreAssumption DEF Savers, Key
<1>2. ram \in [Key -> Values] /\ joined \in Attempt
  BY DEF SaveInv, TypeOK, Attempt
<1>3. CASE SetBrightness(v)
  BY <1>1, <1>2, <1>3, BeginSaved DEF SetBrightness
<1>4. CASE FactoryReset
  BY <1>1, <1>2, <1>4, BeginSaved DEF FactoryReset
<1>5. CASE Connected(v)
  BY <1>1, <1>2, <1>5, BeginSaved DEF Connected, SetNetwork
<1>6. CASE AutoConnected
  <2>1. PICK w \in Values : SetNetwork(auto, w)
    BY <1>6 DEF AutoConnected
  <2>2. joined' \in Attempt
    BY <1>6 DEF AutoConnected, Attempt
  <2>3. QED
    BY <1>1, <1>2, <2>1, <2>2, BeginSaved DEF SetNetwork
<1>7. CASE AutoTries
  <2>1. UNCHANGED <<ram, nvs, saver, clean>> /\ joined' \in Attempt
    BY <1>7 DEF AutoTries, Attempt
  <2>2. QED
    BY <2>1 DEF SaveInv, TypeOK, Attempt, Progress, Doing, Alone, Written, CleanIsSaved, Saving
<1>8. QED
  BY <1>3, <1>4, <1>5, <1>6, <1>7

\* One step of a save: what is written stays written, unless the save is spoiled.
LEMMA StepSaved == ASSUME SaveInv, NEW t \in Savers, SaveStep(t) PROVE SaveInv'
<1>1. saver[t] \in Saver /\ TypeOK /\ Progress(t) /\ ~Doing(t, "idle") /\ ~clean
  BY DEF SaveInv, TypeOK, Saver, SaveStep, SetPassword, SaveRead, SaveWrite, Doing, CleanIsSaved, Saving
<1>2. ASSUME NEW u \in Savers, u # t, saver[u].ok, saver[u].at # "idle" PROVE FALSE
  BY <1>1, <1>2 DEF SaveInv, Progress, Alone, Doing
<1>3. CASE SetPassword(t)
  <2> DEFINE next == [saver[t] EXCEPT !.at = "read"]
  <2>1. next \in Saver /\ next.at = "read" /\ next.key = saver[t].key /\ next.ok = saver[t].ok
    BY <1>1 DEF Saver
  <2> HIDE DEF next
  <2>2. saver' \in [Savers -> Saver] /\ saver'[t] = next /\ \A u \in Savers : u # t => saver'[u] = saver[u]
    BY <1>1, <1>3, <2>1 DEF SetPassword, Become, next, TypeOK, Saver
  <2>3. TypeOK'
    BY <1>1, <1>3, <2>2 DEF SetPassword, TypeOK, Saver, Key
  <2>4. Progress(t)'
    BY <1>1, <1>3, <2>1, <2>2 DEF SetPassword, Progress, Doing, Alone
  <2>5. \A u \in Savers : Progress(u)'
    BY <1>2, <2>2, <2>4 DEF Progress, Doing
  <2>6. QED
    BY <1>1, <1>3, <2>3, <2>5 DEF SetPassword, SaveInv, CleanIsSaved
<1>4. CASE SaveRead(t)
  <2> DEFINE next == [saver[t] EXCEPT !.at = "write", !.value = ram[Keys[saver[t].key]]]
  <2>1. /\ next \in Saver /\ next.at = "write" /\ next.key = saver[t].key /\ next.ok = saver[t].ok
        /\ next.value = ram[Keys[saver[t].key]]
    BY <1>1, KeysListed DEF Saver, TypeOK
  <2> HIDE DEF next
  <2>2. saver' \in [Savers -> Saver] /\ saver'[t] = next /\ \A u \in Savers : u # t => saver'[u] = saver[u]
    BY <1>1, <1>4, <2>1 DEF SaveRead, Become, next, TypeOK, Saver
  <2>3. TypeOK'
    BY <1>1, <1>4, <2>2 DEF SaveRead, TypeOK, Saver
  <2>4. Progress(t)'
    BY <1>1, <1>4, <2>1, <2>2 DEF SaveRead, Progress, Doing, Alone, Written
  <2>5. \A u \in Savers : Progress(u)'
    BY <1>2, <2>2, <2>4 DEF Progress, Doing
  <2>6. QED
    BY <1>1, <1>4, <2>3, <2>5 DEF SaveRead, SaveInv, CleanIsSaved
<1>5. CASE SaveWrite(t)
  <2>1. PICK written \in BOOLEAN :
          /\ nvs' = IF written THEN [nvs EXCEPT ![Keys[saver[t].key]] = saver[t].value] ELSE nvs
          /\ NextKey(t, saver[t].ok /\ written)
    BY <1>5 DEF SaveWrite
  <2> DEFINE ok == saver[t].ok /\ written
             next == Further(saver[t], saver[t].key + 1, ok)
  <2>2. /\ saver[t].key \in 1..3 /\ saver[t].value \in Values /\ Keys[saver[t].key] \in Key
        /\ nvs' \in [Key -> Values \cup {Absent}] /\ ram' = ram /\ joined' = joined
    BY <1>1, <1>5, <2>1, KeysListed DEF TypeOK, Saver, SaveWrite
  <2>3. ASSUME ok
        PROVE  \A i \in 1..3 : i <= saver[t].key => nvs'[Keys[i]] = ram'[Keys[i]]
    BY <1>1, <1>5, <2>1, <2>2, <2>3, KeysListed DEF SaveWrite, Progress, Written, Doing, TypeOK
  <2>4. CASE saver[t].key < 3
    <3>1. next \in Saver /\ next.at = "read" /\ next.key = saver[t].key + 1 /\ (next.ok <=> ok)
      <4>1. ok \in BOOLEAN /\ saver[t].key + 1 \in 1..3
        BY <1>1, <2>2, <2>4 DEF Saver
      <4> HIDE DEF ok
      <4>2. saver[t] \in Saver
        BY <1>1
      <4>3. QED
        BY <4>1, <4>2, FurtherFields, Zenon
    <3> HIDE DEF next
    <3>2. saver' = [saver EXCEPT ![t] = next] /\ clean' = clean
      <4>1. saver[t].key < Len(Keys)
        BY <2>4, KeysListed
      <4>2. QED
        BY <2>1, <4>1, Zenon DEF NextKey, Become, next, Further
    <3>3. saver' \in [Savers -> Saver] /\ saver'[t] = next
          /\ \A u \in Savers : u # t => saver'[u] = saver[u]
      BY <1>1, <3>1, <3>2 DEF TypeOK, Saver
    <3>4. TypeOK'
      BY <1>1, <2>2, <3>2, <3>3 DEF TypeOK, Saver
    <3>5. Progress(t)'
      <4>1. ASSUME saver'[t].ok, NEW i \in 1..3, i < saver'[t].key PROVE Written(Keys[i])'
        BY <1>1, <2>2, <2>3, <3>1, <3>3, <4>1 DEF Written
      <4>2. saver'[t].ok => Alone(t)'
        BY <1>1, <3>1, <3>3 DEF Progress, Alone, Doing
      <4>3. QED
        BY <3>1, <3>3, <4>1, <4>2 DEF Progress, Doing
    <3>6. \A u \in Savers : Progress(u)'
      BY <1>2, <3>3, <3>5 DEF Progress, Doing
    <3>7. QED
      BY <1>1, <3>2, <3>4, <3>6 DEF SaveInv, CleanIsSaved
  <2>5. CASE saver[t].key = 3
    <3>1. Idle \in Saver /\ Idle.at = "idle"
      BY IdleTyped
    <3>2. saver' \in [Savers -> Saver] /\ saver'[t] = Idle /\ clean' = ok
          /\ \A u \in Savers : u # t => saver'[u] = saver[u]
      BY <1>1, <2>1, <2>5, <3>1, KeysListed DEF NextKey, Become, TypeOK, Saver
    <3>3. TypeOK'
      BY <1>1, <2>2, <3>2 DEF TypeOK, Saver
    <3>4. \A u \in Savers : Progress(u)'
      BY <1>2, <3>1, <3>2 DEF Progress, Doing
    <3>5. ASSUME ok PROVE (\A i \in 1..3 : Written(Keys[i]))'
      BY <2>3, <2>5, <3>5 DEF Written
    <3>6. ASSUME ok PROVE ~Saving'
      BY <1>1, <3>1, <3>2, <3>6 DEF Saving, Progress, Alone, Doing
    <3>7. ASSUME ok PROVE (Loaded(nvs) = ram)'
      <4>1. ASSUME TypeOK', (\A i \in 1..3 : Written(Keys[i]))' PROVE (Loaded(nvs) = ram)'
        BY <4>1, AllWritten
      <4>2. QED
        BY <3>3, <3>5, <3>7, <4>1
    <3>8. QED
      BY <3>2, <3>3, <3>4, <3>6, <3>7 DEF SaveInv, CleanIsSaved
  <2>6. QED
    BY <2>2, <2>4, <2>5
<1>6. QED
  BY <1>3, <1>4, <1>5 DEF SaveStep

\* A reset starts from the flash, with nothing under way.
LEMMA ResetSaved == SaveInv /\ Reset => SaveInv'
<1> SUFFICES ASSUME SaveInv, Reset PROVE SaveInv'
  OBVIOUS
<1>1. TypeOK'
  <2>1. ram' \in [Key -> Values] /\ nvs' \in [Key -> Values \cup {Absent}]
    BY LoadedTyped DEF SaveInv, TypeOK, Reset
  <2>2. saver' \in [Savers -> Saver]
    BY IdleTyped DEF Reset
  <2>3. joined' \in Attempt /\ clean' \in BOOLEAN
    BY Zenon DEF SaveInv, TypeOK, Reset, Attempt
  <2>4. QED
    BY <2>1, <2>2, <2>3 DEF TypeOK, Saver, Attempt
<1>2. \A t \in Savers : saver'[t].at = "idle"
  BY DEF Reset, Idle
<1>3. \A t \in Savers : Progress(t)'
  BY <1>2 DEF Progress, Doing
<1>4. CleanIsSaved'
  BY <1>2 DEF Reset, CleanIsSaved, Saving, Doing
<1>5. QED
  BY <1>1, <1>3, <1>4 DEF SaveInv

LEMMA NextSaved == SaveInv /\ [Next]_vars => SaveInv'
<1> SUFFICES ASSUME SaveInv, [Next]_vars PROVE SaveInv'
  OBVIOUS
<1>1. CASE UNCHANGED vars
  BY <1>1 DEF vars, SaveInv, TypeOK, Progress, Doing, Alone, Written, CleanIsSaved, Saving
<1>2. CASE Next
  BY <1>2, StoreAssumption, ChangeSaved, StepSaved, ResetSaved DEF Next
<1>3. QED
  BY <1>1, <1>2

\* With no save under way, clean is what it says.
LEMMA SavedSound == SaveInv => StoreSound
BY DEF SaveInv, CleanIsSaved, Persisted, StoreSound

\* The settings, the flash and the saves under way are always well typed, and after a save
\* that met no failure and no other change a restart finds the settings in use, whatever
\* failed, overlapped or was cut off before it (settings_store.cpp:40-57).
THEOREM StoreAlwaysSound == Spec => []StoreSound
BY SavedSound, InitSaved, NextSaved, PTL DEF Spec

-----------------------------------------------------------------------------
(* The Bluetooth service.  Advertising ends with whatever ends it, and only *)
(* the handling of that event starts it again: so the controller, its      *)
(* events and the host's task pass one token on, and few situations are     *)
(* possible.                                                               *)

\* The kinds of value the proof needs.
Flags ==
  /\ gap \in [adv : BOOLEAN, links : Nat]
  /\ bleStatus \in Ble!BleStatus
  /\ host \in {"idle", "adv", "flag"}
  /\ bleCall \in {"none", "started", "stopped"}
  /\ tidy \in BOOLEAN

\* The situations with events to be handled: the host's start, an attempt or an
\* advertising period that is over, a client that came, one that came and went, and one
\* that went.
Starting ==
  /\ gapEvents = <<"SYNC">> /\ gap.links = 0 /\ host = "idle"
  /\ ~bleStatus.connected /\ ~bleStatus.advertising
Over ==
  /\ gapEvents = <<"CONNECT_FAILED">> \/ gapEvents = <<"ADV_COMPLETE">>
  /\ gap.links = 0 /\ host # "adv" /\ ~bleStatus.connected
Came == gapEvents = <<"CONNECTED">> /\ gap.links = 1 /\ host # "adv" /\ ~bleStatus.connected
CameAndWent ==
  /\ gapEvents = <<"CONNECTED", "DISCONNECTED">>
  /\ gap.links = 0 /\ host # "adv" /\ ~bleStatus.connected
Went == gapEvents = <<"DISCONNECTED">> /\ gap.links = 0 /\ host = "idle" /\ bleStatus.connected

Eventful == ~gap.adv /\ bleCall = "none" /\ (Starting \/ Over \/ Came \/ CameAndWent \/ Went)

\* And those without: a client is connected, or none is and the host's task may be on
\* its way to advertising.
Honest == bleStatus.state # "FAILED" => (bleStatus.advertising <=> gap.adv)
Linked == gap.links = 1 /\ ~gap.adv /\ host = "idle" /\ bleStatus.connected
          /\ bleCall \in {"none", "stopped"} /\ (bleCall = "none" => Honest)
Free ==
  /\ gap.links = 0 /\ ~bleStatus.connected
  /\ host = "idle" => (bleCall = "none" => Honest)
  /\ host = "adv" => ~gap.adv
  /\ host = "flag" => gap.adv
  /\ host # "idle" => bleCall = "none"
  /\ bleCall = "started" => gap.adv
  /\ bleCall = "stopped" => ~gap.adv

Uneventful == gapEvents = <<>> /\ (Linked \/ Free)

TellInv == Flags /\ (tidy => Eventful \/ Uneventful)

-----------------------------------------------------------------------------
\* Flags of the records.
LEMMA StatusFields ==
  ASSUME bleStatus \in Ble!BleStatus
  PROVE  bleStatus.advertising \in BOOLEAN /\ bleStatus.connected \in BOOLEAN
BY DEF Ble!BleStatus

LEMMA InitTells == Ble!Init => TellInv
<1> SUFFICES ASSUME Ble!Init PROVE TellInv
  OBVIOUS
<1>1. Flags
  <2>1. gap \in [adv : BOOLEAN, links : Nat]
    BY DEF Ble!Init
  <2>2. bleStatus \in Ble!BleStatus
    BY DEF Ble!Init, Ble!BleStatus
  <2>3. tidy \in BOOLEAN
    BY Zenon DEF Ble!Init
  <2>4. QED
    BY <2>1, <2>2, <2>3 DEF Ble!Init, Flags
<1>2. Eventful
  BY DEF Ble!Init, Eventful, Starting
<1>3. QED
  BY <1>1, <1>2 DEF TellInv

\* What is first and what is left in each situation, and what another end makes of it.
LEMMA Heads ==
  /\ Starting => gapEvents # <<>> /\ Head(gapEvents) = "SYNC" /\ Tail(gapEvents) = <<>>
  /\ Over => /\ gapEvents # <<>> /\ Head(gapEvents) \in {"CONNECT_FAILED", "ADV_COMPLETE"}
             /\ Tail(gapEvents) = <<>>
  /\ Came => /\ gapEvents # <<>> /\ Head(gapEvents) = "CONNECTED" /\ Tail(gapEvents) = <<>>
             /\ Append(gapEvents, "DISCONNECTED") = <<"CONNECTED", "DISCONNECTED">>
  /\ CameAndWent => /\ gapEvents # <<>> /\ Head(gapEvents) = "CONNECTED"
                    /\ Tail(gapEvents) = <<"DISCONNECTED">>
  /\ Went => gapEvents # <<>> /\ Head(gapEvents) = "DISCONNECTED" /\ Tail(gapEvents) = <<>>
<1>1. \A e \in Ble!GapEvent : <<e>> # <<>> /\ Head(<<e>>) = e /\ Tail(<<e>>) = <<>>
  OBVIOUS
<1>2. ASSUME NEW d \in Ble!GapEvent, NEW e \in Ble!GapEvent
      PROVE  /\ <<d, e>> # <<>> /\ Head(<<d, e>>) = d /\ Tail(<<d, e>>) = <<e>>
             /\ Append(<<d>>, e) = <<d, e>>
  <2>1. /\ Append(<<d>>, e) \in Seq(Ble!GapEvent) /\ Len(Append(<<d>>, e)) = 2
        /\ Append(<<d>>, e)[1] = d /\ Append(<<d>>, e)[2] = e
    OBVIOUS
  <2>2. <<d, e>> \in Seq(Ble!GapEvent) /\ Len(<<d, e>>) = 2 /\ <<d, e>>[1] = d /\ <<d, e>>[2] = e
    OBVIOUS
  <2>3. Append(<<d>>, e) = <<d, e>>
    <3>1. \A i \in 1..2 : i = 1 \/ i = 2
      OBVIOUS
    <3>2. QED
      BY <2>1, <2>2, <3>1, SeqEqual
  <2>4. <<d, e>> # <<>> /\ Head(<<d, e>>) = d
    OBVIOUS
  <2>5. Tail(<<d, e>>) = <<e>>
    OBVIOUS
  <2>6. QED
    BY <2>3, <2>4, <2>5
<1>3. /\ "SYNC" \in Ble!GapEvent /\ "CONNECTED" \in Ble!GapEvent /\ "CONNECT_FAILED" \in Ble!GapEvent
      /\ "DISCONNECTED" \in Ble!GapEvent /\ "ADV_COMPLETE" \in Ble!GapEvent
  BY DEF Ble!GapEvent
<1>4. Starting => gapEvents # <<>> /\ Head(gapEvents) = "SYNC" /\ Tail(gapEvents) = <<>>
  BY <1>1, <1>3, Zenon DEF Starting
<1>5. Over => /\ gapEvents # <<>> /\ Head(gapEvents) \in {"CONNECT_FAILED", "ADV_COMPLETE"}
              /\ Tail(gapEvents) = <<>>
  <2>1. ASSUME NEW e \in {"CONNECT_FAILED", "ADV_COMPLETE"}, gapEvents = <<e>>
        PROVE  /\ gapEvents # <<>> /\ Head(gapEvents) \in {"CONNECT_FAILED", "ADV_COMPLETE"}
               /\ Tail(gapEvents) = <<>>
    BY <1>1, <1>3, <2>1
  <2>2. QED
    BY <2>1 DEF Over
<1>6. Came => /\ gapEvents # <<>> /\ Head(gapEvents) = "CONNECTED" /\ Tail(gapEvents) = <<>>
              /\ Append(gapEvents, "DISCONNECTED") = <<"CONNECTED", "DISCONNECTED">>
  <2>1. /\ <<"CONNECTED">> # <<>> /\ Head(<<"CONNECTED">>) = "CONNECTED" /\ Tail(<<"CONNECTED">>) = <<>>
        /\ Append(<<"CONNECTED">>, "DISCONNECTED") = <<"CONNECTED", "DISCONNECTED">>
    BY <1>1, <1>2, <1>3
  <2>2. QED
    BY <2>1, Zenon DEF Came
<1>7. CameAndWent => /\ gapEvents # <<>> /\ Head(gapEvents) = "CONNECTED"
                     /\ Tail(gapEvents) = <<"DISCONNECTED">>
  <2>1. /\ <<"CONNECTED", "DISCONNECTED">> # <<>>
        /\ Head(<<"CONNECTED", "DISCONNECTED">>) = "CONNECTED"
        /\ Tail(<<"CONNECTED", "DISCONNECTED">>) = <<"DISCONNECTED">>
    BY <1>2, <1>3
  <2>2. QED
    BY <2>1, Zenon DEF CameAndWent
<1>8. Went => gapEvents # <<>> /\ Head(gapEvents) = "DISCONNECTED" /\ Tail(gapEvents) = <<>>
  BY <1>1, <1>3, Zenon DEF Went
<1>9. QED
  BY <1>4, <1>5, <1>6, <1>7, <1>8

\* An event posted to an empty queue is the only one.
LEMMA FirstPost == ASSUME NEW e \in Ble!GapEvent PROVE Append(<<>>, e) = <<e>>
OBVIOUS

\* What the assignments to the records leave in them.
LEMMA AdvertiseFields ==
  ASSUME Flags, Ble!Advertise
  PROVE  gap' \in [adv : BOOLEAN, links : Nat] /\ gap'.adv /\ gap'.links = gap.links /\ bleStatus' = bleStatus
BY DEF Flags, Ble!Advertise

LEMMA AdvertiseFailsFields ==
  ASSUME Flags, Ble!AdvertiseFails
  PROVE  /\ gap' \in [adv : BOOLEAN, links : Nat] /\ (gap'.adv => gap.adv) /\ gap'.links = gap.links
         /\ bleStatus' \in Ble!BleStatus /\ bleStatus'.state = "FAILED"
         /\ bleStatus'.connected <=> bleStatus.connected
<1>1. gap' \in [adv : BOOLEAN, links : Nat] /\ (gap'.adv => gap.adv) /\ gap'.links = gap.links
  BY DEF Flags, Ble!AdvertiseFails
<1>2. bleStatus' \in Ble!BleStatus /\ bleStatus'.state = "FAILED" /\ (bleStatus'.connected <=> bleStatus.connected)
  BY DEF Flags, Ble!AdvertiseFails, Ble!BleStatus
<1>3. QED
  BY <1>1, <1>2

LEMMA MarkAdvertisingFields ==
  ASSUME Flags, Ble!MarkAdvertising
  PROVE  /\ bleStatus' \in Ble!BleStatus /\ bleStatus'.advertising
         /\ bleStatus'.connected <=> bleStatus.connected
BY DEF Flags, Ble!MarkAdvertising, Ble!BleStatus

LEMMA MarkStoppedFields ==
  ASSUME Flags, bleStatus' = [bleStatus EXCEPT !.advertising = FALSE, !.state = "INITIALIZED"]
  PROVE  /\ bleStatus' \in Ble!BleStatus /\ ~bleStatus'.advertising
         /\ bleStatus'.connected <=> bleStatus.connected
BY DEF Flags, Ble!BleStatus

LEMMA SetConnectedFields ==
  /\ Ble!SetConnected(TRUE) => bleStatus' \in Ble!BleStatus /\ bleStatus'.connected /\ ~bleStatus'.advertising
  /\ Ble!SetConnected(FALSE) => bleStatus' \in Ble!BleStatus /\ ~bleStatus'.connected
<1>1. ASSUME Ble!SetConnected(TRUE)
      PROVE  bleStatus' \in Ble!BleStatus /\ bleStatus'.connected /\ ~bleStatus'.advertising
  <2>1. bleStatus' = [state |-> "CONNECTED", advertising |-> FALSE, connected |-> TRUE]
    BY <1>1, Zenon DEF Ble!SetConnected
  <2>2. QED
    BY <2>1 DEF Ble!BleStatus
<1>2. ASSUME Ble!SetConnected(FALSE) PROVE bleStatus' \in Ble!BleStatus /\ ~bleStatus'.connected
  <2>1. bleStatus' = [state |-> "ADVERTISING", advertising |-> TRUE, connected |-> FALSE]
    BY <1>2, Zenon DEF Ble!SetConnected
  <2>2. QED
    BY <2>1 DEF Ble!BleStatus
<1>3. QED
  BY <1>1, <1>2

LEMMA GapStepFields ==
  ASSUME Flags, NEW n \in Nat, NEW e \in Ble!GapEvent, NEW adv \in BOOLEAN, Ble!GapStep(adv, n, e)
  PROVE  /\ gap' \in [adv : BOOLEAN, links : Nat] /\ (gap'.adv <=> adv) /\ gap'.links = n
         /\ gapEvents' = Append(gapEvents, e) /\ tidy' \in BOOLEAN
         /\ tidy' => tidy /\ bleCall = "none"
         /\ host' = host /\ bleStatus' = bleStatus /\ bleCall' = bleCall
<1>1. gap' \in [adv : BOOLEAN, links : Nat] /\ (gap'.adv <=> adv) /\ gap'.links = n
  BY DEF Ble!GapStep
<1>2. tidy' \in BOOLEAN /\ (tidy' => tidy /\ bleCall = "none")
  BY Zenon DEF Flags, Ble!GapStep
<1>3. QED
  BY <1>1, <1>2 DEF Ble!GapStep, Ble!Post

\* An event is handled in the situation it belongs to.
LEMMA Handled ==
  ASSUME TellInv, tidy, NEW e \in Ble!GapEvent, Ble!Handle(e)
  PROVE  /\ gap' = gap /\ bleCall = "none" /\ bleCall' = "none" /\ tidy' = tidy /\ ~gap.adv /\ host = "idle"
         /\ \/ Starting /\ e = "SYNC" /\ gapEvents' = <<>>
            \/ Over /\ e \in {"CONNECT_FAILED", "ADV_COMPLETE"} /\ gapEvents' = <<>>
            \/ Came /\ e = "CONNECTED" /\ gapEvents' = <<>>
            \/ CameAndWent /\ e = "CONNECTED" /\ gapEvents' = <<"DISCONNECTED">>
            \/ Went /\ e = "DISCONNECTED" /\ gapEvents' = <<>>
<1>1. /\ gapEvents # <<>> /\ Head(gapEvents) = e /\ gapEvents' = Tail(gapEvents) /\ host = "idle"
      /\ gap' = gap /\ bleCall' = bleCall /\ tidy' = tidy
  BY DEF Ble!Handle
<1>2. Eventful
  BY <1>1 DEF TellInv, Uneventful
<1>3. QED
  BY <1>1, <1>2, Heads DEF Eventful

\* The controller posts an event with each change, and none after an untold one but the
\* end of the connection just made.
LEMMA ControllerTells == ASSUME TellInv, Ble!Controller PROVE TellInv'
<1>1. Flags /\ gap.links \in Nat /\ gap.adv \in BOOLEAN
  BY DEF TellInv, Flags
<1>2. ASSUME NEW n \in Nat, NEW e \in Ble!GapEvent, NEW adv \in BOOLEAN, Ble!GapStep(adv, n, e) PROVE Flags'
  BY <1>1, <1>2, GapStepFields DEF Flags
<1>3. CASE Ble!ClientConnects
  <2>1. Ble!GapStep(FALSE, gap.links + 1, "CONNECTED") /\ gap.adv
    BY <1>3 DEF Ble!ClientConnects
  <2>2. gap.links + 1 \in Nat /\ "CONNECTED" \in Ble!GapEvent /\ FALSE \in BOOLEAN
    BY <1>1 DEF Ble!GapEvent
  <2>3. ASSUME tidy' PROVE Eventful'
    <3>1. /\ tidy /\ bleCall = "none" /\ ~gap'.adv /\ gap'.links = gap.links + 1
          /\ gapEvents' = Append(gapEvents, "CONNECTED")
          /\ host' = host /\ bleStatus' = bleStatus /\ bleCall' = bleCall
      BY <1>1, <2>1, <2>2, <2>3, GapStepFields
    <3>2. gapEvents = <<>> /\ Free /\ host # "adv"
      BY <2>1, <3>1 DEF TellInv, Eventful, Uneventful, Linked, Free
    <3>3. gapEvents' = <<"CONNECTED">>
      BY <2>2, <3>1, <3>2, FirstPost
    <3>4. QED
      BY <3>1, <3>2, <3>3 DEF Eventful, Came, Free
  <2>4. QED
    BY <1>2, <2>1, <2>2, <2>3 DEF TellInv
<1>4. CASE Ble!ConnectFails \/ Ble!AdvEnds
  <2>1. PICK e \in {"CONNECT_FAILED", "ADV_COMPLETE"} : Ble!GapStep(FALSE, gap.links, e) /\ gap.adv
    BY <1>4 DEF Ble!ConnectFails, Ble!AdvEnds
  <2>2. gap.links \in Nat /\ e \in Ble!GapEvent /\ FALSE \in BOOLEAN
    BY <1>1 DEF Ble!GapEvent
  <2>3. ASSUME tidy' PROVE Eventful'
    <3>1. /\ tidy /\ bleCall = "none" /\ ~gap'.adv /\ gap'.links = gap.links
          /\ gapEvents' = Append(gapEvents, e)
          /\ host' = host /\ bleStatus' = bleStatus /\ bleCall' = bleCall
      BY <1>1, <2>1, <2>2, <2>3, GapStepFields
    <3>2. gapEvents = <<>> /\ Free /\ host # "adv"
      BY <2>1, <3>1 DEF TellInv, Eventful, Uneventful, Linked, Free
    <3>3. gapEvents' = <<e>>
      BY <2>2, <3>1, <3>2, FirstPost
    <3>4. QED
      BY <3>1, <3>2, <3>3 DEF Eventful, Over, Free
  <2>4. QED
    BY <1>2, <2>1, <2>2, <2>3 DEF TellInv
<1>5. CASE Ble!ClientLeaves
  <2>1. Ble!GapStep(gap.adv, gap.links - 1, "DISCONNECTED") /\ gap.links > 0
    BY <1>5 DEF Ble!ClientLeaves
  <2>2. gap.links - 1 \in Nat /\ "DISCONNECTED" \in Ble!GapEvent
    BY <1>1, <2>1 DEF Ble!GapEvent
  <2>3. ASSUME tidy' PROVE Eventful'
    <3>1. /\ tidy /\ bleCall = "none" /\ (gap'.adv <=> gap.adv) /\ gap'.links = gap.links - 1
          /\ gapEvents' = Append(gapEvents, "DISCONNECTED")
          /\ host' = host /\ bleStatus' = bleStatus /\ bleCall' = bleCall
      BY <1>1, <2>1, <2>2, <2>3, GapStepFields
    <3>2. CASE Came
      BY <3>1, <3>2, <2>1, Heads DEF TellInv, Eventful, Uneventful, Came, CameAndWent
    <3>3. CASE gapEvents = <<>> /\ Linked
      <4>1. gapEvents' = <<"DISCONNECTED">>
        BY <2>2, <3>1, <3>3, FirstPost
      <4>2. QED
        BY <3>1, <3>3, <4>1 DEF Eventful, Linked, Went
    <3>4. QED
      BY <2>1, <3>1, <3>2, <3>3 DEF TellInv, Eventful, Uneventful, Starting, Over, CameAndWent, Went, Free
  <2>4. QED
    BY <1>1, <1>2, <2>1, <2>2, <2>3 DEF TellInv
<1>6. QED
  BY <1>3, <1>4, <1>5 DEF Ble!Controller

\* The callback sets the flags as the event says, and starts the advertising after
\* every event that ended it.
LEMMA HostTells == ASSUME TellInv, Ble!Host PROVE TellInv'
<1>1. Flags
  BY DEF TellInv
<1>2. tidy' = tidy /\ bleCall' = bleCall
  BY DEF Ble!Host, Ble!OnSync, Ble!OnConnected, Ble!OnDisconnected, Ble!OnAdvOver, Ble!HostStart, Ble!HostFlag, Ble!Handle
<1>3. CASE Ble!OnSync
  <2>1. Ble!Handle("SYNC") /\ host' \in {"idle", "adv"} /\ bleStatus' = bleStatus
    BY <1>3 DEF Ble!OnSync
  <2>2. Flags'
    BY <1>1, <2>1 DEF Flags, Ble!Handle
  <2>3. ASSUME tidy PROVE gapEvents' = <<>> /\ Starting /\ ~gap.adv /\ gap' = gap /\ bleCall' = "none"
    BY <2>1, <2>3, Handled DEF Ble!GapEvent
  <2>4. ASSUME tidy PROVE Uneventful'
    BY <2>1, <2>3, <2>4 DEF Uneventful, Free, Starting, Honest
  <2>5. QED
    BY <1>2, <2>2, <2>4 DEF TellInv
<1>4. CASE Ble!OnConnected
  <2>1. Ble!Handle("CONNECTED") /\ Ble!SetConnected(TRUE) /\ host' = host
    BY <1>4 DEF Ble!OnConnected
  <2>2. bleStatus' \in Ble!BleStatus /\ bleStatus'.connected /\ ~bleStatus'.advertising
    BY <2>1, SetConnectedFields
  <2>3. Flags'
    BY <1>1, <2>1, <2>2 DEF Flags, Ble!Handle
  <2>4. ASSUME tidy
        PROVE  /\ gap' = gap /\ ~gap.adv /\ bleCall' = "none" /\ host' = "idle"
               /\ \/ Came /\ gapEvents' = <<>>
                  \/ CameAndWent /\ gapEvents' = <<"DISCONNECTED">>
    BY <2>1, <2>4, Handled DEF Ble!GapEvent
  <2>5. ASSUME tidy PROVE Eventful' \/ Uneventful'
    <3>1. CASE Came /\ gapEvents' = <<>>
      BY <2>2, <2>4, <2>5, <3>1 DEF Uneventful, Linked, Came, Honest
    <3>2. CASE CameAndWent /\ gapEvents' = <<"DISCONNECTED">>
      BY <2>2, <2>4, <2>5, <3>2 DEF Eventful, CameAndWent, Went
    <3>3. QED
      BY <2>4, <2>5, <3>1, <3>2
  <2>6. QED
    BY <1>2, <2>3, <2>5 DEF TellInv
<1>5. CASE Ble!OnDisconnected
  <2>1. Ble!Handle("DISCONNECTED") /\ Ble!SetConnected(FALSE) /\ host' = "adv"
    BY <1>5 DEF Ble!OnDisconnected
  <2>2. bleStatus' \in Ble!BleStatus /\ ~bleStatus'.connected
    BY <2>1, SetConnectedFields
  <2>3. Flags'
    BY <1>1, <2>1, <2>2 DEF Flags, Ble!Handle
  <2>4. ASSUME tidy PROVE gap' = gap /\ ~gap.adv /\ bleCall' = "none" /\ Went /\ gapEvents' = <<>>
    BY <2>1, <2>4, Handled DEF Ble!GapEvent
  <2>5. ASSUME tidy PROVE Uneventful'
    BY <2>1, <2>2, <2>4, <2>5 DEF Uneventful, Free, Went
  <2>6. QED
    BY <1>2, <2>3, <2>5 DEF TellInv
<1>6. CASE Ble!OnAdvOver
  <2>1. PICK e \in {"CONNECT_FAILED", "ADV_COMPLETE"} : Ble!Handle(e) /\ host' = "adv" /\ bleStatus' = bleStatus
    BY <1>6 DEF Ble!OnAdvOver
  <2>2. Flags'
    BY <1>1, <2>1 DEF Flags, Ble!Handle
  <2>3. ASSUME tidy PROVE gap' = gap /\ ~gap.adv /\ bleCall' = "none" /\ Over /\ gapEvents' = <<>>
    BY <2>1, <2>3, Handled DEF Ble!GapEvent
  <2>4. ASSUME tidy PROVE Uneventful'
    BY <2>1, <2>3, <2>4 DEF Uneventful, Free, Over
  <2>5. QED
    BY <1>2, <2>2, <2>4 DEF TellInv
<1>7. CASE Ble!HostStart
  <2>1. ASSUME tidy PROVE gapEvents = <<>> /\ Free /\ ~gap.adv /\ bleCall = "none"
    BY <1>7, <2>1 DEF Ble!HostStart, TellInv, Eventful, Uneventful, Linked, Free, Starting, Over, Came, CameAndWent, Went
  <2>2. CASE Ble!Advertise /\ host' = "flag"
    <3>1. gap' \in [adv : BOOLEAN, links : Nat] /\ gap'.adv /\ gap'.links = gap.links /\ bleStatus' = bleStatus
      BY <1>1, <2>2, AdvertiseFields
    <3>2. QED
      BY <1>1, <1>2, <1>7, <2>1, <2>2, <3>1 DEF Ble!HostStart, TellInv, Flags, Uneventful, Free
  <2>3. CASE Ble!AdvertiseFails /\ host' = "idle"
    <3>1. /\ gap' \in [adv : BOOLEAN, links : Nat] /\ (gap'.adv => gap.adv) /\ gap'.links = gap.links
          /\ bleStatus' \in Ble!BleStatus /\ bleStatus'.state = "FAILED"
          /\ bleStatus'.connected <=> bleStatus.connected
      BY <1>1, <2>3, AdvertiseFailsFields
    <3>2. QED
      BY <1>1, <1>2, <1>7, <2>1, <2>3, <3>1 DEF Ble!HostStart, TellInv, Flags, Uneventful, Free, Honest
  <2>4. QED
    BY <1>7, <2>2, <2>3 DEF Ble!HostStart
<1>8. CASE Ble!HostFlag
  <2>1. Ble!MarkAdvertising /\ host = "flag" /\ host' = "idle" /\ UNCHANGED <<gap, gapEvents, bleCall, tidy>>
    BY <1>8 DEF Ble!HostFlag
  <2>2. bleStatus' \in Ble!BleStatus /\ bleStatus'.advertising /\ (bleStatus'.connected <=> bleStatus.connected)
    BY <1>1, <2>1, MarkAdvertisingFields
  <2>3. Flags'
    BY <1>1, <2>1, <2>2 DEF Flags
  <2>4. CASE Eventful
    BY <2>1, <2>2, <2>3, <2>4 DEF TellInv, Eventful, Starting, Over, Came, CameAndWent, Went
  <2>5. CASE Uneventful
    BY <2>1, <2>2, <2>3, <2>5 DEF TellInv, Uneventful, Linked, Free, Honest
  <2>6. QED
    BY <2>1, <2>3, <2>4, <2>5 DEF TellInv
<1>9. QED
  BY <1>3, <1>4, <1>5, <1>6, <1>7, <1>8 DEF Ble!Host

\* A command that finds nothing under way sets the flags to what it did.
LEMMA CommandTells == ASSUME TellInv, Ble!Console \/ Ble!BleMark PROVE TellInv'
<1>1. Flags
  BY DEF TellInv
<1>2. CASE Ble!BleStart
  <2>1. tidy' \in BOOLEAN /\ (tidy' => tidy /\ Ble!Quiet /\ gap.links = 0) /\ bleCall = "none"
        /\ UNCHANGED <<gapEvents, host>>
    BY <1>1, <1>2, Zenon DEF Ble!BleStart, Flags
  <2>2. ASSUME tidy' PROVE gapEvents = <<>> /\ host = "idle" /\ Free
    BY <2>1, <2>2, Heads DEF TellInv, Ble!Quiet, Eventful, Uneventful, Linked
  <2>3. CASE Ble!Advertise /\ bleCall' = "started"
    <3>1. gap' \in [adv : BOOLEAN, links : Nat] /\ gap'.adv /\ gap'.links = gap.links /\ bleStatus' = bleStatus
      BY <1>1, <2>3, AdvertiseFields
    <3>2. QED
      BY <1>1, <2>1, <2>2, <2>3, <3>1 DEF TellInv, Flags, Uneventful, Free
  <2>4. CASE Ble!AdvertiseFails /\ bleCall' = bleCall
    <3>1. /\ gap' \in [adv : BOOLEAN, links : Nat] /\ (gap'.adv => gap.adv) /\ gap'.links = gap.links
          /\ bleStatus' \in Ble!BleStatus /\ bleStatus'.state = "FAILED"
          /\ bleStatus'.connected <=> bleStatus.connected
      BY <1>1, <2>4, AdvertiseFailsFields
    <3>2. QED
      BY <1>1, <2>1, <2>2, <2>4, <3>1 DEF TellInv, Flags, Uneventful, Free, Honest
  <2>5. QED
    BY <1>2, <2>3, <2>4 DEF Ble!BleStart
<1>3. CASE Ble!BleStop
  <2>1. /\ tidy' \in BOOLEAN /\ (tidy' => tidy /\ Ble!Quiet) /\ bleCall = "none" /\ bleCall' = "stopped"
        /\ UNCHANGED <<gapEvents, host, bleStatus>>
    BY <1>1, <1>3, Zenon DEF Ble!BleStop, Flags
  <2>2. gap' \in [adv : BOOLEAN, links : Nat] /\ ~gap'.adv /\ gap'.links = gap.links
    BY <1>1, <1>3 DEF Ble!BleStop, Flags
  <2>3. ASSUME tidy' PROVE gapEvents = <<>> /\ host = "idle" /\ (Linked \/ Free)
    BY <2>1, <2>3, Heads DEF TellInv, Ble!Quiet, Eventful, Uneventful
  <2>4. QED
    BY <1>1, <2>1, <2>2, <2>3 DEF TellInv, Flags, Uneventful, Linked, Free
<1>4. CASE Ble!BleMark
  <2>1. /\ bleCall # "none" /\ bleCall' = "none" /\ UNCHANGED <<gap, gapEvents, host, tidy>>
        /\ \/ bleCall = "started" /\ Ble!MarkAdvertising
           \/ bleCall = "stopped"
              /\ bleStatus' = [bleStatus EXCEPT !.advertising = FALSE, !.state = "INITIALIZED"]
    BY <1>4 DEF Ble!BleMark
  <2>2. /\ bleStatus' \in Ble!BleStatus /\ (bleStatus'.connected <=> bleStatus.connected)
        /\ (bleStatus'.advertising <=> bleCall = "started")
    BY <1>1, <2>1, MarkAdvertisingFields, MarkStoppedFields
  <2>3. Flags'
    BY <1>1, <2>1, <2>2 DEF Flags
  <2>4. ASSUME tidy PROVE Uneventful'
    BY <1>1, <2>1, <2>2, <2>4 DEF TellInv, Flags, Eventful, Uneventful, Linked, Free, Honest
  <2>5. QED
    BY <2>1, <2>3, <2>4 DEF TellInv
<1>5. QED
  BY <1>2, <1>3, <1>4 DEF Ble!Console

LEMMA StepTells == TellInv /\ [Ble!Next]_(Ble!vars) => TellInv'
<1> SUFFICES ASSUME TellInv, [Ble!Next]_(Ble!vars) PROVE TellInv'
  OBVIOUS
<1>1. CASE UNCHANGED Ble!vars
  BY <1>1 DEF Ble!vars, TellInv, Flags, Eventful, Uneventful, Linked, Free, Honest,
              Starting, Over, Came, CameAndWent, Went
<1>2. QED
  BY <1>1, ControllerTells, HostTells, CommandTells DEF Ble!Next

-----------------------------------------------------------------------------
(* Types; they rest on nothing but the bounds.                             *)

LEMMA InitTyped ==
  ASSUME MaxLinks \in Nat \ {0}, MaxGapEvents \in Nat \ {0}, Ble!Init
  PROVE  Ble!TypeOK
<1>1. gapEvents \in Seq(Ble!GapEvent) /\ Len(gapEvents) <= MaxGapEvents
  BY DEF Ble!Init, Ble!GapEvent
<1>2. bleStatus \in Ble!BleStatus
  BY DEF Ble!Init, Ble!BleStatus
<1>3. tidy \in BOOLEAN
  BY Zenon DEF Ble!Init
<1>4. QED
  BY <1>1, <1>2, <1>3 DEF Ble!Init, Ble!TypeOK

\* An event is added only while there is room.
LEMMA ControllerTyped ==
  ASSUME MaxLinks \in Nat \ {0}, MaxGapEvents \in Nat \ {0}, Ble!TypeOK, Ble!Controller
  PROVE  Ble!TypeOK'
<1>1. PICK a \in BOOLEAN, l \in 0..MaxLinks, e \in Ble!GapEvent : Ble!GapStep(a, l, e)
  <2>1. CASE Ble!ClientConnects
    <3>1. gap.links + 1 \in 0..MaxLinks /\ "CONNECTED" \in Ble!GapEvent /\ FALSE \in BOOLEAN
      BY <2>1 DEF Ble!ClientConnects, Ble!TypeOK, Ble!GapEvent
    <3>2. Ble!GapStep(FALSE, gap.links + 1, "CONNECTED")
      BY <2>1 DEF Ble!ClientConnects
    <3>3. QED
      BY <3>1, <3>2
  <2>2. CASE Ble!ConnectFails
    <3>1. gap.links \in 0..MaxLinks /\ "CONNECT_FAILED" \in Ble!GapEvent /\ FALSE \in BOOLEAN
      BY <2>2 DEF Ble!ConnectFails, Ble!TypeOK, Ble!GapEvent
    <3>2. Ble!GapStep(FALSE, gap.links, "CONNECT_FAILED")
      BY <2>2 DEF Ble!ConnectFails
    <3>3. QED
      BY <3>1, <3>2
  <2>3. CASE Ble!ClientLeaves
    <3>1. gap.links - 1 \in 0..MaxLinks /\ "DISCONNECTED" \in Ble!GapEvent /\ gap.adv \in BOOLEAN
      BY <2>3 DEF Ble!ClientLeaves, Ble!TypeOK, Ble!GapEvent
    <3>2. Ble!GapStep(gap.adv, gap.links - 1, "DISCONNECTED")
      BY <2>3 DEF Ble!ClientLeaves
    <3>3. QED
      BY <3>1, <3>2
  <2>4. CASE Ble!AdvEnds
    <3>1. gap.links \in 0..MaxLinks /\ "ADV_COMPLETE" \in Ble!GapEvent /\ FALSE \in BOOLEAN
      BY <2>4 DEF Ble!AdvEnds, Ble!TypeOK, Ble!GapEvent
    <3>2. Ble!GapStep(FALSE, gap.links, "ADV_COMPLETE")
      BY <2>4 DEF Ble!AdvEnds
    <3>3. QED
      BY <3>1, <3>2
  <2>5. QED
    BY <2>1, <2>2, <2>3, <2>4 DEF Ble!Controller
<1>2. gapEvents' \in Seq(Ble!GapEvent) /\ Len(gapEvents') <= MaxGapEvents
  BY <1>1 DEF Ble!GapStep, Ble!Post, Ble!TypeOK
<1>3. tidy' \in BOOLEAN
  BY <1>1, Zenon DEF Ble!GapStep, Ble!TypeOK
<1>4. QED
  BY <1>1, <1>2, <1>3 DEF Ble!GapStep, Ble!TypeOK

LEMMA AdvertisingTyped ==
  ASSUME Ble!TypeOK, Ble!Advertise \/ Ble!AdvertiseFails
  PROVE  gap' \in [adv : BOOLEAN, links : 0..MaxLinks] /\ bleStatus' \in Ble!BleStatus
BY DEF Ble!Advertise, Ble!AdvertiseFails, Ble!TypeOK, Ble!BleStatus

LEMMA MarkTyped ==
  ASSUME Ble!TypeOK, Ble!MarkAdvertising
  PROVE  bleStatus' \in Ble!BleStatus
BY DEF Ble!MarkAdvertising, Ble!TypeOK, Ble!BleStatus

LEMMA HostTyped ==
  ASSUME MaxGapEvents \in Nat \ {0}, Ble!TypeOK, Ble!Host
  PROVE  Ble!TypeOK'
<1>1. ASSUME NEW e, Ble!Handle(e)
      PROVE  /\ gapEvents' \in Seq(Ble!GapEvent) /\ Len(gapEvents') <= MaxGapEvents
             /\ UNCHANGED <<gap, bleCall, tidy>>
  BY <1>1 DEF Ble!Handle, Ble!TypeOK
<1>2. ASSUME NEW c \in BOOLEAN, Ble!SetConnected(c)
      PROVE  bleStatus' \in Ble!BleStatus
  BY <1>2 DEF Ble!SetConnected, Ble!BleStatus
<1>3. CASE Ble!OnSync
  BY <1>1, <1>3 DEF Ble!OnSync, Ble!TypeOK
<1>4. CASE Ble!OnConnected
  BY <1>1, <1>2, <1>4 DEF Ble!OnConnected, Ble!TypeOK
<1>5. CASE Ble!OnDisconnected
  BY <1>1, <1>2, <1>5 DEF Ble!OnDisconnected, Ble!TypeOK
<1>6. CASE Ble!OnAdvOver
  BY <1>1, <1>6 DEF Ble!OnAdvOver, Ble!TypeOK
<1>7. CASE Ble!HostStart
  BY <1>7, AdvertisingTyped DEF Ble!HostStart, Ble!TypeOK
<1>8. CASE Ble!HostFlag
  BY <1>8, MarkTyped DEF Ble!HostFlag, Ble!TypeOK
<1>9. QED
  BY <1>3, <1>4, <1>5, <1>6, <1>7, <1>8 DEF Ble!Host

LEMMA ConsoleTyped ==
  ASSUME Ble!TypeOK, Ble!Console \/ Ble!BleMark
  PROVE  Ble!TypeOK'
<1>1. CASE Ble!BleStart
  <2>1. tidy' \in BOOLEAN
    BY <1>1, Zenon DEF Ble!BleStart, Ble!TypeOK
  <2>2. QED
    BY <1>1, <2>1, AdvertisingTyped DEF Ble!BleStart, Ble!TypeOK
<1>2. CASE Ble!BleStop
  <2>1. tidy' \in BOOLEAN
    BY <1>2, Zenon DEF Ble!BleStop, Ble!TypeOK
  <2>2. QED
    BY <1>2, <2>1 DEF Ble!BleStop, Ble!TypeOK
<1>3. CASE Ble!BleMark
  <2>1. bleStatus' \in Ble!BleStatus
    BY <1>3, MarkTyped DEF Ble!BleMark, Ble!TypeOK, Ble!BleStatus
  <2>2. QED
    BY <1>3, <2>1 DEF Ble!BleMark, Ble!TypeOK
<1>4. QED
  BY <1>1, <1>2, <1>3 DEF Ble!Console

LEMMA StepTyped ==
  ASSUME MaxLinks \in Nat \ {0}, MaxGapEvents \in Nat \ {0}, Ble!TypeOK, [Ble!Next]_(Ble!vars)
  PROVE  Ble!TypeOK'
<1>1. CASE UNCHANGED Ble!vars
  BY <1>1 DEF Ble!vars, Ble!TypeOK
<1>2. QED
  BY <1>1, ControllerTyped, HostTyped, ConsoleTyped DEF Ble!Next

\* With every event handled, ble status shows a client exactly while one is connected, and
\* advertising exactly while the controller advertises, unless the last start failed; for
\* commands that meet no event (ble_service.cpp:142-190).
LEMMA ToldSound == TellInv /\ Ble!TypeOK => Ble!BleSound
<1>1. ASSUME TellInv, tidy, Ble!Quiet, bleCall = "none"
      PROVE  /\ bleStatus.connected <=> gap.links > 0
             /\ bleStatus.state # "FAILED" => (bleStatus.advertising <=> gap.adv)
  <2>1. Uneventful /\ host = "idle"
    BY <1>1, Heads DEF TellInv, Ble!Quiet, Eventful
  <2>2. QED
    BY <1>1, <2>1 DEF Uneventful, Linked, Free, Honest
<1>2. TellInv => Ble!Told
  BY <1>1 DEF Ble!Told
<1>3. QED
  BY <1>2 DEF Ble!BleSound

\* Whatever number of links the controller keeps and of events it queues, nothing goes out
\* of its type and what ble status tells is true (ble_service.cpp:142-190).
THEOREM BleAlwaysSound == Ble!Spec => []Ble!BleSound
<1>1. Ble!Init => TellInv /\ Ble!TypeOK
  BY PartsAssumption, InitTells, InitTyped
<1>2. TellInv /\ Ble!TypeOK /\ [Ble!Next]_(Ble!vars) => TellInv' /\ Ble!TypeOK'
  BY PartsAssumption, StepTells, StepTyped
<1>3. QED
  BY <1>1, <1>2, ToldSound, PTL DEF Ble!Spec

-----------------------------------------------------------------------------
(* Both as parts of one behaviour                                          *)

\* What each part keeps, whichever of them goes on.
PartsInv == SaveInv /\ TellInv /\ Ble!TypeOK

LEMMA PartsBegin == PartsInit => PartsInv
BY PartsAssumption, InitSaved, InitTells, InitTyped DEF PartsInit, PartsInv

\* A step of the settings leaves Bluetooth alone and the other way round, and a step of
\* the screen leaves both.
LEMMA PartsGoOn == PartsInv /\ [PartsNext]_partsVars => PartsInv'
<1> SUFFICES ASSUME PartsInv, [PartsNext]_partsVars PROVE PartsInv'
  OBVIOUS
<1>1. [Next]_vars /\ [Ble!Next]_(Ble!vars)
  BY DEF PartsNext, partsVars, bleVars, Ble!vars, InStore, InBle, InDemo
<1>2. SaveInv'
  BY <1>1, NextSaved DEF PartsInv
<1>3. TellInv'
  BY <1>1, StepTells DEF PartsInv
<1>4. Ble!TypeOK'
  BY <1>1, PartsAssumption, StepTyped DEF PartsInv
<1>5. QED
  BY <1>2, <1>3, <1>4 DEF PartsInv

\* Nothing goes out of its type, and a clean save persists, in every behaviour of the run
\* that checks it (settings_store.cpp:40-57).
THEOREM PartsKeepSettings == PartsSpec => []StoreSound
<1>1. PartsInv => StoreSound
  BY SavedSound DEF PartsInv
<1>2. QED
  BY <1>1, PartsBegin, PartsGoOn, PTL DEF PartsSpec

\* Nothing goes out of its type, and what ble status and the dashboard tell is true, for
\* any number of connections and any bound on the events (ble_service.cpp:142-190).
THEOREM PartsTellTheTruth == PartsSpec => []BleSound
<1>1. PartsInv => BleSound
  BY ToldSound DEF PartsInv, BleSound
<1>2. QED
  BY <1>1, PartsBegin, PartsGoOn, PTL DEF PartsSpec

-----------------------------------------------------------------------------
(* The Wi-Fi service.  The driver posts an event with every change of the  *)
(* link, so the events not handled yet say what the status will tell; and  *)
(* as long as calls are orderly, what a connecting task sees is its own.   *)

\* The events that tell of the address, and what holds of the events es if the service
\* has an address once they are handled exactly when the link is up.
Telling == {"GOT_IP", "STA_DISCONNECTED"}
Holds(es, e) == \E i \in 1 .. Len(es) : es[i] = e
Ends(es, ip, link) ==
  \/ (\A i \in 1 .. Len(es) : es[i] \notin Telling) /\ (ip <=> link = "up")
  \/ \E i \in 1 .. Len(es) :
       /\ es[i] \in Telling /\ (link = "up" <=> es[i] = "GOT_IP")
       /\ \A j \in 1 .. Len(es) : j > i => es[j] \notin Telling

\* No two tasks are in a call.
OneCaller == \A c, d \in Callers : c # d => call[c].pc = "idle" \/ call[d].pc = "idle"

\* A link that went down is still to be seen by the handler.
Seen == Holds(events, "STA_DISCONNECTED") \/ handler = "retry"

\* And it will be joined again when it is seen.
Trying == want /\ status.named /\ (status.state \in {"CONNECTING", "CONNECTED"} \/ handler = "retry")

\* What a task that connects may rely on: the driver has its network, its attempt is
\* retried, and whatever says that a network came up means this one.
Joining(c) == call[c].pc \in {"mark", "clear", "radio", "wait", "store"}
CameUp(c) == call[c].net \in radio.joined
Mine(c) ==
  /\ Joining(c) => want /\ radio.cfg = call[c].net /\ (Holds(events, "GOT_IP") => CameUp(c))
  /\ call[c].pc \in {"clear", "radio", "wait", "store"} => Trying
  /\ call[c].pc \in {"radio", "wait"} /\ "CONNECTED" \in bits => CameUp(c)
  /\ call[c].pc = "store" /\ "CONNECTED" \in call[c].got => CameUp(c)

\* The link is never down behind the back of a status that says or will say CONNECTED,
\* unless the driver refused to join it again.
Waiting == \E c \in Callers : call[c].pc \in {"wait", "store"}
LossSeen ==
  outcome # "refused" /\ radio.link = "down" /\ (status.state = "CONNECTED" \/ Waiting) => Seen

\* Before the first connect the driver has no network and nobody joins one.
Unset ==
  radio.cfg = NoNet =>
    radio.link = "down" /\ ~status.named /\ handler = "idle" /\ \A c \in Callers : ~Joining(c)

WifiInv ==
  /\ WifiTypeOK /\ Unset
  /\ Ends(events, status.ip, radio.link)
  /\ orderly => OneCaller /\ (\A c \in Callers : Mine(c)) /\ LossSeen

NetInv == NetTypeOK /\ WifiInv

-----------------------------------------------------------------------------
\* An event at the end, and one taken from the front.
LEMMA Appended ==
  ASSUME NEW es \in Seq(Event), NEW e \in Event
  PROVE  /\ Append(es, e) \in Seq(Event) /\ Len(Append(es, e)) = Len(es) + 1 /\ Len(es) \in Nat
         /\ \A i \in 1 .. Len(es) : Append(es, e)[i] = es[i]
         /\ Append(es, e)[Len(es) + 1] = e
OBVIOUS

LEMMA Taken ==
  ASSUME NEW es \in Seq(Event), es # <<>>
  PROVE  /\ Tail(es) \in Seq(Event) /\ Len(es) \in Nat /\ Len(es) >= 1 /\ Len(Tail(es)) = Len(es) - 1
         /\ Head(es) = es[1] /\ Head(es) \in Event
         /\ \A i \in 1 .. Len(es) - 1 : Tail(es)[i] = es[i + 1]
OBVIOUS

LEMMA HoldsAppended ==
  ASSUME NEW es \in Seq(Event), NEW e \in Event, NEW x \in Event
  PROVE  Holds(Append(es, e), x) <=> Holds(es, x) \/ x = e
<1>1. /\ Len(Append(es, e)) = Len(es) + 1 /\ Len(es) \in Nat
      /\ \A i \in 1 .. Len(es) : Append(es, e)[i] = es[i]
      /\ Append(es, e)[Len(es) + 1] = e
  BY Appended
<1>2. QED
  BY <1>1 DEF Holds

LEMMA HoldsTaken ==
  ASSUME NEW es \in Seq(Event), es # <<>>, NEW x \in Event
  PROVE  Holds(es, x) <=> Holds(Tail(es), x) \/ x = Head(es)
<1>1. /\ Len(es) \in Nat /\ Len(es) >= 1 /\ Len(Tail(es)) = Len(es) - 1 /\ Head(es) = es[1]
      /\ \A i \in 1 .. Len(es) - 1 : Tail(es)[i] = es[i + 1]
  BY Taken
<1>2. ASSUME NEW i \in 1 .. Len(es), es[i] = x PROVE Holds(Tail(es), x) \/ x = Head(es)
  <2>1. CASE i = 1
    BY <1>1, <1>2, <2>1
  <2>2. CASE i # 1
    <3>1. i - 1 \in 1 .. Len(Tail(es)) /\ Tail(es)[i - 1] = es[i]
      BY <1>1, <1>2, <2>2
    <3>2. QED
      BY <1>2, <3>1 DEF Holds
  <2>3. QED
    BY <2>1, <2>2
<1>3. ASSUME NEW i \in 1 .. Len(Tail(es)), Tail(es)[i] = x PROVE Holds(es, x)
  <2>1. i + 1 \in 1 .. Len(es) /\ es[i + 1] = x
    BY <1>1, <1>3
  <2>2. QED
    BY <2>1 DEF Holds
<1>4. x = Head(es) => Holds(es, x)
  BY <1>1 DEF Holds
<1>5. QED
  BY <1>2, <1>3, <1>4 DEF Holds

\* What a new event makes of Ends, and what the handling of one does.
LEMMA EndsAppended ==
  ASSUME NEW es \in Seq(Event), NEW e \in Event, NEW ip \in BOOLEAN, NEW link, NEW to,
         \/ e \in Telling /\ (to = "up" <=> e = "GOT_IP")
         \/ e \notin Telling /\ Ends(es, ip, link) /\ (to = "up" <=> link = "up")
  PROVE  Ends(Append(es, e), ip, to)
<1>1. /\ Len(Append(es, e)) = Len(es) + 1 /\ Len(es) \in Nat
      /\ \A i \in 1 .. Len(es) : Append(es, e)[i] = es[i]
      /\ Append(es, e)[Len(es) + 1] = e
  BY Appended
<1>2. CASE e \in Telling /\ (to = "up" <=> e = "GOT_IP")
  BY <1>1, <1>2 DEF Ends
<1>3. CASE e \notin Telling /\ Ends(es, ip, link) /\ (to = "up" <=> link = "up")
  <2>1. CASE (\A i \in 1 .. Len(es) : es[i] \notin Telling) /\ (ip <=> link = "up")
    <3>1. \A i \in 1 .. Len(Append(es, e)) : Append(es, e)[i] \notin Telling
      BY <1>1, <1>3, <2>1
    <3>2. QED
      BY <1>3, <2>1, <3>1 DEF Ends
  <2>2. CASE \E i \in 1 .. Len(es) :
               /\ es[i] \in Telling /\ (link = "up" <=> es[i] = "GOT_IP")
               /\ \A j \in 1 .. Len(es) : j > i => es[j] \notin Telling
    <3>1. PICK i \in 1 .. Len(es) :
            /\ es[i] \in Telling /\ (link = "up" <=> es[i] = "GOT_IP")
            /\ \A j \in 1 .. Len(es) : j > i => es[j] \notin Telling
      BY <2>2
    <3>2. i \in 1 .. Len(Append(es, e)) /\ Append(es, e)[i] = es[i]
      BY <1>1
    <3>3. \A j \in 1 .. Len(Append(es, e)) : j > i => Append(es, e)[j] \notin Telling
      BY <1>1, <1>3, <3>1
    <3>4. QED
      BY <1>3, <3>1, <3>2, <3>3 DEF Ends
  <2>3. QED
    BY <1>3, <2>1, <2>2 DEF Ends
<1>4. QED
  BY <1>2, <1>3

LEMMA EndsTaken ==
  ASSUME NEW es \in Seq(Event), es # <<>>, NEW ip \in BOOLEAN, NEW now \in BOOLEAN, NEW link,
         Ends(es, ip, link),
         now <=> IF Head(es) \in Telling THEN Head(es) = "GOT_IP" ELSE ip
  PROVE  Ends(Tail(es), now, link)
<1>1. /\ Len(es) \in Nat /\ Len(es) >= 1 /\ Len(Tail(es)) = Len(es) - 1 /\ Head(es) = es[1]
      /\ \A i \in 1 .. Len(es) - 1 : Tail(es)[i] = es[i + 1]
  BY Taken
<1>2. CASE (\A i \in 1 .. Len(es) : es[i] \notin Telling) /\ (ip <=> link = "up")
  <2>1. \A i \in 1 .. Len(Tail(es)) : Tail(es)[i] \notin Telling
    BY <1>1, <1>2
  <2>2. now <=> link = "up"
    BY <1>1, <1>2
  <2>3. QED
    BY <2>1, <2>2 DEF Ends
<1>3. CASE \E i \in 1 .. Len(es) :
             /\ es[i] \in Telling /\ (link = "up" <=> es[i] = "GOT_IP")
             /\ \A j \in 1 .. Len(es) : j > i => es[j] \notin Telling
  <2>1. PICK i \in 1 .. Len(es) :
          /\ es[i] \in Telling /\ (link = "up" <=> es[i] = "GOT_IP")
          /\ \A j \in 1 .. Len(es) : j > i => es[j] \notin Telling
    BY <1>3
  <2>2. \A j \in 1 .. Len(Tail(es)) : j > i - 1 => Tail(es)[j] \notin Telling
    BY <1>1, <2>1
  <2>3. CASE i = 1
    BY <1>1, <2>1, <2>2, <2>3 DEF Ends
  <2>4. CASE i # 1
    <3>1. i - 1 \in 1 .. Len(Tail(es)) /\ Tail(es)[i - 1] = es[i]
      BY <1>1, <2>4
    <3>2. QED
      BY <2>1, <2>2, <3>1 DEF Ends
  <2>5. QED
    BY <2>3, <2>4
<1>4. QED
  BY <1>2, <1>3 DEF Ends

\* A link that is not up although an address is told, or came up, has its event waiting.
LEMMA EndsDown ==
  ASSUME NEW es \in Seq(Event), NEW link, Ends(es, TRUE, link), link # "up"
  PROVE  Holds(es, "STA_DISCONNECTED")
BY DEF Ends, Telling, Holds

\* As long as the link is not up it may be down or joining.
LEMMA EndsSame ==
  ASSUME NEW es, NEW ip \in BOOLEAN, NEW link, NEW to, Ends(es, ip, link), to = "up" <=> link = "up"
  PROVE  Ends(es, ip, to)
BY DEF Ends

-----------------------------------------------------------------------------
\* What the assignments to the records leave in them.
LEMMA LinkFields ==
  ASSUME radio \in Radio, NEW to \in {"down", "joining", "up"}
  PROVE  /\ Link(to) \in Radio /\ Link(to).link = to
         /\ Link(to).cfg = radio.cfg /\ Link(to).joined = radio.joined
BY DEF Radio, Link

LEMMA UpFields ==
  ASSUME radio \in Radio, radio.cfg # NoNet
  PROVE  LET r == [Link("up") EXCEPT !.joined = @ \cup {radio.cfg}]
         IN  r \in Radio /\ r.link = "up" /\ r.cfg = radio.cfg /\ r.joined = radio.joined \cup {radio.cfg}
BY DEF Radio, Link, Name

LEMMA WifiStatusFields ==
  ASSUME status \in Status
  PROVE  status.state \in State /\ status.named \in BOOLEAN /\ status.ip \in BOOLEAN
BY DEF Status

LEMMA StateFields ==
  ASSUME status \in Status, NEW s \in State
  PROVE  LET r == [status EXCEPT !.state = s]
         IN  r \in Status /\ r.state = s /\ r.named = status.named /\ r.ip = status.ip
BY DEF Status

LEMMA IpFields ==
  ASSUME status \in Status, NEW s \in State, NEW ip \in BOOLEAN
  PROVE  LET r == [status EXCEPT !.state = s, !.ip = ip]
         IN  r \in Status /\ r.state = s /\ r.named = status.named /\ (r.ip <=> ip)
BY DEF Status

\* A call goes on to another step.
LEMMA CallFields ==
  ASSUME call \in [Callers -> Call], NEW c \in Callers, NEW pc \in Pc, Goto(c, pc)
  PROVE  /\ call' \in [Callers -> Call]
         /\ call'[c].pc = pc /\ call'[c].net = call[c].net /\ call'[c].got = call[c].got
         /\ \A d \in Callers \ {c} : call'[d] = call[d]
<1>1. call[c] \in Call
  OBVIOUS
<1>2. [call[c] EXCEPT !.pc = pc] \in Call
  BY <1>1 DEF Call
<1>3. QED
  BY <1>1, <1>2 DEF Goto, Call

\* What the driver may answer.
LEMMA AnswerFields ==
  ASSUME radio \in Radio, NEW a \in ConnectAnswers
  PROVE  /\ a.radio \in Radio /\ a.radio.cfg = radio.cfg /\ a.radio.joined = radio.joined
         /\ \/ ~a.ok /\ a.radio = radio /\ a.posted = <<>>
            \/ a.ok /\ a.radio.link = "joining" /\ radio.link = "down" /\ a.posted = <<>>
            \/ a.ok /\ a.radio.link = "joining" /\ radio.link # "down" /\ a.posted = <<"STA_DISCONNECTED">>
<1>1. Link("joining") \in Radio /\ Link("joining").link = "joining"
      /\ Link("joining").cfg = radio.cfg /\ Link("joining").joined = radio.joined
  BY LinkFields
<1>2. \/ a = Answer(FALSE, radio, <<>>)
      \/ a = Answer(TRUE, Link("joining"), <<>>) /\ radio.link = "down"
      \/ a = Answer(TRUE, Link("joining"), <<"STA_DISCONNECTED">>) /\ radio.link # "down"
  BY DEF ConnectAnswers
<1>3. CASE a = Answer(FALSE, radio, <<>>)
  <2>1. a.ok = FALSE /\ a.radio = radio /\ a.posted = <<>>
    BY <1>3 DEF Answer
  <2>2. QED
    BY <1>3, <2>1
<1>4. CASE a = Answer(TRUE, Link("joining"), <<>>) /\ radio.link = "down"
  <2>1. a.ok = TRUE /\ a.radio = Link("joining") /\ a.posted = <<>>
    BY <1>4 DEF Answer
  <2>2. QED
    BY <1>1, <1>4, <2>1
<1>5. CASE a = Answer(TRUE, Link("joining"), <<"STA_DISCONNECTED">>) /\ radio.link # "down"
  <2>1. a.ok = TRUE /\ a.radio = Link("joining") /\ a.posted = <<"STA_DISCONNECTED">>
    BY <1>5 DEF Answer
  <2>2. QED
    BY <1>1, <1>5, <2>1
<1>6. QED
  BY <1>2, <1>3, <1>4, <1>5

\* A connect of the driver posts the loss of the link it drops, and leaves none down
\* unless it is refused.
LEMMA Asked ==
  ASSUME radio \in Radio, NEW es \in Seq(Event), NEW ip \in BOOLEAN, Ends(es, ip, radio.link),
         NEW a \in ConnectAnswers
  PROVE  /\ es \o a.posted \in Seq(Event) /\ Len(es \o a.posted) = Len(es) + Len(a.posted)
         /\ Len(es) \in Nat /\ Len(a.posted) \in {0, 1}
         /\ Ends(es \o a.posted, ip, a.radio.link) /\ (a.ok => a.radio.link # "down")
         /\ Holds(es \o a.posted, "GOT_IP") <=> Holds(es, "GOT_IP")
         /\ ~a.ok => a.radio = radio /\ es \o a.posted = es
<1> DEFINE sd == "STA_DISCONNECTED"
<1>1. sd \in Event /\ "GOT_IP" \in Event /\ sd \in Telling /\ sd # "GOT_IP"
  BY DEF Event, Telling
<1>2. es \o <<>> = es /\ Len(<<>>) = 0 /\ Len(es) \in Nat
  OBVIOUS
<1>3. es \o <<sd>> = Append(es, sd) /\ Len(<<sd>>) = 1 /\ <<sd>> # <<>>
  BY <1>1
<1>4. a.posted = <<>> \/ a.posted = <<sd>>
  BY AnswerFields
<1>5. CASE a.posted = <<>>
  <2>1. (a.ok => a.radio.link # "down") /\ (a.radio.link = "up" <=> radio.link = "up")
        /\ (~a.ok => a.radio = radio)
    BY <1>5, <1>3, AnswerFields
  <2>2. Ends(es, ip, a.radio.link)
    BY <2>1, EndsSame
  <2>3. QED
    BY <1>2, <1>5, <2>1, <2>2
<1>6. CASE a.posted = <<sd>>
  <2>1. a.radio.link = "joining" /\ a.ok
    BY <1>6, <1>3, AnswerFields
  <2>2. Ends(Append(es, sd), ip, a.radio.link)
    BY <1>1, <2>1, EndsAppended
  <2>3. Holds(Append(es, sd), "GOT_IP") <=> Holds(es, "GOT_IP")
    BY <1>1, HoldsAppended
  <2>4. Append(es, sd) \in Seq(Event) /\ Len(Append(es, sd)) = Len(es) + 1
    BY <1>1, Appended
  <2>5. QED
    BY <1>2, <1>3, <1>6, <2>1, <2>2, <2>3, <2>4
<1>7. QED
  BY <1>4, <1>5, <1>6

-----------------------------------------------------------------------------
\* The link comes up: an address is on its way, and so is the network.
LEMMA UpKeeps == ASSUME WifiInv, Up PROVE WifiInv'
<1>1. WifiTypeOK /\ radio \in Radio /\ events \in Seq(Event) /\ status.ip \in BOOLEAN
  BY WifiStatusFields DEF WifiInv, WifiTypeOK
<1>2. radio.cfg # NoNet
  BY DEF WifiInv, Unset, Up
<1>3. /\ radio' \in Radio /\ radio'.link = "up" /\ radio'.cfg = radio.cfg
      /\ radio'.joined = radio.joined \cup {radio.cfg}
  BY <1>1, <1>2, UpFields DEF Up
<1>4. /\ events' = Append(events, "GOT_IP") /\ Len(events) + 1 <= MaxEvents
      /\ "GOT_IP" \in Event /\ "GOT_IP" \in Telling
      /\ UNCHANGED <<handler, status, want, bits, call, saved, orderly, outcome>>
  BY DEF Up, Room, Event, Telling
<1>5. events' \in Seq(Event) /\ Len(events') <= MaxEvents
  BY <1>1, <1>4, Appended
<1>6. WifiTypeOK'
  BY <1>1, <1>3, <1>4, <1>5 DEF WifiTypeOK
<1>7. Unset'
  BY <1>2, <1>3 DEF Unset
<1>8. Ends(events, status.ip, radio.link)'
  BY <1>1, <1>3, <1>4, EndsAppended
<1>9. ASSUME orderly PROVE (OneCaller /\ (\A c \in Callers : Mine(c)) /\ LossSeen)'
  BY <1>3, <1>4, <1>9 DEF WifiInv, OneCaller, Mine, Joining, CameUp, Trying, LossSeen
<1>10. QED
  BY <1>4, <1>6, <1>7, <1>8, <1>9 DEF WifiInv

\* The link goes down, or does not come up: the loss is on its way.
LEMMA DownKeeps == ASSUME WifiInv, JoinFails \/ Lost PROVE WifiInv'
<1> DEFINE sd == "STA_DISCONNECTED"
<1>1. WifiTypeOK /\ radio \in Radio /\ events \in Seq(Event) /\ status.ip \in BOOLEAN
  BY WifiStatusFields DEF WifiInv, WifiTypeOK
<1>2. radio.cfg # NoNet
  BY DEF WifiInv, Unset, JoinFails, Lost
<1>3. /\ radio' \in Radio /\ radio'.link = "down" /\ radio'.cfg = radio.cfg
      /\ radio'.joined = radio.joined
  BY <1>1, LinkFields DEF JoinFails, Lost
<1>4. /\ events' = Append(events, sd) /\ Len(events) + 1 <= MaxEvents
      /\ sd \in Event /\ "GOT_IP" \in Event /\ sd \in Telling /\ sd # "GOT_IP"
      /\ UNCHANGED <<handler, status, want, bits, call, saved, orderly, outcome>>
  BY DEF JoinFails, Lost, Room, Event, Telling
<1>5. events' \in Seq(Event) /\ Len(events') <= MaxEvents
  BY <1>1, <1>4, Appended
<1>6. WifiTypeOK'
  BY <1>1, <1>3, <1>4, <1>5 DEF WifiTypeOK
<1>7. Unset'
  BY <1>2, <1>3 DEF Unset
<1>8. Ends(events, status.ip, radio.link)'
  BY <1>1, <1>3, <1>4, EndsAppended
<1>9. Holds(events', sd) /\ (Holds(events', "GOT_IP") <=> Holds(events, "GOT_IP"))
  BY <1>1, <1>4, HoldsAppended
<1>10. ASSUME orderly PROVE (OneCaller /\ (\A c \in Callers : Mine(c)) /\ LossSeen)'
  BY <1>3, <1>4, <1>9, <1>10 DEF WifiInv, OneCaller, Mine, Joining, CameUp, Trying, LossSeen, Seen
<1>11. QED
  BY <1>4, <1>6, <1>7, <1>8, <1>10 DEF WifiInv

\* What the handler takes from the front of the events.
LEMMA HandlerTakes ==
  ASSUME WifiInv, NEW e \in Event, Next1(e)
  PROVE  /\ events \in Seq(Event) /\ events # <<>> /\ Head(events) = e /\ handler = "idle"
         /\ Tail(events) \in Seq(Event) /\ Len(Tail(events)) + 1 = Len(events)
         /\ Len(Tail(events)) \in Nat /\ Len(events) <= MaxEvents
         /\ \A x \in Event : Holds(events, x) <=> Holds(Tail(events), x) \/ x = e
         /\ \A now \in BOOLEAN :
              (now <=> IF e \in Telling THEN e = "GOT_IP" ELSE status.ip)
                => Ends(Tail(events), now, radio.link)
<1>1. /\ events \in Seq(Event) /\ events # <<>> /\ Head(events) = e /\ handler = "idle"
      /\ Len(events) <= MaxEvents /\ status.ip \in BOOLEAN /\ Ends(events, status.ip, radio.link)
  BY WifiStatusFields DEF WifiInv, WifiTypeOK, Next1
<1>2. /\ Tail(events) \in Seq(Event) /\ Len(Tail(events)) + 1 = Len(events)
      /\ Len(Tail(events)) \in Nat
  BY <1>1, Taken
<1>3. \A x \in Event : Holds(events, x) <=> Holds(Tail(events), x) \/ x = e
  BY <1>1, HoldsTaken
<1>4. ASSUME NEW now \in BOOLEAN, now <=> IF e \in Telling THEN e = "GOT_IP" ELSE status.ip
      PROVE  Ends(Tail(events), now, radio.link)
  BY <1>1, <1>4, EndsTaken
<1>5. QED
  BY <1>1, <1>2, <1>3, <1>4

\* The start of the station joins the network a task has named.
LEMMA OnStartKeeps == ASSUME WifiInv, OnStart PROVE WifiInv'
<1>1. /\ WifiTypeOK /\ radio \in Radio /\ status \in Status /\ status.ip \in BOOLEAN
      /\ "STA_START" \in Event /\ "STA_START" \notin Telling /\ "GOT_IP" \in Event
      /\ "STA_DISCONNECTED" \in Event /\ "CONNECTING" \in State
  BY WifiStatusFields DEF WifiInv, WifiTypeOK, Event, Telling, State
<1>2. /\ Next1("STA_START") /\ UNCHANGED <<handler, want, bits, call, saved, orderly>>
  BY DEF OnStart
<1>3. /\ Tail(events) \in Seq(Event) /\ Len(Tail(events)) + 1 <= MaxEvents /\ Len(Tail(events)) \in Nat
      /\ Ends(Tail(events), status.ip, radio.link) /\ handler = "idle"
      /\ Holds(events, "GOT_IP") <=> Holds(Tail(events), "GOT_IP")
      /\ Holds(events, "STA_DISCONNECTED") <=> Holds(Tail(events), "STA_DISCONNECTED")
  BY <1>1, <1>2, HandlerTakes
<1>4. CASE events' = Tail(events) /\ UNCHANGED <<radio, status, outcome>>
  <2>1. WifiTypeOK'
    BY <1>1, <1>2, <1>3, <1>4, WifiAssumption DEF WifiTypeOK
  <2>2. Unset'
    BY <1>2, <1>4 DEF WifiInv, Unset, Joining
  <2>3. Ends(events, status.ip, radio.link)'
    BY <1>3, <1>4
  <2>4. ASSUME orderly PROVE (OneCaller /\ (\A c \in Callers : Mine(c)) /\ LossSeen)'
    BY <1>2, <1>3, <1>4, <2>4 DEF WifiInv, OneCaller, Mine, Joining, CameUp, Trying, LossSeen, Seen, Waiting
  <2>5. QED
    BY <1>2, <2>1, <2>2, <2>3, <2>4 DEF WifiInv
<1>5. CASE /\ want /\ status.named /\ status' = [status EXCEPT !.state = "CONNECTING"]
           /\ \E a \in ConnectAnswers :
                radio' = a.radio /\ events' = Tail(events) \o a.posted /\ Noted(a)
  <2>1. PICK a \in ConnectAnswers :
          radio' = a.radio /\ events' = Tail(events) \o a.posted /\ Noted(a)
    BY <1>5
  <2>2. /\ events' \in Seq(Event) /\ Len(events') <= MaxEvents /\ (a.ok => radio'.link # "down")
        /\ Ends(events', status.ip, radio'.link)
        /\ Holds(events', "GOT_IP") <=> Holds(events, "GOT_IP")
    <3> DEFINE es == Tail(events)
    <3>1. es \in Seq(Event) /\ Ends(es, status.ip, radio.link)
      BY <1>3
    <3> HIDE DEF es
    <3>2. /\ es \o a.posted \in Seq(Event) /\ Len(es \o a.posted) = Len(es) + Len(a.posted)
          /\ Len(es) \in Nat /\ Len(a.posted) \in {0, 1}
          /\ Ends(es \o a.posted, status.ip, a.radio.link) /\ (a.ok => a.radio.link # "down")
          /\ Holds(es \o a.posted, "GOT_IP") <=> Holds(es, "GOT_IP")
      BY <1>1, <3>1, Asked
    <3>3. Len(events') <= MaxEvents
      BY <1>3, <2>1, <3>2, WifiAssumption DEF es
    <3>4. QED
      BY <1>3, <2>1, <3>2, <3>3 DEF es
  <2>3. radio' \in Radio /\ radio'.cfg = radio.cfg /\ radio'.joined = radio.joined
    BY <1>1, <2>1, AnswerFields
  <2>4. outcome' \in {"none", "joined", "refused"} /\ (~a.ok => outcome' = "refused")
    BY <1>1, <2>1 DEF Noted, WifiTypeOK
  <2>5. /\ status' \in Status /\ status'.state = "CONNECTING"
        /\ status'.named = status.named /\ status'.ip = status.ip
    BY <1>1, <1>5, StateFields
  <2>6. WifiTypeOK'
    BY <1>1, <1>2, <2>2, <2>3, <2>4, <2>5 DEF WifiTypeOK
  <2>7. Unset'
    BY <1>5, <2>3 DEF WifiInv, Unset
  <2>8. Ends(events, status.ip, radio.link)'
    BY <2>2, <2>5
  <2>9. ASSUME orderly PROVE (OneCaller /\ (\A c \in Callers : Mine(c)) /\ LossSeen)'
    BY <1>2, <1>5, <2>2, <2>3, <2>4, <2>5, <2>9 DEF WifiInv, OneCaller, Mine, Joining, CameUp, Trying, LossSeen
  <2>10. QED
    BY <1>2, <2>6, <2>7, <2>8, <2>9 DEF WifiInv
<1>6. QED
  BY <1>4, <1>5 DEF OnStart

\* A lost link leaves no address, and is joined again if the status said that it was up
\* or on its way.
LEMMA OnDisconnectedKeeps == ASSUME WifiInv, OnDisconnected PROVE WifiInv'
<1> DEFINE sd == "STA_DISCONNECTED"
<1>1. /\ WifiTypeOK /\ radio \in Radio /\ status \in Status
      /\ sd \in Event /\ sd \in Telling /\ sd # "GOT_IP" /\ "GOT_IP" \in Event
      /\ "DISCONNECTED" \in State /\ FALSE \in BOOLEAN /\ bits \in SUBSET Bit /\ "FAIL" \in Bit
  BY DEF WifiInv, WifiTypeOK, Event, Telling, State, Bit
<1>2. /\ Next1(sd) /\ events' = Tail(events) /\ UNCHANGED <<radio, want, call, saved, orderly, outcome>>
      /\ handler' = (IF Retry THEN "retry" ELSE "idle") /\ bits' = bits \cup {"FAIL"}
  BY DEF OnDisconnected
<1>3. /\ Tail(events) \in Seq(Event) /\ Len(Tail(events)) + 1 = Len(events) /\ Len(Tail(events)) \in Nat
      /\ Len(events) <= MaxEvents
      /\ handler = "idle"
      /\ Holds(events, "GOT_IP") <=> Holds(Tail(events), "GOT_IP")
  BY <1>1, <1>2, HandlerTakes
<1>4. /\ status' \in Status /\ status'.state = "DISCONNECTED"
      /\ status'.named = status.named /\ (status'.ip <=> FALSE)
  BY <1>1, IpFields DEF OnDisconnected
<1>5. bits' \in SUBSET Bit /\ ("CONNECTED" \in bits' <=> "CONNECTED" \in bits)
  BY <1>1, <1>2
<1>6. WifiTypeOK'
  BY <1>1, <1>2, <1>3, <1>4, <1>5, WifiAssumption DEF WifiTypeOK
<1>7. Unset'
  <2>1. ASSUME radio.cfg = NoNet PROVE ~Retry
    BY <2>1 DEF WifiInv, Unset, Retry
  <2>2. ASSUME radio.cfg = NoNet PROVE handler' = "idle"
    BY <1>2, <2>1, <2>2
  <2>3. QED
    BY <1>2, <1>4, <2>2 DEF WifiInv, Unset, Joining
<1>8. Ends(events, status.ip, radio.link)'
  <2>1. status'.ip \in BOOLEAN /\ ~status'.ip
    BY <1>4 DEF Status
  <2>2. Ends(Tail(events), status'.ip, radio.link)
    BY <1>1, <1>2, <2>1, HandlerTakes
  <2>3. QED
    BY <1>2, <2>2
<1>9. ASSUME orderly PROVE (OneCaller /\ (\A c \in Callers : Mine(c)) /\ LossSeen)'
  <2>1. OneCaller' /\ orderly
    BY <1>2, <1>9 DEF WifiInv, OneCaller
  <2>2. Trying => Trying'
    BY <1>2, <1>3, <1>4 DEF Trying, Retry
  <2>3. ASSUME NEW c \in Callers PROVE Mine(c)'
    BY <1>2, <1>3, <1>5, <2>1, <2>2 DEF WifiInv, Mine, Joining, CameUp
  <2>4. LossSeen'
    <3>1. ASSUME NEW c \in Callers, call[c].pc \in {"wait", "store"} PROVE Trying
      BY <2>1, <3>1 DEF WifiInv, Mine
    <3>2. QED
      BY <1>2, <1>4, <2>2, <3>1 DEF LossSeen, Waiting, Trying, Seen
  <2>5. QED
    BY <2>1, <2>3, <2>4
<1>10. QED
  BY <1>2, <1>6, <1>7, <1>8, <1>9 DEF WifiInv

\* The retry joins the network again, finds the driver at it, or is refused.
LEMMA OnRetryKeeps == ASSUME WifiInv, OnRetry PROVE WifiInv'
<1>1. /\ WifiTypeOK /\ radio \in Radio /\ status \in Status /\ status.ip \in BOOLEAN
      /\ events \in Seq(Event) /\ Ends(events, status.ip, radio.link) /\ "CONNECTING" \in State
  BY WifiStatusFields DEF WifiInv, WifiTypeOK, State
<1>2. PICK a \in ConnectAnswers :
        Room(Len(a.posted)) /\ radio' = a.radio /\ events' = events \o a.posted /\ Noted(a)
  BY DEF OnRetry
<1>3. handler = "retry" /\ handler' = "idle" /\ UNCHANGED <<want, bits, call, saved, orderly>>
  BY DEF OnRetry
<1>4. /\ events' \in Seq(Event) /\ Len(events') <= MaxEvents /\ (a.ok => radio'.link # "down")
      /\ Ends(events', status.ip, radio'.link)
      /\ Holds(events', "GOT_IP") <=> Holds(events, "GOT_IP")
  BY <1>1, <1>2, Asked DEF Room
<1>5. outcome' \in {"none", "joined", "refused"} /\ (~a.ok => outcome' = "refused")
  BY <1>1, <1>2 DEF Noted, WifiTypeOK
<1>6. radio' \in Radio /\ radio'.cfg = radio.cfg /\ radio'.joined = radio.joined
  BY <1>1, <1>2, AnswerFields
<1>7. /\ status' \in Status /\ status'.state = "CONNECTING"
      /\ status'.named = status.named /\ status'.ip = status.ip
  BY <1>1, StateFields DEF OnRetry
<1>8. WifiTypeOK'
  BY <1>1, <1>3, <1>4, <1>5, <1>6, <1>7 DEF WifiTypeOK
<1>9. Unset'
  BY <1>3, <1>6 DEF WifiInv, Unset
<1>10. Ends(events, status.ip, radio.link)'
  BY <1>4, <1>7
<1>11. ASSUME orderly PROVE (OneCaller /\ (\A c \in Callers : Mine(c)) /\ LossSeen)'
  BY <1>3, <1>4, <1>5, <1>6, <1>7, <1>11 DEF WifiInv, OneCaller, Mine, Joining, CameUp, Trying, LossSeen
<1>12. QED
  BY <1>3, <1>8, <1>9, <1>10, <1>11 DEF WifiInv

\* An address: if the link is down by now, its loss is among the other events.
LEMMA OnGotIpKeeps == ASSUME WifiInv, OnGotIp PROVE WifiInv'
<1> DEFINE sd == "STA_DISCONNECTED"
<1>1. /\ WifiTypeOK /\ radio \in Radio /\ status \in Status
      /\ "GOT_IP" \in Event /\ "GOT_IP" \in Telling /\ sd \in Event
      /\ "CONNECTED" \in State /\ TRUE \in BOOLEAN /\ bits \in SUBSET Bit /\ "CONNECTED" \in Bit
  BY DEF WifiInv, WifiTypeOK, Event, Telling, State, Bit
<1>2. /\ Next1("GOT_IP") /\ events' = Tail(events)
      /\ UNCHANGED <<radio, handler, want, call, saved, orderly, outcome>> /\ bits' = bits \cup {"CONNECTED"}
  BY DEF OnGotIp
<1>3. /\ Tail(events) \in Seq(Event) /\ Len(Tail(events)) + 1 = Len(events) /\ Len(Tail(events)) \in Nat
      /\ Len(events) <= MaxEvents
      /\ Ends(Tail(events), TRUE, radio.link)
      /\ Holds(events, "GOT_IP") /\ (Holds(Tail(events), "GOT_IP") => Holds(events, "GOT_IP"))
  BY <1>1, <1>2, HandlerTakes
<1>4. /\ status' \in Status /\ status'.state = "CONNECTED"
      /\ status'.named = status.named /\ (status'.ip <=> TRUE)
  BY <1>1, IpFields DEF OnGotIp
<1>5. WifiTypeOK'
  BY <1>1, <1>2, <1>3, <1>4, WifiAssumption DEF WifiTypeOK
<1>6. Unset'
  BY <1>2, <1>4 DEF WifiInv, Unset, Joining
<1>7. Ends(events, status.ip, radio.link)'
  <2>1. status'.ip \in BOOLEAN /\ status'.ip
    BY <1>4 DEF Status
  <2>2. Ends(Tail(events), status'.ip, radio.link)
    BY <1>1, <1>2, <2>1, HandlerTakes
  <2>3. QED
    BY <1>2, <2>2
<1>8. ASSUME orderly PROVE (OneCaller /\ (\A c \in Callers : Mine(c)) /\ LossSeen)'
  <2>1. OneCaller' /\ orderly
    BY <1>2, <1>8 DEF WifiInv, OneCaller
  <2>2. Trying => Trying'
    BY <1>2, <1>4 DEF Trying
  <2>3. ASSUME NEW c \in Callers PROVE Mine(c)'
    BY <1>2, <1>3, <2>1, <2>2 DEF WifiInv, Mine, Joining, CameUp
  <2>4. LossSeen'
    <3>1. radio.link # "up" => Holds(Tail(events), sd)
      BY <1>3, EndsDown
    <3>2. QED
      BY <1>2, <3>1 DEF LossSeen, Seen
  <2>5. QED
    BY <2>1, <2>3, <2>4
<1>9. QED
  BY <1>2, <1>5, <1>6, <1>7, <1>8 DEF WifiInv

\* The other events change nothing of this.
LEMMA OnOtherKeeps == ASSUME WifiInv, OnAccessPoint \/ OnScanDone PROVE WifiInv'
<1>1. /\ WifiTypeOK /\ status \in Status /\ status.ip \in BOOLEAN
      /\ "GOT_IP" \in Event /\ "STA_DISCONNECTED" \in Event
  BY WifiStatusFields DEF WifiInv, WifiTypeOK, Event
<1>2. PICK e \in {"AP_START", "SCAN_DONE"} :
        /\ Next1(e) /\ events' = Tail(events)
        /\ UNCHANGED <<radio, handler, want, bits, call, saved, orderly, outcome>>
        /\ status' \in {status, [status EXCEPT !.ap = TRUE]}
  BY DEF OnAccessPoint, OnScanDone
<1>3. e \in Event /\ e \notin Telling /\ e # "GOT_IP" /\ e # "STA_DISCONNECTED"
  BY DEF Event, Telling
<1>4. /\ Tail(events) \in Seq(Event) /\ Len(Tail(events)) + 1 = Len(events) /\ Len(Tail(events)) \in Nat
      /\ Len(events) <= MaxEvents
      /\ Ends(Tail(events), status.ip, radio.link)
      /\ Holds(events, "GOT_IP") <=> Holds(Tail(events), "GOT_IP")
      /\ Holds(events, "STA_DISCONNECTED") <=> Holds(Tail(events), "STA_DISCONNECTED")
  BY <1>1, <1>2, <1>3, HandlerTakes
<1>5. /\ status' \in Status /\ status'.state = status.state
      /\ status'.named = status.named /\ status'.ip = status.ip
  BY <1>1, <1>2 DEF Status
<1>6. WifiTypeOK'
  BY <1>1, <1>2, <1>4, <1>5, WifiAssumption DEF WifiTypeOK
<1>7. Unset'
  BY <1>2, <1>5 DEF WifiInv, Unset, Joining
<1>8. Ends(events, status.ip, radio.link)'
  BY <1>2, <1>4, <1>5
<1>9. ASSUME orderly PROVE (OneCaller /\ (\A c \in Callers : Mine(c)) /\ LossSeen)'
  BY <1>2, <1>4, <1>5, <1>9 DEF WifiInv, OneCaller, Mine, Joining, CameUp, Trying, LossSeen, Seen, Waiting
<1>10. QED
  BY <1>2, <1>6, <1>7, <1>8, <1>9 DEF WifiInv

-----------------------------------------------------------------------------
\* As long as calls are orderly, a task in a call is the only one.
LEMMA OnlyCaller ==
  ASSUME WifiInv, orderly, NEW c \in Callers, call[c].pc # "idle"
  PROVE  Mine(c) /\ LossSeen /\ \A d \in Callers \ {c} : call[d].pc = "idle"
BY DEF WifiInv, OneCaller

\* So a step of its call leaves to the others what they have.
LEMMA CallerGoesOn ==
  ASSUME NEW c \in Callers, Mine(c)', \A d \in Callers \ {c} : call'[d].pc = "idle"
  PROVE  OneCaller' /\ \A d \in Callers : Mine(d)'
<1>1. ASSUME NEW d \in Callers, d # c PROVE Mine(d)'
  BY <1>1 DEF Mine, Joining
<1>2. OneCaller'
  BY DEF OneCaller
<1>3. QED
  BY <1>1, <1>2

\* A call that ends, or begins.
LEMMA NoCallFields ==
  ASSUME NEW n \in Name
  PROVE  LET r == [NoCall EXCEPT !.pc = "mark", !.net = n]
         IN  r \in Call /\ r.pc = "mark" /\ r.net = n /\ NoCall \in Call /\ NoCall.pc = "idle"
BY DEF NoCall, Call, Pc, Name, Bit

LEMMA EndedCall ==
  ASSUME call \in [Callers -> Call], NEW c \in Callers, call' = [call EXCEPT ![c] = NoCall]
  PROVE  /\ call' \in [Callers -> Call] /\ call'[c].pc = "idle"
         /\ \A d \in Callers \ {c} : call'[d] = call[d]
<1>1. NoCall \in Call /\ NoCall.pc = "idle"
  BY DEF NoCall, Call, Pc, Name, Bit
<1>2. QED
  BY <1>1

\* connect begins with nothing under way, or what follows is not orderly.
LEMMA ConnectBeginKeeps ==
  ASSUME WifiInv, NEW c \in Callers, NEW n \in Networks, ConnectBegin(c, n)
  PROVE  WifiInv'
<1>1. /\ WifiTypeOK /\ n \in Name /\ n # NoNet /\ events' = events /\ want' = TRUE
      /\ call[c].pc = "idle" /\ UNCHANGED <<events, handler, status, bits, saved, outcome>>
      /\ orderly' = (orderly /\ AtRest)
  BY WifiAssumption DEF WifiInv, ConnectBegin, Name
<1>2. orderly' \in BOOLEAN /\ (orderly' => orderly /\ AtRest)
  BY <1>1, Zenon DEF WifiTypeOK
<1>3. CASE UNCHANGED <<radio, call>>
  <2>1. WifiTypeOK'
    BY <1>1, <1>2, <1>3 DEF WifiTypeOK
  <2>2. Unset' /\ Ends(events, status.ip, radio.link)'
    BY <1>1, <1>3 DEF WifiInv, Unset, Joining
  <2>3. ASSUME orderly' PROVE (OneCaller /\ (\A d \in Callers : Mine(d)) /\ LossSeen)'
    BY <1>1, <1>2, <1>3, <2>3 DEF WifiInv, OneCaller, Mine, Joining, CameUp, Trying, LossSeen, Seen, Waiting
  <2>4. QED
    BY <2>1, <2>2, <2>3 DEF WifiInv
<1>4. CASE /\ radio' = [radio EXCEPT !.cfg = n]
           /\ call' = [call EXCEPT ![c] = [NoCall EXCEPT !.pc = "mark", !.net = n]]
  <2> DEFINE new == [NoCall EXCEPT !.pc = "mark", !.net = n]
  <2>1. new \in Call /\ new.pc = "mark" /\ new.net = n
    BY <1>1, NoCallFields
  <2> HIDE DEF new
  <2>2. call' \in [Callers -> Call] /\ call'[c] = new /\ \A d \in Callers \ {c} : call'[d] = call[d]
    BY <1>1, <1>4, <2>1 DEF WifiTypeOK, new
  <2>3. /\ radio' \in Radio /\ radio'.cfg = n /\ radio'.link = radio.link
        /\ radio'.joined = radio.joined
    BY <1>1, <1>4 DEF WifiTypeOK, Radio
  <2>4. WifiTypeOK'
    BY <1>1, <1>2, <2>2, <2>3 DEF WifiTypeOK
  <2>5. Unset' /\ Ends(events, status.ip, radio.link)'
    BY <1>1, <2>3 DEF WifiInv, Unset
  <2>6. ASSUME orderly' PROVE (OneCaller /\ (\A d \in Callers : Mine(d)) /\ LossSeen)'
    <3>1. \A d \in Callers \ {c} : call'[d].pc = "idle"
      BY <1>2, <2>2, <2>6 DEF AtRest
    <3>2. ~Holds(events, "GOT_IP")
      BY <1>2, <2>6 DEF AtRest, Holds
    <3>3. Mine(c)'
      BY <1>1, <2>1, <2>2, <2>3, <3>2 DEF Mine, Joining
    <3>4. LossSeen'
      BY <1>1, <1>2, <2>1, <2>2, <2>3, <2>6, <3>1 DEF WifiInv, LossSeen, Waiting, Seen
    <3>5. QED
      BY <3>1, <3>3, <3>4, CallerGoesOn
  <2>7. QED
    BY <2>4, <2>5, <2>6 DEF WifiInv
<1>5. QED
  BY <1>3, <1>4 DEF ConnectBegin

\* The task names the network.
LEMMA ConnectMarkKeeps == ASSUME WifiInv, NEW c \in Callers, ConnectMark(c) PROVE WifiInv'
<1>1. /\ WifiTypeOK /\ call[c].pc = "mark" /\ Joining(c)
      /\ UNCHANGED <<radio, events, handler, want, bits, saved, orderly>> /\ outcome' = "none"
  BY DEF WifiInv, ConnectMark, Joining
<1>2. /\ call' \in [Callers -> Call] /\ call'[c].pc = "clear" /\ call'[c].net = call[c].net
      /\ \A d \in Callers \ {c} : call'[d] = call[d]
  <2>1. "clear" \in Pc /\ Goto(c, "clear") /\ call \in [Callers -> Call]
    BY <1>1 DEF Pc, ConnectMark, WifiTypeOK
  <2>2. QED
    BY <2>1, CallFields
<1>3. /\ status' \in Status /\ status'.state = "CONNECTING" /\ status'.named
      /\ status'.ip = status.ip
  BY <1>1 DEF ConnectMark, WifiTypeOK, Status, State
<1>4. WifiTypeOK'
  BY <1>1, <1>2, <1>3 DEF WifiTypeOK
<1>5. Unset' /\ Ends(events, status.ip, radio.link)'
  BY <1>1, <1>3 DEF WifiInv, Unset
<1>6. ASSUME orderly PROVE (OneCaller /\ (\A d \in Callers : Mine(d)) /\ LossSeen)'
  <2>1. Mine(c) /\ \A d \in Callers \ {c} : call'[d].pc = "idle"
    BY <1>1, <1>2, <1>6, OnlyCaller
  <2>2. Mine(c)'
    BY <1>1, <1>2, <1>3, <2>1 DEF Mine, Joining, CameUp, Trying
  <2>3. LossSeen'
    BY <1>2, <1>3, <2>1 DEF LossSeen, Waiting
  <2>4. QED
    BY <2>1, <2>2, <2>3, CallerGoesOn
<1>7. QED
  BY <1>1, <1>4, <1>5, <1>6 DEF WifiInv

\* The bits of earlier attempts go.
LEMMA ConnectClearKeeps == ASSUME WifiInv, NEW c \in Callers, ConnectClear(c) PROVE WifiInv'
<1>1. /\ WifiTypeOK /\ call[c].pc = "clear" /\ Joining(c) /\ bits' = {}
      /\ UNCHANGED <<radio, events, handler, status, want, saved, orderly, outcome>>
  BY DEF WifiInv, ConnectClear, Joining
<1>2. /\ call' \in [Callers -> Call] /\ call'[c].pc = "radio" /\ call'[c].net = call[c].net
      /\ \A d \in Callers \ {c} : call'[d] = call[d]
  <2>1. "radio" \in Pc /\ Goto(c, "radio") /\ call \in [Callers -> Call]
    BY <1>1 DEF Pc, ConnectClear, WifiTypeOK
  <2>2. QED
    BY <2>1, CallFields
<1>3. WifiTypeOK'
  BY <1>1, <1>2 DEF WifiTypeOK
<1>4. Unset' /\ Ends(events, status.ip, radio.link)'
  BY <1>1 DEF WifiInv, Unset
<1>5. ASSUME orderly PROVE (OneCaller /\ (\A d \in Callers : Mine(d)) /\ LossSeen)'
  <2>1. Mine(c) /\ LossSeen /\ \A d \in Callers \ {c} : call'[d].pc = "idle"
    BY <1>1, <1>2, <1>5, OnlyCaller
  <2>2. Mine(c)'
    BY <1>1, <1>2, <2>1 DEF Mine, Joining, CameUp, Trying
  <2>3. LossSeen'
    BY <1>1, <1>2, <2>1 DEF LossSeen, Waiting, Seen
  <2>4. QED
    BY <2>1, <2>2, <2>3, CallerGoesOn
<1>6. QED
  BY <1>1, <1>3, <1>4, <1>5 DEF WifiInv

\* The driver is asked to join: refused, the call ends; else it waits for the bits.
LEMMA ConnectRadioKeeps == ASSUME WifiInv, NEW c \in Callers, ConnectRadio(c) PROVE WifiInv'
<1>1. /\ WifiTypeOK /\ call[c].pc = "radio" /\ Joining(c) /\ radio \in Radio
      /\ status \in Status /\ status.ip \in BOOLEAN /\ events \in Seq(Event)
      /\ call \in [Callers -> Call] /\ Ends(events, status.ip, radio.link) /\ "FAILED" \in State
      /\ UNCHANGED <<handler, want, bits, saved, orderly, outcome>>
  BY WifiStatusFields DEF WifiInv, WifiTypeOK, ConnectRadio, Joining, State
<1>2. PICK a \in ConnectAnswers :
        /\ Room(Len(a.posted))
        /\ radio' = a.radio /\ events' = events \o a.posted
        /\ \/ a.ok /\ Goto(c, "wait") /\ UNCHANGED status
           \/ ~a.ok /\ call' = [call EXCEPT ![c] = NoCall] /\ Set("FAILED")
  BY DEF ConnectRadio
<1>3. /\ events' \in Seq(Event) /\ Len(events') <= MaxEvents /\ (a.ok => radio'.link # "down")
      /\ Ends(events', status.ip, radio'.link)
      /\ Holds(events', "GOT_IP") <=> Holds(events, "GOT_IP")
  BY <1>1, <1>2, Asked DEF Room
<1>4. radio' \in Radio /\ radio'.cfg = radio.cfg /\ radio'.joined = radio.joined
  BY <1>1, <1>2, AnswerFields
<1>5. radio.cfg # NoNet
  BY <1>1 DEF WifiInv, Unset
<1>6. CASE a.ok /\ Goto(c, "wait") /\ UNCHANGED status
  <2>1. /\ call' \in [Callers -> Call] /\ call'[c].pc = "wait" /\ call'[c].net = call[c].net
        /\ \A d \in Callers \ {c} : call'[d] = call[d]
    <3>1. "wait" \in Pc
      BY DEF Pc
    <3>2. QED
      BY <1>1, <1>6, <3>1, CallFields
  <2>2. WifiTypeOK'
    BY <1>1, <1>3, <1>4, <1>6, <2>1 DEF WifiTypeOK
  <2>3. Unset' /\ Ends(events, status.ip, radio.link)'
    BY <1>3, <1>4, <1>5, <1>6 DEF Unset
  <2>4. ASSUME orderly PROVE (OneCaller /\ (\A d \in Callers : Mine(d)) /\ LossSeen)'
    <3>1. Mine(c) /\ \A d \in Callers \ {c} : call'[d].pc = "idle"
      BY <1>1, <2>1, <2>4, OnlyCaller
    <3>2. Mine(c)'
      BY <1>1, <1>3, <1>4, <1>6, <2>1, <3>1 DEF Mine, Joining, CameUp, Trying
    <3>3. LossSeen'
      BY <1>3, <1>6 DEF LossSeen
    <3>4. QED
      BY <3>1, <3>2, <3>3, CallerGoesOn
  <2>5. QED
    BY <1>1, <2>2, <2>3, <2>4 DEF WifiInv
<1>7. CASE call' = [call EXCEPT ![c] = NoCall] /\ Set("FAILED")
  <2>1. /\ call' \in [Callers -> Call] /\ call'[c].pc = "idle"
        /\ \A d \in Callers \ {c} : call'[d] = call[d]
    BY <1>1, <1>7, EndedCall
  <2>2. /\ status' \in Status /\ status'.state = "FAILED"
        /\ status'.named = status.named /\ status'.ip = status.ip
    BY <1>1, <1>7, StateFields DEF Set
  <2>3. WifiTypeOK'
    BY <1>1, <1>3, <1>4, <2>1, <2>2 DEF WifiTypeOK
  <2>4. Unset' /\ Ends(events, status.ip, radio.link)'
    BY <1>3, <1>4, <1>5, <2>2 DEF Unset
  <2>5. ASSUME orderly PROVE (OneCaller /\ (\A d \in Callers : Mine(d)) /\ LossSeen)'
    <3>1. \A d \in Callers \ {c} : call'[d].pc = "idle"
      BY <1>1, <2>1, <2>5, OnlyCaller
    <3>2. Mine(c)'
      BY <2>1 DEF Mine, Joining
    <3>3. LossSeen'
      BY <2>1, <2>2, <3>1 DEF LossSeen, Waiting
    <3>4. QED
      BY <3>1, <3>2, <3>3, CallerGoesOn
  <2>6. QED
    BY <1>1, <2>3, <2>4, <2>5 DEF WifiInv
<1>8. QED
  BY <1>2, <1>6, <1>7

\* The task takes the bits as they are.
LEMMA ConnectWaitKeeps == ASSUME WifiInv, NEW c \in Callers, ConnectWait(c) PROVE WifiInv'
<1>1. /\ WifiTypeOK /\ call[c].pc = "wait" /\ Joining(c) /\ call \in [Callers -> Call]
      /\ bits \in SUBSET Bit
      /\ UNCHANGED <<radio, events, handler, status, want, bits, saved, orderly, outcome>>
  BY DEF WifiInv, WifiTypeOK, ConnectWait, Joining
<1>2. /\ call' \in [Callers -> Call] /\ call'[c].pc = "store" /\ call'[c].net = call[c].net
      /\ call'[c].got = bits /\ \A d \in Callers \ {c} : call'[d] = call[d]
  BY <1>1 DEF ConnectWait, Call, Pc
<1>3. WifiTypeOK'
  BY <1>1, <1>2 DEF WifiTypeOK
<1>4. Unset' /\ Ends(events, status.ip, radio.link)'
  BY <1>1 DEF WifiInv, Unset
<1>5. ASSUME orderly PROVE (OneCaller /\ (\A d \in Callers : Mine(d)) /\ LossSeen)'
  <2>1. Mine(c) /\ LossSeen /\ \A d \in Callers \ {c} : call'[d].pc = "idle"
    BY <1>1, <1>2, <1>5, OnlyCaller
  <2>2. Mine(c)'
    BY <1>1, <1>2, <2>1 DEF Mine, Joining, CameUp, Trying
  <2>3. LossSeen'
    BY <1>1, <1>2, <2>1 DEF LossSeen, Waiting, Seen
  <2>4. QED
    BY <2>1, <2>2, <2>3, CallerGoesOn
<1>6. QED
  BY <1>1, <1>3, <1>4, <1>5 DEF WifiInv

\* The call ends: CONNECTED is only said of a link that is up, or whose loss is to be seen.
LEMMA ConnectStoreKeeps == ASSUME WifiInv, NEW c \in Callers, ConnectStore(c) PROVE WifiInv'
<1>1. /\ WifiTypeOK /\ call[c].pc = "store" /\ Joining(c) /\ status \in Status
      /\ call \in [Callers -> Call] /\ saved \in Name /\ call[c].net \in Name
      /\ call' = [call EXCEPT ![c] = NoCall]
      /\ UNCHANGED <<radio, events, handler, want, bits, orderly>>
      /\ outcome' \in {"none", "joined", "refused"} /\ (outcome = "refused" => outcome' = "refused")
  BY DEF WifiInv, WifiTypeOK, ConnectStore, Joining, Call
<1>2. PICK s \in {"CONNECTED", "FAILED"} : Set(s) /\ saved' \in {saved, call[c].net}
  BY DEF ConnectStore
<1>3. /\ call' \in [Callers -> Call] /\ call'[c].pc = "idle"
      /\ \A d \in Callers \ {c} : call'[d] = call[d]
  BY <1>1, EndedCall
<1>4. /\ status' \in Status /\ status'.named = status.named /\ status'.ip = status.ip
  BY <1>1, <1>2, StateFields DEF Set, State
<1>5. WifiTypeOK'
  BY <1>1, <1>2, <1>3, <1>4 DEF WifiTypeOK
<1>6. Unset' /\ Ends(events, status.ip, radio.link)'
  BY <1>1, <1>4 DEF WifiInv, Unset
<1>7. ASSUME orderly PROVE (OneCaller /\ (\A d \in Callers : Mine(d)) /\ LossSeen)'
  <2>1. LossSeen /\ \A d \in Callers \ {c} : call'[d].pc = "idle"
    BY <1>1, <1>3, <1>7, OnlyCaller
  <2>2. Mine(c)'
    BY <1>3 DEF Mine, Joining
  <2>3. LossSeen'
    BY <1>1, <2>1 DEF LossSeen, Waiting, Seen
  <2>4. QED
    BY <2>1, <2>2, <2>3, CallerGoesOn
<1>8. QED
  BY <1>1, <1>5, <1>6, <1>7 DEF WifiInv

\* A scan begins with nothing under way, or what follows is not orderly.
LEMMA ScanBeginKeeps == ASSUME WifiInv, NEW c \in Callers, ScanBegin(c) PROVE WifiInv'
<1>1. /\ WifiTypeOK /\ call[c].pc = "idle" /\ status \in Status /\ call \in [Callers -> Call]
      /\ Set("SCANNING") /\ Goto(c, "scan") /\ "scan" \in Pc /\ "SCANNING" \in State
      /\ UNCHANGED <<radio, events, handler, want, bits, saved>>
      /\ orderly' = (orderly /\ AtRest) /\ outcome' = "none"
  BY DEF WifiInv, WifiTypeOK, ScanBegin, Pc, State
<1>2. orderly' \in BOOLEAN /\ (orderly' => orderly /\ AtRest)
  BY <1>1, Zenon DEF WifiTypeOK
<1>3. /\ call' \in [Callers -> Call] /\ call'[c].pc = "scan"
      /\ \A d \in Callers \ {c} : call'[d] = call[d]
  BY <1>1, CallFields
<1>4. /\ status' \in Status /\ status'.state = "SCANNING"
      /\ status'.named = status.named /\ status'.ip = status.ip
  BY <1>1, StateFields DEF Set
<1>5. WifiTypeOK'
  BY <1>1, <1>2, <1>3, <1>4 DEF WifiTypeOK
<1>6. Unset' /\ Ends(events, status.ip, radio.link)'
  BY <1>1, <1>3, <1>4 DEF WifiInv, Unset, Joining
<1>7. ASSUME orderly' PROVE (OneCaller /\ (\A d \in Callers : Mine(d)) /\ LossSeen)'
  <2>1. \A d \in Callers \ {c} : call'[d].pc = "idle"
    BY <1>2, <1>3, <1>7 DEF AtRest
  <2>2. Mine(c)'
    BY <1>3 DEF Mine, Joining
  <2>3. LossSeen'
    BY <1>3, <1>4, <2>1 DEF LossSeen, Waiting
  <2>4. QED
    BY <2>1, <2>2, <2>3, CallerGoesOn
<1>8. QED
  BY <1>5, <1>6, <1>7 DEF WifiInv

\* A scan that is over takes the status with it.
LEMMA ScanEndKeeps == ASSUME WifiInv, NEW c \in Callers, ScanEnd(c) PROVE WifiInv'
<1>1. /\ WifiTypeOK /\ call[c].pc = "scan" /\ status \in Status /\ status.ip \in BOOLEAN
      /\ call \in [Callers -> Call] /\ events \in Seq(Event) /\ Len(events) <= MaxEvents
      /\ Goto(c, "idle") /\ "idle" \in Pc
      /\ UNCHANGED <<radio, handler, want, bits, saved, orderly>> /\ outcome' = "none"
  BY WifiStatusFields DEF WifiInv, WifiTypeOK, ScanEnd, Pc
<1>2. PICK s \in {"FAILED", "IDLE"} :
        /\ Set(s)
        /\ events' = events \/ (Room(1) /\ events' = Append(events, "SCAN_DONE"))
  BY <1>1 DEF ScanEnd
<1>3. /\ call' \in [Callers -> Call] /\ call'[c].pc = "idle"
      /\ \A d \in Callers \ {c} : call'[d] = call[d]
  BY <1>1, CallFields
<1>4. /\ status' \in Status /\ status'.state = s /\ s # "CONNECTED"
      /\ status'.named = status.named /\ status'.ip = status.ip
  BY <1>1, <1>2, StateFields DEF Set, State
<1>5. /\ events' \in Seq(Event) /\ Len(events') <= MaxEvents
      /\ Ends(events', status.ip, radio.link)
  <2>1. "SCAN_DONE" \in Event /\ "SCAN_DONE" \notin Telling
    BY DEF Event, Telling
  <2>2. CASE events' = events
    BY <1>1, <2>2 DEF WifiInv
  <2>3. CASE Room(1) /\ events' = Append(events, "SCAN_DONE")
    <3>1. Ends(Append(events, "SCAN_DONE"), status.ip, radio.link)
      BY <1>1, <2>1, EndsAppended DEF WifiInv
    <3>2. QED
      BY <1>1, <2>1, <2>3, <3>1, Appended DEF Room
  <2>4. QED
    BY <1>2, <2>2, <2>3
<1>6. WifiTypeOK'
  BY <1>1, <1>3, <1>4, <1>5 DEF WifiTypeOK
<1>7. Unset' /\ Ends(events, status.ip, radio.link)'
  BY <1>1, <1>3, <1>4, <1>5 DEF WifiInv, Unset, Joining
<1>8. ASSUME orderly PROVE (OneCaller /\ (\A d \in Callers : Mine(d)) /\ LossSeen)'
  <2>1. \A d \in Callers \ {c} : call'[d].pc = "idle"
    BY <1>1, <1>3, <1>8, OnlyCaller
  <2>2. Mine(c)'
    BY <1>3 DEF Mine, Joining
  <2>3. LossSeen'
    BY <1>3, <1>4, <2>1 DEF LossSeen, Waiting
  <2>4. QED
    BY <2>1, <2>2, <2>3, CallerGoesOn
<1>9. QED
  BY <1>1, <1>6, <1>7, <1>8 DEF WifiInv

-----------------------------------------------------------------------------
\* What the two tasks, the driver and the handler do to the service.
LEMMA NetSteps ==
  ASSUME NetTypeOK, NetNext
  PROVE  \/ UNCHANGED wifiVars
         \/ \E c \in Callers, n \in Networks : ConnectBegin(c, n)
         \/ \E c \in Callers : ScanBegin(c) \/ CallStep(c)
         \/ Up \/ JoinFails \/ Lost \/ Handler
<1>1. joiner \in Callers /\ shell \in Callers
  BY ConnectivityAssumption
<1>2. CASE AutoTask
  <2>1. CASE AutoConnect
    <3>1. saved \in Networks /\ ConnectBegin(joiner, saved)
      BY <2>1 DEF AutoConnect, NetTypeOK, WifiTypeOK, Name
    <3>2. QED
      BY <1>1, <3>1
  <2>2. CASE AutoSkip \/ AutoStep
    <3>1. UNCHANGED wifiVars \/ CallStep(joiner)
      BY <2>2 DEF AutoSkip, AutoStep
    <3>2. QED
      BY <1>1, <3>1
  <2>3. QED
    BY <1>2, <2>1, <2>2 DEF AutoTask
<1>3. QED
  BY <1>1, <1>2 DEF NetNext, Console, ConsoleStep, Driver, EventTask

LEMMA BootTyped == ASSUME NetTypeOK, [NetNext]_netVars PROVE boot' \in {"sleep", "connect", "gone"}
<1>1. CASE AutoTask
  BY <1>1 DEF AutoTask, AutoSkip, AutoConnect, AutoStep, NetTypeOK
<1>2. CASE boot' = boot
  BY <1>2 DEF NetTypeOK
<1>3. CASE Console \/ ConsoleStep \/ Driver \/ EventTask
  <2>1. boot' = boot
    BY <1>3 DEF Console, ConsoleStep, Driver, EventTask
  <2>2. QED
    BY <1>2, <2>1
<1>4. QED
  BY <1>1, <1>2, <1>3 DEF NetNext, netVars

LEMMA WifiStays == ASSUME WifiInv, UNCHANGED wifiVars PROVE WifiInv'
BY DEF wifiVars, WifiInv, WifiTypeOK, Unset, Joining, OneCaller, Mine, CameUp, Trying, LossSeen,
       Waiting, Seen

LEMMA NetBegins == NetInit => NetInv
<1> SUFFICES ASSUME NetInit PROVE NetInv
  OBVIOUS
<1>1. NoCall \in Call /\ NoCall.pc = "idle"
  BY DEF NoCall, Call, Pc, Name, Bit
<1>2. \A c \in Callers : call[c] = NoCall
  BY DEF NetInit, WifiInit
<1>3. events = <<"STA_START", "AP_START">> /\ events \in Seq(Event) /\ Len(events) = 2
      /\ events[1] = "STA_START" /\ events[2] = "AP_START"
  BY DEF NetInit, WifiInit, Event
<1>4. radio \in Radio /\ radio.link = "down"
  BY DEF NetInit, WifiInit, Radio, Name
<1>5. status \in Status /\ status.state = "IDLE" /\ ~status.named /\ ~status.ip
  BY DEF NetInit, WifiInit, Status, State
<1>6. want \in BOOLEAN /\ orderly \in BOOLEAN /\ outcome \in {"none", "joined", "refused"}
  BY Zenon DEF NetInit, WifiInit
<1>7. WifiTypeOK
  BY <1>1, <1>3, <1>4, <1>5, <1>6, WifiAssumption DEF NetInit, WifiInit, WifiTypeOK
<1>8. Ends(events, status.ip, radio.link)
  <2>1. \A i \in 1 .. Len(events) : events[i] \notin Telling
    BY <1>3 DEF Telling
  <2>2. QED
    BY <1>4, <1>5, <2>1 DEF Ends
<1>9. Unset /\ OneCaller /\ (\A c \in Callers : Mine(c)) /\ LossSeen
  BY <1>1, <1>2, <1>5 DEF NetInit, WifiInit, Unset, OneCaller, Mine, Joining, LossSeen, Waiting
<1>10. QED
  BY <1>7, <1>8, <1>9 DEF NetInv, NetTypeOK, NetInit, WifiInv

LEMMA NetGoesOn == NetInv /\ [NetNext]_netVars => NetInv'
<1> SUFFICES ASSUME NetInv, [NetNext]_netVars PROVE NetInv'
  OBVIOUS
<1>1. WifiInv /\ NetTypeOK
  BY DEF NetInv
<1>2. WifiInv'
  <2>1. CASE UNCHANGED wifiVars
    BY <1>1, <2>1, WifiStays
  <2>2. CASE \E c \in Callers, n \in Networks : ConnectBegin(c, n)
    BY <1>1, <2>2, ConnectBeginKeeps
  <2>3. ASSUME NEW c \in Callers, ScanBegin(c) \/ CallStep(c) PROVE WifiInv'
    BY <1>1, <2>3, ScanBeginKeeps, ConnectMarkKeeps, ConnectClearKeeps, ConnectRadioKeeps,
       ConnectWaitKeeps, ConnectStoreKeeps, ScanEndKeeps DEF CallStep
  <2>4. CASE Up \/ JoinFails \/ Lost
    BY <1>1, <2>4, UpKeeps, DownKeeps
  <2>5. CASE Handler
    BY <1>1, <2>5, OnStartKeeps, OnDisconnectedKeeps, OnRetryKeeps, OnGotIpKeeps, OnOtherKeeps
       DEF Handler
  <2>6. CASE NetNext
    BY <1>1, <2>1, <2>2, <2>3, <2>4, <2>5, <2>6, NetSteps
  <2>7. QED
    BY <2>1, <2>6 DEF netVars, wifiVars
<1>3. NetTypeOK'
  BY <1>1, <1>2, BootTyped DEF WifiInv, NetTypeOK
<1>4. QED
  BY <1>2, <1>3 DEF NetInv

\* Whatever networks there are and however many events may wait: nothing goes out of its
\* type, the service has an address exactly while the link is up once the events are
\* handled, and CONNECTED is not left behind by a lost link unless a call was made into
\* another call or an event, or the driver refused a retry (wifi_service.cpp:45-59, 72-83,
\* 205-216).
THEOREM WifiStatusIsTrue == NetFairSpec => []Sound
<1>1. NetInv => Sound
  <2>1. ASSUME NetInv, AtRest
        PROVE  /\ status.ip <=> radio.link = "up"
               /\ orderly /\ outcome # "refused" /\ status.state = "CONNECTED" => radio.link # "down"
    <3>1. ~\E i \in 1 .. Len(events) : TRUE
      BY <2>1 DEF AtRest
    <3>2. QED
      BY <2>1, <3>1 DEF NetInv, WifiInv, AtRest, Ends, LossSeen, Seen, Holds
  <2>2. QED
    BY <2>1 DEF Sound, StatusIsTrue, NetInv
<1>2. QED
  BY <1>1, NetBegins, NetGoesOn, PTL DEF NetSpec, NetFairSpec

\* As long as no call is made into another call or an unhandled event, a network is saved
\* only after a join to it came up: the bits of an earlier attempt never make a later one
\* succeed (wifi_service.cpp:197-216).
THEOREM OnlyJoinedIsSaved == NetFairSpec => SavedWasJoined
<1>1. ASSUME NetInv, [NetNext]_netVars
      PROVE  [orderly => saved' = saved \/ saved' \in radio.joined]_wifiVars
  <2>1. ASSUME NEW c \in Callers, ConnectStore(c), orderly
        PROVE  saved' = saved \/ saved' \in radio.joined
    <3>1. Mine(c) /\ call[c].pc = "store"
      BY <1>1, <2>1, OnlyCaller DEF NetInv, ConnectStore
    <3>2. QED
      BY <2>1, <3>1 DEF ConnectStore, Mine, CameUp
  <2>2. ASSUME NEW c \in Callers, CallStep(c), orderly
        PROVE  saved' = saved \/ saved' \in radio.joined
    BY <2>1, <2>2 DEF CallStep, ConnectMark, ConnectClear, ConnectRadio, ConnectWait, ScanEnd
  <2>3. ASSUME NetNext, orderly, ~UNCHANGED wifiVars
        PROVE  saved' = saved \/ saved' \in radio.joined
    <3>1. CASE \E c \in Callers, n \in Networks : ConnectBegin(c, n)
      BY <3>1 DEF ConnectBegin
    <3>2. CASE \E c \in Callers : ScanBegin(c) \/ CallStep(c)
      BY <2>2, <2>3, <3>2 DEF ScanBegin
    <3>3. CASE Up \/ JoinFails \/ Lost \/ Handler
      BY <3>3 DEF Up, JoinFails, Lost, Handler, OnStart, OnDisconnected, OnRetry, OnGotIp,
                  OnAccessPoint, OnScanDone
    <3>4. QED
      BY <1>1, <2>3, <3>1, <3>2, <3>3, NetSteps DEF NetInv
  <2>4. QED
    BY <1>1, <2>3 DEF netVars, wifiVars
<1>2. QED
  BY <1>1, NetBegins, NetGoesOn, PTL DEF NetSpec, NetFairSpec, SavedWasJoined

=============================================================================
