--------------------------- MODULE SettingsStore ----------------------------
(***************************************************************************)
(* components/storage: the settings in RAM, their copy in flash, and the   *)
(* tasks that change and save them with no lock: the console, for          *)
(* brightness, factory_reset and wifi connect, and WIFI_CONN, which saves  *)
(* the network it joined after boot.  A save writes every key in turn and  *)
(* goes on after a write that failed.  A reset comes between any two steps *)
(* and keeps what was written.                                             *)
(*                                                                         *)
(* The flash (nvs_* of ESP-IDF) is external: a set that succeeded is kept, *)
(* one that failed changes nothing.  Values are numbers, 0 the default.    *)
(* The keys that nothing changes at run time are left out.                 *)
(***************************************************************************)
EXTENDS Naturals, Sequences

CONSTANTS
  cli, auto,  \* the console's task and WIFI_CONN
  Values,     \* values of a setting; 0 is the default, and no network
  Absent      \* a key with no value in flash

ASSUME StoreAssumption == cli # auto /\ 0 \in Values /\ Absent \notin Values

Savers == {cli, auto}

VARIABLES
  ram,     \* settings_
  nvs,     \* the flash
  saver,   \* each task's progress: what to do next, the key, the value at hand
  joined,  \* WIFI_CONN's one connection: not tried, being tried, done
  clean    \* history: the last save to end met no failure and no other change

vars == <<ram, nvs, saver, joined, clean>>

\* In the order in which save writes them.
Keys == <<"wifi_ssid", "wifi_pass", "brightness">>
Key == {"wifi_ssid", "wifi_pass", "brightness"}
Idle == [at |-> "idle", key |-> 1, value |-> 0, ok |-> TRUE]

TypeOK ==
  /\ ram \in [Key -> Values]
  /\ nvs \in [Key -> Values \cup {Absent}]
  /\ saver \in [Savers -> [at : {"idle", "pass", "read", "write"}, key : 1..3, value : Values, ok : BOOLEAN]]
  /\ joined \in {"no", "trying", "done"} /\ clean \in BOOLEAN

\* load: a key that is absent, or cannot be read, keeps its default.
Loaded(flash) == [k \in Key |-> IF flash[k] = Absent THEN 0 ELSE flash[k]]

Init ==
  /\ nvs = [k \in Key |-> Absent]
  /\ ram = Loaded(nvs)
  /\ saver = [t \in Savers |-> Idle]
  /\ joined = "no" /\ clean = TRUE

Doing(t, at) == saver[t].at = at
Become(t, s) == saver' = [saver EXCEPT ![t] = s]
Alone(t) == \A u \in Savers \ {t} : Doing(u, "idle")

-----------------------------------------------------------------------------
(* Changes, each followed by a save                                        *)

\* History: a change during another task's save spoils both.
Spoiled(t) == [u \in Savers |-> IF u # t /\ ~Alone(t) THEN [saver[u] EXCEPT !.ok = FALSE] ELSE saver[u]]

Begin(t, at, v) ==
  /\ Doing(t, "idle")
  /\ saver' = [Spoiled(t) EXCEPT ![t] = [Idle EXCEPT !.at = at, !.value = v, !.ok = Alone(t)]]
  /\ clean' = FALSE
  /\ UNCHANGED nvs

SetBrightness(v) ==
  Begin(cli, "read", v) /\ ram' = [ram EXCEPT !["brightness"] = v] /\ UNCHANGED joined

FactoryReset ==
  Begin(cli, "read", 0) /\ ram' = [k \in Key |-> 0] /\ UNCHANGED joined

\* The end of connect: the name first, then the password.
SetNetwork(t, v) == Begin(t, "pass", v) /\ ram' = [ram EXCEPT !["wifi_ssid"] = v]
Connected(v) == SetNetwork(cli, v) /\ UNCHANGED joined

\* The name is tested and copied before the attempt; what was joined is saved after it.
AutoTries ==
  /\ joined = "no"
  /\ joined' = IF ram["wifi_ssid"] # 0 THEN "trying" ELSE "done"
  /\ UNCHANGED <<ram, nvs, saver, clean>>
AutoConnected ==
  /\ joined = "trying" /\ joined' = "done"
  /\ \E v \in Values \ {0} : SetNetwork(auto, v)

SetPassword(t) ==
  /\ Doing(t, "pass")
  /\ ram' = [ram EXCEPT !["wifi_pass"] = saver[t].value]
  /\ Become(t, [saver[t] EXCEPT !.at = "read"])
  /\ UNCHANGED <<nvs, joined, clean>>

-----------------------------------------------------------------------------
(* save                                                                    *)

\* The argument of set_string is a copy of the setting.
SaveRead(t) ==
  /\ Doing(t, "read")
  /\ Become(t, [saver[t] EXCEPT !.at = "write", !.value = ram[Keys[saver[t].key]]])
  /\ UNCHANGED <<ram, nvs, joined, clean>>

\* Mutant of NextKey: the loop ends one key early.
NextKeyShort(t, ok) ==
  IF saver[t].key + 1 < Len(Keys)
  THEN Become(t, [saver[t] EXCEPT !.at = "read", !.key = @ + 1, !.ok = ok]) /\ UNCHANGED clean
  ELSE Become(t, Idle) /\ clean' = ok

NextKey(t, ok) ==
  IF saver[t].key < Len(Keys)
  THEN Become(t, [saver[t] EXCEPT !.at = "read", !.key = @ + 1, !.ok = ok]) /\ UNCHANGED clean
  ELSE Become(t, Idle) /\ clean' = ok

\* set_string or set_i32 and its commit.
SaveWrite(t) ==
  /\ Doing(t, "write")
  /\ \E written \in BOOLEAN :
       /\ nvs' = IF written THEN [nvs EXCEPT ![Keys[saver[t].key]] = saver[t].value] ELSE nvs
       /\ NextKey(t, saver[t].ok /\ written)
  /\ UNCHANGED <<ram, joined>>

SaveStep(t) == SetPassword(t) \/ SaveRead(t) \/ SaveWrite(t)

-----------------------------------------------------------------------------
\* A reset at any moment: RAM is lost, load runs again.
Reset ==
  /\ ram' = Loaded(nvs)
  /\ saver' = [t \in Savers |-> Idle]
  /\ joined' = "no"
  /\ UNCHANGED <<nvs, clean>>

Next ==
  \/ \E v \in Values : SetBrightness(v) \/ Connected(v)
  \/ FactoryReset \/ AutoTries \/ AutoConnected \/ Reset
  \/ \E t \in Savers : SaveStep(t)

Spec == Init /\ [][Next]_vars

-----------------------------------------------------------------------------
(* Property                                                                *)

Saving == \E t \in Savers : ~Doing(t, "idle")

\* What is in RAM survives a reset: after a save that met no failed write and no other
\* task's change, a restart loads exactly the settings in use, whatever failed, overlapped
\* or was cut off by a reset in the saves before it (settings_store.cpp:40-57).
Persisted == clean /\ ~Saving => Loaded(nvs) = ram

\* What the run checks: nothing goes out of its type, and clean saves persist
\* (settings_store.cpp:40-57).
StoreSound == TypeOK /\ Persisted

=============================================================================
