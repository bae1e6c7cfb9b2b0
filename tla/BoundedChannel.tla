--------------------------- MODULE BoundedChannel ---------------------------
(***************************************************************************)
(* What a message queue promises its users: a channel of bounded length,   *)
(* first in, first out.  A call that does not succeed was refused for a    *)
(* reason: it met a full channel, or an empty one.                         *)
(***************************************************************************)
EXTENDS Naturals, Sequences

CONSTANTS Users, Items, NoItem, Cap

VARIABLES
  chan,      \* the items under way, oldest first
  asks,      \* what each user asks for
  refused,   \* whether it has just been refused
  shown      \* the item each user was shown last

vars == <<chan, asks, refused, shown>>

Init ==
  /\ chan = << >>
  /\ asks = [t \in Users |-> "nothing"]
  /\ refused = [t \in Users |-> FALSE]
  /\ shown = [t \in Users |-> NoItem]

Ask(t) ==
  /\ asks[t] = "nothing"
  /\ \E what \in {"put", "get", "look"} : asks' = [asks EXCEPT ![t] = what]
  /\ UNCHANGED <<chan, refused, shown>>

Served(t) == ~refused[t] /\ asks' = [asks EXCEPT ![t] = "nothing"] /\ UNCHANGED refused

Enqueue(i) == Len(chan) < Cap /\ chan' = Append(chan, i)

Put(t) == asks[t] = "put" /\ Served(t) /\ (\E i \in Items : Enqueue(i)) /\ UNCHANGED shown

\* From an interrupt: at once or not at all.
PutNow == (\E i \in Items : Enqueue(i)) /\ UNCHANGED <<asks, refused, shown>>

Show(t) == chan # << >> /\ shown' = [shown EXCEPT ![t] = Head(chan)]

Get(t) == asks[t] = "get" /\ Served(t) /\ Show(t) /\ chan' = Tail(chan)

Look(t) == asks[t] = "look" /\ Served(t) /\ Show(t) /\ UNCHANGED chan

Refuse(t) ==
  /\ \/ asks[t] = "put" /\ Len(chan) = Cap
     \/ asks[t] \in {"get", "look"} /\ chan = << >>
  /\ refused' = [refused EXCEPT ![t] = TRUE]
  /\ UNCHANGED <<chan, asks, shown>>

Retry(t) == refused[t] /\ refused' = [refused EXCEPT ![t] = FALSE] /\ UNCHANGED <<chan, asks, shown>>

GiveUp(t) ==
  /\ refused[t]
  /\ refused' = [refused EXCEPT ![t] = FALSE]
  /\ asks' = [asks EXCEPT ![t] = "nothing"]
  /\ UNCHANGED <<chan, shown>>

Next ==
  \/ \E t \in Users : Ask(t) \/ Put(t) \/ Get(t) \/ Look(t) \/ Refuse(t) \/ Retry(t) \/ GiveUp(t)
  \/ PutNow

Spec == Init /\ [][Next]_vars
=============================================================================
