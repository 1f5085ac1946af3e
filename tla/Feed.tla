-------------------------------- MODULE Feed --------------------------------
(***************************************************************************)
(* What the WebSocket hub promises its clients: events are numbered by the *)
(* order in which they are broadcast, and a client receives, in that order *)
(* and without a gap, the events from the one after its registration up to *)
(* the one at which it was cut off.                                        *)
(***************************************************************************)
EXTENDS Naturals, Sequences

CONSTANTS
  Client,      \* the clients that may connect
  Event        \* what is broadcast

VARIABLES
  log,         \* every event broadcast so far, in order
  stage,       \* stage[c]: "new", "on" while c is a client, "off" after that
  from,        \* from[c]: events broadcast before c became a client
  upto,        \* upto[c]: the last event meant for c, once it is off
  received     \* received[c]: the events c has received

feedVars == <<log, stage, from, upto, received>>

Init ==
  /\ log = <<>>
  /\ stage = [c \in Client |-> "new"]
  /\ from = [c \in Client |-> 0]
  /\ upto = [c \in Client |-> 0]
  /\ received = [c \in Client |-> <<>>]

Join(c) ==
  /\ stage[c] = "new"
  /\ stage' = [stage EXCEPT ![c] = "on"]
  /\ from' = [from EXCEPT ![c] = Len(log)]
  /\ UNCHANGED <<log, upto, received>>

\* An event is broadcast; the clients in gone are cut off and do not get it.
Publish(e, gone) ==
  /\ \A c \in gone : stage[c] = "on"
  /\ log' = Append(log, e)
  /\ stage' = [c \in Client |-> IF c \in gone THEN "off" ELSE stage[c]]
  /\ upto' = [c \in Client |-> IF c \in gone THEN Len(log) ELSE upto[c]]
  /\ UNCHANGED <<from, received>>

Leave(c) ==
  /\ stage[c] = "on"
  /\ stage' = [stage EXCEPT ![c] = "off"]
  /\ upto' = [upto EXCEPT ![c] = Len(log)]
  /\ UNCHANGED <<log, from, received>>

Last(c) == IF stage[c] = "on" THEN Len(log) ELSE upto[c]

Receive(c) ==
  LET i == from[c] + Len(received[c]) + 1
  IN /\ stage[c] # "new"
     /\ i <= Last(c)
     /\ received' = [received EXCEPT ![c] = Append(@, log[i])]
     /\ UNCHANGED <<log, stage, from, upto>>

Next ==
  \/ \E e \in Event, gone \in SUBSET Client : Publish(e, gone)
  \/ \E c \in Client : Join(c) \/ Leave(c) \/ Receive(c)

Spec == Init /\ [][Next]_feedVars

\* A client that stays connected receives every event meant for it.
Served == \A c \in Client : WF_feedVars(Receive(c) /\ stage[c] = "on")

FairSpec == Spec /\ Served
=============================================================================
