---------------------------- MODULE WsHubProofs ----------------------------
(***************************************************************************)
(* The hub never sends on a closed channel, its clients miss no block, and *)
(* it implements Feed, for any set of clients and any capacity and bounds  *)
(* that satisfy HubAssumption.                                             *)
(*                                                                         *)
(* NoPanic is not inductive: that the greeting finds room depends on how   *)
(* many broadcasts are under way.  GreetSound counts them.  NoMissedBlock  *)
(* needs that the hub has passed every event since the registration on,    *)
(* and that the block read after it is at least as high as all earlier     *)
(* ones: BlocksSound.  The refinement needs what a client has received     *)
(* together with what waits in its channel: FeedsSound.                    *)
(***************************************************************************)
EXTENDS WsHub, WellFoundedInduction, TLAPS

-----------------------------------------------------------------------------
(* Type correctness.                                                       *)

LEMMA InitType == Init => TypeOK
  BY HubAssumption DEF Init, TypeOK, Message

\* The events and greetings are messages.
LEMMA MessageType ==
  /\ StateEvent \in Event
  /\ \A h \in 0 .. MaxHeight : BlockEvent(h) \in Event
  /\ \A h \in 0 .. MaxHeight : Greet("latest", h) \in Message
  /\ Greet("connected", 0) \in Message /\ Greet("current", 0) \in Message
  BY HubAssumption DEF StateEvent, BlockEvent, Greet, Event, Greeting, Message

LEMMA EngineType ==
  ASSUME TypeOK, BroadcastState \/ CommitBlock \/ SyncBlock \/ TakeBroadcast
  PROVE  TypeOK'
<1>1. CASE BroadcastState
  BY <1>1, MessageType DEF TypeOK, BroadcastState, chanVars, pumpVars, history
<1>2. CASE CommitBlock
  <2>1. height' \in 0 .. MaxHeight
    BY <1>2, HubAssumption DEF CommitBlock, TypeOK
  <2>2. todo' \in Seq(Event)
    BY <1>2, <2>1, MessageType DEF CommitBlock
  <2> QED  BY <1>2, <2>1, <2>2 DEF TypeOK, CommitBlock, chanVars, pumpVars, history
<1>3. CASE SyncBlock
  <2>1. height' \in 0 .. MaxHeight
    BY <1>3, HubAssumption DEF SyncBlock, TypeOK
  <2> QED  BY <1>3, <2>1 DEF TypeOK, SyncBlock, chanVars, pumpVars, history
<1>4. CASE TakeBroadcast
  <2>1. Head(todo) \in Event /\ Tail(todo) \in Seq(Event)
    BY <1>4 DEF TakeBroadcast, TypeOK
  <2> QED  BY <1>4, <2>1 DEF TypeOK, TakeBroadcast, chanVars, pumpVars, history
<1> QED  BY <1>1, <1>2, <1>3, <1>4

LEMMA PassOnType ==
  ASSUME TypeOK, PassOn
  PROVE  TypeOK'
<1>1. inHand \in Event /\ inHand \in Message
  BY DEF PassOn, TypeOK, Message
<1>2. chan' \in [Client -> Seq(Message)]
  BY <1>1 DEF PassOn, TypeOK
<1>3. log' \in Seq(Event) /\ upto' \in [Client -> Nat]
  BY <1>1 DEF PassOn, TypeOK
<1>4. closed' \in [Client -> BOOLEAN] /\ clients' \subseteq Client
  BY DEF PassOn, TypeOK
<1> QED  BY <1>2, <1>3, <1>4 DEF TypeOK, PassOn, engineVars, pumpVars

LEMMA HubType ==
  ASSUME TypeOK, NEW c \in Client, Register(c) \/ Unregister(c)
  PROVE  TypeOK'
<1>1. CASE Register(c)
  BY <1>1 DEF TypeOK, Register, chanVars, pumpVars, engineVars
<1>2. CASE Unregister(c)
  <2>1. clients' \subseteq Client /\ upto' \in [Client -> Nat]
    BY <1>2 DEF TypeOK, Unregister
  <2>2. closed' \in [Client -> BOOLEAN]
    BY Zenon, <1>2 DEF TypeOK, Unregister
  <2> QED  BY Zenon, <1>2, <2>1, <2>2 DEF TypeOK, Unregister, engineVars
<1> QED  BY <1>1, <1>2

LEMMA SendType ==
  ASSUME TypeOK, NEW c \in Client, NEW m \in Message, NEW at,
         NEW next \in {"state", "block", "pumps"}, Send(c, at, next, m)
  PROVE  TypeOK'
<1>1. chan' \in [Client -> Seq(Message)]
  BY DEF Send, TypeOK
<1> QED  BY <1>1 DEF TypeOK, Send, pumpVars, engineVars, history

LEMMA HandlerType ==
  ASSUME TypeOK, NEW c \in Client, HandlerStep(c)
  PROVE  TypeOK'
<1>1. CASE SendWelcome(c) \/ SendState(c) \/ SendBlock(c)
  <2>1. snapshot[c] \in 0 .. MaxHeight
    BY DEF TypeOK
  <2> QED  BY <1>1, <2>1, MessageType, SendType DEF SendWelcome, SendState, SendBlock
<1>2. CASE ReadState(c)
  BY <1>2 DEF TypeOK, ReadState, chanVars, pumpVars, engineVars, history
<1>3. CASE ReadBlock(c)
  BY <1>3 DEF TypeOK, ReadBlock, chanVars, pumpVars, engineVars, history
<1>4. CASE StartPumps(c)
  BY <1>4 DEF TypeOK, StartPumps, chanVars, engineVars, history
<1> QED  BY <1>1, <1>2, <1>3, <1>4 DEF HandlerStep

LEMMA ClientType ==
  ASSUME TypeOK, NEW c \in Client, WriterStep(c) \/ Disconnect(c)
  PROVE  TypeOK'
<1>1. CASE Write(c)
  <2>1. Head(chan[c]) \in Message /\ Tail(chan[c]) \in Seq(Message)
    BY <1>1 DEF Write, TypeOK
  <2>2. got' \in [Client -> Seq(Message)] /\ chan' \in [Client -> Seq(Message)]
    BY <1>1, <2>1 DEF Write, TypeOK
  <2> QED  BY <1>1, <2>2 DEF TypeOK, Write, pumpVars, engineVars, history
<1>2. CASE WriteFails(c)
  <2>1. Tail(chan[c]) \in Seq(Message)
    BY <1>2 DEF WriteFails, TypeOK
  <2> QED  BY <1>2, <2>1 DEF TypeOK, WriteFails, engineVars, history
<1>3. CASE CloseConn(c)
  BY <1>3 DEF TypeOK, CloseConn, chanVars, engineVars, history
<1>4. CASE Disconnect(c)
  BY <1>4 DEF TypeOK, Disconnect, chanVars, pumpVars, engineVars, history
<1> QED  BY <1>1, <1>2, <1>3, <1>4 DEF WriterStep

LEMMA NextType == TypeOK /\ [Next]_vars => TypeOK'
<1> SUFFICES ASSUME TypeOK, [Next]_vars  PROVE TypeOK'
  OBVIOUS
<1>1. CASE UNCHANGED vars
  BY <1>1 DEF TypeOK, vars, chanVars, pumpVars, engineVars, history
<1> QED  BY <1>1, EngineType, PassOnType, HubType, HandlerType, ClientType DEF Next, HubStep

\* Channels, pumps and the history have their types in every reachable state.
THEOREM TypeCorrect == Spec => []TypeOK
  BY InitType, NextType, PTL DEF Spec
-----------------------------------------------------------------------------
(* Channels.                                                               *)

\* The greetings that the handler of c has sent.
GreetingsSent(c) ==
  IF handler[c] = "welcome" THEN 0
  ELSE IF handler[c] \in {"state", "sendState"} THEN 1 ELSE 2

\* The channel of c holds at most the greetings sent and the events since the
\* registration, and few more events are under way.
GreetSound(c) ==
  /\ c \in clients
  /\ writer[c] = "idle" /\ reader[c] = "idle"
  /\ from[c] <= Len(log) /\ Sent <= from[c] + HelloEvents
  /\ Len(chan[c]) <= (Len(log) - from[c]) + GreetingsSent(c)

IdleSound(c) ==
  /\ c \notin clients /\ ~closed[c] /\ chan[c] = <<>>
  /\ writer[c] = "idle" /\ reader[c] = "idle"

ChannelSound(c) ==
  /\ c \in clients => ~closed[c]
  /\ handler[c] = "idle" => IdleSound(c)
  /\ handler[c] = "pumps" => writer[c] = "idle" /\ reader[c] = "idle"
  /\ Greeted(c) => GreetSound(c)

ChannelsSound == Len(todo) <= 2 /\ \A c \in Client : ChannelSound(c)

\* Numbers that the invariant is about.
LEMMA Counts ==
  ASSUME TypeOK
  PROVE  /\ Len(log) \in Nat /\ Len(todo) \in Nat /\ Sent \in Nat
         /\ Sent >= Len(log)
         /\ \A c \in Client : Len(chan[c]) \in Nat /\ from[c] \in Nat
                                 /\ GreetingsSent(c) \in 0 .. 2
<1>1. Len(log) \in Nat /\ Len(todo) \in Nat
  BY DEF TypeOK
<1>2. \A c \in Client : Len(chan[c]) \in Nat /\ from[c] \in Nat
  BY DEF TypeOK
<1>3. \A c \in Client : GreetingsSent(c) \in 0 .. 2
  BY DEF GreetingsSent
<1>4. Sent \in Nat /\ Sent >= Len(log)
  BY <1>1 DEF Sent
<1> QED  BY <1>1, <1>2, <1>3, <1>4

\* The greeting finds room.
LEMMA GreetingFits ==
  ASSUME TypeOK, ChannelsSound
  PROVE  NoPanic
<1>1. ASSUME NEW c \in Client, Greeted(c)  PROVE HasRoom(c) /\ ~closed[c]
  <2>1. GreetSound(c) /\ ~closed[c]
    BY <1>1 DEF ChannelsSound, ChannelSound, GreetSound
  <2>2. Len(chan[c]) <= HelloEvents + 2
    <3>1. /\ Len(log) \in Nat /\ Sent \in Nat /\ Sent >= Len(log)
          /\ Len(chan[c]) \in Nat /\ from[c] \in Nat /\ GreetingsSent(c) \in 0 .. 2
      BY Zenon, Counts
    <3>2. /\ from[c] <= Len(log) /\ Sent <= from[c] + HelloEvents
          /\ Len(chan[c]) <= (Len(log) - from[c]) + GreetingsSent(c)
      BY Zenon, <2>1 DEF GreetSound
    <3>3. HelloEvents \in Nat
      BY HubAssumption
    <3> QED  BY <3>1, <3>2, <3>3
  <2>3. Len(chan[c]) \in Nat
    BY Zenon, Counts
  <2> QED  BY <2>1, <2>2, <2>3, HubAssumption DEF HasRoom
<1>2. \A c \in clients : ~closed[c]
  BY Zenon DEF ChannelsSound, ChannelSound, TypeOK
<1> QED  BY <1>1, <1>2 DEF NoPanic

LEMMA InitChannels == Init => ChannelsSound
  BY DEF Init, ChannelsSound, ChannelSound, IdleSound, Greeted

LEMMA EngineChannels ==
  ASSUME TypeOK, ChannelsSound, BroadcastState \/ CommitBlock \/ SyncBlock \/ TakeBroadcast
  PROVE  ChannelsSound'
<1>1. UNCHANGED <<clients, chan, closed, handler, writer, reader, log, from>>
  BY DEF BroadcastState, CommitBlock, SyncBlock, TakeBroadcast, chanVars, pumpVars, history
<1>2. /\ Len(todo') <= 2
      /\ \A c \in Client : Greeted(c) => Sent' <= from[c] + HelloEvents
  <2>1. CASE BroadcastState
    <3>1. Len(todo) = 0 /\ Len(todo') = 1
      BY <2>1 DEF BroadcastState
    <3>2. Sent' = Sent + 1
      BY <2>1, <3>1, Counts DEF BroadcastState, Sent, history
    <3> QED  BY <2>1, <3>1, <3>2 DEF BroadcastState, Room
  <2>2. CASE CommitBlock
    <3>1. Len(todo) = 0 /\ Len(todo') = 2
      BY <2>2 DEF CommitBlock
    <3>2. Sent' = Sent + 2
      BY <2>2, <3>1, Counts DEF CommitBlock, Sent, history
    <3> QED  BY <2>2, <3>1, <3>2 DEF CommitBlock, Room
  <2>3. CASE SyncBlock
    <3>1. todo' = todo /\ Sent' = Sent
      BY <2>3 DEF SyncBlock, Sent, history
    <3> QED  BY <3>1 DEF ChannelsSound, ChannelSound, GreetSound
  <2>4. CASE TakeBroadcast
    <3>1. Len(todo) >= 1 /\ Len(todo') = Len(todo) - 1
      BY <2>4 DEF TakeBroadcast, TypeOK
    <3>2. inHand = None /\ log' = log
      BY <2>4 DEF TakeBroadcast, history
    <3>3. Sent' <= Sent /\ Sent' \in Nat
      BY <3>1, <3>2, Counts DEF Sent
    <3> QED  BY <3>1, <3>3, Counts, HubAssumption DEF ChannelsSound, ChannelSound, GreetSound
  <2> QED  BY <2>1, <2>2, <2>3, <2>4
<1> QED
  BY <1>1, <1>2
  DEF ChannelsSound, ChannelSound, GreetSound, IdleSound, Greeted, GreetingsSent

LEMMA PassOnChannels ==
  ASSUME TypeOK, ChannelsSound, PassOn
  PROVE  ChannelsSound'
<1>1. NoPanic
  BY GreetingFits
<1>2. Len(log') = Len(log) + 1 /\ inHand # None /\ inHand' = None /\ todo' = todo
  BY DEF PassOn, TypeOK, engineVars
<1>3. Sent' = Sent
  BY <1>2, Counts DEF Sent
<1>4. ASSUME NEW c \in Client  PROVE ChannelSound(c)'
  <2>1. ChannelSound(c)
    BY DEF ChannelsSound
  <2>2. /\ UNCHANGED <<handler, writer, reader, from>> /\ clients' \subseteq clients
        /\ c \in clients' => c \in clients /\ HasRoom(c)
        /\ closed'[c] = (closed[c] \/ (c \in clients /\ ~HasRoom(c)))
    BY DEF PassOn, pumpVars
  <2>3. c \in clients' => ~closed'[c]
    BY Zenon, <2>1, <2>2 DEF ChannelSound
  <2>4. CASE Greeted(c)
    <3>1. c \in clients /\ HasRoom(c) /\ GreetSound(c)
      BY <1>1, <2>1, <2>4 DEF NoPanic, ChannelSound, GreetSound
    <3>2. c \in clients' /\ chan'[c] = Append(chan[c], inHand)
      BY <3>1 DEF PassOn
    <3>3. Len(chan'[c]) = Len(chan[c]) + 1
      BY <3>2 DEF TypeOK
    <3>4. GreetSound(c)'
      <4>1. /\ from'[c] = from[c] /\ writer'[c] = writer[c] /\ reader'[c] = reader[c]
            /\ GreetingsSent(c)' = GreetingsSent(c)
        BY <2>2 DEF GreetingsSent
      <4>2. /\ Len(log) \in Nat /\ Len(chan[c]) \in Nat /\ from[c] \in Nat
            /\ GreetingsSent(c) \in 0 .. 2
        BY Zenon, Counts
      <4>3. from[c] <= Len(log) /\ Len(chan[c]) <= (Len(log) - from[c]) + GreetingsSent(c)
        BY Zenon, <3>1 DEF GreetSound
      <4>4. /\ from[c] <= Len(log')
            /\ Len(chan'[c]) <= (Len(log') - from[c]) + GreetingsSent(c)
        BY <1>2, <3>3, <4>2, <4>3
      <4> QED  BY Zenon, <1>3, <3>1, <3>2, <4>1, <4>4 DEF GreetSound
    <3> QED  BY <2>2, <2>3, <2>4, <3>4 DEF ChannelSound, Greeted
  <2>5. CASE ~Greeted(c)
    <3>1. handler[c] = "idle" => IdleSound(c)'
      <4> SUFFICES ASSUME handler[c] = "idle"  PROVE IdleSound(c)'
        OBVIOUS
      <4>1. IdleSound(c)
        BY <2>1 DEF ChannelSound
      <4>2. chan'[c] = chan[c]
        BY <4>1 DEF PassOn, IdleSound
      <4> QED  BY Zenon, <2>2, <4>1, <4>2 DEF IdleSound
    <3> QED  BY <2>1, <2>2, <2>3, <2>5, <3>1 DEF ChannelSound, Greeted
  <2> QED  BY <2>4, <2>5
<1> QED  BY <1>2, <1>4 DEF ChannelsSound

\* A client that a step does not touch.
LEMMA ChannelKept ==
  ASSUME NEW c \in Client, ChannelSound(c), UNCHANGED <<log, todo, inHand>>,
         c \in clients' <=> c \in clients,
         closed'[c] = closed[c], chan'[c] = chan[c], handler'[c] = handler[c],
         writer'[c] = writer[c], reader'[c] = reader[c], from'[c] = from[c]
  PROVE  ChannelSound(c)'
  BY DEF ChannelSound, IdleSound, GreetSound, Greeted, GreetingsSent, Sent

LEMMA RegisterChannels ==
  ASSUME TypeOK, ChannelsSound, NEW c \in Client, Register(c)
  PROVE  ChannelsSound'
<1>1. UNCHANGED <<log, todo, inHand, chan, closed, writer, reader>>
  BY DEF Register, chanVars, pumpVars, engineVars
<1>2. ASSUME NEW d \in Client \ {c}  PROVE ChannelSound(d)'
  <2>1. /\ d \in clients' <=> d \in clients
        /\ handler'[d] = handler[d] /\ from'[d] = from[d]
    BY DEF Register, TypeOK
  <2> QED  BY <1>1, <2>1, ChannelKept DEF ChannelsSound
<1>3. ChannelSound(c)'
  <2>1. IdleSound(c) /\ inHand = None
    BY DEF Register, ChannelsSound, ChannelSound
  <2>2. c \in clients' /\ handler'[c] = "welcome" /\ from'[c] = Len(log)
    BY DEF Register, TypeOK
  <2>3. Sent' <= from'[c] + HelloEvents
    BY <1>1, <2>1, <2>2, Counts, HubAssumption DEF ChannelsSound, Sent
  <2>4. Len(chan'[c]) = 0
    BY <1>1, <2>1 DEF IdleSound
  <2>5. GreetSound(c)'
    BY <1>1, <2>1, <2>2, <2>3, <2>4, Counts DEF GreetSound, GreetingsSent, IdleSound
  <2> QED  BY <1>1, <2>1, <2>2, <2>5 DEF ChannelSound, IdleSound
<1> QED  BY <1>1, <1>2, <1>3 DEF ChannelsSound

LEMMA UnregisterChannels ==
  ASSUME TypeOK, ChannelsSound, NEW c \in Client, Unregister(c)
  PROVE  ChannelsSound'
<1>1. UNCHANGED <<log, todo, inHand, chan, handler, writer, from>>
  BY DEF Unregister, engineVars
<1>2. ASSUME NEW d \in Client \ {c}  PROVE ChannelSound(d)'
  <2>1. /\ d \in clients' <=> d \in clients
        /\ closed'[d] = closed[d] /\ reader'[d] = reader[d]
    BY DEF Unregister, TypeOK
  <2> QED  BY <1>1, <2>1, ChannelKept DEF ChannelsSound
<1>3. ChannelSound(c)'
  <2>1. reader[c] = "run" /\ c \notin clients'
    BY DEF Unregister
  <2>2. handler[c] # "idle" /\ handler[c] # "pumps" /\ ~Greeted(c)
    BY <2>1 DEF ChannelsSound, ChannelSound, IdleSound, GreetSound
  <2> QED  BY <1>1, <2>1, <2>2 DEF ChannelSound, Greeted
<1> QED  BY <1>1, <1>2, <1>3 DEF ChannelsSound

LEMMA HandlerChannels ==
  ASSUME TypeOK, ChannelsSound, NEW c \in Client, HandlerStep(c)
  PROVE  ChannelsSound'
<1>1. UNCHANGED <<log, todo, inHand, clients, closed, from>>
  BY DEF HandlerStep, SendWelcome, SendState, SendBlock, Send, ReadState, ReadBlock,
         StartPumps, chanVars, engineVars, history
<1>2. ASSUME NEW d \in Client \ {c}  PROVE ChannelSound(d)'
  <2>1. /\ chan'[d] = chan[d] /\ handler'[d] = handler[d]
        /\ writer'[d] = writer[d] /\ reader'[d] = reader[d]
    BY DEF TypeOK, HandlerStep, SendWelcome, SendState, SendBlock, Send, ReadState,
           ReadBlock, StartPumps, chanVars, pumpVars
  <2> QED  BY <1>1, <2>1, ChannelKept DEF ChannelsSound
<1>3. ASSUME NEW at, NEW next, NEW m, Send(c, at, next, m),
             <<at, next>> \in {<<"welcome", "state">>, <<"sendState", "block">>,
                              <<"sendBlock", "pumps">>}
      PROVE  ChannelSound(c)'
  <2>1. /\ handler[c] = at /\ handler'[c] = next
        /\ chan'[c] = Append(chan[c], m) /\ UNCHANGED <<writer, reader>>
    BY <1>3 DEF Send, TypeOK, pumpVars
  <2>2. GreetSound(c) /\ ~closed[c]
    BY <1>3, <2>1 DEF ChannelsSound, ChannelSound, GreetSound, Greeted
  <2>3. Len(chan'[c]) = Len(chan[c]) + 1
    <3>1. chan[c] \in Seq(Message)
      BY DEF TypeOK
    <3> QED  BY <2>1, <3>1
  <2>4. Sent' = Sent
    BY <1>1 DEF Sent
  <2>5. next # "pumps" => GreetingsSent(c)' = GreetingsSent(c) + 1
    BY <1>3, <2>1 DEF GreetingsSent
  <2>6. next # "pumps" => GreetSound(c)'
    BY <1>1, <2>1, <2>2, <2>3, <2>4, <2>5, Counts DEF GreetSound
  <2> QED  BY <1>1, <1>3, <2>1, <2>2, <2>6 DEF ChannelSound, Greeted, GreetSound
<1>4. ChannelSound(c)'
  <2>1. CASE SendWelcome(c) \/ SendState(c) \/ SendBlock(c)
    BY <2>1, <1>3 DEF SendWelcome, SendState, SendBlock
  <2>2. CASE ReadState(c) \/ ReadBlock(c)
    <3>1. /\ UNCHANGED <<chan, writer, reader>>
          /\ \/ handler[c] = "state" /\ handler'[c] = "sendState"
             \/ handler[c] = "block" /\ handler'[c] \in {"pumps", "sendBlock"}
      BY <2>2 DEF ReadState, ReadBlock, TypeOK, chanVars, pumpVars
    <3>2. GreetSound(c) /\ ~closed[c]
      BY <3>1 DEF ChannelsSound, ChannelSound, GreetSound, Greeted
    <3> QED  BY <1>1, <3>1, <3>2
             DEF ChannelSound, Greeted, GreetSound, GreetingsSent, Sent
  <2>3. CASE StartPumps(c)
    <3>1. handler'[c] = "done"
      BY <2>3 DEF StartPumps, TypeOK
    <3> QED  BY <1>1, <3>1 DEF ChannelsSound, ChannelSound, Greeted
  <2> QED  BY <2>1, <2>2, <2>3 DEF HandlerStep
<1> QED  BY <1>1, <1>2, <1>4 DEF ChannelsSound

LEMMA ClientChannels ==
  ASSUME TypeOK, ChannelsSound, NEW c \in Client, WriterStep(c) \/ Disconnect(c)
  PROVE  ChannelsSound'
<1>1. UNCHANGED <<log, todo, inHand, clients, closed, from, handler, reader>>
  BY DEF WriterStep, Write, WriteFails, CloseConn, Disconnect, chanVars, pumpVars,
         engineVars, history
<1>2. ASSUME NEW d \in Client \ {c}  PROVE ChannelSound(d)'
  <2>1. chan'[d] = chan[d] /\ writer'[d] = writer[d]
    BY DEF TypeOK, WriterStep, Write, WriteFails, CloseConn, Disconnect, chanVars, pumpVars
  <2> QED  BY <1>1, <2>1, ChannelKept DEF ChannelsSound
<1>3. ChannelSound(c)'
  <2>1. CASE WriterStep(c)
    <3>1. writer[c] = "run"
      BY <2>1 DEF WriterStep, Write, WriteFails, CloseConn
    <3>2. handler[c] # "idle" /\ handler[c] # "pumps" /\ ~Greeted(c)
      BY <3>1 DEF ChannelsSound, ChannelSound, IdleSound, GreetSound
    <3> QED  BY <1>1, <3>2 DEF ChannelsSound, ChannelSound, Greeted
  <2>2. CASE Disconnect(c)
    BY <2>2, <1>1, ChannelKept DEF ChannelsSound, Disconnect, chanVars, pumpVars
  <2> QED  BY <2>1, <2>2
<1> QED  BY <1>1, <1>2, <1>3 DEF ChannelsSound

LEMMA NextChannels == TypeOK /\ ChannelsSound /\ [Next]_vars => ChannelsSound'
<1> SUFFICES ASSUME TypeOK, ChannelsSound, [Next]_vars  PROVE ChannelsSound'
  OBVIOUS
<1>1. CASE UNCHANGED vars
  BY <1>1 DEF ChannelsSound, ChannelSound, IdleSound, GreetSound, Greeted, GreetingsSent,
              Sent, vars, chanVars, pumpVars, engineVars, history
<1> QED
  BY <1>1, EngineChannels, PassOnChannels, RegisterChannels, UnregisterChannels,
     HandlerChannels, ClientChannels DEF Next, HubStep

\* Run never sends on a closed channel or closes one twice, and a greeting never
\* waits for room.
THEOREM HubNeverPanics == Spec => []NoPanic
<1>1. TypeOK /\ ChannelsSound => NoPanic
  BY GreetingFits
<1> QED  BY InitType, NextType, InitChannels, NextChannels, <1>1, PTL DEF Spec

-----------------------------------------------------------------------------
(* Blocks.                                                                 *)

LEMMA ItemsAppend ==
  ASSUME NEW S, NEW q \in Seq(S), NEW e
  PROVE  Items(Append(q, e)) = Items(q) \cup {e}
<1>1. \A i \in DOMAIN q : i \in DOMAIN Append(q, e) /\ Append(q, e)[i] = q[i]
  OBVIOUS
<1>2. Len(q) + 1 \in DOMAIN Append(q, e) /\ Append(q, e)[Len(q) + 1] = e
  OBVIOUS
<1>3. \A i \in DOMAIN Append(q, e) : i \in DOMAIN q \/ i = Len(q) + 1
  OBVIOUS
<1> QED  BY <1>1, <1>2, <1>3 DEF Items

LEMMA ItemsTail ==
  ASSUME NEW S, NEW q \in Seq(S), q # <<>>
  PROVE  Items(q) = {Head(q)} \cup Items(Tail(q))
<1>1. \A i \in DOMAIN Tail(q) : i + 1 \in DOMAIN q /\ Tail(q)[i] = q[i + 1]
  OBVIOUS
<1>2. 1 \in DOMAIN q /\ Head(q) = q[1]
  OBVIOUS
<1>3. \A i \in DOMAIN q : i = 1 \/ (i - 1 \in DOMAIN Tail(q) /\ Tail(q)[i - 1] = q[i])
  OBVIOUS
<1>4. ASSUME NEW e \in Items(q)  PROVE e = Head(q) \/ e \in Items(Tail(q))
  <2>1. PICK i \in DOMAIN q : e = q[i]
    BY DEF Items
  <2> QED  BY Zenon, <2>1, <1>2, <1>3 DEF Items
<1>5. ASSUME NEW e \in Items(Tail(q))  PROVE e \in Items(q)
  <2>1. PICK i \in DOMAIN Tail(q) : e = Tail(q)[i]
    BY DEF Items
  <2> QED  BY <2>1, <1>1 DEF Items
<1>6. Head(q) \in Items(q)
  BY <1>2 DEF Items
<1> QED  BY <1>4, <1>5, <1>6

\* The items of a sequence are of its type.
LEMMA ItemsType ==
  ASSUME NEW S, NEW q \in Seq(S)
  PROVE  Items(q) \subseteq S
  BY DEF Items

\* No event is ahead of the chain.
EventsSound ==
  /\ \A e \in Items(log) \cup Items(todo) : e.height <= height
  /\ inHand # None => inHand.height <= height

\* A client got, or will get, all events since its registration; a block that
\* was broadcast before it is not above the one read for the greeting.
ServedSound(c) ==
  /\ from[c] <= Len(log)
  /\ c \in clients /\ writer[c] # "done" =>
       \A i \in from[c] + 1 .. Len(log) : log[i] \in Items(got[c]) \cup Items(chan[c])
  /\ Connected(c) => \A i \in 1 .. from[c] : log[i].height <= snapshot[c]

BlocksSound == EventsSound /\ \A c \in Client : ServedSound(c)

LEMMA InitBlocks == Init => BlocksSound
  BY DEF Init, BlocksSound, EventsSound, ServedSound, Items, Connected

\* Blocks are only added, and events come from the engine.
LEMMA EventsKept ==
  ASSUME TypeOK, TypeOK', EventsSound, [Next]_vars
  PROVE  EventsSound'
<1>1. height' \in Nat /\ height \in Nat /\ height' >= height
  <2>1. height' \in 0 .. MaxHeight /\ height \in 0 .. MaxHeight
    BY DEF TypeOK
  <2>2. height' = height \/ height' = height + 1
    <3>1. CASE BroadcastState \/ CommitBlock \/ SyncBlock \/ HubStep
      BY <3>1 DEF BroadcastState, CommitBlock, SyncBlock, HubStep, TakeBroadcast, PassOn,
                  engineVars
    <3>2. ASSUME NEW c \in Client, Register(c) \/ Unregister(c) \/ Disconnect(c)
          PROVE  height' = height
      BY <3>2 DEF Register, Unregister, Disconnect, engineVars
    <3>3. ASSUME NEW c \in Client, HandlerStep(c)
          PROVE  height' = height
      BY <3>3 DEF HandlerStep, SendWelcome, SendState, SendBlock, Send, ReadState,
                  ReadBlock, StartPumps, engineVars
    <3>4. ASSUME NEW c \in Client, WriterStep(c)
          PROVE  height' = height
      BY <3>4 DEF WriterStep, Write, WriteFails, CloseConn, engineVars
    <3>5. CASE UNCHANGED vars
      BY <3>5 DEF vars, engineVars
    <3> QED  BY <3>1, <3>2, <3>3, <3>4, <3>5 DEF Next
  <2> QED  BY <2>1, <2>2
<1>2. \A e \in Event : e.height \in Nat
  BY DEF Event
<1>3. Items(log) \subseteq Event /\ Items(todo) \subseteq Event
  <2>1. log \in Seq(Event) /\ todo \in Seq(Event)
    BY DEF TypeOK
  <2> QED  BY <2>1, ItemsType
<1>4. /\ \A e \in Items(log) \cup Items(todo) : e.height <= height'
      /\ inHand # None => inHand.height <= height'
  BY <1>1, <1>2, <1>3 DEF EventsSound, TypeOK
<1>5. CASE BroadcastState
  <2>1. log' = log /\ inHand' = inHand /\ Items(todo') = {StateEvent}
    BY <1>5 DEF BroadcastState, history, Items
  <2> QED  BY <2>1, <1>1, <1>4 DEF EventsSound, StateEvent
<1>6. CASE CommitBlock
  <2>1. /\ log' = log /\ inHand' = inHand
        /\ Items(todo') = {BlockEvent(height'), StateEvent}
    BY <1>6 DEF CommitBlock, history, Items
  <2> QED  BY <2>1, <1>1, <1>4 DEF EventsSound, StateEvent, BlockEvent
<1>7. CASE TakeBroadcast
  <2>1. log' = log /\ inHand' = Head(todo) /\ todo' = Tail(todo) /\ todo # <<>>
    BY <1>7 DEF TakeBroadcast, history
  <2>2. Items(todo) = {Head(todo)} \cup Items(Tail(todo))
    BY <2>1, ItemsTail DEF TypeOK
  <2> QED  BY <2>1, <2>2, <1>4 DEF EventsSound
<1>8. CASE PassOn
  <2>1. log' = Append(log, inHand) /\ inHand # None /\ inHand' = None /\ todo' = todo
    BY <1>8 DEF PassOn, engineVars
  <2>2. Items(log') = Items(log) \cup {inHand}
    BY <2>1, ItemsAppend DEF TypeOK
  <2> QED  BY <2>1, <2>2, <1>4 DEF EventsSound
<1>9. CASE UNCHANGED <<log, todo, inHand>>
  BY <1>9, <1>4 DEF EventsSound
<1> QED
  BY <1>5, <1>6, <1>7, <1>8, <1>9
     DEF Next, HubStep, SyncBlock, Register, Unregister, HandlerStep, SendWelcome,
         SendState, SendBlock, Send, ReadState, ReadBlock, StartPumps, WriterStep, Write,
         WriteFails, CloseConn, Disconnect, vars, engineVars, history

\* A step of the hub or of a client that leaves the log alone and hands nothing
\* of c away.
LEMMA ServedKept ==
  ASSUME NEW c \in Client, ServedSound(c), log' = log, from'[c] = from[c],
         c \in clients' => c \in clients, writer[c] = "done" => writer'[c] = "done",
         writer'[c] # "done" =>
           Items(got[c]) \cup Items(chan[c]) \subseteq Items(got'[c]) \cup Items(chan'[c]),
         Connected(c)' => Connected(c) /\ snapshot'[c] = snapshot[c]
  PROVE  ServedSound(c)'
  BY DEF ServedSound

LEMMA PassOnServed ==
  ASSUME TypeOK, NEW c \in Client, ServedSound(c), PassOn
  PROVE  ServedSound(c)'
<1>1. /\ log' = Append(log, inHand) /\ log \in Seq(Event)
      /\ UNCHANGED <<from, got, handler, writer, snapshot>>
  BY DEF PassOn, TypeOK, pumpVars
<1>2. Len(log') = Len(log) + 1 /\ Len(log) \in Nat /\ from[c] \in Nat
  BY <1>1 DEF TypeOK
<1>3. \A i \in 1 .. Len(log) : log'[i] = log[i]
  BY <1>1
<1>4. log'[Len(log) + 1] = inHand
  BY <1>1
<1>5. from'[c] <= Len(log')
  BY <1>1, <1>2 DEF ServedSound
<1>6. Connected(c)' => \A i \in 1 .. from'[c] : log'[i].height <= snapshot'[c]
  BY <1>1, <1>2, <1>3 DEF ServedSound, Connected
<1>7. ASSUME c \in clients', writer'[c] # "done", NEW i \in from'[c] + 1 .. Len(log')
      PROVE  log'[i] \in Items(got'[c]) \cup Items(chan'[c])
  <2>1. c \in clients /\ writer[c] # "done" /\ chan'[c] = Append(chan[c], inHand)
    BY <1>7, <1>1 DEF PassOn
  <2>2. Items(chan'[c]) = Items(chan[c]) \cup {inHand}
    BY <2>1, ItemsAppend DEF TypeOK
  <2>3. CASE i = Len(log) + 1
    BY <2>2, <2>3, <1>4
  <2>4. CASE i # Len(log) + 1
    <3>1. i \in from[c] + 1 .. Len(log) /\ i \in 1 .. Len(log)
      BY <2>4, <1>1, <1>2
    <3>2. log[i] \in Items(got[c]) \cup Items(chan[c])
      BY <2>1, <3>1 DEF ServedSound
    <3> QED  BY <1>1, <1>3, <2>2, <3>1, <3>2
  <2> QED  BY <2>3, <2>4
<1> QED  BY <1>5, <1>6, <1>7 DEF ServedSound

LEMMA RegisterServed ==
  ASSUME TypeOK, NEW c \in Client, NEW d \in Client, ServedSound(d), Register(c)
  PROVE  ServedSound(d)'
<1>1. UNCHANGED <<log, got, chan, writer, snapshot>>
  BY DEF Register, chanVars, pumpVars
<1>2. CASE d = c
  <2>1. from'[d] = Len(log) /\ handler'[d] = "welcome" /\ Len(log) \in Nat
    BY <1>2 DEF Register, TypeOK
  <2> QED  BY <1>1, <2>1 DEF ServedSound, Connected
<1>3. CASE d # c
  <2>1. /\ d \in clients' <=> d \in clients
        /\ handler'[d] = handler[d] /\ from'[d] = from[d]
    BY <1>3 DEF Register, TypeOK
  <2> QED  BY <1>1, <2>1, ServedKept DEF Connected
<1> QED  BY <1>2, <1>3

\* The block read for the greeting is at least as high as all events so far.
LEMMA ReadBlockServed ==
  ASSUME TypeOK, EventsSound, NEW c \in Client, NEW d \in Client, ServedSound(d),
         ReadBlock(c)
  PROVE  ServedSound(d)'
<1>1. UNCHANGED <<log, from, clients, got, chan, writer>>
  BY DEF ReadBlock, chanVars, pumpVars, history
<1>2. CASE d = c
  <2>1. snapshot'[d] = height
    BY <1>2 DEF ReadBlock, TypeOK
  <2>2. ASSUME NEW i \in 1 .. from[d]  PROVE log[i].height <= height
    <3>1. i \in DOMAIN log
      BY DEF ServedSound, TypeOK
    <3> QED  BY <3>1 DEF EventsSound, Items
  <2> QED  BY <1>1, <2>1, <2>2 DEF ServedSound
<1>3. CASE d # c
  <2>1. handler'[d] = handler[d] /\ snapshot'[d] = snapshot[d]
    BY <1>3 DEF ReadBlock, TypeOK
  <2> QED  BY <1>1, <2>1, ServedKept DEF Connected
<1> QED  BY <1>2, <1>3

LEMMA SendServed ==
  ASSUME TypeOK, NEW c \in Client, NEW d \in Client, ServedSound(d),
         SendWelcome(c) \/ SendState(c) \/ SendBlock(c)
  PROVE  ServedSound(d)'
<1>1. PICK m : chan' = [chan EXCEPT ![c] = Append(@, m)]
  BY DEF SendWelcome, SendState, SendBlock, Send
<1>2. UNCHANGED <<log, from, clients, got, writer, snapshot>>
  BY DEF SendWelcome, SendState, SendBlock, Send, pumpVars, history
<1>3. Connected(d)' => Connected(d)
  BY DEF SendWelcome, SendState, SendBlock, Send, Connected, TypeOK
<1>4. Items(chan[d]) \subseteq Items(chan'[d])
  <2>1. CASE d = c
    <3>1. chan[d] \in Seq(Message) /\ chan'[d] = Append(chan[d], m)
      BY <1>1, <2>1 DEF TypeOK
    <3> QED  BY <3>1, ItemsAppend
  <2>2. CASE d # c
    BY <1>1, <2>2 DEF TypeOK
  <2> QED  BY <2>1, <2>2
<1> QED  BY <1>2, <1>3, <1>4, ServedKept

\* writePump moves messages from the channel to the client, or stops.
LEMMA WriterServed ==
  ASSUME TypeOK, NEW c \in Client, NEW d \in Client, ServedSound(d), WriterStep(c)
  PROVE  ServedSound(d)'
<1>1. UNCHANGED <<log, from, clients, handler, snapshot>>
  BY DEF WriterStep, Write, WriteFails, CloseConn, history
<1>2. CASE d # c
  <2>1. got'[d] = got[d] /\ chan'[d] = chan[d] /\ writer'[d] = writer[d]
    BY <1>2 DEF WriterStep, Write, WriteFails, CloseConn, chanVars, pumpVars, TypeOK
  <2> QED  BY <1>1, <2>1, ServedKept DEF Connected
<1>3. CASE d = c /\ Write(c)
  <2>1. /\ chan[d] \in Seq(Message) /\ got[d] \in Seq(Message) /\ chan[d] # <<>>
        /\ got'[d] = Append(got[d], Head(chan[d])) /\ chan'[d] = Tail(chan[d])
        /\ writer' = writer
    BY <1>3 DEF Write, TypeOK, pumpVars
  <2>2. Items(chan[d]) = {Head(chan[d])} \cup Items(Tail(chan[d]))
    BY <2>1, ItemsTail
  <2>3. Items(got'[d]) = Items(got[d]) \cup {Head(chan[d])}
    BY <2>1, ItemsAppend
  <2> QED  BY Zenon, <1>1, <2>1, <2>2, <2>3, ServedKept DEF Connected
<1>4. CASE d = c /\ (WriteFails(c) \/ CloseConn(c))
  <2>1. writer'[d] = "done"
    BY <1>4 DEF WriteFails, CloseConn, TypeOK
  <2> QED  BY <1>1, <2>1, ServedKept DEF Connected
<1> QED  BY <1>2, <1>3, <1>4 DEF WriterStep

\* The other steps leave the messages of every client alone.
LEMMA OthersServed ==
  ASSUME TypeOK, NEW d \in Client, ServedSound(d),
         UNCHANGED <<log, from, got, chan, snapshot>>, clients' \subseteq clients,
         Connected(d)' => Connected(d), writer[d] = "done" => writer'[d] = "done"
  PROVE  ServedSound(d)'
  BY ServedKept

LEMMA NextBlocks ==
  TypeOK /\ TypeOK' /\ ChannelsSound /\ BlocksSound /\ [Next]_vars => BlocksSound'
<1> SUFFICES ASSUME TypeOK, TypeOK', ChannelsSound, BlocksSound, [Next]_vars,
                    NEW d \in Client
             PROVE  ServedSound(d)'
  BY EventsKept DEF BlocksSound
<1>1. ServedSound(d) /\ EventsSound
  BY DEF BlocksSound
<1>2. CASE BroadcastState \/ CommitBlock \/ SyncBlock \/ TakeBroadcast
  BY <1>1, <1>2, OthersServed
     DEF BroadcastState, CommitBlock, SyncBlock, TakeBroadcast, chanVars, pumpVars,
         history, Connected
<1>3. CASE PassOn
  BY <1>1, <1>3, PassOnServed
<1>4. ASSUME NEW c \in Client, Unregister(c) \/ Disconnect(c)  PROVE ServedSound(d)'
  BY <1>1, <1>4, OthersServed
     DEF Unregister, Disconnect, chanVars, pumpVars, history, Connected
<1>5. ASSUME NEW c \in Client, Register(c)  PROVE ServedSound(d)'
  BY <1>1, <1>5, RegisterServed
<1>6. ASSUME NEW c \in Client, HandlerStep(c)  PROVE ServedSound(d)'
  <2>1. CASE SendWelcome(c) \/ SendState(c) \/ SendBlock(c)
    BY <1>1, <2>1, SendServed
  <2>2. CASE ReadState(c)
    <3>1. Connected(d)' => Connected(d)
      BY <2>2 DEF ReadState, Connected, TypeOK
    <3> QED  BY <1>1, <2>2, <3>1, OthersServed DEF ReadState, chanVars, pumpVars, history
  <2>3. CASE ReadBlock(c)
    BY <1>1, <2>3, ReadBlockServed
  <2>4. CASE StartPumps(c)
    <3>1. (Connected(d)' => Connected(d)) /\ handler[c] = "pumps"
      BY <2>4 DEF StartPumps, Connected, TypeOK
    <3>2. writer[c] = "idle"
      BY <3>1 DEF ChannelsSound, ChannelSound
    <3>3. writer[d] = "done" => writer'[d] = "done"
      BY <2>4, <3>2 DEF StartPumps, TypeOK
    <3> QED  BY <1>1, <2>4, <3>1, <3>3, OthersServed DEF StartPumps, chanVars, history
  <2> QED  BY <1>6, <2>1, <2>2, <2>3, <2>4 DEF HandlerStep
<1>7. ASSUME NEW c \in Client, WriterStep(c)  PROVE ServedSound(d)'
  BY <1>1, <1>7, WriterServed
<1>8. CASE UNCHANGED vars
  BY <1>1, <1>8, OthersServed DEF vars, chanVars, pumpVars, history, Connected
<1> QED  BY <1>2, <1>3, <1>4, <1>5, <1>6, <1>7, <1>8 DEF Next, HubStep

\* A client that stays registered gets every block above the one it was greeted
\* with.
THEOREM ClientsMissNoBlock == Spec => []NoMissedBlock
<1>1. TypeOK /\ BlocksSound => NoMissedBlock
  <2> SUFFICES ASSUME TypeOK, BlocksSound, NEW c \in clients, Connected(c),
                      writer[c] # "done", NEW e \in Items(log), e.height > snapshot[c]
               PROVE  e \in Items(got[c]) \cup Items(chan[c])
    BY DEF NoMissedBlock
  <2>1. c \in Client /\ ServedSound(c)
    BY DEF TypeOK, BlocksSound
  <2>2. PICK i \in DOMAIN log : e = log[i]
    BY DEF Items
  <2>3. i \in 1 .. Len(log) /\ from[c] \in Nat /\ Len(log) \in Nat
    BY <2>1, <2>2 DEF TypeOK
  <2>4. e.height \in Nat /\ snapshot[c] \in Nat
    <3>1. log[i] \in Event
      BY <2>2 DEF TypeOK
    <3>2. snapshot[c] \in 0 .. MaxHeight
      BY <2>1 DEF TypeOK
    <3> QED  BY <2>2, <3>1, <3>2 DEF Event
  <2>5. CASE i <= from[c]
    <3>1. log[i].height <= snapshot[c]
      BY <2>1, <2>3, <2>5 DEF ServedSound
    <3> QED  BY <2>2, <2>4, <3>1
  <2>6. CASE ~(i <= from[c])
    <3>1. i \in from[c] + 1 .. Len(log)
      BY <2>3, <2>6
    <3> QED  BY <2>1, <2>2, <3>1 DEF ServedSound
  <2> QED  BY <2>5, <2>6
<1> QED
  BY InitType, NextType, InitChannels, NextChannels, InitBlocks, NextBlocks, <1>1, PTL
     DEF Spec

-----------------------------------------------------------------------------
(* The events among messages: the recursive function behind EventsOf.      *)

\* A set of naturals that contains 0 and all successors contains all naturals.
LEMMA NatsInduct ==
  ASSUME NEW P \in SUBSET Nat, 0 \in P, \A n \in P : n + 1 \in P
  PROVE  P = Nat
<1> SUFFICES ASSUME Nat \ P # {}  PROVE FALSE
  BY Zenon
<1> DEFINE R == {r \in Nat \X Nat : r[1] < r[2]}
<1>1. IsWellFoundedOn(R, Nat)
  BY NatLessThanWellFounded DEF OpToRel
<1> HIDE DEF R
<1>2. PICK m \in Nat \ P : \A k \in Nat \ P : <<k, m>> \notin R
  BY Zenon, <1>1, WFMin
<1>3. m # 0 /\ m - 1 \in Nat
  BY <1>2
<1>4. <<m - 1, m>> \in R
  BY <1>3 DEF R
<1>5. m - 1 \in P
  BY <1>2, <1>3, <1>4
<1>6. (m - 1) + 1 \in P
  BY <1>5
<1> QED  BY <1>2, <1>3, <1>6

\* The events q, and m if it is one.
Keep(q, m) == IF m \in Event THEN Append(q, m) ELSE q

\* One step of the recursion, from the events g among fewer messages.
KeptStep(s, i, g) == IF i = 0 THEN <<>> ELSE Keep(g[i - 1], s[i])

KeptOf(s, n, g) == g = [i \in 0 .. n |-> KeptStep(s, i, g)]

LEMMA KeptChoice ==
  ASSUME NEW s
  PROVE  EventsOf(s) = (CHOOSE g : KeptOf(s, Len(s), g))[Len(s)]
  BY DEF EventsOf, KeptOf, KeptStep, Keep

LEMMA KeptExists ==
  ASSUME NEW s, NEW n \in Nat
  PROVE  \E g : KeptOf(s, n, g)
<1> DEFINE P == {k \in Nat : \E g : KeptOf(s, k, g)}
<1>1. 0 \in P
  <2> DEFINE g == [i \in 0 .. 0 |-> <<>>]
  <2>1. g = [i \in 0 .. 0 |-> KeptStep(s, i, g)]
    BY DEF KeptStep
  <2> QED  BY Zenon, <2>1 DEF KeptOf
<1>2. ASSUME NEW k \in P  PROVE k + 1 \in P
  <2>1. PICK g : g = [i \in 0 .. k |-> KeptStep(s, i, g)]
    BY Zenon DEF KeptOf
  <2> DEFINE h == [i \in 0 .. k + 1 |-> KeptStep(s, i, g)]
  <2>2. \A i \in 0 .. k : h[i] = g[i]
    <3> HIDE DEF P
    <3>1. \A i \in 0 .. k : i \in 0 .. k + 1
      BY DEF P
    <3>2. \A i \in 0 .. k : g[i] = KeptStep(s, i, g)
      BY Zenon, <2>1
    <3> QED  BY Zenon, <3>1, <3>2
  <2>3. ASSUME NEW i \in 0 .. k + 1  PROVE KeptStep(s, i, g) = KeptStep(s, i, h)
    <3>1. CASE i = 0
      BY Zenon, <3>1 DEF KeptStep
    <3>2. CASE i # 0
      <4>1. i - 1 \in 0 .. k
        BY <3>2
      <4> HIDE DEF h
      <4>2. h[i - 1] = g[i - 1]
        BY Zenon, <2>2, <4>1
      <4> QED  BY Zenon, <4>2 DEF KeptStep
    <3> QED  BY <3>1, <3>2
  <2>4. h = [i \in 0 .. k + 1 |-> KeptStep(s, i, h)]
    BY Zenon, <2>3
  <2>5. k + 1 \in Nat
    OBVIOUS
  <2> HIDE DEF h
  <2> QED  BY Zenon, <2>4, <2>5 DEF KeptOf
<1>3. P = Nat
  <2> HIDE DEF P
  <2>1. P \in SUBSET Nat
    BY DEF P
  <2> QED  BY <1>1, <1>2, <2>1, NatsInduct
<1> QED  BY Zenon, <1>3

\* The recursion read forwards.
LEMMA KeptAt ==
  ASSUME NEW s, NEW n \in Nat, NEW g, KeptOf(s, n, g)
  PROVE  /\ g[0] = <<>>
         /\ \A i \in 0 .. n - 1 : g[i + 1] = Keep(g[i], s[i + 1])
<1>1. \A i \in 0 .. n : g[i] = KeptStep(s, i, g)
  BY Zenon DEF KeptOf
<1>2. g[0] = <<>>
  BY <1>1 DEF KeptStep
<1>3. ASSUME NEW i \in 0 .. n - 1
      PROVE  g[i + 1] = Keep(g[i], s[i + 1])
  <2>1. i + 1 \in 0 .. n /\ i + 1 # 0 /\ (i + 1) - 1 = i
    OBVIOUS
  <2> QED  BY Zenon, <1>1, <2>1 DEF KeptStep
<1> QED  BY <1>2, <1>3

\* Sequences that agree on their first n messages have the same events there.
LEMMA KeptAgree ==
  ASSUME NEW s, NEW t, NEW n \in Nat, NEW m \in Nat, n <= m,
         \A i \in 1 .. n : s[i] = t[i],
         NEW g, KeptOf(s, n, g), NEW h, KeptOf(t, m, h)
  PROVE  g[n] = h[n]
<1> DEFINE P == {k \in Nat : k <= n => g[k] = h[k]}
<1>1. 0 \in P
  <2>1. g[0] = h[0]
    BY Zenon, KeptAt
  <2> QED  BY <2>1
<1>2. ASSUME NEW k \in P  PROVE k + 1 \in P
  <2> SUFFICES ASSUME k + 1 <= n  PROVE g[k + 1] = h[k + 1]
    OBVIOUS
  <2>1. k \in 0 .. n - 1 /\ k \in 0 .. m - 1 /\ k + 1 \in 1 .. n /\ g[k] = h[k]
    OBVIOUS
  <2> HIDE DEF P
  <2>2. s[k + 1] = t[k + 1]
    BY <2>1
  <2>3. g[k + 1] = Keep(g[k], s[k + 1])
    BY Zenon, <2>1, KeptAt
  <2>4. h[k + 1] = Keep(h[k], t[k + 1])
    BY Zenon, <2>1, KeptAt
  <2> QED  BY Zenon, <2>1, <2>2, <2>3, <2>4
<1>3. P = Nat
  <2> HIDE DEF P
  <2>1. P \in SUBSET Nat
    BY DEF P
  <2> QED  BY <1>1, <1>2, <2>1, NatsInduct
<1> QED  BY <1>3


\* The events among the first messages are the first events.
LEMMA KeptGrows ==
  ASSUME NEW s, NEW n \in Nat, NEW g, KeptOf(s, n, g), NEW i \in 0 .. n
  PROVE  /\ g[n] \in Seq(Event) /\ g[i] \in Seq(Event)
         /\ Len(g[i]) <= Len(g[n]) /\ \A k \in 1 .. Len(g[i]) : g[n][k] = g[i][k]
<1> DEFINE Grown(a, b) == /\ a \in Seq(Event) /\ b \in Seq(Event)
                          /\ Len(a) <= Len(b) /\ \A k \in 1 .. Len(a) : b[k] = a[k]
           P == {j \in Nat : j <= n => \A l \in 0 .. j : Grown(g[l], g[j])}
<1>1. 0 \in P
  <2>1. g[0] = <<>>
    BY Zenon, KeptAt
  <2>2. Grown(g[0], g[0])
    BY <2>1
  <2> HIDE DEF Grown
  <2> QED  BY <2>2
<1>2. ASSUME NEW j \in P  PROVE j + 1 \in P
  <2> SUFFICES ASSUME j + 1 <= n, NEW l \in 0 .. j + 1  PROVE Grown(g[l], g[j + 1])
    <3> HIDE DEF Grown
    <3> QED  OBVIOUS
  <2>1. j \in 0 .. n - 1 /\ j \in 0 .. j /\ (l # j + 1 => l \in 0 .. j)
        /\ \A k \in 0 .. j : Grown(g[k], g[j])
    <3> HIDE DEF Grown
    <3> QED  OBVIOUS
  <2> HIDE DEF P
  <2>2. g[j + 1] = Keep(g[j], s[j + 1])
    BY Zenon, <2>1, KeptAt
  <2>3. g[j] \in Seq(Event)
    BY <2>1
  <2>4. Grown(g[j], g[j + 1]) /\ Grown(g[j + 1], g[j + 1])
    BY <2>2, <2>3 DEF Keep
  <2>5. CASE l = j + 1
    BY <2>4, <2>5
  <2>6. CASE l # j + 1
    <3>1. Grown(g[l], g[j])
      BY <2>1, <2>6
    <3>2. ASSUME NEW k \in 1 .. Len(g[l])  PROVE g[j + 1][k] = g[l][k]
      <4>1. k \in 1 .. Len(g[j])
        BY <3>1
      <4> QED  BY <2>4, <3>1, <4>1
    <3>3. Len(g[l]) <= Len(g[j + 1])
      BY <2>4, <3>1
    <3> QED  BY <2>4, <3>1, <3>2, <3>3
  <2> QED  BY <2>5, <2>6
<1>3. P = Nat
  <2> HIDE DEF P
  <2>1. P \in SUBSET Nat
    BY DEF P
  <2> QED  BY <1>1, <1>2, <2>1, NatsInduct
<1>4. Grown(g[i], g[n])
  <2> HIDE DEF Grown
  <2> QED  BY <1>3
<1> QED  BY <1>4

\* The function of s, read at the length of a first part t of s.
LEMMA KeptPrefix ==
  ASSUME NEW S, NEW s \in Seq(S), NEW t \in Seq(S), Len(t) <= Len(s),
         \A i \in 1 .. Len(t) : t[i] = s[i]
  PROVE  \E g : /\ KeptOf(s, Len(s), g)
                /\ EventsOf(s) = g[Len(s)] /\ EventsOf(t) = g[Len(t)]
<1> DEFINE g == CHOOSE f : KeptOf(s, Len(s), f)
           h == CHOOSE f : KeptOf(t, Len(t), f)
<1>1. Len(s) \in Nat /\ Len(t) \in Nat
  OBVIOUS
<1>2. KeptOf(s, Len(s), g)
  BY Zenon, <1>1, KeptExists
<1>3. KeptOf(t, Len(t), h)
  BY Zenon, <1>1, KeptExists
<1>4. EventsOf(s) = g[Len(s)] /\ EventsOf(t) = h[Len(t)]
  BY Zenon, KeptChoice
<1> HIDE DEF g, h
<1>5. h[Len(t)] = g[Len(t)]
  BY <1>1, <1>2, <1>3, KeptAgree
<1> QED  BY Zenon, <1>2, <1>4, <1>5

LEMMA EventsAppend ==
  ASSUME NEW S, NEW s \in Seq(S), NEW m \in S
  PROVE  /\ EventsOf(Append(s, m)) = Keep(EventsOf(s), m)
         /\ EventsOf(s) \in Seq(Event)
<1> DEFINE t == Append(s, m)
<1>1. /\ t \in Seq(S) /\ Len(s) \in Nat /\ Len(t) = Len(s) + 1 /\ t[Len(s) + 1] = m
      /\ \A i \in 1 .. Len(s) : s[i] = t[i]
  OBVIOUS
<1> HIDE DEF t
<1>2. PICK g : /\ KeptOf(t, Len(t), g)
               /\ EventsOf(t) = g[Len(t)] /\ EventsOf(s) = g[Len(s)]
  <2>1. Len(s) <= Len(t)
    BY <1>1
  <2> QED  BY Zenon, <1>1, <2>1, KeptPrefix
<1>3. Len(s) \in 0 .. Len(t) - 1 /\ Len(s) \in 0 .. Len(t) /\ Len(t) \in Nat
  BY <1>1
<1>4. g[Len(s) + 1] = Keep(g[Len(s)], t[Len(s) + 1])
  BY Zenon, <1>2, <1>3, KeptAt
<1>5. g[Len(s)] \in Seq(Event)
  BY Zenon, <1>2, <1>3, KeptGrows
<1> QED  BY Zenon, <1>1, <1>2, <1>4, <1>5 DEF t

LEMMA EventsNone == EventsOf(<<>>) = <<>>
<1> DEFINE s == <<>>
<1>1. s \in Seq(Event) /\ Len(s) = 0 /\ Len(s) <= Len(s) /\ Len(s) \in Nat
  OBVIOUS
<1>2. PICK g : KeptOf(s, Len(s), g) /\ EventsOf(s) = g[Len(s)]
  <2>1. \A i \in 1 .. Len(s) : s[i] = s[i]
    OBVIOUS
  <2> HIDE DEF s
  <2> QED  BY Zenon, <1>1, <2>1, KeptPrefix
<1>3. g[0] = <<>>
  BY Zenon, <1>1, <1>2, KeptAt
<1> QED  BY <1>1, <1>2, <1>3

LEMMA EventsPrefix ==
  ASSUME NEW S, NEW s \in Seq(S), NEW t \in Seq(S), Len(t) <= Len(s),
         \A i \in 1 .. Len(t) : t[i] = s[i]
  PROVE  /\ EventsOf(s) \in Seq(Event) /\ EventsOf(t) \in Seq(Event)
         /\ Len(EventsOf(t)) <= Len(EventsOf(s))
         /\ \A k \in 1 .. Len(EventsOf(t)) : EventsOf(s)[k] = EventsOf(t)[k]
<1>1. Len(s) \in Nat /\ Len(t) \in 0 .. Len(s)
  OBVIOUS
<1>2. PICK g : /\ KeptOf(s, Len(s), g)
               /\ EventsOf(s) = g[Len(s)] /\ EventsOf(t) = g[Len(t)]
  BY Zenon, KeptPrefix
<1>3. /\ g[Len(s)] \in Seq(Event) /\ g[Len(t)] \in Seq(Event)
      /\ Len(g[Len(t)]) <= Len(g[Len(s)])
      /\ \A k \in 1 .. Len(g[Len(t)]) : g[Len(s)][k] = g[Len(t)][k]
  BY <1>1, <1>2, KeptGrows
<1> QED  BY <1>2, <1>3


-----------------------------------------------------------------------------
(* The events meant for a client.                                          *)

\* The events q are those of the log l after the first f and up to u.
Delivered(q, l, f, u) ==
  /\ f <= u /\ u <= Len(l) /\ Len(q) = u - f
  /\ \A i \in 1 .. u - f : q[i] = l[f + i]

LEMMA DeliveredNone ==
  ASSUME NEW l \in Seq(Event)
  PROVE  Delivered(<<>>, l, Len(l), Len(l))
<1>1. \A n \in Nat : n <= n /\ n - n = 0 /\ 1 .. n - n = {}
  OBVIOUS
<1>2. Len(l) \in Nat /\ Len(<<>>) = 0
  OBVIOUS
<1> QED  BY Zenon, <1>1, <1>2 DEF Delivered

LEMMA DeliveredMore ==
  ASSUME NEW q \in Seq(Event), NEW l \in Seq(Event), NEW f \in Nat, NEW e \in Event,
         Delivered(q, l, f, Len(l))
  PROVE  Delivered(Append(q, e), Append(l, e), f, Len(l) + 1)
<1>0. Len(q) = Len(l) - f /\ f <= Len(l) /\ \A i \in 1 .. Len(l) - f : q[i] = l[f + i]
  BY DEF Delivered
<1>1. /\ Len(Append(l, e)) = Len(l) + 1 /\ Len(Append(q, e)) = Len(q) + 1
      /\ Len(l) \in Nat /\ Len(q) = Len(l) - f /\ f <= Len(l)
  <2>1. Len(Append(l, e)) = Len(l) + 1 /\ Len(Append(q, e)) = Len(q) + 1 /\ Len(l) \in Nat
    OBVIOUS
  <2> QED  BY Zenon, <1>0, <2>1
<1>2. ASSUME NEW i \in 1 .. (Len(l) + 1) - f  PROVE Append(q, e)[i] = Append(l, e)[f + i]
  <2>1. CASE i = Len(q) + 1
    <3>1. f + i = Len(l) + 1
      BY <1>1, <2>1
    <3> QED  BY <2>1, <3>1
  <2>2. CASE i # Len(q) + 1
    <3>1. i \in 1 .. Len(l) - f /\ i \in 1 .. Len(q) /\ f + i \in 1 .. Len(l)
      BY <1>1, <2>2
    <3>2. q[i] = l[f + i]
      BY <1>0, <3>1
    <3> QED  BY <3>1, <3>2
  <2> QED  BY <2>1, <2>2
<1>3. /\ f <= Len(l) + 1 /\ Len(l) + 1 <= Len(Append(l, e))
      /\ Len(Append(q, e)) = (Len(l) + 1) - f
  BY <1>1
<1> QED  BY Zenon, <1>2, <1>3 DEF Delivered

LEMMA DeliveredStill ==
  ASSUME NEW q \in Seq(Event), NEW l \in Seq(Event), NEW f \in Nat, NEW u \in Nat,
         NEW e \in Event, Delivered(q, l, f, u)
  PROVE  Delivered(q, Append(l, e), f, u)
<1>1. Len(Append(l, e)) = Len(l) + 1 /\ Len(l) \in Nat /\ u <= Len(l) /\ f <= u
  BY DEF Delivered
<1>2. \A j \in 1 .. Len(l) : Append(l, e)[j] = l[j]
  OBVIOUS
<1>3. ASSUME NEW i \in 1 .. u - f  PROVE Append(l, e)[f + i] = l[f + i]
  <2>1. f + i \in 1 .. Len(l)
    BY <1>1
  <2> QED  BY Zenon, <1>2, <2>1
<1> QED  BY <1>1, <1>3 DEF Delivered

LEMMA ConcatAppend ==
  ASSUME NEW S, NEW p \in Seq(S), NEW q \in Seq(S), NEW m \in S
  PROVE  p \o Append(q, m) = Append(p \o q, m) /\ p \o q \in Seq(S)
  OBVIOUS

LEMMA SameSeq ==
  ASSUME NEW S, NEW p \in Seq(S), NEW q \in Seq(S), NEW n, Len(p) = n, Len(q) = n,
         \A i \in 1 .. n : p[i] = q[i]
  PROVE  p = q
  OBVIOUS

LEMMA ConcatTail ==
  ASSUME NEW S, NEW p \in Seq(S), NEW q \in Seq(S), q # <<>>
  PROVE  /\ Append(p, Head(q)) \o Tail(q) = p \o q
         /\ Len(Append(p, Head(q))) <= Len(p \o q)
         /\ \A i \in 1 .. Len(Append(p, Head(q))) : Append(p, Head(q))[i] = (p \o q)[i]
<1> DEFINE a == Append(p, Head(q))
<1>1. /\ a \in Seq(S) /\ Tail(q) \in Seq(S) /\ Head(q) = q[1] /\ Len(q) >= 1
      /\ Len(a) = Len(p) + 1 /\ Len(Tail(q)) = Len(q) - 1
      /\ Len(p) \in Nat /\ Len(q) \in Nat
  OBVIOUS
<1>2. /\ p \o q \in Seq(S) /\ Len(p \o q) = Len(p) + Len(q)
      /\ a \o Tail(q) \in Seq(S) /\ Len(a \o Tail(q)) = Len(a) + Len(Tail(q))
  BY <1>1
<1>3. ASSUME NEW i \in 1 .. Len(a)  PROVE a[i] = (p \o q)[i]
  <2>1. CASE i = Len(p) + 1
    <3>1. (p \o q)[i] = q[1]
      BY <1>1, <2>1
    <3> QED  BY <1>1, <2>1, <3>1
  <2>2. CASE i # Len(p) + 1
    <3>1. i \in 1 .. Len(p)
      BY <1>1, <2>2
    <3> QED  BY <3>1
  <2> QED  BY <2>1, <2>2
<1>4. ASSUME NEW i \in 1 .. Len(p) + Len(q)  PROVE (a \o Tail(q))[i] = (p \o q)[i]
  <2>1. CASE i \in 1 .. Len(a)
    <3>1. (a \o Tail(q))[i] = a[i]
      BY <1>1, <2>1
    <3> QED  BY <1>3, <2>1, <3>1
  <2>2. CASE i \notin 1 .. Len(a)
    <3>1. i - Len(a) \in 1 .. Len(Tail(q)) /\ i - Len(p) \in 1 .. Len(q)
          /\ (i - Len(a)) + 1 = i - Len(p) /\ i > Len(a) /\ i > Len(p)
      BY <1>1, <2>2
    <3> HIDE DEF a
    <3>2. (a \o Tail(q))[i] = Tail(q)[i - Len(a)]
      BY <1>1, <1>2, <3>1
    <3>3. (p \o q)[i] = q[i - Len(p)]
      BY <1>1, <3>1
    <3>4. Tail(q)[i - Len(a)] = q[(i - Len(a)) + 1]
      BY <1>1, <3>1
    <3> QED  BY <3>1, <3>2, <3>3, <3>4
  <2> QED  BY <2>1, <2>2
<1>5. a \o Tail(q) = p \o q
  <2>1. Len(a \o Tail(q)) = Len(p) + Len(q)
    BY <1>1, <1>2
  <2> DEFINE x == a \o Tail(q)
             y == p \o q
             n == Len(p) + Len(q)
  <2>2. x \in Seq(S) /\ y \in Seq(S) /\ Len(x) = n /\ Len(y) = n
    BY Zenon, <1>2, <2>1
  <2>3. \A i \in 1 .. n : x[i] = y[i]
    BY <1>4
  <2> HIDE DEF x, y, n
  <2>4. x = y
    BY <2>2, <2>3, SameSeq
  <2> QED  BY <2>4 DEF x, y
<1> QED  BY <1>1, <1>2, <1>3, <1>5


\* The last event meant for c so far.
LastFor(c) == IF c \in clients THEN Len(log) ELSE upto[c]

\* What c has got, and what waits in its channel while writePump runs or is
\* still to start, are the events meant for it, with the greeting among them.
FeedSound(c) ==
  /\ ~Registered(c) => c \notin clients /\ got[c] = <<>>
  /\ Registered(c) => from[c] <= LastFor(c) /\ LastFor(c) <= Len(log)
  /\ Registered(c) /\ writer[c] # "done" =>
       Delivered(EventsOf(got[c] \o chan[c]), log, from[c], LastFor(c))

FeedsSound == \A c \in Client : FeedSound(c)

LEMMA InitFeeds == Init => FeedsSound
<1> SUFFICES ASSUME Init, NEW c \in Client  PROVE FeedSound(c)
  BY Zenon DEF FeedsSound
<1>1. ~Registered(c) /\ c \notin clients /\ got[c] = <<>>
  BY DEF Init, Registered
<1> QED  BY Zenon, <1>1 DEF FeedSound

\* A step that leaves what is meant for c alone, and its messages, except that
\* it may move some of them to the client or add a greeting.
LEMMA FeedKept ==
  ASSUME NEW c \in Client, FeedSound(c), log' = log, from'[c] = from[c],
         upto'[c] = upto[c], c \in clients' <=> c \in clients,
         Registered(c)' <=> Registered(c), ~Registered(c) => got'[c] = got[c],
         writer[c] = "done" => writer'[c] = "done",
         writer'[c] # "done" =>
           EventsOf(got'[c] \o chan'[c]) = EventsOf(got[c] \o chan[c])
  PROVE  FeedSound(c)'
<1>1. LastFor(c)' = LastFor(c)
  BY Zenon DEF LastFor
<1> QED  BY Zenon, <1>1 DEF FeedSound

LEMMA PassOnFeed ==
  ASSUME TypeOK, NEW c \in Client, FeedSound(c), PassOn
  PROVE  FeedSound(c)'
<1>1. /\ log' = Append(log, inHand) /\ log \in Seq(Event) /\ inHand \in Event
      /\ UNCHANGED <<from, got, handler, writer>>
  BY DEF PassOn, TypeOK, pumpVars
<1>2. Len(log') = Len(log) + 1 /\ Len(log) \in Nat /\ from[c] \in Nat /\ upto[c] \in Nat
  BY <1>1 DEF TypeOK
<1>3. got[c] \in Seq(Message) /\ chan[c] \in Seq(Message) /\ inHand \in Message
  BY <1>1 DEF TypeOK, Message
<1>4. got[c] \o chan[c] \in Seq(Message)
  BY <1>3
<1>5. /\ EventsOf(Append(got[c] \o chan[c], inHand))
           = Append(EventsOf(got[c] \o chan[c]), inHand)
      /\ EventsOf(got[c] \o chan[c]) \in Seq(Event)
  <2>1. /\ EventsOf(Append(got[c] \o chan[c], inHand))
             = Keep(EventsOf(got[c] \o chan[c]), inHand)
        /\ EventsOf(got[c] \o chan[c]) \in Seq(Event)
    BY Zenon, <1>3, <1>4, EventsAppend
  <2> QED  BY <1>1, <2>1 DEF Keep
<1>6. CASE c \in clients /\ HasRoom(c)
  <2>1. c \in clients' /\ chan'[c] = Append(chan[c], inHand)
    BY <1>6 DEF PassOn
  <2>2. LastFor(c) = Len(log) /\ LastFor(c)' = Len(log) + 1
    BY <1>2, <1>6, <2>1 DEF LastFor
  <2>3. EventsOf(got'[c] \o chan'[c]) = Append(EventsOf(got[c] \o chan[c]), inHand)
    <3>1. got[c] \o Append(chan[c], inHand) = Append(got[c] \o chan[c], inHand)
      <4>1. PICK p \in Seq(Message), q \in Seq(Message) : p = got[c] /\ q = chan[c]
        BY Zenon, <1>3
      <4>2. p \o Append(q, inHand) = Append(p \o q, inHand)
        BY <1>3, ConcatAppend
      <4> QED  BY Zenon, <4>1, <4>2
    <3>2. got'[c] = got[c]
      BY <1>1
    <3> QED  BY Zenon, <1>5, <2>1, <3>1, <3>2
  <2>4. Registered(c)
    BY <1>6 DEF FeedSound
  <2>5. from[c] <= Len(log)
    BY Zenon, <2>2, <2>4 DEF FeedSound
  <2>6. writer[c] # "done" =>
          Delivered(Append(EventsOf(got[c] \o chan[c]), inHand), Append(log, inHand),
                    from[c], Len(log) + 1)
    <3> SUFFICES ASSUME writer[c] # "done"
                 PROVE  Delivered(Append(EventsOf(got[c] \o chan[c]), inHand),
                                  Append(log, inHand), from[c], Len(log) + 1)
      OBVIOUS
    <3>1. Delivered(EventsOf(got[c] \o chan[c]), log, from[c], Len(log))
      BY Zenon, <2>2, <2>4 DEF FeedSound
    <3> QED  BY Zenon, <1>1, <1>2, <1>5, <3>1, DeliveredMore
  <2>7. from[c] <= Len(log) + 1 /\ Len(log) + 1 <= Len(log')
    BY <1>2, <2>5
  <2>8. Registered(c)'
    BY Zenon, <1>1, <2>4 DEF Registered
  <2> QED  BY Zenon, <1>1, <2>2, <2>3, <2>6, <2>7, <2>8 DEF FeedSound
<1>7. CASE ~(c \in clients /\ HasRoom(c))
  <2>1. c \notin clients' /\ chan'[c] = chan[c]
    BY <1>7 DEF PassOn
  <2>2. LastFor(c)' = LastFor(c) /\ LastFor(c) \in Nat
    <3>1. CASE c \in clients
      <4>1. upto'[c] = Len(log)
        BY <1>7, <3>1 DEF PassOn
      <4> QED  BY <1>2, <2>1, <3>1, <4>1 DEF LastFor
    <3>2. CASE c \notin clients
      <4>1. upto'[c] = upto[c]
        BY <3>2 DEF PassOn
      <4> QED  BY <1>2, <2>1, <3>2, <4>1 DEF LastFor
    <3> QED  BY <3>1, <3>2
  <2>3. Registered(c)' <=> Registered(c)
    BY Zenon, <1>1 DEF Registered
  <2>4. Registered(c) => from[c] <= LastFor(c) /\ LastFor(c) <= Len(log')
    <3> SUFFICES ASSUME Registered(c)
                 PROVE  from[c] <= LastFor(c) /\ LastFor(c) <= Len(log')
      OBVIOUS
    <3>1. from[c] <= LastFor(c) /\ LastFor(c) <= Len(log)
      BY Zenon DEF FeedSound
    <3> QED  BY <1>2, <2>2, <3>1
  <2>5. Registered(c) /\ writer[c] # "done" =>
          Delivered(EventsOf(got[c] \o chan[c]), Append(log, inHand), from[c], LastFor(c))
    BY Zenon, <1>1, <1>2, <1>5, <2>2, DeliveredStill DEF FeedSound
  <2> QED  BY Zenon, <1>1, <2>1, <2>2, <2>3, <2>4, <2>5 DEF FeedSound
<1> QED  BY <1>6, <1>7


LEMMA RegisterFeed ==
  ASSUME TypeOK, ChannelsSound, NEW c \in Client, NEW d \in Client, FeedSound(d), Register(c)
  PROVE  FeedSound(d)'
<1>1. UNCHANGED <<log, got, chan, writer, upto>>
  BY DEF Register, chanVars, pumpVars
<1>2. CASE d = c
  <2>1. /\ from'[d] = Len(log) /\ d \in clients' /\ handler'[d] = "welcome"
        /\ handler[d] = "idle" /\ Len(log) \in Nat
    BY <1>2 DEF Register, TypeOK
  <2>2. got[d] = <<>> /\ chan[d] = <<>>
    BY <2>1 DEF FeedSound, Registered, ChannelsSound, ChannelSound, IdleSound
  <2>3. got'[d] \o chan'[d] = <<>>
    BY <1>1, <2>2
  <2>4. EventsOf(got'[d] \o chan'[d]) = <<>>
    BY Zenon, <2>3, EventsNone
  <2>5. LastFor(d)' = Len(log)
    BY Zenon, <1>1, <2>1 DEF LastFor
  <2>6. Delivered(<<>>, log, Len(log), Len(log))
    BY DeliveredNone DEF TypeOK
  <2>7. Registered(d)' /\ Len(log) <= Len(log)
    BY <2>1 DEF Registered
  <2> QED  BY Zenon, <1>1, <2>1, <2>4, <2>5, <2>6, <2>7 DEF FeedSound
<1>3. CASE d # c
  <2>1. /\ d \in clients' <=> d \in clients
        /\ handler'[d] = handler[d] /\ from'[d] = from[d]
    BY <1>3 DEF Register, TypeOK
  <2> QED  BY <1>1, <2>1, FeedKept DEF Registered
<1> QED  BY <1>2, <1>3

\* The client that leaves has been meant to get all events so far.
LEMMA UnregisterFeed ==
  ASSUME TypeOK, NEW c \in Client, NEW d \in Client, FeedSound(d), Unregister(c)
  PROVE  FeedSound(d)'
<1>1. UNCHANGED <<log, got, chan, writer, from, handler>>
  BY DEF Unregister
<1>2. CASE d = c /\ c \in clients
  <2>1. upto'[d] = Len(log) /\ d \notin clients'
    BY <1>2 DEF Unregister, TypeOK
  <2>2. LastFor(d)' = LastFor(d)
    BY Zenon, <1>2, <2>1 DEF LastFor
  <2> QED  BY Zenon, <1>1, <2>1, <2>2 DEF FeedSound, Registered
<1>3. CASE ~(d = c /\ c \in clients)
  <2>1. (d \in clients' <=> d \in clients) /\ upto'[d] = upto[d]
    BY <1>3 DEF Unregister, TypeOK
  <2> QED  BY <1>1, <2>1, FeedKept DEF Registered
<1> QED  BY <1>2, <1>3

LEMMA GreetingIsNoEvent ==
  /\ \A h \in 0 .. MaxHeight : Greet("latest", h) \in Message \ Event
  /\ Greet("connected", 0) \in Message \ Event /\ Greet("current", 0) \in Message \ Event
<1>1. \A h : /\ Greet("latest", h) \notin Event /\ Greet("connected", h) \notin Event
             /\ Greet("current", h) \notin Event
  BY DEF Greet, Event
<1> QED  BY <1>1, MessageType

LEMMA SendFeed ==
  ASSUME TypeOK, NEW c \in Client, NEW d \in Client, FeedSound(d),
         SendWelcome(c) \/ SendState(c) \/ SendBlock(c)
  PROVE  FeedSound(d)'
<1>1. PICK m \in Message \ Event : chan' = [chan EXCEPT ![c] = Append(@, m)]
  <2>1. snapshot[c] \in 0 .. MaxHeight
    BY DEF TypeOK
  <2> QED  BY <2>1, GreetingIsNoEvent DEF SendWelcome, SendState, SendBlock, Send
<1>2. UNCHANGED <<log, from, upto, clients, got, writer>>
  BY DEF SendWelcome, SendState, SendBlock, Send, pumpVars, history
<1>3. Registered(d)' <=> Registered(d)
  BY DEF SendWelcome, SendState, SendBlock, Send, Registered, TypeOK
<1>4. got[d] \in Seq(Message) /\ chan[d] \in Seq(Message) /\ got'[d] = got[d]
  BY <1>2 DEF TypeOK
<1>5. EventsOf(got'[d] \o chan'[d]) = EventsOf(got[d] \o chan[d])
  <2>1. CASE d = c
    <3>1. chan'[d] = Append(chan[d], m)
      BY <1>1, <2>1 DEF TypeOK
    <3>2. /\ got[d] \o Append(chan[d], m) = Append(got[d] \o chan[d], m)
          /\ got[d] \o chan[d] \in Seq(Message) /\ m \in Message /\ m \notin Event
      <4>1. PICK p \in Seq(Message), q \in Seq(Message) : p = got[d] /\ q = chan[d]
        BY Zenon, <1>4
      <4>2. p \o Append(q, m) = Append(p \o q, m) /\ p \o q \in Seq(Message)
        BY <1>1, ConcatAppend
      <4> QED  BY Zenon, <1>1, <4>1, <4>2
    <3>3. EventsOf(Append(got[d] \o chan[d], m)) = Keep(EventsOf(got[d] \o chan[d]), m)
      BY Zenon, <3>2, EventsAppend
    <3>4. Keep(EventsOf(got[d] \o chan[d]), m) = EventsOf(got[d] \o chan[d])
      BY Zenon, <3>2 DEF Keep
    <3> QED  BY Zenon, <1>4, <3>1, <3>2, <3>3, <3>4
  <2>2. CASE d # c
    <3>1. chan'[d] = chan[d]
      BY <1>1, <2>2 DEF TypeOK
    <3> QED  BY Zenon, <1>4, <3>1
  <2> QED  BY <2>1, <2>2
<1> QED  BY Zenon, <1>2, <1>3, <1>4, <1>5, FeedKept

LEMMA WriterFeed ==
  ASSUME TypeOK, NEW c \in Client, NEW d \in Client, FeedSound(d), ChannelsSound, WriterStep(c)
  PROVE  FeedSound(d)'
<1>1. UNCHANGED <<log, from, upto, clients, handler>> /\ writer[c] = "run"
  BY DEF WriterStep, Write, WriteFails, CloseConn, history
<1>2. CASE d # c
  <2>1. got'[d] = got[d] /\ chan'[d] = chan[d] /\ writer'[d] = writer[d]
    BY <1>2 DEF WriterStep, Write, WriteFails, CloseConn, chanVars, pumpVars, TypeOK
  <2> QED  BY <1>1, <2>1, FeedKept DEF Registered
<1>0. Registered(c)
  BY <1>1 DEF Registered, ChannelsSound, ChannelSound, IdleSound
<1>3. CASE d = c /\ Write(c)
  <2>1. /\ chan[d] \in Seq(Message) /\ got[d] \in Seq(Message) /\ chan[d] # <<>>
        /\ got'[d] = Append(got[d], Head(chan[d])) /\ chan'[d] = Tail(chan[d])
        /\ writer' = writer
    BY <1>3 DEF Write, TypeOK, pumpVars
  <2>2. Append(got[d], Head(chan[d])) \o Tail(chan[d]) = got[d] \o chan[d]
    BY Zenon, <2>1, ConcatTail
  <2>3. EventsOf(got'[d] \o chan'[d]) = EventsOf(got[d] \o chan[d])
    BY Zenon, <2>1, <2>2
  <2> QED  BY <1>0, <1>1, <1>3, <2>1, <2>3, FeedKept DEF Registered
<1>4. CASE d = c /\ (WriteFails(c) \/ CloseConn(c))
  <2>1. writer'[d] = "done" /\ got' = got
    BY <1>4 DEF WriteFails, CloseConn, TypeOK
  <2> QED  BY <1>1, <2>1, FeedKept DEF Registered
<1> QED  BY <1>2, <1>3, <1>4 DEF WriterStep


\* The other steps leave the messages and what is meant for a client alone.
LEMMA OthersFeed ==
  ASSUME NEW d \in Client, FeedSound(d), UNCHANGED <<log, from, upto, clients, got, chan>>,
         Registered(d)' <=> Registered(d), writer[d] = "done" => writer'[d] = "done"
  PROVE  FeedSound(d)'
  BY FeedKept

LEMMA NextFeeds ==
  TypeOK /\ ChannelsSound /\ FeedsSound /\ [Next]_vars => FeedsSound'
<1> SUFFICES ASSUME TypeOK, ChannelsSound, FeedsSound, [Next]_vars, NEW d \in Client
             PROVE  FeedSound(d)'
  BY DEF FeedsSound
<1>1. FeedSound(d)
  BY DEF FeedsSound
<1>2. CASE BroadcastState \/ CommitBlock \/ SyncBlock \/ TakeBroadcast
  BY <1>1, <1>2, OthersFeed
     DEF BroadcastState, CommitBlock, SyncBlock, TakeBroadcast, chanVars, pumpVars,
         history, Registered
<1>3. CASE PassOn
  BY <1>1, <1>3, PassOnFeed
<1>4. ASSUME NEW c \in Client, Disconnect(c)  PROVE FeedSound(d)'
  BY <1>1, <1>4, OthersFeed DEF Disconnect, chanVars, pumpVars, history, Registered
<1>5. ASSUME NEW c \in Client, Register(c) \/ Unregister(c)  PROVE FeedSound(d)'
  BY <1>1, <1>5, RegisterFeed, UnregisterFeed
<1>6. ASSUME NEW c \in Client, HandlerStep(c)  PROVE FeedSound(d)'
  <2>1. CASE SendWelcome(c) \/ SendState(c) \/ SendBlock(c)
    BY <1>1, <2>1, SendFeed
  <2>2. CASE ReadState(c) \/ ReadBlock(c)
    <3>1. Registered(d)' <=> Registered(d)
      BY <2>2 DEF ReadState, ReadBlock, Registered, TypeOK
    <3> QED  BY <1>1, <2>2, <3>1, OthersFeed
             DEF ReadState, ReadBlock, chanVars, pumpVars, history
  <2>3. CASE StartPumps(c)
    <3>1. (Registered(d)' <=> Registered(d)) /\ handler[c] = "pumps"
      BY <2>3 DEF StartPumps, Registered, TypeOK
    <3>2. writer[c] = "idle"
      BY <3>1 DEF ChannelsSound, ChannelSound
    <3>3. writer[d] = "done" => writer'[d] = "done"
      BY <2>3, <3>2 DEF StartPumps, TypeOK
    <3> QED  BY <1>1, <2>3, <3>1, <3>3, OthersFeed DEF StartPumps, chanVars, history
  <2> QED  BY <1>6, <2>1, <2>2, <2>3 DEF HandlerStep
<1>7. ASSUME NEW c \in Client, WriterStep(c)  PROVE FeedSound(d)'
  BY <1>1, <1>7, WriterFeed
<1>8. CASE UNCHANGED vars
  BY <1>1, <1>8, OthersFeed DEF vars, chanVars, pumpVars, history, Registered
<1> QED  BY <1>2, <1>3, <1>4, <1>5, <1>6, <1>7, <1>8 DEF Next, HubStep

-----------------------------------------------------------------------------
(* The hub implements Feed.                                                *)

Stages == [c \in Client |-> Stage(c)]
Received == [c \in Client |-> EventsOf(got[c])]

LEMMA InitPromise == Init => Promise!Init
<1> SUFFICES ASSUME Init  PROVE Promise!Init
  OBVIOUS
<1>1. \A c \in Client : Stage(c) = "new" /\ got[c] = <<>>
  BY DEF Init, Stage, Registered
<1>2. \A c \in Client : EventsOf(got[c]) = <<>>
  BY Zenon, <1>1, EventsNone
<1> QED  BY <1>1, <1>2 DEF Init, Promise!Init

\* A step that a client cannot see.
LEMMA Unseen ==
  ASSUME UNCHANGED <<log, from, upto, clients, got>>,
         \A c \in Client : Registered(c)' <=> Registered(c)
  PROVE  UNCHANGED Promise!feedVars
<1>1. \A c \in Client : Stage(c)' = Stage(c)
  BY Zenon DEF Stage
<1>2. Stages' = Stages /\ Received' = Received
  BY Zenon, <1>1 DEF Stages, Received
<1> QED  BY Zenon, <1>2 DEF Promise!feedVars, Stages, Received

LEMMA RegisterJoins ==
  ASSUME TypeOK, FeedsSound, NEW c \in Client, Register(c)
  PROVE  Promise!Join(c)
<1>1. Stage(c) = "new" /\ Stage(c)' = "on"
  BY DEF Register, Stage, Registered, TypeOK
<1>2. \A d \in Client \ {c} : Stage(d)' = Stage(d)
  <2>1. \A d \in Client \ {c} : handler'[d] = handler[d] /\ (d \in clients' <=> d \in clients)
    BY DEF Register, TypeOK
  <2> QED  BY Zenon, <2>1 DEF Stage, Registered
<1>3. Stages' = [Stages EXCEPT ![c] = "on"]
  BY <1>1, <1>2 DEF Stages
<1>4. Stages[c] = "new" /\ Received' = Received
  BY <1>1 DEF Stages, Received, Register
<1> QED  BY Zenon, <1>3, <1>4 DEF Promise!Join, Stages, Received, Register

LEMMA UnregisterLeaves ==
  ASSUME TypeOK, ChannelsSound, NEW c \in Client, Unregister(c)
  PROVE  Promise!Leave(c) \/ UNCHANGED Promise!feedVars
<1>1. CASE c \notin clients
  BY <1>1, Unseen DEF Unregister, Registered
<1>2. CASE c \in clients
  <2>1. Registered(c)
    BY DEF Unregister, Registered, ChannelsSound, ChannelSound, IdleSound
  <2>2. Stage(c) = "on" /\ Stage(c)' = "off"
    BY <1>2, <2>1 DEF Unregister, Stage, Registered
  <2>3. \A d \in Client \ {c} : Stage(d)' = Stage(d)
    <3>1. handler' = handler /\ \A d \in Client \ {c} : d \in clients' <=> d \in clients
      BY DEF Unregister, TypeOK
    <3> QED  BY Zenon, <3>1 DEF Stage, Registered
  <2>4. Stages' = [Stages EXCEPT ![c] = "off"]
    BY <2>2, <2>3 DEF Stages
  <2>5. Stages[c] = "on" /\ Received' = Received
    BY <2>2 DEF Stages, Received, Unregister
  <2>6. upto' = [upto EXCEPT ![c] = Len(log)] /\ UNCHANGED <<log, from>>
    BY <1>2 DEF Unregister
  <2> QED  BY Zenon, <2>4, <2>5, <2>6 DEF Promise!Leave, Stages, Received
<1> QED  BY <1>1, <1>2


LEMMA PassOnPublishes ==
  ASSUME TypeOK, FeedsSound, PassOn
  PROVE  inHand \in Event /\ \E gone \in SUBSET Client : Promise!Publish(inHand, gone)
<1> DEFINE gone == {c \in clients : ~HasRoom(c)}
<1>1. gone \subseteq clients /\ clients \subseteq Client /\ inHand \in Event
  BY DEF PassOn, TypeOK
<1>2. /\ log' = Append(log, inHand) /\ UNCHANGED <<handler, from, got>>
      /\ upto' = [c \in Client |-> IF c \in gone THEN Len(log) ELSE upto[c]]
      /\ clients' = clients \ gone
  BY DEF PassOn
<1> HIDE DEF gone
<1>3. \A c \in gone : Registered(c)
  BY Zenon, <1>1 DEF FeedsSound, FeedSound
<1>4. \A c \in gone : Stage(c) = "on" /\ Stage(c)' = "off"
  <2>1. \A c \in gone : c \in clients /\ c \notin clients'
    BY <1>1, <1>2
  <2> QED  BY <1>2, <1>3, <2>1 DEF Stage, Registered
<1>5. \A c \in Client \ gone : Stage(c)' = Stage(c)
  <2>1. \A c \in Client \ gone : c \in clients' <=> c \in clients
    BY Zenon, <1>2
  <2> QED  BY Zenon, <1>2, <2>1 DEF Stage, Registered
<1>6. Stages' = [c \in Client |-> IF c \in gone THEN "off" ELSE Stages[c]]
  BY <1>4, <1>5 DEF Stages
<1>7. Received' = Received /\ \A c \in gone : Stages[c] = "on"
  BY <1>1, <1>2, <1>4 DEF Stages, Received
<1>8. Promise!Publish(inHand, gone)
  BY Zenon, <1>2, <1>6, <1>7 DEF Promise!Publish, Stages, Received
<1> QED  BY Zenon, <1>1, <1>8

\* A greeting is not part of the feed, and an event is the next one of it.
LEMMA WriteDelivers ==
  ASSUME TypeOK, ChannelsSound, FeedsSound, NEW c \in Client, Write(c)
  PROVE  Promise!Receive(c) \/ UNCHANGED Promise!feedVars
<1>1. /\ writer[c] = "run" /\ chan[c] # <<>>
      /\ got' = [got EXCEPT ![c] = Append(@, Head(chan[c]))]
      /\ UNCHANGED <<log, from, upto, clients, handler>>
  BY DEF Write, history
<1>2. /\ chan[c] \in Seq(Message) /\ got[c] \in Seq(Message) /\ log \in Seq(Event)
      /\ from[c] \in Nat /\ upto[c] \in Nat /\ Len(log) \in Nat
  BY DEF TypeOK
<1>3. PICK m \in Message : m = Head(chan[c])
  BY <1>1, <1>2
<1>4. got'[c] = Append(got[c], m) /\ \A d \in Client \ {c} : got'[d] = got[d]
  BY <1>1, <1>3 DEF TypeOK
<1>5. Registered(c)
  BY <1>1 DEF Registered, ChannelsSound, ChannelSound, IdleSound
<1>6. /\ EventsOf(got'[c]) = Keep(EventsOf(got[c]), m)
      /\ EventsOf(got[c]) \in Seq(Event)
  BY Zenon, <1>2, <1>4, EventsAppend
<1>7. Stages' = Stages
  <2>1. \A d \in Client : Stage(d)' = Stage(d)
    BY Zenon, <1>1 DEF Stage, Registered
  <2> QED  BY Zenon, <2>1 DEF Stages
<1>8. \A d \in Client \ {c} : Received'[d] = Received[d]
  BY <1>4 DEF Received
<1>9. CASE m \notin Event
  <2>1. EventsOf(got'[c]) = EventsOf(got[c])
    BY Zenon, <1>6, <1>9 DEF Keep
  <2>2. Received' = Received
    BY <1>8, <2>1 DEF Received
  <2> QED  BY Zenon, <1>1, <1>7, <2>2 DEF Promise!feedVars, Stages, Received
<1>10. CASE m \in Event
  <2> DEFINE q == EventsOf(got[c])
             i == from[c] + Len(q) + 1
  <2>1. EventsOf(got'[c]) = Append(q, m)
    BY Zenon, <1>6, <1>10 DEF Keep
  <2>2. q \in Seq(Event) /\ Len(q) \in Nat
    BY <1>6
  <2>3. i <= LastFor(c) /\ log[i] = m
    <3> DEFINE all == EventsOf(got[c] \o chan[c])
    <3>1. Delivered(all, log, from[c], LastFor(c))
      BY Zenon, <1>1, <1>5 DEF FeedsSound, FeedSound
    <3>2. /\ Len(Append(got[c], m)) <= Len(got[c] \o chan[c])
          /\ \A j \in 1 .. Len(Append(got[c], m)) :
               Append(got[c], m)[j] = (got[c] \o chan[c])[j]
      BY Zenon, <1>1, <1>2, <1>3, ConcatTail
    <3>3. got[c] \o chan[c] \in Seq(Message) /\ Append(got[c], m) \in Seq(Message)
      BY <1>2
    <3>4. /\ all \in Seq(Event) /\ EventsOf(Append(got[c], m)) = Append(q, m)
          /\ Len(EventsOf(Append(got[c], m))) <= Len(all)
          /\ \A k \in 1 .. Len(EventsOf(Append(got[c], m))) :
               all[k] = EventsOf(Append(got[c], m))[k]
      BY Zenon, <1>4, <2>1, <3>2, <3>3, EventsPrefix
    <3> HIDE DEF all, q
    <3>5. Len(Append(q, m)) = Len(q) + 1 /\ Append(q, m)[Len(q) + 1] = m
      BY <2>2
    <3>6. Len(q) + 1 <= Len(all) /\ all[Len(q) + 1] = m
      BY <2>2, <3>4, <3>5
    <3>7. LastFor(c) \in Nat
      BY <1>2 DEF LastFor
    <3>8. Len(q) + 1 \in 1 .. LastFor(c) - from[c]
      BY <1>2, <2>2, <3>1, <3>6, <3>7 DEF Delivered
    <3>9. log[from[c] + (Len(q) + 1)] = m
      BY <3>1, <3>6, <3>8 DEF Delivered
    <3>10. from[c] + (Len(q) + 1) = i
      <4>1. \A a, b \in Nat : a + (b + 1) = a + b + 1
        OBVIOUS
      <4> QED  BY Zenon, <1>2, <2>2, <4>1
    <3> QED  BY <1>2, <2>2, <3>7, <3>8, <3>9, <3>10
  <2>4. Stages[c] # "new" /\ Promise!Last(c) = LastFor(c)
    <3>1. Stages[c] = IF c \in clients THEN "on" ELSE "off"
      BY <1>5 DEF Stages, Stage
    <3> QED  BY <3>1 DEF Promise!Last, LastFor, Stages
  <2> HIDE DEF q
  <2>5. Received[c] = q
    BY DEF Received, q
  <2>6. Received' = [Received EXCEPT ![c] = Append(@, log[i])]
    <3>1. Received'[c] = Append(q, m)
      BY <2>1 DEF Received
    <3>2. Received' = [d \in Client |-> Received'[d]] /\ Received = [d \in Client |-> Received[d]]
      BY DEF Received
    <3> QED  BY <1>8, <2>3, <2>5, <3>1, <3>2
  <2>7. from[c] + Len(Received[c]) + 1 = i
    BY <2>5
  <2> QED  BY Zenon, <1>1, <1>7, <2>3, <2>4, <2>6, <2>7 DEF Promise!Receive, Stages, Received
<1> QED  BY <1>9, <1>10

LEMMA NextPromise ==
  TypeOK /\ ChannelsSound /\ FeedsSound /\ [Next]_vars
    => [Promise!Next]_(Promise!feedVars)
<1> SUFFICES ASSUME TypeOK, ChannelsSound, FeedsSound, [Next]_vars
             PROVE  Promise!Next \/ UNCHANGED Promise!feedVars
  BY Zenon
<1>1. CASE BroadcastState \/ CommitBlock \/ SyncBlock \/ TakeBroadcast
  BY <1>1, Unseen
     DEF BroadcastState, CommitBlock, SyncBlock, TakeBroadcast, history, Registered
<1>2. CASE PassOn
  BY Zenon, <1>2, PassOnPublishes DEF Promise!Next
<1>3. ASSUME NEW c \in Client, Register(c)  PROVE Promise!Next
  BY Zenon, <1>3, RegisterJoins DEF Promise!Next
<1>4. ASSUME NEW c \in Client, Unregister(c)
      PROVE  Promise!Next \/ UNCHANGED Promise!feedVars
  BY Zenon, <1>4, UnregisterLeaves DEF Promise!Next
<1>5. ASSUME NEW c \in Client, HandlerStep(c)  PROVE UNCHANGED Promise!feedVars
  <2>1. UNCHANGED <<log, from, upto, clients, got>>
    BY <1>5 DEF HandlerStep, SendWelcome, SendState, SendBlock, Send, ReadState, ReadBlock,
                StartPumps, history
  <2>2. PICK s : s # "idle" /\ handler' = [handler EXCEPT ![c] = s]
    BY <1>5 DEF HandlerStep, SendWelcome, SendState, SendBlock, Send, ReadState, ReadBlock,
                StartPumps
  <2>3. handler[c] # "idle"
    BY <1>5 DEF HandlerStep, SendWelcome, SendState, SendBlock, Send, ReadState, ReadBlock,
                StartPumps
  <2>4. \A d \in Client : Registered(d)' <=> Registered(d)
    BY <2>2, <2>3 DEF Registered, TypeOK
  <2> QED  BY <2>1, <2>4, Unseen
<1>6. ASSUME NEW c \in Client, Write(c)
      PROVE  Promise!Next \/ UNCHANGED Promise!feedVars
  BY Zenon, <1>6, WriteDelivers DEF Promise!Next
<1>7. ASSUME NEW c \in Client, WriteFails(c) \/ CloseConn(c) \/ Disconnect(c)
      PROVE  UNCHANGED Promise!feedVars
  BY <1>7, Unseen DEF WriteFails, CloseConn, Disconnect, history, Registered
<1>8. CASE UNCHANGED vars
  BY <1>8, Unseen DEF vars, history, Registered
<1> QED
  BY Zenon, <1>1, <1>2, <1>3, <1>4, <1>5, <1>6, <1>7, <1>8 DEF Next, HubStep, WriterStep

\* The hub keeps the safety of its promise: every client receives, in the order
\* of the broadcasts and without a gap, the events since its registration, and
\* none after the one at which the hub cut it off.
THEOREM HubKeepsOrder == Spec => Promise!Spec
  BY InitType, NextType, InitChannels, NextChannels, InitFeeds, NextFeeds, InitPromise,
     NextPromise, PTL DEF Spec, Promise!Spec
=============================================================================
