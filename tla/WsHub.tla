------------------------------- MODULE WsHub -------------------------------
(***************************************************************************)
(* The WebSocket hub of api/websocket.go: the goroutine of WSHub.Run, the  *)
(* HTTP handler of each connection, its two pumps, and the consensus       *)
(* engine, which broadcasts while it holds its lock e.mu.  The channels    *)
(* register, unregister and broadcast are unbuffered, so a send on one of  *)
(* them is a step of the sender and of Run together.                       *)
(***************************************************************************)
EXTENDS Naturals, Sequences

CONSTANTS
  Client,      \* the connections that may be opened
  None,
  Cap,         \* capacity of a client's send channel (256 in the code)
  HelloEvents, \* bound: broadcasts while one connection is being greeted
  MaxLog,      \* bound: broadcasts
  MaxHeight    \* bound: blocks

\* A greeting is three messages; it lasts two short reads, in which far fewer
\* than the remaining 253 events are broadcast.
ASSUME HubAssumption ==
  /\ Cap \in Nat /\ HelloEvents \in Nat
  /\ 2 <= HelloEvents /\ HelloEvents + 3 <= Cap
  /\ MaxLog \in Nat /\ MaxHeight \in Nat

Event == [kind : {"state", "block"}, height : 0 .. MaxHeight]
Greeting == [kind : {"connected", "current", "latest"}, height : 0 .. MaxHeight]

VARIABLES
  clients,     \* WSHub.clients
  inHand,      \* the broadcast that Run has taken and not yet passed on
  chan,        \* chan[c]: the messages in the channel c.send
  closed,      \* closed[c]: c.send is closed
  handler,     \* handler[c]: where HandleWebSocket stands for c
  snapshot,    \* snapshot[c]: the latest block that handler has read
  writer,      \* writer[c]: where writePump stands
  reader,      \* reader[c]: where readPump stands
  conn,        \* conn[c]: the connection is "none", "open" or "closed"
  got,         \* got[c]: the messages the client has received
  height,      \* height of the chain
  todo,        \* events the engine has still to broadcast; it holds e.mu until none is left
  log,         \* the broadcasts that Run has passed on, in order
  from,        \* from[c]: broadcasts before c was registered
  upto         \* upto[c]: broadcasts before c was removed

chanVars == <<chan, closed>>
pumpVars == <<writer, reader>>
engineVars == <<height, todo>>
history == <<log, from, upto>>
vars == <<clients, inHand, chanVars, handler, snapshot, pumpVars, conn, got,
          engineVars, history>>

Init ==
  /\ clients = {}
  /\ inHand = None
  /\ chan = [c \in Client |-> <<>>]
  /\ closed = [c \in Client |-> FALSE]
  /\ handler = [c \in Client |-> "idle"]
  /\ snapshot = [c \in Client |-> 0]
  /\ writer = [c \in Client |-> "idle"]
  /\ reader = [c \in Client |-> "idle"]
  /\ conn = [c \in Client |-> "none"]
  /\ got = [c \in Client |-> <<>>]
  /\ height = 0
  /\ todo = <<>>
  /\ log = <<>>
  /\ from = [c \in Client |-> 0]
  /\ upto = [c \in Client |-> 0]

------------------------------------------------------------------------------
(* The engine.  GetStatus needs e.mu, so it waits while todo is not empty.  *)

\* Of a consensus state only its kind is kept.
StateEvent == [kind |-> "state", height |-> 0]
BlockEvent(h) == [kind |-> "block", height |-> h]

\* Broadcasts done and under way.
Sent == Len(log) + Len(todo) + (IF inHand = None THEN 0 ELSE 1)

\* c is registered and its pumps do not run yet.
Greeted(c) == handler[c] \in {"welcome", "state", "sendState", "block", "sendBlock"}

\* The bounds on new broadcasts.
Room(n) ==
  /\ Sent + n <= MaxLog
  /\ \A c \in Client : Greeted(c) => Sent + n <= from[c] + HelloEvents

\* broadcastState under e.mu: a round starts, a vote is cast, a round ends.
BroadcastState ==
  /\ todo = <<>>
  /\ Room(1)
  /\ todo' = <<StateEvent>>
  /\ UNCHANGED <<clients, inHand, chanVars, handler, snapshot, pumpVars, conn,
                 got, height, history>>

\* The end of a commit under e.mu: the block is in the chain, onBlockCommit
\* broadcasts it, and the engine is idle at the next height.
CommitBlock ==
  /\ todo = <<>>
  /\ Room(2)
  /\ height < MaxHeight
  /\ height' = height + 1
  /\ todo' = <<BlockEvent(height'), StateEvent>>
  /\ UNCHANGED <<clients, inHand, chanVars, handler, snapshot, pumpVars, conn,
                 got, history>>

\* The block handler of the P2P service adds a block and broadcasts no event.
SyncBlock ==
  /\ height < MaxHeight
  /\ height' = height + 1
  /\ UNCHANGED <<clients, inHand, chanVars, handler, snapshot, pumpVars, conn,
                 got, todo, history>>

------------------------------------------------------------------------------
(* WSHub.Run                                                                *)

\* case message := <-h.broadcast: the sender goes on, Run passes the event on.
TakeBroadcast ==
  /\ inHand = None
  /\ todo # <<>>
  /\ inHand' = Head(todo)
  /\ todo' = Tail(todo)
  /\ UNCHANGED <<clients, chanVars, handler, snapshot, pumpVars, conn, got,
                 height, history>>

HasRoom(c) == Len(chan[c]) < Cap

\* Mutant: a client whose channel is full misses the event and stays.
MutPassOn ==
  LET full == {c \in clients : ~HasRoom(c)}
  IN /\ inHand # None
     /\ chan' = [c \in Client |->
                   IF c \in clients \ full THEN Append(chan[c], inHand) ELSE chan[c]]
     /\ log' = Append(log, inHand)
     /\ inHand' = None
     /\ UNCHANGED <<clients, closed, upto, handler, snapshot, pumpVars, conn,
                    got, engineVars, from>>

\* Mutant: Run waits for room in every channel.
MutBlockingPassOn ==
  /\ inHand # None
  /\ \A c \in clients : HasRoom(c)
  /\ chan' = [c \in Client |->
                IF c \in clients THEN Append(chan[c], inHand) ELSE chan[c]]
  /\ log' = Append(log, inHand)
  /\ inHand' = None
  /\ UNCHANGED <<clients, closed, upto, handler, snapshot, pumpVars, conn, got,
                 engineVars, from>>

\* The loop over the clients: a channel with room gets the event, a full one
\* is closed and its client removed.  The channels are independent, so the
\* loop is one step.
PassOn ==
  LET full == {c \in clients : ~HasRoom(c)}
  IN /\ inHand # None
     /\ chan' = [c \in Client |->
                   IF c \in clients \ full THEN Append(chan[c], inHand) ELSE chan[c]]
     /\ closed' = [c \in Client |-> closed[c] \/ c \in full]
     /\ clients' = clients \ full
     /\ log' = Append(log, inHand)
     /\ upto' = [c \in Client |-> IF c \in full THEN Len(log) ELSE upto[c]]
     /\ inHand' = None
     /\ UNCHANGED <<handler, snapshot, pumpVars, conn, got, engineVars, from>>

\* The upgrade succeeds and the handler's send on h.register is taken.
Register(c) ==
  /\ inHand = None
  /\ handler[c] = "idle"
  /\ conn' = [conn EXCEPT ![c] = "open"]
  /\ clients' = clients \cup {c}
  /\ handler' = [handler EXCEPT ![c] = "welcome"]
  /\ from' = [from EXCEPT ![c] = Len(log)]
  /\ UNCHANGED <<inHand, chanVars, snapshot, pumpVars, got, engineVars, log,
                 upto>>

\* Mutant: unregister closes the channel and keeps the client.
MutUnregister(c) ==
  /\ inHand = None
  /\ reader[c] = "run"
  /\ conn[c] = "closed"
  /\ reader' = [reader EXCEPT ![c] = "done"]
  /\ closed' = [closed EXCEPT ![c] = TRUE]
  /\ UNCHANGED <<clients, upto, inHand, chan, handler, snapshot, writer, conn,
                 got, engineVars, log, from>>

\* readPump gets an error, its send on h.unregister is taken, and it closes
\* the connection.
Unregister(c) ==
  /\ inHand = None
  /\ reader[c] = "run"
  /\ conn[c] = "closed"
  /\ reader' = [reader EXCEPT ![c] = "done"]
  /\ IF c \in clients
       THEN /\ clients' = clients \ {c}
            /\ closed' = [closed EXCEPT ![c] = TRUE]
            /\ upto' = [upto EXCEPT ![c] = Len(log)]
       ELSE UNCHANGED <<clients, closed, upto>>
  /\ UNCHANGED <<inHand, chan, handler, snapshot, writer, conn, got,
                 engineVars, log, from>>

------------------------------------------------------------------------------
(* HandleWebSocket, before it starts the pumps.                             *)

\* A send of the handler on c.send waits for room; next is where it goes on.
Send(c, at, next, m) ==
  /\ handler[c] = at
  /\ HasRoom(c)
  /\ chan' = [chan EXCEPT ![c] = Append(@, m)]
  /\ handler' = [handler EXCEPT ![c] = next]
  /\ UNCHANGED <<clients, inHand, closed, snapshot, pumpVars, conn, got,
                 engineVars, history>>

Greet(k, h) == [kind |-> k, height |-> h]

SendWelcome(c) == Send(c, "welcome", "state", Greet("connected", 0))

\* getCurrentConsensusState: GetStatus takes e.mu.
ReadState(c) ==
  /\ handler[c] = "state"
  /\ todo = <<>>
  /\ handler' = [handler EXCEPT ![c] = "sendState"]
  /\ UNCHANGED <<clients, inHand, chanVars, snapshot, pumpVars, conn, got,
                 engineVars, history>>

SendState(c) == Send(c, "sendState", "block", Greet("current", 0))

\* Mutant: the chain is read before the last block is in it.
MutReadBlock(c) ==
  /\ handler[c] = "block"
  /\ snapshot' = [snapshot EXCEPT ![c] = IF height = 0 THEN 0 ELSE height - 1]
  /\ handler' = [handler EXCEPT ![c] = IF height = 0 THEN "pumps" ELSE "sendBlock"]
  /\ UNCHANGED <<clients, inHand, chanVars, pumpVars, conn, got, engineVars,
                 history>>

\* getLatestBlockMessage: there is no message while the chain has only the
\* genesis block.
ReadBlock(c) ==
  /\ handler[c] = "block"
  /\ snapshot' = [snapshot EXCEPT ![c] = height]
  /\ handler' = [handler EXCEPT ![c] = IF height = 0 THEN "pumps" ELSE "sendBlock"]
  /\ UNCHANGED <<clients, inHand, chanVars, pumpVars, conn, got, engineVars,
                 history>>

SendBlock(c) == Send(c, "sendBlock", "pumps", Greet("latest", snapshot[c]))

StartPumps(c) ==
  /\ handler[c] = "pumps"
  /\ handler' = [handler EXCEPT ![c] = "done"]
  /\ writer' = [writer EXCEPT ![c] = "run"]
  /\ reader' = [reader EXCEPT ![c] = "run"]
  /\ UNCHANGED <<clients, inHand, chanVars, snapshot, conn, got, engineVars,
                 history>>

------------------------------------------------------------------------------
(* The pumps, and the client at the other end of the connection.            *)

\* writePump takes a message and writes it.  While WriteMessage has not
\* returned the message counts as one of the channel.
Write(c) ==
  /\ writer[c] = "run"
  /\ chan[c] # <<>>
  /\ conn[c] = "open"
  /\ got' = [got EXCEPT ![c] = Append(@, Head(chan[c]))]
  /\ chan' = [chan EXCEPT ![c] = Tail(@)]
  /\ UNCHANGED <<clients, inHand, closed, handler, snapshot, pumpVars, conn,
                 engineVars, history>>

\* WriteMessage fails: the message is lost and writePump returns.
WriteFails(c) ==
  /\ writer[c] = "run"
  /\ chan[c] # <<>>
  /\ conn[c] = "closed"
  /\ chan' = [chan EXCEPT ![c] = Tail(@)]
  /\ writer' = [writer EXCEPT ![c] = "done"]
  /\ UNCHANGED <<clients, inHand, closed, handler, snapshot, reader, conn, got,
                 engineVars, history>>

\* Mutant: writePump returns and leaves the connection open.
MutCloseConn(c) ==
  /\ writer[c] = "run"
  /\ chan[c] = <<>>
  /\ closed[c]
  /\ writer' = [writer EXCEPT ![c] = "done"]
  /\ UNCHANGED <<clients, inHand, chanVars, handler, snapshot, reader, conn, got,
                 engineVars, history>>

\* !ok: the channel is closed and empty; writePump closes the connection.
CloseConn(c) ==
  /\ writer[c] = "run"
  /\ chan[c] = <<>>
  /\ closed[c]
  /\ writer' = [writer EXCEPT ![c] = "done"]
  /\ conn' = [conn EXCEPT ![c] = "closed"]
  /\ UNCHANGED <<clients, inHand, chanVars, handler, snapshot, reader, got,
                 engineVars, history>>

\* The client goes away, or the connection to it is lost.
Disconnect(c) ==
  /\ conn[c] = "open"
  /\ conn' = [conn EXCEPT ![c] = "closed"]
  /\ UNCHANGED <<clients, inHand, chanVars, handler, snapshot, pumpVars, got,
                 engineVars, history>>

------------------------------------------------------------------------------
HandlerStep(c) ==
  SendWelcome(c) \/ ReadState(c) \/ SendState(c) \/ ReadBlock(c) \/ SendBlock(c)
    \/ StartPumps(c)
WriterStep(c) == Write(c) \/ WriteFails(c) \/ CloseConn(c)
HubStep == TakeBroadcast \/ PassOn

Next ==
  \/ BroadcastState \/ CommitBlock \/ SyncBlock \/ HubStep
  \/ \E c \in Client :
       Register(c) \/ Unregister(c) \/ HandlerStep(c)
         \/ WriterStep(c) \/ Disconnect(c)

Spec == Init /\ [][Next]_vars

(***************************************************************************)
(* Goroutines run: Run takes what waits on its channels (select picks      *)
(* among the ready ones at random), handlers and pumps go on when they     *)
(* can, and a write ends, by success or by an error of the connection.     *)
(* Nothing makes the engine broadcast or a client connect or go away.      *)
(***************************************************************************)
Fairness ==
  /\ WF_vars(HubStep)
  /\ \A c \in Client :
       /\ WF_vars(Register(c)) /\ WF_vars(Unregister(c))
       /\ WF_vars(HandlerStep(c)) /\ WF_vars(WriterStep(c))

FairSpec == Spec /\ Fairness

------------------------------------------------------------------------------
(* Properties.                                                              *)

Message == Event \cup Greeting
Registered(c) == handler[c] # "idle"
Connected(c) == handler[c] \in {"sendBlock", "pumps", "done"}

\* Types of the fields of WSHub and WSClient, of the program counters of the
\* goroutines and of the history variables.
TypeOK ==
  /\ clients \subseteq Client
  /\ inHand \in Event \cup {None}
  /\ chan \in [Client -> Seq(Message)]
  /\ closed \in [Client -> BOOLEAN]
  /\ handler \in [Client -> {"idle", "welcome", "state", "sendState",
                             "block", "sendBlock", "pumps", "done"}]
  /\ snapshot \in [Client -> 0 .. MaxHeight]
  /\ writer \in [Client -> {"idle", "run", "done"}]
  /\ reader \in [Client -> {"idle", "run", "done"}]
  /\ conn \in [Client -> {"none", "open", "closed"}]
  /\ got \in [Client -> Seq(Message)]
  /\ height \in 0 .. MaxHeight
  /\ todo \in Seq(Event)
  /\ log \in Seq(Event)
  /\ from \in [Client -> Nat]
  /\ upto \in [Client -> Nat]

\* Nothing is sent on a closed channel, no channel is closed twice (Run would
\* panic and end the process), and the greeting of a connection, which the
\* handler sends before anything empties the channel, always finds room.
NoPanic ==
  /\ \A c \in clients : ~closed[c]
  /\ \A c \in Client : Greeted(c) => HasRoom(c) /\ ~closed[c]

\* The events among the messages s, in their order.
EventsOf(s) ==
  LET kept[i \in 0 .. Len(s)] ==
        IF i = 0 THEN <<>>
        ELSE IF s[i] \in Event THEN Append(kept[i - 1], s[i]) ELSE kept[i - 1]
  IN kept[Len(s)]

Items(s) == {s[i] : i \in DOMAIN s}

\* A client that stays registered, and whose writePump runs, misses no block
\* committed after the one it was greeted with: the handler registers first
\* and reads the latest block second, so every later commit is broadcast to it.
NoMissedBlock ==
  \A c \in clients : Connected(c) /\ writer[c] # "done" =>
    \A e \in Items(log) :
      e.kind = "block" /\ e.height > snapshot[c] =>
        e \in Items(got[c]) \cup Items(chan[c])

\* The engine gets its lock back: no broadcast keeps it for ever.
EngineReleased == todo # <<>> ~> todo = <<>>

\* A client that has left, or that the hub has removed because its channel was
\* full, ends up removed and disconnected.
Parted ==
  \A c \in Client :
    Registered(c) /\ (conn[c] = "closed" \/ c \notin clients)
      ~> conn[c] = "closed" /\ c \notin clients

\* The hub keeps the promise of Feed, its liveness included.
Stage(c) == IF ~Registered(c) THEN "new" ELSE IF c \in clients THEN "on" ELSE "off"

Promise == INSTANCE Feed WITH
  stage <- [c \in Client |-> Stage(c)],
  received <- [c \in Client |-> EventsOf(got[c])]

KeepsPromise == Promise!FairSpec
=============================================================================
