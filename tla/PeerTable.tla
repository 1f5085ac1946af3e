----------------------------- MODULE PeerTable -----------------------------
(***************************************************************************)
(* The connections between p2p nodes (p2p/node.go) and the peer discovery  *)
(* that opens them (p2p/p2p.go): dialling, the handshake, the registration *)
(* of a connection in Node.Peers with its rule for duplicates, and its     *)
(* removal when the goroutine of the connection ends.                      *)
(*                                                                         *)
(* A connection has two ends, each served by a goroutine of its node       *)
(* (handlePeer).  Addresses are the nodes themselves.  A close of one end  *)
(* is seen by the other as a read error, at any later time.                *)
(***************************************************************************)
EXTENDS Naturals, FiniteSets

CONSTANTS
  Node,
  Rank,       \* the order of the node IDs
  NetworkOf,  \* the NetworkID of a node
  Boot,       \* the BootNodes of a node
  MaxPeers,
  None,
  MaxDials,   \* bound: connections dialled from one node to another
  MaxLosses   \* bound: connections that break or fall silent

Conn == [from : Node, to : Node, seq : 1 .. MaxDials]
Ends(c) == {c.from, c.to}
Other(c, n) == IF n = c.from THEN c.to ELSE c.from

ASSUME PeerTableAssumption ==
  /\ Rank \in [Node -> Nat] /\ \A n, m \in Node : Rank[n] = Rank[m] => n = m
  /\ Boot \in [Node -> SUBSET Node] /\ \A n \in Node : n \notin Boot[n]
  /\ MaxPeers \in Nat /\ MaxDials \in Nat /\ MaxLosses \in Nat
  /\ None \notin Conn

VARIABLES
  peers,      \* peers[n][m]: the connection n has registered for m
  conns,      \* connections opened so far
  end,        \* end[n][c]: the end of c at n
  inbox,      \* inbox[n]: connections with a handshake or an ack for n
  dialing,    \* running calls of Connect: node, target, tracked or not
  connecting, \* connecting[n]: connectingPeers
  named,      \* named[n]: the nodes a peer list sent by n may name
  losses

vars == <<peers, conns, end, inbox, dialing, connecting, named, losses>>

Init ==
  /\ peers = [n \in Node |-> [m \in Node |-> None]]
  /\ conns = {}
  /\ end = [n \in Node |-> [c \in Conn |-> "none"]]
  /\ inbox = [n \in Node |-> {}]
  /\ dialing = {}
  /\ connecting = [n \in Node |-> {}]
  /\ named = [n \in Node |-> {}]
  /\ losses = 0

-----------------------------------------------------------------------------
(* Connecting.                                                             *)

PeerCount(n) == Cardinality({m \in Node : peers[n][m] # None})

Dial(n, m, tracked) == [node |-> n, to |-> m, tracked |-> tracked]

Unmark(d) ==
  [connecting EXCEPT ![d.node] = IF d.tracked THEN @ \ {d.to} ELSE @]

\* connectToBootNodes at the start, reconnectIfNeeded while there is no peer.
ConnectToBootNode(n, m) ==
  /\ m \in Boot[n]
  /\ PeerCount(n) = 0
  /\ PeerCount(n) < MaxPeers
  /\ dialing' = dialing \cup {Dial(n, m, FALSE)}
  /\ UNCHANGED <<peers, conns, end, inbox, connecting, named, losses>>

\* handlePeers: a list of p, sent now or some time ago, names m (the active
\* peers of p but the requester).  tryMarkConnecting lets one call of Connect
\* through at a time.
HandlePeers(n, p, m) ==
  /\ peers[n][p] # None /\ m \in named[p]
  /\ peers[n][m] = None
  /\ m # n
  /\ m \notin connecting[n]
  /\ PeerCount(n) < MaxPeers
  /\ connecting' = [connecting EXCEPT ![n] = @ \cup {m}]
  /\ dialing' = dialing \cup {Dial(n, m, TRUE)}
  /\ UNCHANGED <<peers, conns, end, inbox, named, losses>>

\* Connect after its dial: the handshake is sent and the mark is removed, long
\* before the peer is registered.
Connect(d) ==
  \E c \in Conn \ conns :
    /\ c.from = d.node /\ c.to = d.to
    /\ \A k \in 1 .. c.seq - 1 : [c EXCEPT !.seq = k] \in conns
    /\ dialing' = dialing \ {d}
    /\ connecting' = Unmark(d)
    /\ conns' = conns \cup {c}
    /\ end' = [end EXCEPT ![d.node][c] = "handshaking", ![d.to][c] = "backlog"]
    /\ inbox' = [inbox EXCEPT ![d.to] = @ \cup {c}]
    /\ UNCHANGED <<peers, named, losses>>

ConnectFails(d) ==
  /\ dialing' = dialing \ {d}
  /\ connecting' = Unmark(d)
  /\ UNCHANGED <<peers, conns, end, inbox, named, losses>>

\* handleInboundConnection.
Accept(n, c) ==
  /\ end[n][c] = "backlog"
  /\ \/ /\ PeerCount(n) < MaxPeers
        /\ end' = [end EXCEPT ![n][c] = "handshaking"]
        /\ UNCHANGED inbox
     \/ /\ PeerCount(n) >= MaxPeers
        /\ end' = [end EXCEPT ![n][c] = "gone"]
        /\ inbox' = [inbox EXCEPT ![n] = @ \ {c}]
  /\ UNCHANGED <<peers, conns, dialing, connecting, named, losses>>

-----------------------------------------------------------------------------
(* Registering and removing.                                               *)

\* The end is open.
Live(n, c) == end[n][c] \in {"backlog", "handshaking", "registering", "active"}

\* Mutant: the rule for duplicates the other way round at the higher ID.
MutKeepExisting(n, c) == c.to = n

\* addPeer refuses a second connection for a peer when the lower ID is not the
\* one that dialled it.
KeepExisting(n, c) ==
  IF Rank[n] < Rank[Other(c, n)] THEN c.to = n ELSE c.from = n

\* handleHandshake: the handshake at the side that was dialled, the ack at the
\* one that dialled.  The ack is sent before addPeer decides.
HandleHandshake(n, c) ==
  LET m == Other(c, n)
  IN /\ c \in inbox[n]
     /\ end[n][c] = "handshaking"
     /\ \/ /\ NetworkOf[n] # NetworkOf[m]
           /\ end' = [end EXCEPT ![n][c] = "closed"]
           /\ inbox' = [inbox EXCEPT ![n] = @ \ {c}]
        \/ /\ NetworkOf[n] = NetworkOf[m]
           /\ end' = [end EXCEPT ![n][c] = "registering"]
           /\ inbox' = [inbox EXCEPT ![n] = @ \ {c},
                ![m] = IF n = c.to /\ Live(m, c) THEN @ \cup {c} ELSE @]
     /\ UNCHANGED <<peers, conns, dialing, connecting, named, losses>>

AddPeer(n, c) ==
  LET m   == Other(c, n)
      old == peers[n][m]
  IN /\ end[n][c] = "registering"
     /\ \/ /\ old # None /\ KeepExisting(n, c)
           /\ end' = [end EXCEPT ![n][c] = "closed"]
           /\ UNCHANGED <<peers, named>>
        \/ /\ old = None \/ ~KeepExisting(n, c)
           /\ end' = [end EXCEPT ![n] = [k \in Conn |->
                CASE k = c -> "active" [] k = old -> "closed" [] OTHER -> @[k]]]
           /\ peers' = [peers EXCEPT ![n][m] = c]
           /\ named' = [named EXCEPT ![n] = @ \cup {m}]
     /\ UNCHANGED <<conns, inbox, dialing, connecting, losses>>

\* Mutant: the entry is deleted whichever connection it holds.
MutRemovePeer(n, c) == [peers EXCEPT ![n][Other(c, n)] = None]

\* removePeer leaves the entry alone when it holds another connection.
RemovePeer(n, c) ==
  [peers EXCEPT ![n][Other(c, n)] = IF @ = c THEN None ELSE @]

\* handlePeer returns on a read error: this end or the other one is closed, or
\* the connection is lost (a broken link, a read deadline).
HandlerExits(n, c) ==
  /\ \/ end[n][c] = "closed" /\ UNCHANGED losses
     \/ /\ end[n][c] \in {"handshaking", "active"}
        /\ \/ ~Live(Other(c, n), c) /\ c \notin inbox[n] /\ UNCHANGED losses
           \/ losses < MaxLosses /\ losses' = losses + 1
  /\ end' = [end EXCEPT ![n][c] = "gone"]
  /\ inbox' = [inbox EXCEPT ![n] = @ \ {c}]
  /\ peers' = RemovePeer(n, c)
  /\ UNCHANGED <<conns, dialing, connecting, named>>

\* removeInactivePeers: nothing was received from m for two minutes.
RemoveInactivePeer(n, m) ==
  LET c == peers[n][m]
  IN /\ c # None
     /\ losses < MaxLosses
     /\ losses' = losses + 1
     /\ end' = [end EXCEPT ![n][c] = "closed"]
     /\ peers' = [peers EXCEPT ![n][m] = None]
     /\ UNCHANGED <<conns, inbox, dialing, connecting, named>>

-----------------------------------------------------------------------------
Next ==
  \/ \E n \in Node, m \in Node :
       \/ ConnectToBootNode(n, m)
       \/ RemoveInactivePeer(n, m)
       \/ \E p \in Node : HandlePeers(n, p, m)
  \/ \E d \in dialing : Connect(d) \/ ConnectFails(d)
  \/ \E c \in conns : \E n \in Ends(c) :
       \/ Accept(n, c)
       \/ HandleHandshake(n, c)
       \/ AddPeer(n, c)
       \/ HandlerExits(n, c)

Spec == Init /\ [][Next]_vars

-----------------------------------------------------------------------------
(* Properties.                                                             *)

\* The table holds exactly the connections in use: an entry of Node.Peers is a
\* connection with that peer whose handshake is over and whose goroutine runs,
\* and every such connection is in the table.  A goroutine that ends late, after
\* its connection was replaced or removed as inactive, does not take the entry
\* of the new connection with it (removePeer).
TableHoldsActive ==
  \A n \in Node, m \in Node, c \in Conn :
    peers[n][m] = c <=> n # m /\ Ends(c) = {n, m} /\ end[n][c] = "active"

\* Nothing between n and m is under way.
Settled(n, m) ==
  \A c \in conns : Ends(c) = {n, m} =>
    \A k \in {n, m} : /\ c \notin inbox[k]
                      /\ end[k][c] \in {"active", "gone"}
                      /\ end[k][c] = "active" => Live(Other(c, k), c)

\* When two nodes have dialled each other, nothing was lost and nobody was full,
\* they end up with one connection, the same at both (the rule of addPeer).
OneConnectionSurvives ==
  \A n, m \in Node :
    (/\ losses = 0 /\ NetworkOf[n] = NetworkOf[m]
     /\ Settled(n, m)
     /\ \E c \in conns : Ends(c) = {n, m})
    => peers[n][m] # None /\ peers[n][m] = peers[m][n]
=============================================================================
