-------------------------- MODULE PeerTableProofs --------------------------
(***************************************************************************)
(* Node.Peers holds exactly the connections in use, for any nodes, boot    *)
(* nodes, limits and losses, and crossed dials end in one connection.      *)
(*                                                                         *)
(* TableHoldsActive is inductive together with the fact that a connection  *)
(* has an end only at the two different nodes it joins, and none before it *)
(* is dialled (EndsSound).  Of the connections of two nodes one is bound   *)
(* to survive from the start, the one the lower ID dialled or the only     *)
(* one; as long as nothing is lost both its ends stay open                 *)
(* (SurvivorsLive).                                                        *)
(***************************************************************************)
EXTENDS PeerTable, FiniteSetTheorems, TLAPS

EndState == {"none", "backlog", "handshaking", "registering", "active", "closed", "gone"}

TypeOK ==
  /\ peers \in [Node -> [Node -> Conn \cup {None}]]
  /\ conns \subseteq Conn
  /\ end \in [Node -> [Conn -> EndState]]
  /\ inbox \in [Node -> SUBSET Conn]
  /\ dialing \subseteq [node : Node, to : Node, tracked : BOOLEAN]
  /\ connecting \in [Node -> SUBSET Node]
  /\ named \in [Node -> SUBSET Node]
  /\ losses \in Nat

EndsSound ==
  /\ \A n \in Node, c \in Conn :
       end[n][c] # "none" => c \in conns /\ n \in Ends(c) /\ c.from # c.to
  /\ \A d \in dialing : d.node # d.to

Inv == TypeOK /\ EndsSound /\ TableHoldsActive

LEMMA InitSound == Init => Inv
<1> SUFFICES ASSUME Init  PROVE Inv
  OBVIOUS
<1>1. TypeOK
  BY DEF Init, TypeOK, EndState
<1>2. EndsSound
  BY DEF Init, EndsSound
<1>3. TableHoldsActive
  BY PeerTableAssumption DEF Init, TableHoldsActive
<1> QED  BY <1>1, <1>2, <1>3 DEF Inv

\* Steps that open, accept or lose no connection in use.
LEMMA DialSound ==
  ASSUME Inv, NEW n \in Node, NEW m \in Node,
         ConnectToBootNode(n, m) \/ \E p \in Node : HandlePeers(n, p, m)
  PROVE  Inv'
<1>1. UNCHANGED <<peers, conns, end, inbox, named, losses>>
  BY Zenon DEF ConnectToBootNode, HandlePeers
<1>2. PICK t \in BOOLEAN : dialing' = dialing \cup {Dial(n, m, t)}
  BY Zenon DEF ConnectToBootNode, HandlePeers
<1>3. n # m
  <2>1. CASE ConnectToBootNode(n, m)
    BY <2>1, PeerTableAssumption DEF ConnectToBootNode
  <2>2. CASE \E p \in Node : HandlePeers(n, p, m)
    BY <2>2 DEF HandlePeers
  <2> QED  BY <2>1, <2>2
<1>4. connecting' \in [Node -> SUBSET Node]
  <2>1. CASE ConnectToBootNode(n, m)
    BY <2>1 DEF ConnectToBootNode, Inv, TypeOK
  <2>2. CASE \E p \in Node : HandlePeers(n, p, m)
    <3>1. connecting' = [connecting EXCEPT ![n] = @ \cup {m}]
      BY <2>2 DEF HandlePeers
    <3> QED  BY <3>1 DEF Inv, TypeOK
  <2> QED  BY <2>1, <2>2
<1>5. TypeOK'
  BY <1>1, <1>2, <1>4 DEF Inv, TypeOK, Dial
<1>6. EndsSound'
  BY <1>1, <1>2, <1>3 DEF Inv, EndsSound, Dial
<1>7. TableHoldsActive'
  BY <1>1 DEF Inv, TableHoldsActive
<1> QED  BY <1>5, <1>6, <1>7 DEF Inv

LEMMA ConnectSound ==
  ASSUME Inv, NEW d \in dialing, Connect(d) \/ ConnectFails(d)
  PROVE  Inv'
<1>1. d \in [node : Node, to : Node, tracked : BOOLEAN] /\ d.node # d.to
  BY DEF Inv, TypeOK, EndsSound
<1>2. d.node \in Node /\ d.to \in Node
  BY <1>1
<1>3. connecting' \in [Node -> SUBSET Node] /\ dialing' \subseteq dialing
  <2>1. Unmark(d) \in [Node -> SUBSET Node]
    BY <1>2 DEF Unmark, Inv, TypeOK
  <2>2. connecting' = Unmark(d) /\ dialing' = dialing \ {d}
    BY Zenon DEF Connect, ConnectFails
  <2> QED  BY <2>1, <2>2
<1>4. CASE ConnectFails(d)
  <2>1. TypeOK'
    BY <1>3, <1>4 DEF ConnectFails, Inv, TypeOK
  <2> QED  BY <1>3, <1>4, <2>1 DEF ConnectFails, Inv, EndsSound, TableHoldsActive
<1>5. CASE Connect(d)
  <2>1. PICK c \in Conn \ conns :
          /\ c.from = d.node /\ c.to = d.to
          /\ conns' = conns \cup {c}
          /\ end' = [end EXCEPT ![d.node][c] = "handshaking", ![d.to][c] = "backlog"]
          /\ inbox' = [inbox EXCEPT ![d.to] = @ \cup {c}]
          /\ UNCHANGED <<peers, named, losses>>
    BY Zenon, <1>5 DEF Connect
  <2>2. /\ end' \in [Node -> [Conn -> EndState]]
        /\ \A n \in Node, k \in Conn : end'[n][k] =
             IF k = c /\ n = d.to THEN "backlog"
             ELSE IF k = c /\ n = d.node THEN "handshaking" ELSE end[n][k]
    BY Zenon, <1>1, <1>2, <2>1 DEF Inv, TypeOK, EndState
  <2>3. \A n \in Node : end[n][c] = "none"
    BY <2>1 DEF Inv, EndsSound
  <2>4. TypeOK'
    <3>1. inbox' \in [Node -> SUBSET Conn] /\ conns' \subseteq Conn
      BY <1>2, <2>1 DEF Inv, TypeOK
    <3> QED  BY Zenon, <1>3, <2>1, <2>2, <3>1 DEF Inv, TypeOK
  <2>5. EndsSound'
    BY <1>1, <1>3, <2>1, <2>2 DEF Inv, EndsSound, Ends
  <2>6. TableHoldsActive'
    BY <2>1, <2>2, <2>3 DEF Inv, TableHoldsActive
  <2> QED  BY <2>4, <2>5, <2>6 DEF Inv
<1> QED  BY <1>4, <1>5

\* An end that was not in use and still is not.
LEMMA AcceptSound ==
  ASSUME Inv, NEW c \in conns, NEW n \in Ends(c), Accept(n, c) \/ HandleHandshake(n, c)
  PROVE  Inv'
<1>1. c \in Conn /\ n \in Node
  BY DEF Inv, TypeOK, Ends, Conn
<1>2. PICK s \in EndState \ {"none", "active"} : end' = [end EXCEPT ![n][c] = s]
  BY DEF Accept, HandleHandshake, EndState
<1>3. /\ end' \in [Node -> [Conn -> EndState]]
      /\ \A k \in Node, x \in Conn :
           end'[k][x] = IF k = n /\ x = c THEN s ELSE end[k][x]
  BY <1>1, <1>2 DEF Inv, TypeOK
<1>4. end[n][c] \in {"backlog", "handshaking"}
  BY DEF Accept, HandleHandshake
<1>5. /\ UNCHANGED <<peers, conns, dialing, connecting, named, losses>>
      /\ inbox' \in [Node -> SUBSET Conn]
  <2>1. Other(c, n) \in Node
    BY <1>1 DEF Other, Conn
  <2> QED  BY <1>1, <2>1 DEF Accept, HandleHandshake, Inv, TypeOK
<1>6. TypeOK'
  BY <1>3, <1>5 DEF Inv, TypeOK
<1>7. EndsSound'
  BY <1>1, <1>3, <1>4, <1>5 DEF Inv, EndsSound
<1>8. TableHoldsActive'
  BY <1>1, <1>2, <1>3, <1>4, <1>5 DEF Inv, TableHoldsActive
<1> QED  BY <1>6, <1>7, <1>8 DEF Inv

\* The two ends of a connection.
LEMMA EndsOther ==
  ASSUME Inv, NEW c \in conns, NEW n \in Ends(c), end[n][c] # "none"
  PROVE  /\ c \in Conn /\ n \in Node /\ Other(c, n) \in Node
         /\ Other(c, n) # n /\ Ends(c) = {n, Other(c, n)}
<1>1. c \in Conn /\ n \in Node
  BY DEF Inv, TypeOK, Ends, Conn
<1>2. c.from # c.to
  BY <1>1 DEF Inv, EndsSound
<1> QED  BY <1>1, <1>2 DEF Ends, Other, Conn

\* addPeer: the connection that is replaced is closed with its entry.
LEMMA AddPeerSound ==
  ASSUME Inv, NEW c \in conns, NEW n \in Ends(c), AddPeer(n, c)
  PROVE  Inv'
<1> DEFINE m == Other(c, n)
           old == peers[n][m]
<1>1. end[n][c] = "registering" /\ UNCHANGED <<conns, inbox, dialing, connecting, losses>>
  BY DEF AddPeer
<1>2. c \in Conn /\ n \in Node /\ m \in Node /\ m # n /\ Ends(c) = {n, m}
  BY <1>1, EndsOther
<1> HIDE DEF m
<1>3. CASE end' = [end EXCEPT ![n][c] = "closed"] /\ UNCHANGED <<peers, named>>
  <2>1. /\ end' \in [Node -> [Conn -> EndState]]
        /\ \A k \in Node, x \in Conn :
             end'[k][x] = IF k = n /\ x = c THEN "closed" ELSE end[k][x]
    BY <1>2, <1>3 DEF Inv, TypeOK, EndState
  <2>2. TypeOK'
    BY <1>1, <1>3, <2>1 DEF Inv, TypeOK
  <2>3. EndsSound'
    BY <1>1, <1>2, <2>1 DEF Inv, EndsSound
  <2>4. TableHoldsActive'
    BY <1>1, <1>2, <1>3, <2>1 DEF Inv, TableHoldsActive
  <2> QED  BY <2>2, <2>3, <2>4 DEF Inv
<1>4. CASE /\ end' = [end EXCEPT ![n] = [k \in Conn |->
                CASE k = c -> "active" [] k = old -> "closed" [] OTHER -> @[k]]]
           /\ peers' = [peers EXCEPT ![n][m] = c]
           /\ named' = [named EXCEPT ![n] = @ \cup {m}]
  <2>1. \A k \in Node, x \in Conn :
             end'[k][x] = IF k = n /\ x = c THEN "active"
                          ELSE IF k = n /\ x = old THEN "closed" ELSE end[k][x]
    <3>1. \A x \in Conn : end'[n][x] = IF x = c THEN "active"
                                      ELSE IF x = old THEN "closed" ELSE end[n][x]
      <4>1. end'[n] = [k \in Conn |->
              CASE k = c -> "active" [] k = old -> "closed" [] OTHER -> end[n][k]]
        BY <1>2, <1>4 DEF Inv, TypeOK
      <4>2. c # old
        BY <1>1, <1>2 DEF Inv, TableHoldsActive
      <4> HIDE DEF old
      <4> QED  BY <4>1, <4>2
    <3>2. \A k \in Node \ {n} : end'[k] = end[k]
      BY <1>4 DEF Inv, TypeOK
    <3> QED  BY <3>1, <3>2
  <2>2. end' \in [Node -> [Conn -> EndState]]
    BY <1>2, <1>4 DEF Inv, TypeOK, EndState
  <2>3. /\ peers' \in [Node -> [Node -> Conn \cup {None}]]
        /\ \A k \in Node, l \in Node :
             peers'[k][l] = IF k = n /\ l = m THEN c ELSE peers[k][l]
    BY <1>2, <1>4 DEF Inv, TypeOK
  <2>4. named' \in [Node -> SUBSET Node]
    BY <1>2, <1>4 DEF Inv, TypeOK
  <2>5. TypeOK'
    BY <1>1, <2>2, <2>3, <2>4 DEF Inv, TypeOK
  <2>6. \A x \in Conn : old = x => Ends(x) = {n, m} /\ end[n][x] = "active"
    BY <1>2 DEF Inv, TableHoldsActive
  <2>7. EndsSound'
    BY <1>1, <1>2, <2>1, <2>6 DEF Inv, EndsSound
  <2>8. ASSUME NEW k \in Node, NEW l \in Node, NEW x \in Conn
        PROVE  peers'[k][l] = x <=> k # l /\ Ends(x) = {k, l} /\ end'[k][x] = "active"
    <3>1. peers[k][l] = x <=> k # l /\ Ends(x) = {k, l} /\ end[k][x] = "active"
      BY DEF Inv, TableHoldsActive
    <3>2. peers[n][m] = x <=> Ends(x) = {n, m} /\ end[n][x] = "active"
      BY <1>2 DEF Inv, TableHoldsActive
    <3>3. CASE k = n /\ l = m
      BY <1>2, <2>1, <2>3, <3>2, <3>3
    <3>4. CASE k = n /\ l # m
      <4>1. {n, l} # {n, m}
        BY <1>2, <3>4
      <4>2. peers'[k][l] = peers[k][l]
        BY <2>3, <3>4
      <4>3. Ends(x) = {n, l} => x # c /\ x # old
        BY <4>1, <1>2, <2>6
      <4> QED  BY <2>1, <3>1, <3>4, <4>2, <4>3
    <3>5. CASE k # n
      BY <2>1, <2>3, <3>1, <3>5
    <3> QED  BY <3>3, <3>4, <3>5
  <2> QED  BY <2>5, <2>7, <2>8 DEF Inv, TableHoldsActive
<1> QED  BY <1>3, <1>4 DEF AddPeer, m

LEMMA HandlerExitsSound ==
  ASSUME Inv, NEW c \in conns, NEW n \in Ends(c), HandlerExits(n, c)
  PROVE  Inv'
<1> DEFINE m == Other(c, n)
<1>1. end[n][c] \in {"closed", "handshaking", "active"}
  BY DEF HandlerExits
<1>2. c \in Conn /\ n \in Node /\ m \in Node /\ m # n /\ Ends(c) = {n, m}
  BY <1>1, EndsOther
<1>3. /\ end' = [end EXCEPT ![n][c] = "gone"]
      /\ peers' = [peers EXCEPT ![n][m] = IF @ = c THEN None ELSE @]
      /\ inbox' = [inbox EXCEPT ![n] = @ \ {c}]
      /\ UNCHANGED <<conns, dialing, connecting, named>>
  BY DEF HandlerExits, RemovePeer
<1>4. losses' \in Nat
  BY DEF HandlerExits, Inv, TypeOK
<1> HIDE DEF m
<1>5. /\ end' \in [Node -> [Conn -> EndState]]
      /\ \A k \in Node, x \in Conn :
           end'[k][x] = IF k = n /\ x = c THEN "gone" ELSE end[k][x]
  BY <1>2, <1>3 DEF Inv, TypeOK, EndState
<1>6. /\ peers' \in [Node -> [Node -> Conn \cup {None}]]
      /\ \A k \in Node, l \in Node :
           peers'[k][l] = IF k = n /\ l = m /\ peers[k][l] = c THEN None ELSE peers[k][l]
  BY <1>2, <1>3 DEF Inv, TypeOK
<1>7. inbox' \in [Node -> SUBSET Conn]
  BY <1>2, <1>3 DEF Inv, TypeOK
<1>8. TypeOK'
  BY <1>3, <1>4, <1>5, <1>6, <1>7 DEF Inv, TypeOK
<1>9. EndsSound'
  BY <1>1, <1>2, <1>3, <1>5 DEF Inv, EndsSound
<1>10. TableHoldsActive'
  <2> SUFFICES ASSUME NEW k \in Node, NEW l \in Node, NEW x \in Conn
               PROVE  peers'[k][l] = x <=> k # l /\ Ends(x) = {k, l} /\ end'[k][x] = "active"
    BY DEF TableHoldsActive
  <2>1. peers[k][l] = x <=> k # l /\ Ends(x) = {k, l} /\ end[k][x] = "active"
    BY DEF Inv, TableHoldsActive
  <2>2. CASE k = n /\ x = c
    <3>1. peers[n][l] = c => l = m
      BY <1>2, <2>1, <2>2
    <3>2. peers'[n][l] # c
      BY <1>2, <1>6, <3>1, PeerTableAssumption
    <3> QED  BY <1>5, <2>2, <3>2
  <2>3. CASE ~(k = n /\ x = c)
    BY <1>5, <1>6, <2>1, <2>3, PeerTableAssumption
  <2> QED  BY <2>2, <2>3
<1> QED  BY <1>8, <1>9, <1>10 DEF Inv

LEMMA RemoveInactivePeerSound ==
  ASSUME Inv, NEW n \in Node, NEW m \in Node, RemoveInactivePeer(n, m)
  PROVE  Inv'
<1>1. PICK c \in Conn : c = peers[n][m]
  BY DEF RemoveInactivePeer, Inv, TypeOK
<1>2. n # m /\ Ends(c) = {n, m} /\ end[n][c] = "active"
  BY <1>1 DEF Inv, TableHoldsActive
<1>3. /\ end' = [end EXCEPT ![n][c] = "closed"]
      /\ peers' = [peers EXCEPT ![n][m] = None]
      /\ UNCHANGED <<conns, inbox, dialing, connecting, named>>
  BY <1>1 DEF RemoveInactivePeer
<1>4. losses' \in Nat
  BY DEF RemoveInactivePeer, Inv, TypeOK
<1>5. /\ end' \in [Node -> [Conn -> EndState]]
      /\ \A k \in Node, x \in Conn :
           end'[k][x] = IF k = n /\ x = c THEN "closed" ELSE end[k][x]
  BY <1>3 DEF Inv, TypeOK, EndState
<1>6. /\ peers' \in [Node -> [Node -> Conn \cup {None}]]
      /\ \A k \in Node, l \in Node :
           peers'[k][l] = IF k = n /\ l = m THEN None ELSE peers[k][l]
  BY <1>3 DEF Inv, TypeOK
<1>7. TypeOK'
  BY <1>3, <1>4, <1>5, <1>6 DEF Inv, TypeOK
<1>8. EndsSound'
  BY <1>2, <1>3, <1>5 DEF Inv, EndsSound
<1>9. TableHoldsActive'
  <2> SUFFICES ASSUME NEW k \in Node, NEW l \in Node, NEW x \in Conn
               PROVE  peers'[k][l] = x <=> k # l /\ Ends(x) = {k, l} /\ end'[k][x] = "active"
    BY DEF TableHoldsActive
  <2>1. peers[k][l] = x <=> k # l /\ Ends(x) = {k, l} /\ end[k][x] = "active"
    BY DEF Inv, TableHoldsActive
  <2>2. CASE k = n /\ x = c
    <3>1. peers[n][l] = c => l = m
      BY <1>2, <2>1, <2>2
    <3>2. peers'[n][l] # c
      BY <1>6, <3>1, PeerTableAssumption
    <3> QED  BY <1>5, <2>2, <3>2
  <2>3. CASE ~(k = n /\ x = c)
    BY <1>1, <1>5, <1>6, <2>1, <2>3, PeerTableAssumption
  <2> QED  BY <2>2, <2>3
<1> QED  BY <1>7, <1>8, <1>9 DEF Inv

LEMMA NextSound == Inv /\ [Next]_vars => Inv'
<1> SUFFICES ASSUME Inv, [Next]_vars  PROVE Inv'
  OBVIOUS
<1>1. CASE UNCHANGED vars
  <2>1. TypeOK'
    BY <1>1 DEF Inv, TypeOK, vars
  <2>2. EndsSound' /\ TableHoldsActive'
    BY <1>1 DEF Inv, EndsSound, TableHoldsActive, vars
  <2> QED  BY <2>1, <2>2 DEF Inv
<1> QED
  BY <1>1, DialSound, ConnectSound, AcceptSound, AddPeerSound, HandlerExitsSound,
     RemoveInactivePeerSound DEF Next

\* The table of every node holds exactly its connections in use, whichever order
\* handshakes, replacements, losses and ends of goroutines come in.
THEOREM TablesHoldActive == Spec => []TableHoldsActive
<1>1. Inv => TableHoldsActive
  BY DEF Inv
<1> QED  BY InitSound, NextSound, <1>1, PTL DEF Spec

-----------------------------------------------------------------------------
(* Crossed dials.                                                          *)

\* Every node dials another one at most once, and no table can be full.
Crossed == MaxDials = 1 /\ IsFiniteSet(Node) /\ Cardinality(Node) <= MaxPeers

\* The connection that the rule of addPeer keeps: the one the lower ID dialled,
\* or the only one.
Survivor(c) ==
  /\ NetworkOf[c.from] = NetworkOf[c.to]
  /\ \A k \in conns : Ends(k) = Ends(c) => k = c \/ Rank[c.from] < Rank[c.to]

SurvivorsLive ==
  /\ \A c \in conns : c.from # c.to
  /\ losses = 0 => \A c \in conns : Survivor(c) => Live(c.from, c) /\ Live(c.to, c)

LEMMA Room ==
  ASSUME Crossed, Inv, NEW n \in Node
  PROVE  PeerCount(n) \in Nat /\ PeerCount(n) < MaxPeers
<1> DEFINE S == {m \in Node : peers[n][m] # None}
           T == Node \ {n}
<1>1. peers[n][n] = None
  BY DEF Inv, TypeOK, TableHoldsActive
<1>2. S \subseteq T /\ T \subseteq Node
  BY <1>1
<1> HIDE DEF S, T
<1>3. IsFiniteSet(Node) /\ Cardinality(Node) \in Nat /\ Cardinality(T) = Cardinality(Node) - 1
  BY Zenon, FS_CardinalityType, FS_RemoveElement DEF Crossed, T
<1>4. Cardinality(S) <= Cardinality(T) /\ Cardinality(S) \in Nat
  BY Zenon, <1>2, <1>3, FS_Subset, FS_CardinalityType
<1>5. Cardinality(S) < MaxPeers
  BY <1>3, <1>4, PeerTableAssumption DEF Crossed
<1> QED  BY Zenon, <1>4, <1>5 DEF PeerCount, S

\* The rule of addPeer decides alike at both ends.
LEMMA KeepRule ==
  ASSUME NEW c \in Conn, NEW n \in Ends(c), c.from # c.to
  PROVE  KeepExisting(n, c) <=> Rank[c.to] < Rank[c.from]
<1>1. c.from \in Node /\ c.to \in Node /\ Rank[c.from] # Rank[c.to]
      /\ Rank[c.from] \in Nat /\ Rank[c.to] \in Nat
  BY PeerTableAssumption DEF Conn
<1>2. CASE n = c.from
  BY <1>1, <1>2 DEF KeepExisting, Other
<1>3. CASE n = c.to
  BY <1>1, <1>3 DEF KeepExisting, Other
<1> QED  BY <1>2, <1>3 DEF Ends

\* Two connections of the same nodes were dialled in opposite directions.
LEMMA Opposite ==
  ASSUME Crossed, NEW c \in Conn, NEW k \in Conn, Ends(c) = Ends(k), c # k, c.from # c.to
  PROVE  k.from = c.to /\ k.to = c.from
<1>1. ASSUME c.from = k.from, c.to = k.to  PROVE c = k
  BY <1>1 DEF Crossed, Conn
<1> QED  BY <1>1 DEF Ends

\* Of two connections, the one that survives replaces the other, which is refused.
LEMMA SurvivorWins ==
  ASSUME Crossed, SurvivorsLive, conns \subseteq Conn,
         NEW c \in conns, NEW k \in conns, Survivor(c), Ends(k) = Ends(c), k # c,
         NEW n \in Ends(c)
  PROVE  ~KeepExisting(n, c) /\ KeepExisting(n, k)
<1>1. c \in Conn /\ k \in Conn /\ c.from # c.to /\ k.from # k.to /\ Rank[c.from] < Rank[c.to]
  BY DEF SurvivorsLive, Survivor
<1>2. k.from = c.to /\ k.to = c.from
  BY <1>1, Opposite
<1>3. Rank[c.from] \in Nat /\ Rank[c.to] \in Nat
  BY <1>1, PeerTableAssumption DEF Conn
<1>4. ~(Rank[c.to] < Rank[c.from])
  BY <1>1, <1>3
<1>5. KeepExisting(n, c) <=> Rank[c.to] < Rank[c.from]
  BY <1>1, KeepRule
<1>6. KeepExisting(n, k) <=> Rank[k.to] < Rank[k.from]
  BY <1>1, KeepRule
<1> QED  BY Zenon, <1>1, <1>2, <1>4, <1>5, <1>6

\* An end of a survivor after a step that acts at one end of one connection.
LEMMA EndStep ==
  ASSUME Crossed, Inv, SurvivorsLive, losses = 0, losses' = 0,
         NEW k \in conns, NEW n \in Ends(k),
         Accept(n, k) \/ HandleHandshake(n, k) \/ AddPeer(n, k) \/ HandlerExits(n, k),
         NEW c \in conns, Survivor(c), NEW e \in Ends(c)
  PROVE  Live(e, c)'
<1> DEFINE LiveEnd == {"backlog", "handshaking", "registering", "active"}
<1>1. /\ c \in Conn /\ k \in Conn /\ n \in Node /\ e \in Node
      /\ end \in [Node -> [Conn -> EndState]]
  BY DEF Inv, TypeOK, Ends, Conn
<1>2. end[c.from][c] \in LiveEnd /\ end[c.to][c] \in LiveEnd
  BY DEF SurvivorsLive, Live
<1>3. end[e][c] \in LiveEnd
  BY <1>2 DEF Ends
<1>4. ASSUME NEW s \in LiveEnd, end' = [end EXCEPT ![n][k] = s]  PROVE Live(e, c)'
  <2>1. end'[e][c] \in {s, end[e][c]}
    BY <1>1, <1>4
  <2> QED  BY <1>3, <2>1 DEF Live
<1>5. CASE k # c \/ n # e
  <2>1. CASE AddPeer(n, k)
    <3> DEFINE old == peers[n][Other(k, n)]
    <3>1. end[n][k] = "registering"
      BY <2>1 DEF AddPeer
    <3>2. CASE end' = [end EXCEPT ![n][k] = "closed"]
      <4>1. end'[e][c] = end[e][c]
        BY <1>1, <1>5, <3>2
      <4> QED  BY <1>3, <4>1 DEF Live
    <3>3. CASE /\ old = None \/ ~KeepExisting(n, k)
               /\ end' = [end EXCEPT ![n] = [x \in Conn |->
                    CASE x = k -> "active" [] x = old -> "closed" [] OTHER -> @[x]]]
      <4>1. ~(n = e /\ old = c)
        <5> SUFFICES ASSUME n = e, old = c  PROVE FALSE
          OBVIOUS
        <5>1. Ends(c) = Ends(k) /\ end[n][c] = "active"
          <6>1. Other(k, n) \in Node /\ Ends(k) = {n, Other(k, n)}
            BY <3>1, EndsOther
          <6> QED  BY <1>1, <6>1 DEF Inv, TableHoldsActive
        <5>2. k # c /\ c # None
          BY <1>1, <3>1, <5>1, PeerTableAssumption
        <5>3. KeepExisting(n, k)
          BY <1>1, <5>1, <5>2, SurvivorWins DEF Inv, TypeOK
        <5> QED  BY Zenon, <3>3, <5>2, <5>3
      <4>2. CASE n = e
        <5>1. end'[n] = [x \in Conn |->
                CASE x = k -> "active" [] x = old -> "closed" [] OTHER -> end[n][x]]
          BY <1>1, <3>3
        <5> HIDE DEF old
        <5>2. end'[n][c] = end[n][c]
          BY <1>1, <1>5, <4>1, <4>2, <5>1
        <5> QED  BY <1>3, <4>2, <5>2 DEF Live
      <4>3. CASE n # e
        <5>1. end'[e] = end[e]
          BY <1>1, <3>3, <4>3
        <5> QED  BY <1>3, <5>1 DEF Live
      <4> QED  BY <4>2, <4>3
    <3> QED  BY <2>1, <3>2, <3>3 DEF AddPeer
  <2>2. CASE ~AddPeer(n, k)
    <3>1. PICK s : end' = [end EXCEPT ![n][k] = s]
      BY <2>2 DEF Accept, HandleHandshake, HandlerExits
    <3>2. end'[e][c] = end[e][c]
      BY <1>1, <1>5, <3>1
    <3> QED  BY <1>3, <3>2 DEF Live
  <2> QED  BY <2>1, <2>2
<1>6. CASE k = c /\ n = e
  <2>1. CASE Accept(n, k)
    <3>1. PeerCount(n) < MaxPeers /\ PeerCount(n) \in Nat
      BY Zenon, <1>1, Room
    <3> QED  BY <1>4, <2>1, <3>1, PeerTableAssumption DEF Accept
  <2>2. CASE HandleHandshake(n, k)
    <3>1. NetworkOf[n] = NetworkOf[Other(k, n)]
      BY <1>6 DEF Survivor, Ends, Other
    <3> QED  BY <1>4, <2>2, <3>1 DEF HandleHandshake
  <2>3. CASE AddPeer(n, k)
    <3> DEFINE old == peers[n][Other(k, n)]
    <3>1. end[n][k] = "registering"
      BY <2>3 DEF AddPeer
    <3>2. ~(old # None /\ KeepExisting(n, k))
      <4> SUFFICES ASSUME old # None, KeepExisting(n, k)  PROVE FALSE
        OBVIOUS
      <4>1. Other(k, n) \in Node /\ Ends(k) = {n, Other(k, n)}
        BY <3>1, EndsOther
      <4>2. old \in Conn
        BY <1>1, <4>1 DEF Inv, TypeOK
      <4>3. Ends(old) = Ends(k) /\ end[n][old] = "active"
        BY <1>1, <4>1, <4>2 DEF Inv, TableHoldsActive
      <4>4. old \in conns /\ old # k
        BY <1>1, <3>1, <4>2, <4>3 DEF Inv, EndsSound
      <4> HIDE DEF old
      <4> QED  BY <1>6, <4>3, <4>4, SurvivorWins DEF Inv, TypeOK
    <3>3. end' = [end EXCEPT ![n] = [x \in Conn |->
                CASE x = k -> "active" [] x = old -> "closed" [] OTHER -> @[x]]]
      BY Zenon, <2>3, <3>2 DEF AddPeer
    <3>4. end'[n] = [x \in Conn |->
                CASE x = k -> "active" [] x = old -> "closed" [] OTHER -> end[n][x]]
      BY <1>1, <3>3
    <3>5. old # k
      <4>1. Other(k, n) \in Node
        BY <3>1, EndsOther
      <4> QED  BY <1>1, <3>1, <4>1 DEF Inv, TableHoldsActive
    <3> HIDE DEF old
    <3>6. end'[n][k] = "active"
      BY <1>1, <3>4, <3>5
    <3> QED  BY <1>6, <3>6 DEF Live
  <2>4. CASE HandlerExits(n, k)
    <3>1. end[Other(c, n)][c] \in LiveEnd
      BY <1>2 DEF Other
    <3> QED  BY <1>3, <1>6, <2>4, <3>1 DEF HandlerExits, Live
  <2> QED  BY <2>1, <2>2, <2>3, <2>4
<1> QED  BY <1>5, <1>6

LEMMA NextSurvivors ==
  Crossed /\ Inv /\ SurvivorsLive /\ [Next]_vars => SurvivorsLive'
<1> SUFFICES ASSUME Crossed, Inv, SurvivorsLive, [Next]_vars  PROVE SurvivorsLive'
  OBVIOUS
<1>0. losses \in Nat /\ (losses' = 0 => losses = 0) /\ conns \subseteq Conn
  <2>1. losses' = losses \/ losses' = losses + 1
    <3>1. ASSUME NEW n \in Node, NEW m \in Node, NEW p \in Node,
                 \/ ConnectToBootNode(n, m) \/ RemoveInactivePeer(n, m)
                 \/ HandlePeers(n, p, m)
          PROVE  losses' = losses \/ losses' = losses + 1
      BY Zenon, <3>1 DEF ConnectToBootNode, RemoveInactivePeer, HandlePeers
    <3>2. ASSUME NEW d \in dialing, Connect(d) \/ ConnectFails(d)  PROVE losses' = losses
      BY Zenon, <3>2 DEF Connect, ConnectFails
    <3>3. ASSUME NEW c \in conns, NEW n \in Ends(c),
                 Accept(n, c) \/ HandleHandshake(n, c) \/ AddPeer(n, c)
          PROVE  losses' = losses
      BY Zenon, <3>3 DEF Accept, HandleHandshake, AddPeer
    <3>4. ASSUME NEW c \in conns, NEW n \in Ends(c), HandlerExits(n, c)
          PROVE  losses' = losses \/ losses' = losses + 1
      BY Zenon, <3>4 DEF HandlerExits
    <3>5. CASE UNCHANGED vars
      BY <3>5 DEF vars
    <3> QED  BY Zenon, <3>1, <3>2, <3>3, <3>4, <3>5 DEF Next
  <2> QED  BY <2>1 DEF Inv, TypeOK
<1>1. ASSUME UNCHANGED <<conns, end, losses>>  PROVE SurvivorsLive'
  BY Zenon, <1>1 DEF SurvivorsLive, Survivor, Live
<1>2. ASSUME NEW d \in dialing, Connect(d)  PROVE SurvivorsLive'
  <2>1. PICK k \in Conn \ conns :
          /\ k.from = d.node /\ k.to = d.to
          /\ conns' = conns \cup {k}
          /\ end' = [end EXCEPT ![d.node][k] = "handshaking", ![d.to][k] = "backlog"]
          /\ UNCHANGED losses
    BY Zenon, <1>2 DEF Connect
  <2>2. k.from # k.to /\ k.from \in Node /\ k.to \in Node
    BY <2>1 DEF Inv, EndsSound, Conn
  <2>3. /\ end'[k.from][k] = "handshaking" /\ end'[k.to][k] = "backlog"
        /\ \A n \in Node, c \in Conn \ {k} : end'[n][c] = end[n][c]
    BY <2>1, <2>2 DEF Inv, TypeOK
  <2>4. \A c \in conns' : c.from # c.to
    BY <2>1, <2>2 DEF SurvivorsLive
  <2>5. ASSUME losses' = 0, NEW c \in conns', Survivor(c)'
        PROVE  (Live(c.from, c) /\ Live(c.to, c))'
    <3>1. CASE c = k
      BY <2>3, <3>1 DEF Live
    <3>2. CASE c # k
      <4>1. c \in conns /\ Survivor(c) /\ c.from \in Node /\ c.to \in Node
        BY <1>0, <2>1, <2>5, <3>2 DEF Survivor, Conn
      <4>2. Live(c.from, c) /\ Live(c.to, c)
        BY <1>0, <2>5, <4>1 DEF SurvivorsLive
      <4> QED  BY <1>0, <2>3, <3>2, <4>1, <4>2 DEF Live
    <3> QED  BY <3>1, <3>2
  <2> QED  BY Zenon, <2>4, <2>5 DEF SurvivorsLive
<1>3. ASSUME NEW k \in conns, NEW n \in Ends(k),
             Accept(n, k) \/ HandleHandshake(n, k) \/ AddPeer(n, k) \/ HandlerExits(n, k)
      PROVE  SurvivorsLive'
  <2>1. conns' = conns
    BY Zenon, <1>3 DEF Accept, HandleHandshake, AddPeer, HandlerExits
  <2>2. ASSUME losses' = 0, NEW c \in conns, Survivor(c)
        PROVE  (Live(c.from, c) /\ Live(c.to, c))'
    <3>1. c.from \in Ends(c) /\ c.to \in Ends(c)
      BY DEF Ends
    <3> QED  BY <1>0, <1>3, <2>2, <3>1, EndStep
  <2> QED  BY Zenon, <2>1, <2>2 DEF SurvivorsLive, Survivor
<1>4. ASSUME NEW n \in Node, NEW m \in Node, RemoveInactivePeer(n, m)  PROVE SurvivorsLive'
  <2>1. losses' # 0 /\ conns' = conns
    BY <1>0, <1>4 DEF RemoveInactivePeer
  <2> QED  BY Zenon, <2>1 DEF SurvivorsLive
<1>5. ASSUME NEW n \in Node, NEW m \in Node,
             ConnectToBootNode(n, m) \/ \E p \in Node : HandlePeers(n, p, m)
      PROVE  SurvivorsLive'
  BY Zenon, <1>1, <1>5 DEF ConnectToBootNode, HandlePeers
<1>6. ASSUME NEW d \in dialing, ConnectFails(d)  PROVE SurvivorsLive'
  BY Zenon, <1>1, <1>6 DEF ConnectFails
<1>7. CASE UNCHANGED vars
  BY Zenon, <1>1, <1>7 DEF vars
<1> QED  BY <1>2, <1>3, <1>4, <1>5, <1>6, <1>7 DEF Next

\* One of the connections of two nodes is a survivor.
LEMMA SomeSurvivor ==
  ASSUME Crossed, SurvivorsLive, conns \subseteq Conn, NEW c \in conns,
         NetworkOf[c.from] = NetworkOf[c.to]
  PROVE  \E k \in conns : Ends(k) = Ends(c) /\ Survivor(k)
<1>1. CASE Survivor(c)
  BY Zenon, <1>1
<1>2. CASE ~Survivor(c)
  <2>1. PICK k \in conns : Ends(k) = Ends(c) /\ k # c /\ ~(Rank[c.from] < Rank[c.to])
    BY Zenon, <1>2 DEF Survivor
  <2>2. c \in Conn /\ k \in Conn /\ c.from # c.to
    BY DEF SurvivorsLive
  <2>3. k.from = c.to /\ k.to = c.from
    BY <2>1, <2>2, Opposite
  <2>4. Rank[k.from] < Rank[k.to]
    <3>1. c.from \in Node /\ c.to \in Node
      BY <2>2 DEF Conn
    <3>2. Rank[c.from] \in Nat /\ Rank[c.to] \in Nat /\ Rank[c.from] # Rank[c.to]
      BY <2>2, <3>1, PeerTableAssumption
    <3> QED  BY <2>1, <2>3, <3>2
  <2> QED  BY Zenon, <2>1, <2>3, <2>4 DEF Survivor
<1> QED  BY <1>1, <1>2

\* Two nodes that dial each other at once end up with one connection, the same at
\* both, in whichever order the handshakes, acks and ends of goroutines come
\* (addPeer), for any number of nodes.
THEOREM CrossedDialsMeet == Crossed => (Spec => []OneConnectionSurvives)
<1> SUFFICES ASSUME Crossed  PROVE Spec => []OneConnectionSurvives
  OBVIOUS
<1>1. Inv /\ SurvivorsLive => OneConnectionSurvives
  <2> SUFFICES ASSUME Inv, SurvivorsLive, NEW n \in Node, NEW m \in Node,
                      losses = 0, NetworkOf[n] = NetworkOf[m], Settled(n, m),
                      NEW c \in conns, Ends(c) = {n, m}
               PROVE  peers[n][m] # None /\ peers[n][m] = peers[m][n]
    BY Zenon DEF OneConnectionSurvives
  <2>1. conns \subseteq Conn
    BY DEF Inv, TypeOK
  <2>2. NetworkOf[c.from] = NetworkOf[c.to]
    BY DEF Ends
  <2>3. PICK k \in conns : Ends(k) = {n, m} /\ Survivor(k)
    BY <2>1, <2>2, SomeSurvivor
  <2>4. k \in Conn /\ k.from # k.to /\ Live(k.from, k) /\ Live(k.to, k)
    BY <2>1, <2>3 DEF SurvivorsLive
  <2>5. n # m /\ Live(n, k) /\ Live(m, k)
    BY <2>3, <2>4 DEF Ends
  <2>6. end[n][k] = "active" /\ end[m][k] = "active"
    BY <2>3, <2>5 DEF Settled, Live
  <2>7. peers[n][m] = k /\ peers[m][n] = k
    <3>1. {n, m} = {m, n}
      OBVIOUS
    <3> QED  BY <2>3, <2>4, <2>5, <2>6, <3>1 DEF Inv, TableHoldsActive
  <2> QED  BY Zenon, <2>4, <2>7, PeerTableAssumption
<1>2. Init => SurvivorsLive
  BY DEF Init, SurvivorsLive
<1>3. Inv /\ SurvivorsLive /\ [Next]_vars => SurvivorsLive'
  BY NextSurvivors
<1> QED  BY InitSound, NextSound, <1>1, <1>2, <1>3, PTL DEF Spec

=============================================================================
