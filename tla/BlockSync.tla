----------------------------- MODULE BlockSync -----------------------------
(***************************************************************************)
(* How blocks get from node to node: the announcement of new blocks, the   *)
(* requests of the periodic synchronisation and their answers (p2p/p2p.go),*)
(* the heights exchanged in handshakes (p2p/node.go), and the block        *)
(* handler of the application with its pending blocks (app/app.go).        *)
(*                                                                         *)
(* Data.  All nodes follow one chain, so a block is its height; forks are  *)
(* the subject of Consensus.  A node that knows only the genesis block and *)
(* one that knows none both have height 0.                                 *)
(*                                                                         *)
(* Granularity.  Every connection of a node has a goroutine, which handles *)
(* one message at a time; the goroutines of a node share its chain and its *)
(* pendingBlocks.  job[n][m] is the work of the goroutine of n that serves *)
(* m.  Broadcasts start a goroutine per message, so messages overtake each *)
(* other.                                                                  *)
(***************************************************************************)
EXTENDS Integers

CONSTANTS
  Node,
  Producer,    \* the nodes that commit new blocks
  Link,        \* the pairs of nodes that may connect
  Flaky,       \* the pairs whose connection may lose messages or break
  Periodic,    \* the nodes whose periodic synchronisation was started
  Start,       \* Start[n]: height of n's chain at the start, -1 without genesis
  Batch,       \* blocks per answer (100 in the code)
  None,
  MaxHeight,   \* bound: highest block
  MaxLosses    \* bound: connections lost and messages dropped

Height == 0 .. MaxHeight
Msg == [kind : {"new", "get", "blocks"}, from : Node, to : Node,
        lo : Height, hi : Height]

ASSUME SyncAssumption ==
  /\ Producer \subseteq Node /\ Periodic \subseteq Node
  /\ MaxHeight \in Nat /\ MaxLosses \in Nat
  /\ Batch \in Nat /\ Batch > 0
  /\ Start \in [Node -> -1 .. MaxHeight]
  /\ \A n \in Producer : Start[n] >= 0
  /\ None \notin Height

VARIABLES
  stored,      \* stored[n]: the blocks in the database of n
  latest,      \* latest[n]: LatestHeight
  best,        \* best[n][m]: BestHeight of the active peer m, None if m is no peer
  net,         \* the messages under way
  job,         \* job[n][m]: the blocks the goroutine of n for m works on
  pending,     \* pending[n]: pendingBlocks
  losses

vars == <<stored, latest, best, net, job, pending, losses>>

Job == [pc : {"check", "store", "add", "drain", "addPending"},
        next : Height, last : Height, blk : Height, cur : Height]

\* NewChainState: only boot nodes and producers make a genesis block.
Init ==
  /\ stored = [n \in Node |-> 0 .. Start[n]]
  /\ latest = [n \in Node |-> IF Start[n] = -1 THEN 0 ELSE Start[n]]
  /\ best = [n \in Node |-> [m \in Node |-> None]]
  /\ net = {}
  /\ job = [n \in Node |-> [m \in Node |-> None]]
  /\ pending = [n \in Node |-> {}]
  /\ losses = 0

-----------------------------------------------------------------------------
(* Connections.                                                            *)

Linked(n) == {m \in Node \ {n} : {n, m} \in Link}
Peers(n) == {m \in Node : best[n][m] # None}

\* The two handshakes: each side keeps the height the other one has now, and
\* never updates it.
Handshake(n, m) ==
  /\ m \in Linked(n)
  /\ best[n][m] = None
  /\ best' = [best EXCEPT ![n][m] = latest[m], ![m][n] = latest[n]]
  /\ UNCHANGED <<stored, latest, net, job, pending, losses>>

\* A connection is lost with what is under way on it.  A block handler that
\* runs goes on with the blocks of its message; what a new connection to the
\* same peer brings waits for it.
Disconnect(n, m) ==
  /\ {n, m} \in Flaky
  /\ best[n][m] # None
  /\ losses < MaxLosses
  /\ losses' = losses + 1
  /\ best' = [best EXCEPT ![n][m] = None, ![m][n] = None]
  /\ net' = {x \in net : {x.from, x.to} # {n, m}}
  /\ UNCHANGED <<stored, latest, job, pending>>

\* A message is refused by the rate limiter of the receiver.
Drop(x) ==
  /\ {x.from, x.to} \in Flaky
  /\ losses < MaxLosses
  /\ losses' = losses + 1
  /\ net' = net \ {x}
  /\ UNCHANGED <<stored, latest, best, job, pending>>

-----------------------------------------------------------------------------
(* Asking and announcing.                                                  *)

Message(k, n, m, i, j) == [kind |-> k, from |-> n, to |-> m, lo |-> i, hi |-> j]

\* BroadcastBlock: to every active peer, the one the block came from included.
Announcement(n, b) == {Message("new", n, m, b, b) : m \in Peers(n)}

\* Mutant: a node one block behind takes itself for synchronised.
MutSyncBlocks(n) ==
  /\ n \in Periodic
  /\ Peers(n) # {}
  /\ \E p \in Peers(n) :
       /\ \A m \in Peers(n) : best[n][m] <= best[n][p]
       /\ best[n][p] > latest[n] + 1
       /\ net' = net \cup {Message("get", n, p, latest[n] + 1, best[n][p])}
  /\ UNCHANGED <<stored, latest, best, job, pending, losses>>

\* SyncBlocks, called after the start, every three seconds and by an engine
\* without progress.  The height asked for is that of the handshake.
\* GetLatestHeight reports 0 and no error for a chain without genesis, so the
\* request that starts at height 0 is never made.
SyncBlocks(n) ==
  /\ n \in Periodic
  /\ Peers(n) # {}
  /\ \E p \in Peers(n) :
       /\ \A m \in Peers(n) : best[n][m] <= best[n][p]
       /\ best[n][p] > latest[n]
       /\ net' = net \cup {Message("get", n, p, latest[n] + 1, best[n][p])}
  /\ UNCHANGED <<stored, latest, best, job, pending, losses>>

\* Mutant: the height is set for every block that is written.
MutAddBlock(n, b) ==
  /\ stored' = [stored EXCEPT ![n] = @ \cup {b}]
  /\ latest' = [latest EXCEPT ![n] = b]

AddBlock(n, b) ==
  /\ stored' = [stored EXCEPT ![n] = @ \cup {b}]
  /\ latest' = [latest EXCEPT ![n] = IF b > @ \/ b = 0 THEN b ELSE @]

\* The engine of n commits the next block; onBlockCommit announces it.
CommitBlock(n) ==
  /\ n \in Producer
  /\ latest[n] < MaxHeight
  /\ AddBlock(n, latest[n] + 1)
  /\ net' = net \cup Announcement(n, latest[n] + 1)
  /\ UNCHANGED <<best, job, pending, losses>>

-----------------------------------------------------------------------------
(* Messages.                                                               *)

Idle(n, m) == job[n][m] = None

Work(pc, i, j, b, c) == [pc |-> pc, next |-> i, last |-> j, blk |-> b, cur |-> c]

\* handleGetBlocks: consecutive blocks from lo on, at most Batch of them, up to
\* the first one that is missing.  An answer without blocks has no effect.
Answer(n, x) ==
  LET sent == {j \in x.lo .. x.hi : j < x.lo + Batch /\ x.lo .. j \subseteq stored[n]}
  IN {Message("blocks", n, x.from, x.lo, j) : j \in {k \in sent : k + 1 \notin sent}}

HandleGetBlocks(n, m) ==
  \E x \in net :
    /\ x.to = n /\ x.from = m /\ x.kind = "get"
    /\ Idle(n, m)
    /\ net' = (net \ {x}) \cup Answer(n, x)
    /\ UNCHANGED <<stored, latest, best, job, pending, losses>>

\* handleNewBlock and handleBlocks: the block handler gets the blocks in order.
HandleBlocks(n, m) ==
  \E x \in net :
    /\ x.to = n /\ x.from = m /\ x.kind \in {"new", "blocks"}
    /\ Idle(n, m)
    /\ net' = net \ {x}
    /\ job' = [job EXCEPT ![n][m] = Work("check", x.lo, x.hi, x.lo, 0)]
    /\ UNCHANGED <<stored, latest, best, pending, losses>>

-----------------------------------------------------------------------------
(* The block handler (SetBlockHandler in app.New).                         *)

\* The handler returns: handleBlocks calls it with the next block, if any.
Return(n, m) ==
  LET j == job[n][m]
  IN [job EXCEPT ![n][m] =
        IF j.next < j.last
        THEN Work("check", j.next + 1, j.last, j.next + 1, 0) ELSE None]

Goto(n, m, pc) == [job EXCEPT ![n][m].pc = pc]

\* The genesis block is validated by itself, the others need their predecessor.
ValidateBlock(n, b) == b = 0 \/ b - 1 \in stored[n]

\* Mutant: blocks the chain already has are not skipped.
MutKnown(n, b) == FALSE

\* The height is read and the block compared with it.
Known(n, b) == b <= latest[n] /\ ~(b = 0 /\ latest[n] = 0)

\* Mutant: a new block is added whatever its height and the validation say.
MutCheckHeight(n, m) ==
  LET b == job[n][m].blk
  IN /\ ~Idle(n, m) /\ job[n][m].pc = "check"
     /\ \/ Known(n, b) /\ job' = Return(n, m)
        \/ ~Known(n, b) /\ job' = Goto(n, m, "add")
     /\ UNCHANGED <<stored, latest, best, net, pending, losses>>

CheckHeight(n, m) ==
  LET b == job[n][m].blk
  IN /\ ~Idle(n, m) /\ job[n][m].pc = "check"
     /\ \/ /\ Known(n, b) \/ (b <= latest[n] + 1 /\ ~ValidateBlock(n, b))
           /\ job' = Return(n, m)
        \/ /\ b > latest[n] + 1
           /\ job' = [job EXCEPT ![n][m].pc = "store", ![n][m].cur = latest[n]]
        \/ /\ ~Known(n, b) /\ b <= latest[n] + 1 /\ ValidateBlock(n, b)
           /\ job' = Goto(n, m, "add")
     /\ UNCHANGED <<stored, latest, best, net, pending, losses>>

\* A block that comes too early is kept.  The blocks between are requested from
\* some peer, as far as they were missing when the height was read.
StorePending(n, m) ==
  LET j == job[n][m]
  IN /\ ~Idle(n, m) /\ j.pc = "store"
     /\ pending' = [pending EXCEPT ![n] = @ \cup {j.blk}]
     /\ \/ Peers(n) = {} /\ UNCHANGED net
        \/ \E p \in Peers(n) :
             net' = net \cup {Message("get", n, p, j.cur + 1, j.blk - 1)}
     /\ job' = Return(n, m)
     /\ UNCHANGED <<stored, latest, best, losses>>

\* A block added twice: UpdateUtxo refuses it if it spends anything, otherwise
\* it is written once more.
AddValidated(n, m) ==
  LET b == job[n][m].blk
  IN /\ ~Idle(n, m) /\ job[n][m].pc = "add"
     /\ \/ /\ AddBlock(n, b)
           /\ net' = IF b = 0 THEN net ELSE net \cup Announcement(n, b)
           /\ job' = IF b = 0 THEN Return(n, m) ELSE Goto(n, m, "drain")
        \/ /\ b \in stored[n]
           /\ job' = Return(n, m)
           /\ UNCHANGED <<stored, latest, net>>
     /\ UNCHANGED <<best, pending, losses>>

\* The loop over the pending blocks: the next one is taken out and validated.
TakePending(n, m) ==
  LET b == job[n][m].blk + 1
  IN /\ ~Idle(n, m) /\ job[n][m].pc = "drain"
     /\ pending' = [pending EXCEPT ![n] = @ \ {b}]
     /\ job' = IF b \in pending[n]
               THEN [job EXCEPT ![n][m].pc = "addPending", ![n][m].blk = b]
               ELSE Return(n, m)
     /\ UNCHANGED <<stored, latest, best, net, losses>>

\* A pending block is added and not announced.
AddPending(n, m) ==
  LET b == job[n][m].blk
  IN /\ ~Idle(n, m) /\ job[n][m].pc = "addPending"
     /\ \/ AddBlock(n, b) /\ job' = Goto(n, m, "drain")
        \/ b \in stored[n] /\ job' = Return(n, m) /\ UNCHANGED <<stored, latest>>
     /\ UNCHANGED <<best, net, pending, losses>>

HandlerStep(n, m) ==
  \/ CheckHeight(n, m) \/ StorePending(n, m) \/ AddValidated(n, m)
  \/ TakePending(n, m) \/ AddPending(n, m)

\* The loop of handlePeer.
ConnectionStep(n, m) == HandleGetBlocks(n, m) \/ HandleBlocks(n, m) \/ HandlerStep(n, m)

-----------------------------------------------------------------------------
Next ==
  \/ \E n \in Node :
       \/ SyncBlocks(n) \/ CommitBlock(n)
       \/ \E m \in Node :
            \/ Handshake(n, m) \/ Disconnect(n, m)
            \/ ConnectionStep(n, m)
  \/ \E x \in net : Drop(x)

Spec == Init /\ [][Next]_vars

\* The ticker ticks, and the goroutine of every connection goes on reading and
\* handling messages.  Nothing makes nodes connect or blocks be committed.
Fairness ==
  /\ \A n \in Periodic : WF_vars(SyncBlocks(n))
  /\ \A n \in Node : \A m \in Linked(n) : WF_vars(ConnectionStep(n, m))

FairSpec == Spec /\ Fairness

-----------------------------------------------------------------------------
(* Properties.                                                             *)

\* Types of the chains, the peer table, the messages and the block handlers.
\* No height leaves the range of the bound.
TypeOK ==
  /\ stored \in [Node -> SUBSET Height]
  /\ latest \in [Node -> Height]
  /\ best \in [Node -> [Node -> Height \cup {None}]]
  /\ net \subseteq Msg
  /\ job \in [Node -> [Node -> Job \cup {None}]]
  /\ pending \in [Node -> SUBSET Height]
  /\ losses \in Nat

\* A chain has no gap, in whatever order blocks arrive and however the block
\* handlers of several connections and the engine interleave.
NoGap == \A n \in Node : stored[n] \in {0 .. latest[n], {}}

\* The nodes hold prefixes of one chain: a step of a node that does not produce
\* blocks adds one block, the next one, and only one another node has.
Chain == INSTANCE ChainCopy WITH height <- latest
CopiesChain == Chain!Spec

\* A node that has a genesis block and stays connected reaches the height its
\* peer had in the handshake, with several batches and lost messages in between.
CatchUp ==
  \A n \in Periodic : \A m \in Linked(n) :
    Start[n] >= 0 /\ best[n][m] # None
      ~> best[n][m] = None \/ best[n][m] <= latest[n]

\* Announcements die out: a block is announced again only by a node that added
\* it, so the exchange of a finite chain ends.
GossipDies == []<>(\A x \in net : x.kind # "new")

\* A node without a genesis block that is connected to a node with a longer
\* chain receives the genesis block.
GenesisArrives ==
  \A n \in Periodic, m \in Node :
    Start[n] = -1 /\ best[n][m] # None /\ best[n][m] # 0
      ~> 0 \in stored[n] \/ best[n][m] = None
=============================================================================
