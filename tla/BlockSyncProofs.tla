-------------------------- MODULE BlockSyncProofs --------------------------
(***************************************************************************)
(* BlockSync keeps every chain free of gaps and implements ChainCopy, for  *)
(* any nodes, links, losses and heights.                                   *)
(*                                                                         *)
(* NoGap is not inductive: a block handler adds a block that it validated  *)
(* some steps ago, while other handlers and the engine change the chain.   *)
(* JobsSound says what such a handler still knows, and the other parts of  *)
(* Inv that every block on its way was made by some node and that none is  *)
(* a genesis block, whose import would set the height back.                *)
(***************************************************************************)
EXTENDS BlockSync, TLAPS

\* Some node has block b.
Made(b) == \E n \in Node : b <= latest[n]

\* A chain is the blocks up to its height, or empty at a node that makes none.
ChainsSound ==
  \A n \in Node :
    \/ stored[n] = 0 .. latest[n]
    \/ stored[n] = {} /\ latest[n] = 0 /\ n \notin Producer

MsgSound(x) == x.lo >= 1 /\ (x.kind # "get" => x.lo <= x.hi /\ Made(x.hi))

NetSound == \A x \in net : MsgSound(x)

\* The block a handler of n is about to add has its predecessor in the chain.
JobSound(n, j) ==
  j # None =>
    /\ j.next >= 1 /\ j.blk >= 1
    /\ Made(j.last) /\ Made(j.blk)
    /\ j.pc = "store" => j.blk > j.cur + 1
    /\ j.pc \in {"add", "addPending"} => j.blk - 1 \in stored[n]
    /\ j.pc = "drain" => j.blk \in stored[n]

JobsSound == \A n \in Node, m \in Node : JobSound(n, job[n][m])

PendingSound == \A n \in Node : \A b \in pending[n] : b >= 1 /\ Made(b)

Inv == TypeOK /\ ChainsSound /\ NetSound /\ JobsSound /\ PendingSound
-----------------------------------------------------------------------------
\* Blocks stay made when heights only grow.
LEMMA MadeKept ==
  ASSUME latest \in [Node -> Height], latest' \in [Node -> Height],
         \A k \in Node : latest[k] <= latest'[k],
         NEW b \in Int, Made(b)
  PROVE  Made(b)'
<1>1. PICK k \in Node : b <= latest[k]
  BY DEF Made
<1>2. b <= latest'[k]
  BY <1>1, SyncAssumption DEF Height
<1> QED  BY <1>2 DEF Made

\* What a handler of k knows stays true when the chains only grow.
LEMMA JobKept ==
  ASSUME Inv, NEW k \in Node, NEW J \in Job \cup {None}, JobSound(k, J),
         latest' \in [Node -> Height],
         \A n \in Node : latest[n] <= latest'[n] /\ stored[n] \subseteq stored'[n]
  PROVE  JobSound(k, J)'
<1>1. CASE J = None
  BY <1>1 DEF JobSound
<1>2. CASE J # None
  <2>1. J.last \in Int /\ J.blk \in Int
    BY <1>2, SyncAssumption DEF Job, Height
  <2>2. Made(J.last) /\ Made(J.blk)
    BY <1>2 DEF JobSound
  <2>3. Made(J.last)' /\ Made(J.blk)'
    BY <2>1, <2>2, MadeKept DEF Inv, TypeOK
  <2> QED  BY <1>2, <2>3 DEF JobSound
<1> QED  BY <1>1, <1>2

\* A handler that moves on leaves the other handlers sound when the chains only
\* grow.
LEMMA JobMoves ==
  ASSUME Inv, NEW n \in Node, NEW m \in Node, NEW J \in Job \cup {None},
         job' = [job EXCEPT ![n][m] = J], JobSound(n, J)',
         latest' \in [Node -> Height],
         \A k \in Node : latest[k] <= latest'[k] /\ stored[k] \subseteq stored'[k]
  PROVE  JobsSound' /\ job' \in [Node -> [Node -> Job \cup {None}]]
<1>1. job' \in [Node -> [Node -> Job \cup {None}]]
  BY DEF Inv, TypeOK
<1>2. ASSUME NEW k \in Node, NEW l \in Node  PROVE JobSound(k, job[k][l])'
  <2>1. CASE k = n /\ l = m
    <3>1. job'[k][l] = J
      BY <2>1 DEF Inv, TypeOK
    <3> QED  BY <2>1, <3>1 DEF JobSound, Made
  <2>2. CASE ~(k = n /\ l = m)
    <3>1. job'[k][l] = job[k][l]
      BY <2>2 DEF Inv, TypeOK
    <3>2. JobSound(k, job[k][l]) /\ job[k][l] \in Job \cup {None}
      BY DEF Inv, JobsSound, TypeOK
    <3>3. PICK K \in Job \cup {None} : K = job[k][l]
      BY <3>2
    <3>4. JobSound(k, K)'
      BY <3>2, <3>3, JobKept
    <3> QED  BY <3>1, <3>3, <3>4 DEF JobSound, Made
  <2> QED  BY <2>1, <2>2
<1> QED  BY <1>1, <1>2 DEF JobsSound

\* So do messages and pending blocks.
LEMMA OthersKept ==
  ASSUME Inv, latest' \in [Node -> Height], \A k \in Node : latest[k] <= latest'[k]
  PROVE  /\ \A x \in net : MsgSound(x)'
         /\ \A k \in Node : \A b \in pending[k] : b >= 1 /\ Made(b)'
<1>1. \A b \in Int : Made(b) => Made(b)'
  BY MadeKept DEF Inv, TypeOK
<1>2. \A x \in net : x.hi \in Int
  BY SyncAssumption DEF Inv, TypeOK, Msg, Height
<1>3. \A k \in Node : \A b \in pending[k] : b \in Int
  BY SyncAssumption DEF Inv, TypeOK, Height
<1> QED  BY <1>1, <1>2, <1>3 DEF Inv, NetSound, MsgSound, PendingSound

\* AddBlock appends the next block, or does nothing for an older one.
LEMMA BlockAdded ==
  ASSUME Inv, NEW n \in Node, NEW b \in Height, b >= 1, b - 1 \in stored[n],
         AddBlock(n, b)
  PROVE  /\ stored' \in [Node -> SUBSET Height] /\ latest' \in [Node -> Height]
         /\ \A k \in Node : latest[k] <= latest'[k] /\ stored[k] \subseteq stored'[k]
         /\ ChainsSound'
         /\ b \in stored'[n] /\ Made(b)'
         /\ \/ latest' = latest
            \/ b = latest[n] + 1 /\ latest' = [latest EXCEPT ![n] = @ + 1]
<1>1. stored \in [Node -> SUBSET Height] /\ latest \in [Node -> Height]
  BY DEF Inv, TypeOK
<1>2. stored[n] = 0 .. latest[n]
  BY DEF Inv, ChainsSound
<1>3. \A k \in Node : latest[k] \in Int
  BY <1>1, SyncAssumption DEF Height
<1>4. b <= latest[n] + 1 /\ b \in Int
  BY <1>2, <1>3, SyncAssumption DEF Height
<1>5. stored' \in [Node -> SUBSET Height] /\ latest' \in [Node -> Height]
  BY <1>1, SyncAssumption DEF AddBlock
<1>6. latest'[n] = (IF b > latest[n] THEN b ELSE latest[n])
  BY <1>1, SyncAssumption DEF AddBlock, Height
<1>7. \A k \in Node \ {n} : latest'[k] = latest[k] /\ stored'[k] = stored[k]
  BY <1>1 DEF AddBlock
<1>8. stored'[n] = stored[n] \cup {b}
  BY <1>1 DEF AddBlock
<1>9. \A k \in Node : latest[k] <= latest'[k] /\ stored[k] \subseteq stored'[k]
  BY <1>3, <1>4, <1>6, <1>7, <1>8
<1>10. stored'[n] = 0 .. latest'[n]
  BY <1>2, <1>3, <1>4, <1>6, <1>8
<1>11. ChainsSound'
  BY <1>7, <1>10 DEF ChainsSound, Inv
<1>12. Made(b)'
  BY <1>3, <1>4, <1>6 DEF Made
<1>13. \/ latest' = latest
       \/ b = latest[n] + 1 /\ latest' = [latest EXCEPT ![n] = @ + 1]
  <2>1. CASE b > latest[n]
    <3>1. b = latest[n] + 1
      BY <2>1, <1>3, <1>4
    <3> QED  BY Zenon, <2>1, <3>1 DEF AddBlock
  <2>2. CASE ~(b > latest[n])
    BY <2>2, <1>3, <1>4, <1>1 DEF AddBlock
  <2> QED  BY <2>1, <2>2
<1> QED  BY <1>5, <1>8, <1>9, <1>11, <1>12, <1>13

-----------------------------------------------------------------------------
(* The invariant at the start and in every step.                           *)

LEMMA InitSound == Init => Inv
<1> SUFFICES ASSUME Init  PROVE Inv
  OBVIOUS
<1>1. \A n \in Node : Start[n] \in -1 .. MaxHeight
  BY SyncAssumption
<1>2. stored \in [Node -> SUBSET Height] /\ latest \in [Node -> Height]
  BY <1>1, SyncAssumption DEF Init, Height
<1>3. TypeOK
  BY <1>2 DEF TypeOK, Init
<1>4. ChainsSound
  <2> SUFFICES ASSUME NEW n \in Node
               PROVE  \/ stored[n] = 0 .. latest[n]
                      \/ stored[n] = {} /\ latest[n] = 0 /\ n \notin Producer
    BY Zenon DEF ChainsSound
  <2>1. CASE Start[n] = -1
    BY <2>1, SyncAssumption DEF Init
  <2>2. CASE Start[n] # -1
    BY <2>2 DEF Init
  <2> QED  BY <2>1, <2>2
<1>5. NetSound /\ PendingSound /\ JobsSound
  BY DEF Init, NetSound, PendingSound, JobsSound, JobSound
<1> QED  BY <1>3, <1>4, <1>5 DEF Inv

\* Both ends of a connection keep the height of the other one.
LEMMA PeerHeights ==
  ASSUME TypeOK, NEW n \in Node, NEW m \in Node,
         NEW u \in Height \cup {None}, NEW v \in Height \cup {None}
  PROVE  [best EXCEPT ![n][m] = u, ![m][n] = v] \in [Node -> [Node -> Height \cup {None}]]
<1> DEFINE half == [best EXCEPT ![n][m] = u]
<1>1. half \in [Node -> [Node -> Height \cup {None}]]
  BY DEF TypeOK
<1>2. [best EXCEPT ![n][m] = u, ![m][n] = v] = [half EXCEPT ![m][n] = v]
  OBVIOUS
<1>3. [half EXCEPT ![m][n] = v] \in [Node -> [Node -> Height \cup {None}]]
  <2> HIDE DEF half
  <2> QED  BY <1>1
<1> QED  BY Zenon, <1>2, <1>3

\* Handshakes and losses leave the chains and the handlers alone.
LEMMA ConnectionSound ==
  ASSUME Inv, NEW n \in Node, NEW m \in Node, Handshake(n, m) \/ Disconnect(n, m)
  PROVE  Inv'
<1>1. UNCHANGED <<stored, latest, job, pending>> /\ net' \subseteq net
  BY DEF Handshake, Disconnect
<1>2. TypeOK'
  <2>1. CASE Handshake(n, m)
    <3>1. best' \in [Node -> [Node -> Height \cup {None}]]
      <4>1. TypeOK /\ latest[m] \in Height \cup {None} /\ latest[n] \in Height \cup {None}
        BY DEF Inv, TypeOK
      <4>2. best' = [best EXCEPT ![n][m] = latest[m], ![m][n] = latest[n]]
        BY <2>1 DEF Handshake
      <4> QED  BY Zenon, <4>1, <4>2, PeerHeights
    <3> QED  BY Zenon, <2>1, <3>1 DEF Inv, TypeOK, Handshake
  <2>2. CASE Disconnect(n, m)
    <3>1. best' \in [Node -> [Node -> Height \cup {None}]]
      BY Zenon, <2>2, PeerHeights DEF Inv, TypeOK, Disconnect
    <3>2. losses' \in Nat
      BY <2>2 DEF Inv, TypeOK, Disconnect
    <3> QED  BY <1>1, <3>1, <3>2 DEF Inv, TypeOK
  <2> QED  BY <2>1, <2>2
<1>3. ChainsSound' /\ PendingSound' /\ JobsSound'
  BY <1>1 DEF Inv, ChainsSound, PendingSound, JobsSound, JobSound, Made
<1>4. NetSound'
  BY <1>1 DEF Inv, NetSound, MsgSound, Made
<1> QED  BY <1>2, <1>3, <1>4 DEF Inv

\* A step that changes the network only.
LEMMA NetSteps ==
  ASSUME Inv, UNCHANGED <<stored, latest, best, job, pending>>, losses' \in Nat,
         net' \subseteq Msg, \A x \in net' \ net : MsgSound(x)
  PROVE  Inv'
<1>1. TypeOK'
  BY DEF Inv, TypeOK
<1>2. ChainsSound' /\ PendingSound' /\ JobsSound'
  BY DEF Inv, ChainsSound, PendingSound, JobsSound, JobSound, Made
<1>3. NetSound'
  BY DEF Inv, NetSound, MsgSound, Made
<1> QED  BY <1>1, <1>2, <1>3 DEF Inv
LEMMA SyncBlocksSound ==
  ASSUME Inv, NEW n \in Node, SyncBlocks(n)
  PROVE  Inv'
<1>1. PICK p \in Peers(n) :
        /\ best[n][p] > latest[n]
        /\ net' = net \cup {Message("get", n, p, latest[n] + 1, best[n][p])}
  BY DEF SyncBlocks
<1>2. p \in Node /\ best[n][p] \in Height /\ latest[n] \in Height
  BY DEF Inv, TypeOK, Peers
<1>3. latest[n] + 1 \in Height /\ latest[n] + 1 >= 1
  BY <1>1, <1>2, SyncAssumption DEF Height
<1> DEFINE x == Message("get", n, p, latest[n] + 1, best[n][p])
<1>4. x \in Msg /\ MsgSound(x)
  BY <1>2, <1>3 DEF Msg, Message, MsgSound
<1> HIDE DEF x
<1>5. net' \subseteq Msg /\ \A y \in net' \ net : MsgSound(y)
  BY <1>1, <1>4 DEF Inv, TypeOK, x
<1>6. UNCHANGED <<stored, latest, best, job, pending>> /\ losses' \in Nat
  BY DEF SyncBlocks, Inv, TypeOK
<1> QED  BY <1>5, <1>6, NetSteps

LEMMA DropSound ==
  ASSUME Inv, NEW x \in net, Drop(x)
  PROVE  Inv'
<1>1. net' \subseteq Msg /\ net' \ net = {}
  BY DEF Drop, Inv, TypeOK
<1>2. UNCHANGED <<stored, latest, best, job, pending>> /\ losses' \in Nat
  BY DEF Drop, Inv, TypeOK
<1> QED  BY <1>1, <1>2, NetSteps

LEMMA HandleGetBlocksSound ==
  ASSUME Inv, NEW n \in Node, NEW m \in Node, HandleGetBlocks(n, m)
  PROVE  Inv'
<1>1. PICK x \in net : net' = (net \ {x}) \cup Answer(n, x)
  BY DEF HandleGetBlocks
<1>2. x.from \in Node /\ x.lo \in Height /\ x.hi \in Height /\ x.lo >= 1
  BY DEF Inv, TypeOK, Msg, NetSound, MsgSound
<1>3. ASSUME NEW y \in Answer(n, x)  PROVE y \in Msg /\ MsgSound(y)
  <2>1. PICK j \in x.lo .. x.hi :
          /\ x.lo .. j \subseteq stored[n]
          /\ y = Message("blocks", n, x.from, x.lo, j)
    BY <1>3 DEF Answer
  <2>2. j \in Height /\ x.lo <= j
    BY <1>2, <2>1, SyncAssumption DEF Height
  <2>3. j \in stored[n]
    BY <2>1, <2>2, <1>2, SyncAssumption DEF Height
  <2>4. j <= latest[n]
    <3>1. stored[n] = 0 .. latest[n]
      BY <2>3 DEF Inv, ChainsSound
    <3> QED  BY <2>3, <3>1
  <2> QED  BY <2>1, <2>2, <2>4, <1>2 DEF Message, Msg, MsgSound, Made
<1>4. net' \subseteq Msg /\ \A y \in net' \ net : MsgSound(y)
  BY <1>1, <1>3 DEF Inv, TypeOK
<1>5. UNCHANGED <<stored, latest, best, job, pending>> /\ losses' \in Nat
  BY DEF HandleGetBlocks, Inv, TypeOK
<1> QED  BY <1>4, <1>5, NetSteps

\* The job of a handler that runs.
LEMMA Running ==
  ASSUME Inv, NEW n \in Node, NEW m \in Node, ~Idle(n, m)
  PROVE  /\ job[n][m] \in Job /\ JobSound(n, job[n][m]) /\ job[n][m] # None
         /\ job[n][m].next \in Height /\ job[n][m].last \in Height
         /\ job[n][m].blk \in Height /\ job[n][m].cur \in Height
         /\ Made(job[n][m].last) /\ Made(job[n][m].blk)
         /\ job[n][m].next >= 1 /\ job[n][m].blk >= 1
<1>1. job[n][m] \in Job /\ job[n][m] # None /\ JobSound(n, job[n][m])
  BY DEF Inv, TypeOK, Idle, JobsSound
<1> QED  BY <1>1 DEF Job, JobSound

\* The handler returns, to the next block of its message or to wait.
LEMMA ReturnSound ==
  ASSUME Inv, NEW n \in Node, NEW m \in Node, ~Idle(n, m), job' = Return(n, m),
         latest' \in [Node -> Height],
         \A k \in Node : latest[k] <= latest'[k] /\ stored[k] \subseteq stored'[k]
  PROVE  JobsSound' /\ job' \in [Node -> [Node -> Job \cup {None}]]
<1> DEFINE j == job[n][m]
<1>1. /\ j.next \in Height /\ j.last \in Height /\ j.next >= 1 /\ Made(j.last)
  BY Running
<1>2. PICK J : J = IF j.next < j.last
                   THEN Work("check", j.next + 1, j.last, j.next + 1, 0) ELSE None
  OBVIOUS
<1>3. job' = [job EXCEPT ![n][m] = J]
  BY <1>2 DEF Return
<1> HIDE DEF j
<1>4. J \in Job \cup {None} /\ JobSound(n, J)'
  <2>1. CASE J = None
    BY <2>1 DEF JobSound
  <2>2. CASE J # None
    <3>1. /\ j.next < j.last
          /\ J = Work("check", j.next + 1, j.last, j.next + 1, 0)
      BY <1>2, <2>2
    <3>2. j.next + 1 \in Height /\ 0 \in Height /\ j.last \in Int /\ j.next + 1 \in Int
      BY <3>1, <1>1, SyncAssumption DEF Height
    <3>3. J \in Job
      BY <3>1, <3>2, <1>1 DEF Work, Job
    <3>4. Made(j.next + 1)
      <4>1. PICK k \in Node : j.last <= latest[k]
        BY <1>1 DEF Made
      <4>2. latest[k] \in Int
        BY SyncAssumption DEF Inv, TypeOK, Height
      <4>3. j.next + 1 <= latest[k]
        BY <4>1, <4>2, <3>1, <3>2, <1>1, SyncAssumption DEF Height
      <4> QED  BY <4>3 DEF Made
    <3>5. PICK a \in Int, c \in Int : a = j.next + 1 /\ c = j.last
      BY <3>2
    <3>6. Made(a) /\ Made(c) /\ a >= 1
      BY <3>4, <3>5, <1>1, SyncAssumption DEF Height
    <3>7. Made(a)' /\ Made(c)'
      BY <3>6, MadeKept DEF Inv, TypeOK
    <3>8. J.next = a /\ J.blk = a /\ J.last = c /\ J.pc = "check"
      BY <3>1, <3>5 DEF Work
    <3> QED  BY <3>3, <3>6, <3>7, <3>8 DEF JobSound
  <2> QED  BY <2>1, <2>2
<1> QED  BY Zenon, <1>3, <1>4, JobMoves

\* The handler goes on with the same message, at block b and step p.
LEMMA GotoSound ==
  ASSUME Inv, NEW n \in Node, NEW m \in Node, ~Idle(n, m),
         NEW p \in {"check", "store", "add", "drain", "addPending"},
         NEW b \in Height, NEW c \in Height,
         job' = [job EXCEPT ![n][m] = [@ EXCEPT !.pc = p, !.blk = b, !.cur = c]],
         latest' \in [Node -> Height],
         \A k \in Node : latest[k] <= latest'[k] /\ stored[k] \subseteq stored'[k],
         b >= 1, Made(b)',
         p = "store" => b > c + 1,
         p \in {"add", "addPending"} => b - 1 \in stored'[n],
         p = "drain" => b \in stored'[n]
  PROVE  JobsSound' /\ job' \in [Node -> [Node -> Job \cup {None}]]
<1>1. job[n][m] \in Job /\ job[n][m].next >= 1 /\ Made(job[n][m].last)
  BY Running
<1>2. PICK J : J = [job[n][m] EXCEPT !.pc = p, !.blk = b, !.cur = c]
  OBVIOUS
<1>3. /\ J \in Job /\ J.pc = p /\ J.blk = b /\ J.cur = c
      /\ J.next = job[n][m].next /\ J.last = job[n][m].last
  BY Zenon, <1>1, <1>2 DEF Job
<1>4. J.last \in Int
  BY <1>3, SyncAssumption DEF Job, Height
<1>5. Made(J.last)
  BY <1>1, <1>3
<1>6. Made(J.last)'
  BY Zenon, <1>4, <1>5, MadeKept DEF Inv, TypeOK
<1>7. JobSound(n, J)'
  BY <1>1, <1>3, <1>6 DEF JobSound
<1>8. job' = [job EXCEPT ![n][m] = J]
  BY <1>2
<1> QED  BY Zenon, <1>3, <1>7, <1>8, JobMoves

\* A handler step that leaves the chains alone and sends sound messages.
LEMMA StepKeepsChains ==
  ASSUME Inv, UNCHANGED <<stored, latest, best, losses>>,
         JobsSound', job' \in [Node -> [Node -> Job \cup {None}]],
         net' \subseteq Msg, \A x \in net' \ net : MsgSound(x),
         pending' \in [Node -> SUBSET Height],
         \A k \in Node : \A b \in pending'[k] : b >= 1 /\ Made(b)
  PROVE  Inv'
<1>1. TypeOK'
  BY DEF Inv, TypeOK
<1>2. ChainsSound' /\ PendingSound'
  BY DEF Inv, ChainsSound, PendingSound, Made
<1>3. NetSound'
  BY DEF Inv, NetSound, MsgSound, Made
<1> QED  BY <1>1, <1>2, <1>3 DEF Inv

LEMMA HandleBlocksSound ==
  ASSUME Inv, NEW n \in Node, NEW m \in Node, HandleBlocks(n, m)
  PROVE  Inv'
<1>1. PICK x \in net :
        /\ x.kind # "get"
        /\ net' = net \ {x}
        /\ job' = [job EXCEPT ![n][m] = Work("check", x.lo, x.hi, x.lo, 0)]
  BY Zenon DEF HandleBlocks
<1>2. UNCHANGED <<stored, latest, best, pending, losses>>
  BY DEF HandleBlocks
<1>3. /\ x.lo \in Height /\ x.hi \in Height
      /\ x.lo >= 1 /\ x.lo <= x.hi /\ Made(x.hi)
  BY <1>1 DEF Inv, TypeOK, Msg, NetSound, MsgSound
<1>4. Made(x.lo)
  <2>1. PICK k \in Node : x.hi <= latest[k]
    BY <1>3 DEF Made
  <2>2. latest[k] \in Int
    BY SyncAssumption DEF Inv, TypeOK, Height
  <2> QED  BY <2>1, <2>2, <1>3, SyncAssumption DEF Made, Height
<1>5. PICK J : J = Work("check", x.lo, x.hi, x.lo, 0)
  OBVIOUS
<1>6. J \in Job /\ JobSound(n, J)'
  BY <1>2, <1>3, <1>4, <1>5, SyncAssumption DEF Work, Job, Height, JobSound, Made
<1>7. JobsSound' /\ job' \in [Node -> [Node -> Job \cup {None}]]
  <2>1. latest' \in [Node -> Height]
    BY <1>2 DEF Inv, TypeOK
  <2>2. \A k \in Node : latest[k] <= latest'[k] /\ stored[k] \subseteq stored'[k]
    BY <1>2, SyncAssumption DEF Inv, TypeOK, Height
  <2>3. job' = [job EXCEPT ![n][m] = J]
    BY <1>1, <1>5
  <2> QED  BY Zenon, <1>6, <2>1, <2>2, <2>3, JobMoves
<1>8. net' \subseteq Msg /\ net' \ net = {}
  BY <1>1 DEF Inv, TypeOK
<1>9. /\ pending' \in [Node -> SUBSET Height]
      /\ \A k \in Node : \A b \in pending'[k] : b >= 1 /\ Made(b)
  BY <1>2 DEF Inv, TypeOK, PendingSound
<1> QED  BY <1>2, <1>7, <1>8, <1>9, StepKeepsChains

\* Goto keeps the block.
LEMMA GotoKeepsBlock ==
  ASSUME Inv, NEW n \in Node, NEW m \in Node, ~Idle(n, m), NEW p
  PROVE  Goto(n, m, p) =
           [job EXCEPT ![n][m] = [@ EXCEPT !.pc = p, !.blk = job[n][m].blk,
                                            !.cur = job[n][m].cur]]
<1>1. job[n][m] \in Job
  BY Running
<1>2. [job[n][m] EXCEPT !.pc = p] =
        [job[n][m] EXCEPT !.pc = p, !.blk = job[n][m].blk, !.cur = job[n][m].cur]
  BY Zenon, <1>1 DEF Job
<1> QED  BY Zenon, <1>2 DEF Goto

LEMMA CheckHeightSound ==
  ASSUME Inv, NEW n \in Node, NEW m \in Node, CheckHeight(n, m)
  PROVE  Inv'
<1> DEFINE b == job[n][m].blk
<1>1. ~Idle(n, m) /\ UNCHANGED <<stored, latest, best, net, pending, losses>>
  BY DEF CheckHeight
<1>2. /\ job[n][m] \in Job /\ b \in Height /\ b >= 1 /\ Made(b)
      /\ job[n][m].cur \in Height
  BY <1>1, Running
<1>3. latest' \in [Node -> Height] /\ latest[n] \in Height
  BY <1>1 DEF Inv, TypeOK
<1>4. \A k \in Node : latest[k] <= latest'[k] /\ stored[k] \subseteq stored'[k]
  BY <1>1, SyncAssumption DEF Inv, TypeOK, Height
<1>5. JobsSound' /\ job' \in [Node -> [Node -> Job \cup {None}]]
  <2>1. CASE job' = Return(n, m)
    BY <2>1, <1>1, <1>3, <1>4, ReturnSound
  <2>2. CASE /\ b > latest[n] + 1
             /\ job' = [job EXCEPT ![n][m].pc = "store", ![n][m].cur = latest[n]]
    <3>1. PICK a \in Height, c \in Height : a = b /\ c = latest[n]
      BY <1>2, <1>3
    <3>2. [job[n][m] EXCEPT !.pc = "store", !.cur = c] =
            [job[n][m] EXCEPT !.pc = "store", !.blk = a, !.cur = c]
      BY Zenon, <1>2, <3>1 DEF Job
    <3>3. job' = [job EXCEPT ![n][m] = [@ EXCEPT !.pc = "store", !.blk = a, !.cur = c]]
      BY Zenon, <2>2, <3>1, <3>2 DEF Inv, TypeOK
    <3>4. Made(a)'
      BY <1>1, <1>2, <3>1 DEF Made
    <3>5. a >= 1 /\ a > c + 1
      BY <1>2, <2>2, <3>1
    <3> QED  BY Zenon, <1>1, <1>3, <1>4, <3>3, <3>4, <3>5, GotoSound
  <2>3. CASE b <= latest[n] + 1 /\ ValidateBlock(n, b) /\ job' = Goto(n, m, "add")
    <3>1. PICK a \in Height, c \in Height : a = b /\ c = job[n][m].cur
      BY <1>2
    <3>2. job' = [job EXCEPT ![n][m] = [@ EXCEPT !.pc = "add", !.blk = a, !.cur = c]]
      BY Zenon, <1>1, <2>3, <3>1, GotoKeepsBlock
    <3>3. Made(a)' /\ a >= 1
      BY <1>1, <1>2, <3>1 DEF Made
    <3>4. a - 1 \in stored'[n]
      BY <1>1, <1>2, <2>3, <3>1 DEF ValidateBlock
    <3> QED  BY Zenon, <1>1, <1>3, <1>4, <3>2, <3>3, <3>4, GotoSound
  <2> QED  BY <2>1, <2>2, <2>3 DEF CheckHeight
<1>6. net' \subseteq Msg /\ net' \ net = {}
  BY <1>1 DEF Inv, TypeOK
<1>7. /\ pending' \in [Node -> SUBSET Height]
      /\ \A k \in Node : \A x \in pending'[k] : x >= 1 /\ Made(x)
  BY <1>1 DEF Inv, TypeOK, PendingSound
<1> QED  BY <1>1, <1>5, <1>6, <1>7, StepKeepsChains

LEMMA StorePendingSound ==
  ASSUME Inv, NEW n \in Node, NEW m \in Node, StorePending(n, m)
  PROVE  Inv'
<1> DEFINE j == job[n][m]
<1>1. ~Idle(n, m) /\ UNCHANGED <<stored, latest, best, losses>> /\ job' = Return(n, m)
  BY DEF StorePending
<1>2. j.blk \in Height /\ j.blk >= 1 /\ Made(j.blk) /\ j.cur \in Height
  BY <1>1, Running
<1>3. j.blk > j.cur + 1
  BY <1>1, Running DEF StorePending, JobSound
<1>4. latest' \in [Node -> Height]
  BY <1>1 DEF Inv, TypeOK
<1>5. \A k \in Node : latest[k] <= latest'[k] /\ stored[k] \subseteq stored'[k]
  BY <1>1, SyncAssumption DEF Inv, TypeOK, Height
<1>6. JobsSound' /\ job' \in [Node -> [Node -> Job \cup {None}]]
  BY <1>1, <1>4, <1>5, ReturnSound
<1>7. net' \subseteq Msg /\ \A x \in net' \ net : MsgSound(x)
  <2>1. CASE net' = net
    BY <2>1 DEF Inv, TypeOK
  <2>2. CASE \E p \in Peers(n) :
               net' = net \cup {Message("get", n, p, j.cur + 1, j.blk - 1)}
    <3>1. PICK p \in Peers(n) :
            net' = net \cup {Message("get", n, p, j.cur + 1, j.blk - 1)}
      BY <2>2
    <3>2. p \in Node /\ j.cur + 1 \in Height /\ j.cur + 1 >= 1 /\ j.blk - 1 \in Height
      BY <1>2, <1>3, SyncAssumption DEF Peers, Height
    <3> DEFINE x == Message("get", n, p, j.cur + 1, j.blk - 1)
    <3>3. x \in Msg /\ MsgSound(x)
      BY <3>2 DEF Message, Msg, MsgSound
    <3> HIDE DEF x, j
    <3>4. net' = net \cup {x}
      BY <3>1 DEF x
    <3> QED  BY <3>3, <3>4 DEF Inv, TypeOK
  <2> QED  BY <2>1, <2>2 DEF StorePending
<1>8. /\ pending' \in [Node -> SUBSET Height]
      /\ \A k \in Node : \A b \in pending'[k] : b >= 1 /\ Made(b)
  BY <1>2 DEF StorePending, Inv, TypeOK, PendingSound
<1> QED  BY <1>1, <1>6, <1>7, <1>8, StepKeepsChains

LEMMA TakePendingSound ==
  ASSUME Inv, NEW n \in Node, NEW m \in Node, TakePending(n, m)
  PROVE  Inv'
<1> DEFINE b == job[n][m].blk + 1
<1>1. ~Idle(n, m) /\ UNCHANGED <<stored, latest, best, net, losses>>
  BY DEF TakePending
<1>2. /\ job[n][m] \in Job /\ job[n][m].blk \in Height /\ job[n][m].cur \in Height
      /\ job[n][m].blk \in stored[n]
  BY <1>1, Running DEF TakePending, JobSound
<1>3. latest' \in [Node -> Height]
  BY <1>1 DEF Inv, TypeOK
<1>4. \A k \in Node : latest[k] <= latest'[k] /\ stored[k] \subseteq stored'[k]
  BY <1>1, SyncAssumption DEF Inv, TypeOK, Height
<1>5. /\ pending' \in [Node -> SUBSET Height]
      /\ \A k \in Node : \A x \in pending'[k] : x >= 1 /\ Made(x)
  BY DEF TakePending, Inv, TypeOK, PendingSound
<1>6. JobsSound' /\ job' \in [Node -> [Node -> Job \cup {None}]]
  <2>1. CASE b \notin pending[n]
    <3>1. job' = Return(n, m)
      BY <2>1 DEF TakePending
    <3> QED  BY <3>1, <1>1, <1>3, <1>4, ReturnSound
  <2>2. CASE b \in pending[n]
    <3>1. b \in Height /\ b >= 1 /\ Made(b)
      BY <2>2 DEF Inv, TypeOK, PendingSound
    <3>2. PICK a \in Height, c \in Height : a = b /\ c = job[n][m].cur
      BY <1>2, <3>1
    <3>3. [job[n][m] EXCEPT !.pc = "addPending", !.blk = a] =
            [job[n][m] EXCEPT !.pc = "addPending", !.blk = a, !.cur = c]
      BY Zenon, <1>2, <3>2 DEF Job
    <3>4. job' = [job EXCEPT ![n][m].pc = "addPending", ![n][m].blk = b]
      BY <2>2 DEF TakePending
    <3>5. job' = [job EXCEPT ![n][m] = [@ EXCEPT !.pc = "addPending", !.blk = a, !.cur = c]]
      BY Zenon, <3>2, <3>3, <3>4 DEF Inv, TypeOK
    <3>6. Made(a)' /\ a >= 1
      BY <1>1, <3>1, <3>2 DEF Made
    <3>7. a - 1 \in stored'[n]
      <4>1. a - 1 = job[n][m].blk
        BY <1>2, <3>2, SyncAssumption DEF Height
      <4> QED  BY <4>1, <1>1, <1>2
    <3> QED  BY Zenon, <1>1, <1>3, <1>4, <3>5, <3>6, <3>7, GotoSound
  <2> QED  BY <2>1, <2>2
<1>7. net' \subseteq Msg /\ net' \ net = {}
  BY <1>1 DEF Inv, TypeOK
<1> QED  BY <1>1, <1>5, <1>6, <1>7, StepKeepsChains

\* A step of n that adds block b and announces it, or not.
LEMMA StepAddsBlock ==
  ASSUME Inv, NEW n \in Node, NEW b \in Height, b >= 1, b - 1 \in stored[n],
         AddBlock(n, b), UNCHANGED <<best, pending, losses>>,
         JobsSound', job' \in [Node -> [Node -> Job \cup {None}]],
         net' \subseteq net \cup Announcement(n, b)
  PROVE  Inv'
<1>1. /\ stored' \in [Node -> SUBSET Height] /\ latest' \in [Node -> Height]
      /\ \A k \in Node : latest[k] <= latest'[k]
      /\ ChainsSound' /\ Made(b)'
  BY BlockAdded
<1>2. \A x \in Announcement(n, b) : x \in Msg /\ MsgSound(x)'
  <2> TAKE x \in Announcement(n, b)
  <2>1. PICK m \in Node : x = Message("new", n, m, b, b)
    BY DEF Announcement, Peers
  <2> QED  BY <2>1, <1>1, SyncAssumption DEF Message, Msg, MsgSound, Height
<1>3. /\ \A x \in net : MsgSound(x)'
      /\ \A k \in Node : \A c \in pending[k] : c >= 1 /\ Made(c)'
  BY <1>1, OthersKept
<1>4. TypeOK'
  BY <1>1, <1>2 DEF Inv, TypeOK
<1>5. NetSound'
  BY <1>2, <1>3 DEF NetSound
<1>6. PendingSound'
  BY <1>3 DEF PendingSound
<1> QED  BY <1>1, <1>4, <1>5, <1>6 DEF Inv

LEMMA CommitBlockSound ==
  ASSUME Inv, NEW n \in Node, CommitBlock(n)
  PROVE  Inv'
<1>1. PICK b : b = latest[n] + 1
  OBVIOUS
<1>2. stored[n] = 0 .. latest[n] /\ latest[n] \in Height
  BY DEF CommitBlock, Inv, ChainsSound, TypeOK
<1>3. b \in Height /\ b >= 1 /\ b - 1 \in stored[n]
  BY <1>1, <1>2, SyncAssumption DEF CommitBlock, Height
<1>4. AddBlock(n, b) /\ UNCHANGED <<best, job, pending, losses>>
  BY <1>1 DEF CommitBlock
<1>5. net' \subseteq net \cup Announcement(n, b)
  BY <1>1 DEF CommitBlock
<1>6. /\ latest' \in [Node -> Height]
      /\ \A k \in Node : latest[k] <= latest'[k] /\ stored[k] \subseteq stored'[k]
  BY <1>3, <1>4, BlockAdded
<1>7. JobsSound'
  <2> SUFFICES ASSUME NEW k \in Node, NEW l \in Node  PROVE JobSound(k, job[k][l])'
    BY DEF JobsSound
  <2>1. PICK J \in Job \cup {None} : J = job[k][l]
    BY DEF Inv, TypeOK
  <2>2. JobSound(k, J)
    BY <2>1 DEF Inv, JobsSound
  <2>3. JobSound(k, J)'
    BY <2>2, <1>6, JobKept
  <2> QED  BY <2>1, <2>3, <1>4 DEF JobSound, Made
<1>8. job' \in [Node -> [Node -> Job \cup {None}]]
  BY <1>4 DEF Inv, TypeOK
<1> QED  BY <1>3, <1>4, <1>5, <1>7, <1>8, StepAddsBlock

LEMMA AddValidatedSound ==
  ASSUME Inv, NEW n \in Node, NEW m \in Node, AddValidated(n, m)
  PROVE  Inv'
<1>1. ~Idle(n, m) /\ job[n][m].pc = "add"
  BY DEF AddValidated
<1>2. PICK b \in Height : b = job[n][m].blk
  BY <1>1, Running
<1>3. b >= 1 /\ b # 0 /\ b - 1 \in stored[n] /\ job[n][m].cur \in Height
  BY <1>1, <1>2, Running DEF JobSound
<1>4. CASE AddBlock(n, b) /\ job' = Goto(n, m, "drain")
  <2>1. /\ latest' \in [Node -> Height]
        /\ \A k \in Node : latest[k] <= latest'[k] /\ stored[k] \subseteq stored'[k]
        /\ b \in stored'[n] /\ Made(b)'
    BY <1>3, <1>4, BlockAdded
  <2>2. PICK c \in Height : c = job[n][m].cur
    BY <1>3
  <2>3. job' = [job EXCEPT ![n][m] = [@ EXCEPT !.pc = "drain", !.blk = b, !.cur = c]]
    BY Zenon, <1>1, <1>2, <1>4, <2>2, GotoKeepsBlock
  <2>4. JobsSound' /\ job' \in [Node -> [Node -> Job \cup {None}]]
    BY Zenon, <1>1, <1>3, <2>1, <2>3, GotoSound
  <2>5. UNCHANGED <<best, pending, losses>> /\ net' \subseteq net \cup Announcement(n, b)
    BY <1>2, <1>3, <1>4 DEF AddValidated
  <2> QED  BY <1>3, <1>4, <2>4, <2>5, StepAddsBlock
<1>5. CASE job' = Return(n, m) /\ UNCHANGED <<stored, latest, net>>
  <2>1. UNCHANGED <<best, pending, losses>>
    BY DEF AddValidated
  <2>2. latest' \in [Node -> Height]
    BY <1>5 DEF Inv, TypeOK
  <2>3. \A k \in Node : latest[k] <= latest'[k] /\ stored[k] \subseteq stored'[k]
    BY <1>5, SyncAssumption DEF Inv, TypeOK, Height
  <2>4. JobsSound' /\ job' \in [Node -> [Node -> Job \cup {None}]]
    BY <1>1, <1>5, <2>2, <2>3, ReturnSound
  <2>5. /\ net' \subseteq Msg /\ net' \ net = {}
        /\ pending' \in [Node -> SUBSET Height]
        /\ \A k \in Node : \A x \in pending'[k] : x >= 1 /\ Made(x)
    BY <1>5, <2>1 DEF Inv, TypeOK, PendingSound
  <2> QED  BY <1>5, <2>1, <2>4, <2>5, StepKeepsChains
<1> QED  BY <1>2, <1>3, <1>4, <1>5 DEF AddValidated

LEMMA AddPendingSound ==
  ASSUME Inv, NEW n \in Node, NEW m \in Node, AddPending(n, m)
  PROVE  Inv'
<1>1. ~Idle(n, m) /\ job[n][m].pc = "addPending"
  BY DEF AddPending
<1>2. PICK b \in Height : b = job[n][m].blk
  BY <1>1, Running
<1>3. b >= 1 /\ b # 0 /\ b - 1 \in stored[n] /\ job[n][m].cur \in Height
  BY <1>1, <1>2, Running DEF JobSound
<1>4. CASE AddBlock(n, b) /\ job' = Goto(n, m, "drain")
  <2>1. /\ latest' \in [Node -> Height]
        /\ \A k \in Node : latest[k] <= latest'[k] /\ stored[k] \subseteq stored'[k]
        /\ b \in stored'[n] /\ Made(b)'
    BY <1>3, <1>4, BlockAdded
  <2>2. PICK c \in Height : c = job[n][m].cur
    BY <1>3
  <2>3. job' = [job EXCEPT ![n][m] = [@ EXCEPT !.pc = "drain", !.blk = b, !.cur = c]]
    BY Zenon, <1>1, <1>2, <1>4, <2>2, GotoKeepsBlock
  <2>4. JobsSound' /\ job' \in [Node -> [Node -> Job \cup {None}]]
    BY Zenon, <1>1, <1>3, <2>1, <2>3, GotoSound
  <2>5. UNCHANGED <<best, pending, losses>> /\ net' \subseteq net \cup Announcement(n, b)
    BY <1>2, <1>3, <1>4 DEF AddPending
  <2> QED  BY <1>3, <1>4, <2>4, <2>5, StepAddsBlock
<1>5. CASE job' = Return(n, m) /\ UNCHANGED <<stored, latest, net>>
  <2>1. UNCHANGED <<best, pending, losses>>
    BY DEF AddPending
  <2>2. latest' \in [Node -> Height]
    BY <1>5 DEF Inv, TypeOK
  <2>3. \A k \in Node : latest[k] <= latest'[k] /\ stored[k] \subseteq stored'[k]
    BY <1>5, SyncAssumption DEF Inv, TypeOK, Height
  <2>4. JobsSound' /\ job' \in [Node -> [Node -> Job \cup {None}]]
    BY <1>1, <1>5, <2>2, <2>3, ReturnSound
  <2>5. /\ net' \subseteq Msg /\ net' \ net = {}
        /\ pending' \in [Node -> SUBSET Height]
        /\ \A k \in Node : \A x \in pending'[k] : x >= 1 /\ Made(x)
    BY <1>5, <2>1 DEF Inv, TypeOK, PendingSound
  <2> QED  BY <1>5, <2>1, <2>4, <2>5, StepKeepsChains
<1> QED  BY <1>2, <1>3, <1>4, <1>5 DEF AddPending

LEMMA NextSound == Inv /\ [Next]_vars => Inv'
<1> SUFFICES ASSUME Inv, [Next]_vars  PROVE Inv'
  OBVIOUS
<1>1. ASSUME NEW n \in Node, SyncBlocks(n)  PROVE Inv'
  BY <1>1, SyncBlocksSound
<1>2. ASSUME NEW n \in Node, CommitBlock(n)  PROVE Inv'
  BY <1>2, CommitBlockSound
<1>3. ASSUME NEW n \in Node, NEW m \in Node, Handshake(n, m) \/ Disconnect(n, m)
      PROVE  Inv'
  BY <1>3, ConnectionSound
<1>4. ASSUME NEW n \in Node, NEW m \in Node, ConnectionStep(n, m)  PROVE Inv'
  BY <1>4, HandleGetBlocksSound, HandleBlocksSound, CheckHeightSound, StorePendingSound,
     AddValidatedSound, TakePendingSound, AddPendingSound
     DEF ConnectionStep, HandlerStep
<1>5. ASSUME NEW x \in net, Drop(x)  PROVE Inv'
  BY <1>5, DropSound
<1>6. CASE UNCHANGED vars
  BY <1>6 DEF Inv, TypeOK, ChainsSound, NetSound, MsgSound, JobsSound, JobSound,
              PendingSound, Made, vars
<1> QED  BY <1>1, <1>2, <1>3, <1>4, <1>5, <1>6 DEF Next

\* Every step of a chain is a step of ChainCopy.
LEMMA StepRefines ==
  ASSUME Inv, [Next]_vars
  PROVE  [Chain!Next]_latest
<1>1. ASSUME NEW n \in Node, NEW b \in Height, b >= 1, b - 1 \in stored[n],
             AddBlock(n, b), n \in Producer \/ Made(b)
      PROVE  [Chain!Next]_latest
  <2>1. CASE latest' = latest
    BY <2>1
  <2>2. CASE b = latest[n] + 1 /\ latest' = [latest EXCEPT ![n] = @ + 1]
    <3>1. n \in Producer \/ \E k \in Node : latest[k] > latest[n]
      BY <1>1, <2>2, SyncAssumption DEF Made, Inv, TypeOK, Height
    <3>2. Chain!Grow(n)
      BY <3>1, <2>2 DEF Chain!Grow
    <3> QED  BY <3>2 DEF Chain!Next
  <2> QED  BY <1>1, <2>1, <2>2, BlockAdded
<1>2. ASSUME NEW n \in Node, CommitBlock(n)  PROVE [Chain!Next]_latest
  <2>1. stored[n] = 0 .. latest[n] /\ latest[n] \in Height /\ n \in Producer
    BY <1>2 DEF CommitBlock, Inv, ChainsSound, TypeOK
  <2>2. PICK b : b = latest[n] + 1
    OBVIOUS
  <2>3. b \in Height /\ b >= 1 /\ b - 1 \in stored[n] /\ AddBlock(n, b)
    BY <1>2, <2>1, <2>2, SyncAssumption DEF CommitBlock, Height
  <2> QED  BY Zenon, <1>1, <2>1, <2>3
<1>3. ASSUME NEW n \in Node, NEW m \in Node, AddValidated(n, m) \/ AddPending(n, m)
      PROVE  [Chain!Next]_latest
  <2>1. ~Idle(n, m) /\ job[n][m].pc \in {"add", "addPending"}
    BY <1>3 DEF AddValidated, AddPending
  <2>2. PICK b \in Height : b = job[n][m].blk
    BY <2>1, Running
  <2>3. b >= 1 /\ Made(b) /\ b - 1 \in stored[n]
    BY <2>1, <2>2, Running DEF JobSound
  <2>4. AddBlock(n, b) \/ latest' = latest
    BY <1>3, <2>2 DEF AddValidated, AddPending
  <2> QED  BY <1>1, <2>3, <2>4
<1>4. ASSUME NEW n \in Node, NEW m \in Node, ConnectionStep(n, m)
      PROVE  [Chain!Next]_latest
  <2>1. CASE HandleGetBlocks(n, m) \/ HandleBlocks(n, m)
    BY <2>1 DEF HandleGetBlocks, HandleBlocks
  <2>2. CASE CheckHeight(n, m) \/ StorePending(n, m) \/ TakePending(n, m)
    BY <2>2 DEF CheckHeight, StorePending, TakePending
  <2>3. CASE AddValidated(n, m) \/ AddPending(n, m)
    BY <2>3, <1>3
  <2> QED  BY <1>4, <2>1, <2>2, <2>3 DEF ConnectionStep, HandlerStep
<1>5. ASSUME NEW n \in Node, NEW m \in Node,
             SyncBlocks(n) \/ Handshake(n, m) \/ Disconnect(n, m)
      PROVE  [Chain!Next]_latest
  BY <1>5 DEF SyncBlocks, Handshake, Disconnect
<1>6. ASSUME NEW x \in net, Drop(x)  PROVE [Chain!Next]_latest
  BY <1>6 DEF Drop
<1>7. CASE UNCHANGED vars
  BY <1>7 DEF vars
<1> QED  BY <1>2, <1>4, <1>5, <1>6, <1>7 DEF Next

\* Messages, jobs and chains have their types in every reachable state.
THEOREM TypeCorrect == Spec => []TypeOK
<1>1. Inv => TypeOK
  BY DEF Inv
<1> QED  BY InitSound, NextSound, <1>1, PTL DEF Spec

\* No chain has a gap, whatever the handlers of its connections and its engine
\* do at the same time.
THEOREM ChainsHaveNoGap == Spec => []NoGap
<1>1. Inv => NoGap
  BY Zenon DEF Inv, ChainsSound, NoGap
<1> QED  BY InitSound, NextSound, <1>1, PTL DEF Spec

\* Block synchronisation copies one chain: it implements ChainCopy.
THEOREM SyncCopiesChain == Spec => CopiesChain
<1>1. Init => Chain!Init
  BY InitSound, SyncAssumption DEF Chain!Init, Inv, TypeOK, Height
<1>2. Inv /\ [Next]_vars => [Chain!Next]_latest
  BY StepRefines
<1> QED  BY InitSound, NextSound, <1>1, <1>2, PTL DEF Spec, CopiesChain, Chain!Spec

=============================================================================
