---------------------------- MODULE MCConsensus ----------------------------
(***************************************************************************)
(* Instances of Consensus for TLC: three validators a, b and c with voting *)
(* power 2, 2 and 1, so that {a, b} is the smallest set above 2/3.         *)
(***************************************************************************)
EXTENDS Consensus, TLC

CONSTANTS
  a, b, c,
  MaxHeight,   \* bound: highest block
  MaxNonce,    \* bound: blocks one validator proposes per height, minus one
  Proposers,   \* the validators whose blocks are in Block
  Outputs      \* outputs that blocks spend

MCValidators == {a, b, c}
MCOrder == <<c, a, b>>
PowerOfOne(v) == IF v = c THEN 1 ELSE 2
MCPowerOf ==
  [S \in SUBSET MCValidators |->
     (IF a \in S THEN PowerOfOne(a) ELSE 0) + (IF b \in S THEN PowerOfOne(b) ELSE 0)
       + (IF c \in S THEN PowerOfOne(c) ELSE 0)]

\* The runs use round-robin; the hashes matter only to EveryoneProposes.
MCSeed(prev, h, r) == h + r * r
MCBase(prev, h) == 2 * h + 1

MCGenesis ==
  [height |-> 0, prev |-> None, proposer |-> None, nonce |-> 0, spends |-> {}]

MCLevel[h \in Nat] ==
  IF h = 0 THEN {MCGenesis}
  ELSE [height : {h}, prev : MCLevel[h - 1], proposer : Proposers,
        nonce : 0 .. MaxNonce, spends : SUBSET Outputs]

MCBlock == UNION {MCLevel[h] : h \in 0 .. MaxHeight}

NoMsgs == {}

MCBlockOf(v, h, prev, s) ==
  [height |-> h, prev |-> prev, proposer |-> v, nonce |-> 0, spends |-> s]

BothVotes(v, h, r, blk) ==
  {Vote(Prevote, h, r, v, blk), Vote(Precommit, h, r, v, blk)}

\* b as the engine of a meets it at height 1: votes for the first block of a,
\* its own proposal in round 1 with its votes, and the precommit it sent in that
\* round before a restart, for another block.
OpenMsgs ==
  LET blkA == MCBlockOf(a, 1, MCGenesis, {})
      blkB == MCBlockOf(b, 1, MCGenesis, {})
  IN BothVotes(b, 1, 0, blkA)
       \cup {Vote(Proposal, 1, 1, b, blkB)} \cup BothVotes(b, 1, 1, blkB)
       \cup {Vote(Precommit, 1, 1, b, [blkB EXCEPT !.nonce = 1])}

\* a as the engine of b meets it: a proposes and votes for its first block in
\* round 0, commits it, and at height 2 takes the proposal of b that carries
\* b's block of height 1.
LateMsgs ==
  LET blkA == MCBlockOf(a, 1, MCGenesis, {})
      blkB == MCBlockOf(b, 1, MCGenesis, {})
  IN {Vote(Proposal, 1, 0, a, blkA)} \cup BothVotes(a, 1, 0, blkA)
       \cup BothVotes(a, 2, 0, blkB)

\* a and b as the engine of c meets them: after a fork at height 1 they have
\* precommitted two blocks there, and one of height 2 on the first of them.
\* The second block of height 1 and the one of height 2 spend the same output.
ForkMsgs ==
  LET blkA == MCBlockOf(a, 1, MCGenesis, {})
      blkB == MCBlockOf(b, 1, MCGenesis, Outputs)
      blkC == MCBlockOf(b, 2, blkA, Outputs)
  IN {Vote(Precommit, 1, 0, v, blkA) : v \in {a, b}}
       \cup {Vote(Precommit, 1, 1, v, blkB) : v \in {a, b}}
       \cup {Vote(Precommit, 2, 0, v, blkC) : v \in {a, b}}

\* a and b as the engine of c meets them: b committed the first block of a,
\* and a, which stored another block at height 1, proposes on top of that one
\* in round 2.
OtherForkMsgs ==
  LET blkA == MCBlockOf(a, 1, MCGenesis, {})
      blkB == MCBlockOf(b, 1, MCGenesis, {})
  IN {Vote(Precommit, 1, 0, v, blkA) : v \in {a, b}}
       \cup {Vote(Proposal, 2, 2, a, MCBlockOf(a, 2, blkB, {}))}
=============================================================================
