------------------------------- MODULE Voting -------------------------------
(***************************************************************************)
(* The pure part of package consensus: the validator set with its voting   *)
(* power, the 2/3 majority test, the VoteSet of one (height, round, type)  *)
(* and the three proposer-selection modes.                                 *)
(*                                                                         *)
(* A block stands for its own hash (hashes are injective), so a vote for a *)
(* hash is a vote for a block.  The validators of a run are the active     *)
(* ones of the configured PoA list; they do not change while it runs.      *)
(***************************************************************************)
EXTENDS Integers, Sequences, FiniteSets

CONSTANTS
  Validators,   \* the active validators
  Order,        \* the validators sorted by address string, as a sequence
  PowerOf,      \* the voting power of every set of validators
  Mode,         \* ProposerSelectionMode: "roundrobin", "vrf" or "hybrid"
  Seed(_, _, _),\* first 8 bytes of sha256(prevBlockHash, height, round)
  Base(_, _),   \* first 8 bytes of sha256(prevBlockHash, height)
  None          \* Go's nil

TotalVotingPower == PowerOf[Validators]

ASSUME VotingAssumption ==
  /\ IsFiniteSet(Validators)
  /\ Order \in Seq(Validators) /\ Len(Order) = Cardinality(Validators)
  /\ \A v \in Validators : \E i \in DOMAIN Order : Order[i] = v
  /\ Mode \in {"roundrobin", "vrf", "hybrid"}
  /\ None \notin Validators

ASSUME PowerAssumption ==
  /\ PowerOf \in [SUBSET Validators -> Nat]
  /\ \A S, T \in SUBSET Validators :
       S \cap T = {} => PowerOf[S \cup T] = PowerOf[S] + PowerOf[T]

-----------------------------------------------------------------------------
(* VoteSet (type.go).  votes[v] is the block v voted for, None before.     *)

NewVoteSet(h, r) ==
  [height |-> h, round |-> r, votes |-> [v \in Validators |-> None]]

Voters(votes) == {v \in Validators : votes[v] # None}

\* A vote of another height or round, and a second vote of one voter, leave
\* the set as it is.  Which block the vote is for plays no role.
AddVote(vs, h, r, voter, block) ==
  IF vs.height = h /\ vs.round = r /\ vs.votes[voter] = None
  THEN [vs EXCEPT !.votes[voter] = block]
  ELSE vs

\* Mutant: one third is enough.
MutTwoThirds(S) == PowerOf[S] * 3 > TotalVotingPower

TwoThirds(S) == PowerOf[S] * 3 > TotalVotingPower * 2

HasTwoThirdsMajority(vs) == TwoThirds(Voters(vs.votes))

\* Mutant: the signatures are counted, not verified against the hash.
MutValidateCommitSignatures(block, sigs) == TwoThirds(Voters(sigs))

\* Every commit signature must verify against the hash of this very block,
\* and the signers must hold more than 2/3 of the power.
ValidateCommitSignatures(block, sigs) ==
  /\ \A v \in Validators : sigs[v] \in {None, block}
  /\ TwoThirds(Voters(sigs))

-----------------------------------------------------------------------------
(* Proposer selection (selection.go).                                      *)

N == Len(Order)

SelectProposer(h, r) == Order[((h + r) % N) + 1]

\* The validators at the first i places of the address order.
FirstOf(i) == {Order[j] : j \in 1 .. i}

SelectProposerVRF(h, r, prev) ==
  LET target == Seed(prev, h, r) % TotalVotingPower
  IN IF TotalVotingPower = 0
     THEN Order[(Seed(prev, h, r) % N) + 1]
     ELSE Order[CHOOSE i \in 1 .. N :
                  /\ target < PowerOf[FirstOf(i)]
                  /\ \A j \in 1 .. i - 1 : target >= PowerOf[FirstOf(j)]]

\* Mutant: the fallback starts from the hash of the round, as round 0 does.
MutSelectProposerHybrid(h, r, prev) ==
  IF r = 0 THEN SelectProposerVRF(h, r, prev)
           ELSE Order[((Seed(prev, h, r) + r) % N) + 1]

SelectProposerHybrid(h, r, prev) ==
  IF r = 0 THEN SelectProposerVRF(h, r, prev)
           ELSE Order[(((Base(prev, h) % N) + r) % N) + 1]

SelectProposerByMode(h, r, prev) ==
  CASE Mode = "vrf"        -> SelectProposerVRF(h, r, prev)
    [] Mode = "hybrid"     -> SelectProposerHybrid(h, r, prev)
    [] Mode = "roundrobin" -> SelectProposer(h, r)
=============================================================================
