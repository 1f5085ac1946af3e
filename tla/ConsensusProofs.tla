-------------------------- MODULE ConsensusProofs --------------------------
(***************************************************************************)
(* Type correctness of Consensus, for all values of its constants, and the *)
(* facts on voting power that the safety proofs use.                       *)
(*                                                                         *)
(* TypeOK is not inductive: a handler between two of its steps relies on   *)
(* the block, or on the precommit set, that it found before.  PcOK adds    *)
(* what it relies on.                                                      *)
(***************************************************************************)
EXTENDS Consensus, TLAPS

\* A larger set of validators has at least the power of a smaller one.
LEMMA PowerMonotone ==
  ASSUME NEW S \in SUBSET Validators, NEW T \in SUBSET Validators, S \subseteq T
  PROVE  PowerOf[S] <= PowerOf[T]
<1>1. T = S \cup (T \ S) /\ S \cap (T \ S) = {}
  OBVIOUS
<1>2. PowerOf[T] = PowerOf[S] + PowerOf[T \ S]
  BY Zenon, <1>1, PowerAssumption
<1>3. PowerOf[S] \in Nat /\ PowerOf[T \ S] \in Nat
  BY PowerAssumption
<1> QED  BY <1>2, <1>3

\* Two sets above 2/3 of the power share more than 1/3 of it.
LEMMA QuorumIntersection ==
  ASSUME NEW S \in SUBSET Validators, NEW T \in SUBSET Validators,
         TwoThirds(S), TwoThirds(T)
  PROVE  3 * PowerOf[S \cap T] > TotalVotingPower
<1> DEFINE U == S \cup T
<1>1. PowerOf[U] = PowerOf[S] + PowerOf[T \ S]
  <2>1. U = S \cup (T \ S) /\ S \cap (T \ S) = {}
    OBVIOUS
  <2> QED  BY <2>1, PowerAssumption
<1>2. PowerOf[T] = PowerOf[S \cap T] + PowerOf[T \ S]
  <2>1. T = (S \cap T) \cup (T \ S) /\ (S \cap T) \cap (T \ S) = {}
    OBVIOUS
  <2> HIDE DEF U
  <2> QED  BY Zenon, <2>1, PowerAssumption
<1>3. PowerOf[U] <= PowerOf[Validators]
  BY PowerMonotone
<1>4. /\ PowerOf[S] \in Nat /\ PowerOf[T] \in Nat /\ PowerOf[U] \in Nat
      /\ PowerOf[S \cap T] \in Nat /\ PowerOf[T \ S] \in Nat
      /\ PowerOf[Validators] \in Nat
  BY PowerAssumption
<1> HIDE DEF U
<1> QED  BY <1>1, <1>2, <1>3, <1>4 DEF TwoThirds, TotalVotingPower

\* Heights are natural numbers.
LEMMA HeightsNat == Heights \subseteq Nat
  BY ConsensusAssumption DEF Heights

\* NewVoteSet makes a vote set.
LEMMA NewVoteSetType ==
  ASSUME NEW h \in Nat, NEW r \in Nat
  PROVE  NewVoteSet(h, r) \in VoteSet
  BY DEF NewVoteSet, VoteSet, Sigs

\* AddVote keeps a vote set a vote set.
LEMMA AddVoteType ==
  ASSUME NEW vs \in VoteSet, NEW h, NEW r, NEW v \in Validators, NEW blk \in Block
  PROVE  AddVote(vs, h, r, v, blk) \in VoteSet
  BY DEF AddVote, VoteSet, Sigs

\* What the handler that holds the mutex relies on.
PcOK ==
  \A n \in Engines :
    /\ eng[n].pc \in {"announce", "reannounce", "prevote", "commit", "add", "advance"}
         => eng[n].proposed \in Block
    /\ eng[n].pc \in {"commit", "add"} => eng[n].precommits \in VoteSet

TypeInv == TypeOK /\ PcOK

\* What TypeOK says of the state of one node.
LEMMA FieldTypes ==
  ASSUME TypeOK, NEW n \in Engines
  PROVE  /\ chain[n] \in ChainState
         /\ cons[n] \in ConsState
         /\ eng[n] \in EngineState
         /\ jobs[n] \in SUBSET VoteJob
         /\ timers[n] \in TimerState
         /\ app[n] \in AppState
         /\ chain[n].tip \in Block
         /\ LatestHeight(n) \in Heights
         /\ LatestHeight(n) \in Nat
  BY Zenon, HeightsNat DEF TypeOK, ChainState, LatestHeight, Tip, Heights

\* The initial state has the right types.
LEMMA InitTypeInv == Init => TypeInv
<1> SUFFICES ASSUME Init PROVE TypeInv
  OBVIOUS
<1>1. chain \in [Engines -> ChainState]
  BY ConsensusAssumption DEF Init, ChainState, Entry, Sigs, NoSigs
<1>2. cons \in [Engines -> ConsState]
  BY DEF Init, ConsState, States
<1>3. eng \in [Engines -> EngineState]
  BY DEF Init, EngineState, EngineInit, PCs
<1>4. app \in [Engines -> AppState] /\ timers \in [Engines -> TimerState]
  BY DEF Init, AppState, TimerState
<1>5. /\ jobs \in [Engines -> SUBSET VoteJob] /\ seen \in [Engines -> SUBSET Key]
      /\ msgs \in SUBSET Message /\ announced \in SUBSET Entry /\ restarts \in Nat
  BY ConsensusAssumption DEF Init
<1>6. PcOK
  BY DEF Init, PcOK, EngineInit
<1> QED  BY <1>1, <1>2, <1>3, <1>4, <1>5, <1>6 DEF TypeInv, TypeOK

\* Assignments to the fields of Consensus keep its type.
LEMMA ConsUpdates ==
  ASSUME NEW k \in ConsState, NEW h \in Nat, NEW r \in Nat, NEW s \in States
  PROVE  /\ [k EXCEPT !.height = h, !.round = r] \in ConsState
         /\ [k EXCEPT !.state = s] \in ConsState
  BY Zenon DEF ConsState

\* Assignments to the fields of the engine keep its type.
LEMMA EngineUpdates ==
  ASSUME NEW e \in EngineState
  PROVE  /\ \A p \in PCs : [e EXCEPT !.pc = p] \in EngineState
         /\ ClearRound(e) \in EngineState
         /\ \A h, r \in Nat : OpenVoteSets(e, h, r) \in EngineState
<1>1. \A p \in PCs : [e EXCEPT !.pc = p] \in EngineState
  BY DEF EngineState
<1>2. ClearRound(e) \in EngineState
  BY Zenon DEF EngineState, ClearRound
<1>3. \A h, r \in Nat : OpenVoteSets(e, h, r) \in EngineState
  BY Zenon, NewVoteSetType DEF EngineState, OpenVoteSets
<1> QED  BY <1>1, <1>2, <1>3

\* runRound keeps the types.
LEMMA RunRoundType == ASSUME TypeInv, NEW n \in Engines, RunRound(n) PROVE TypeInv'
<1> DEFINE next == LatestHeight(n) + 1
           r == IF cons[n].height = next THEN cons[n].round ELSE 0
           synced == [cons[n] EXCEPT !.height = next, !.round = r]
<1>1. TypeOK /\ PcOK
  BY DEF TypeInv
<1>2. next \in Nat /\ synced \in ConsState
  <2>1. LatestHeight(n) \in Nat /\ cons[n] \in ConsState
    BY <1>1, FieldTypes
  <2>2. next \in Nat /\ r \in Nat
    BY <2>1 DEF ConsState
  <2> HIDE DEF next, r
  <2> QED  BY Zenon, <2>1, <2>2, ConsUpdates DEF States
<1>3. cons' \in [Engines -> ConsState]
  <2>1. synced \in ConsState /\ [synced EXCEPT !.state = "PROPOSING"] \in ConsState
    BY Zenon, <1>2 DEF ConsState, States
  <2>2. \/ cons' = [cons EXCEPT ![n] = synced]
        \/ cons' = [cons EXCEPT ![n] = [synced EXCEPT !.state = "PROPOSING"]]
    BY DEF RunRound
  <2> HIDE DEF synced
  <2> QED  BY <1>1, <2>1, <2>2 DEF TypeOK
<1>4. /\ eng' \in [Engines -> EngineState]
      /\ PcOK'
  <2>1. \/ eng' = [eng EXCEPT ![n].pc = "propose"]
        \/ eng' = [eng EXCEPT ![n] = OpenVoteSets(@, next, 0)]
        \/ eng' = eng
    BY DEF RunRound
  <2>2. /\ [eng[n] EXCEPT !.pc = "propose"] \in EngineState
        /\ OpenVoteSets(eng[n], next, 0) \in EngineState
    BY Zenon, <1>1, <1>2, FieldTypes, NewVoteSetType DEF EngineState, PCs, OpenVoteSets
  <2> HIDE DEF next
  <2>3. eng' \in [Engines -> EngineState]
    BY <1>1, <2>1, <2>2 DEF TypeOK
  <2>4. PcOK'
    <3>1. CASE eng' = [eng EXCEPT ![n] = OpenVoteSets(@, next, 0)]
      BY <3>1, <1>1, FieldTypes DEF PcOK, OpenVoteSets, EngineState, Free, RunRound, TypeOK
    <3>2. CASE eng' = [eng EXCEPT ![n].pc = "propose"]
      BY <3>2, <1>1 DEF PcOK, TypeOK, EngineState
    <3>3. CASE eng' = eng
      BY <3>3, <1>1 DEF PcOK
    <3> QED  BY <2>1, <3>1, <3>2, <3>3
  <2> QED  BY <2>3, <2>4
<1>5. timers' \in [Engines -> TimerState]
  <2>1. \/ timers' = timers
        \/ timers' = StartRoundTimer(n, next, synced.round)
    BY DEF RunRound
  <2>2. [height |-> next, round |-> synced.round] \in Timer
    BY Zenon, <1>2 DEF Timer, ConsState
  <2> HIDE DEF next, synced
  <2> QED  BY <1>1, <2>1, <2>2 DEF TypeOK, TimerState, StartRoundTimer
<1> QED  BY <1>1, <1>3, <1>4, <1>5 DEF TypeInv, TypeOK, RunRound

\* proposeBlock keeps the types.
LEMMA BuildBlockType == ASSUME TypeInv, NEW n \in Engines, BuildBlock(n) PROVE TypeInv'
<1>1. TypeOK /\ PcOK /\ eng[n] \in EngineState
  BY FieldTypes DEF TypeInv
<1>2. PICK b \in Block, p \in {"announce", "reannounce"} :
        eng' = [eng EXCEPT ![n] = [eng[n] EXCEPT !.proposed = b, !.pc = p]]
  <2>1. PICK b \in Block :
          eng' = [eng EXCEPT ![n] = [@ EXCEPT !.proposed = b, !.pc =
                    IF @ = "propose" THEN "announce" ELSE "reannounce"]]
    BY Zenon DEF BuildBlock
  <2>2. CASE eng[n].pc = "propose"
    BY Zenon, <2>1, <2>2, <1>1 DEF TypeOK, EngineState
  <2>3. CASE eng[n].pc # "propose"
    BY Zenon, <2>1, <2>3, <1>1 DEF TypeOK, EngineState
  <2> QED  BY Zenon, <2>2, <2>3
<1> DEFINE e == [eng[n] EXCEPT !.proposed = b, !.pc = p]
<1>3. e \in EngineState /\ e.proposed = b
  BY Zenon, <1>1 DEF EngineState, PCs
<1>4. e.pc \in {"announce", "reannounce"}
  BY <1>1 DEF EngineState
<1> HIDE DEF e
<1>5. eng' \in [Engines -> EngineState] /\ PcOK'
  BY <1>1, <1>2, <1>3, <1>4 DEF TypeOK, PcOK, e
<1> QED  BY <1>1, <1>5 DEF TypeInv, TypeOK, BuildBlock

\* broadcastProposal keeps the types.
LEMMA BroadcastProposalType ==
  ASSUME TypeInv, NEW n \in Engines, BroadcastProposal(n) PROVE TypeInv'
<1> DEFINE h == cons[n].height
           r == cons[n].round
           b == eng[n].proposed
<1>1. TypeOK /\ PcOK /\ eng[n] \in EngineState /\ cons[n] \in ConsState
  BY FieldTypes DEF TypeInv
<1>2. h \in Nat /\ r \in Nat /\ b \in Block /\ n \in Validators
  BY <1>1, ConsensusAssumption DEF BroadcastProposal, PcOK, ConsState, EngineState
<1>3. msgs' \in SUBSET Message
  BY <1>1, <1>2 DEF TypeOK, BroadcastProposal, Vote, Message
<1>4. eng' = [eng EXCEPT ![n] = [OpenVoteSets(@, h, r) EXCEPT !.pc = "free"]]
  BY DEF BroadcastProposal
<1>5. [OpenVoteSets(eng[n], h, r) EXCEPT !.pc = "free"] \in EngineState
  BY Zenon, <1>1, <1>2, EngineUpdates DEF PCs
<1>6. cons' \in [Engines -> ConsState]
  BY <1>1 DEF BroadcastProposal, SetState, TypeOK, ConsState, States
<1>7. timers' \in [Engines -> TimerState]
  BY <1>1, <1>2 DEF BroadcastProposal, StartRoundTimer, TypeOK, TimerState, Timer
<1>8. jobs' \in [Engines -> SUBSET VoteJob]
  BY <1>1, <1>2 DEF BroadcastProposal, TypeOK, Job, VoteJob
<1> HIDE DEF h, r, b
<1>9. eng' \in [Engines -> EngineState]
  BY <1>1, <1>4, <1>5 DEF TypeOK
<1>10. PcOK'
  BY <1>1, <1>4 DEF PcOK, TypeOK, OpenVoteSets, EngineState
<1> QED
  BY <1>1, <1>3, <1>6, <1>7, <1>8, <1>9, <1>10 DEF TypeInv, TypeOK, BroadcastProposal

\* The duplicate filter keeps the type of the seen caches.
LEMMA TakeType ==
  ASSUME TypeOK, NEW n \in Engines, NEW m \in msgs, Take(n, m)
  PROVE  seen' \in [Engines -> SUBSET Key] /\ m \in Message
<1>1. m \in Message
  BY DEF TypeOK
<1>2. KeyOf(m) \in Key
  BY <1>1 DEF KeyOf, Key, Message
<1> QED  BY <1>1, <1>2 DEF Take, TypeOK

\* HandleProposal keeps the types.
LEMMA HandleProposalType ==
  ASSUME TypeInv, NEW n \in Engines, HandleProposal(n) PROVE TypeInv'
<1>1. TypeOK /\ PcOK /\ eng[n] \in EngineState /\ cons[n] \in ConsState
  BY FieldTypes DEF TypeInv
<1>2. PICK m \in msgs :
        LET synced == [cons[n] EXCEPT !.height = m.height, !.round = m.round]
        IN /\ Take(n, m)
           /\ \/ UNCHANGED <<cons, eng>>
              \/ cons' = [cons EXCEPT ![n] = synced] /\ UNCHANGED eng
              \/ /\ cons' = [cons EXCEPT ![n] = [synced EXCEPT !.state = "PROPOSING"]]
                 /\ eng' = [eng EXCEPT ![n] =
                      [OpenVoteSets(@, m.height, m.round) EXCEPT
                         !.proposed = m.block, !.pc = "prevote"]]
           /\ UNCHANGED <<chain, jobs, timers, app, msgs, announced, restarts>>
  BY Zenon DEF HandleProposal
<1>3. m \in Message /\ seen' \in [Engines -> SUBSET Key]
  BY <1>1, <1>2, TakeType
<1> DEFINE synced == [cons[n] EXCEPT !.height = m.height, !.round = m.round]
           e == [OpenVoteSets(eng[n], m.height, m.round) EXCEPT
                   !.proposed = m.block, !.pc = "prevote"]
<1>4. synced \in ConsState /\ [synced EXCEPT !.state = "PROPOSING"] \in ConsState
  BY Zenon, <1>1, <1>3 DEF ConsState, States, Message
<1>5. e \in EngineState /\ e.pc = "prevote" /\ e.proposed \in Block
  <2>1. OpenVoteSets(eng[n], m.height, m.round) \in EngineState
    BY Zenon, <1>1, <1>3, EngineUpdates DEF Message
  <2> QED  BY Zenon, <2>1, <1>3, ConsensusAssumption DEF EngineState, PCs, Message
<1>6. /\ cons' = cons \/ cons' = [cons EXCEPT ![n] = synced]
         \/ cons' = [cons EXCEPT ![n] = [synced EXCEPT !.state = "PROPOSING"]]
      /\ eng' = eng \/ eng' = [eng EXCEPT ![n] = e]
  BY <1>2
<1> HIDE DEF synced, e
<1>7. cons' \in [Engines -> ConsState] /\ eng' \in [Engines -> EngineState]
  BY <1>1, <1>4, <1>5, <1>6 DEF TypeOK
<1>8. PcOK'
  BY <1>1, <1>5, <1>6 DEF PcOK, TypeOK
<1> QED  BY <1>1, <1>2, <1>3, <1>7, <1>8 DEF TypeInv, TypeOK

\* The end of HandleProposal keeps the types.
LEMMA FinishProposalType ==
  ASSUME TypeInv, NEW n \in Engines, FinishProposal(n) PROVE TypeInv'
<1>1. TypeOK /\ PcOK /\ eng[n] \in EngineState /\ cons[n] \in ConsState
  BY FieldTypes DEF TypeInv
<1>2. eng[n].proposed \in Block /\ cons[n].height \in Nat /\ cons[n].round \in Nat
  BY <1>1 DEF FinishProposal, PcOK, ConsState, EngineState
<1>3. cons' \in [Engines -> ConsState]
  BY <1>1 DEF FinishProposal, SetState, TypeOK, ConsState, States
<1>4. timers' \in [Engines -> TimerState]
  BY <1>1, <1>2 DEF FinishProposal, StartRoundTimer, TypeOK, TimerState, Timer
<1>5. jobs' \in [Engines -> SUBSET VoteJob]
  BY <1>1, <1>2 DEF FinishProposal, TypeOK, Job, VoteJob
<1>6. eng' \in [Engines -> EngineState] /\ PcOK'
  BY Zenon, <1>1 DEF FinishProposal, TypeOK, EngineState, PCs, PcOK
<1> QED  BY <1>1, <1>3, <1>4, <1>5, <1>6 DEF TypeInv, TypeOK, FinishProposal

\* Counting a prevote keeps the types it touches.
LEMMA CountPrevoteType ==
  ASSUME TypeInv, NEW n \in Engines, NEW m \in Message, NEW js \in SUBSET VoteJob,
         CountPrevote(n, m, js)
  PROVE  /\ eng' \in [Engines -> EngineState] /\ PcOK'
         /\ cons' \in [Engines -> ConsState]
         /\ jobs' \in [Engines -> SUBSET VoteJob]
<1> DEFINE vs == AddVote(eng[n].prevotes, m.height, m.round, m.from, m.block)
           j == Job(Precommit, m.block, cons[n].height, cons[n].round)
<1>1. TypeOK /\ PcOK /\ eng[n] \in EngineState /\ cons[n] \in ConsState
  BY FieldTypes DEF TypeInv
<1>2. j \in VoteJob
  BY <1>1 DEF Job, VoteJob, ConsState, Message
<1>3. eng[n].prevotes # None => [eng[n] EXCEPT !.prevotes = vs] \in EngineState
  <2>1. eng[n].prevotes # None => vs \in VoteSet
    BY <1>1, AddVoteType DEF EngineState, Message
  <2> HIDE DEF vs
  <2> QED  BY <1>1, <2>1 DEF EngineState
<1>4. /\ \/ eng' = eng
         \/ eng[n].prevotes # None /\ eng' = [eng EXCEPT ![n].prevotes = vs]
      /\ \/ cons' = cons
         \/ cons' = [cons EXCEPT ![n].state = IF @ = "PREVOTING" THEN "PRECOMMITTING" ELSE @]
      /\ jobs' = [jobs EXCEPT ![n] = js] \/ jobs' = [jobs EXCEPT ![n] = js \cup {j}]
  BY DEF CountPrevote
<1> HIDE DEF vs, j
<1>5. eng' \in [Engines -> EngineState]
  BY <1>1, <1>3, <1>4 DEF TypeOK
<1>6. PcOK'
  BY <1>1, <1>4 DEF TypeOK, EngineState, PcOK
<1>7. cons' \in [Engines -> ConsState]
  BY <1>1, <1>4 DEF TypeOK, ConsState, States
<1>8. jobs' \in [Engines -> SUBSET VoteJob]
  BY <1>1, <1>2, <1>4 DEF TypeOK
<1> QED  BY <1>5, <1>6, <1>7, <1>8

\* Counting a precommit keeps the types it touches; a commit has a block.
LEMMA CountPrecommitType ==
  ASSUME TypeInv, NEW n \in Engines, NEW m \in Message, Free(n), CountPrecommit(n, m)
  PROVE  /\ eng' \in [Engines -> EngineState] /\ PcOK'
         /\ cons' \in [Engines -> ConsState]
         /\ timers' \in [Engines -> TimerState]
<1> DEFINE vs == AddVote(eng[n].precommits, m.height, m.round, m.from, m.block)
           e == [eng[n] EXCEPT !.precommits = vs]
           f == [eng[n] EXCEPT !.precommits = vs, !.pc = "commit", !.timeouts = 0]
<1>1. TypeOK /\ PcOK /\ eng[n] \in EngineState
  BY FieldTypes DEF TypeInv
<1>2. eng[n].precommits # None =>
        /\ e \in EngineState /\ f \in EngineState
        /\ e.pc = "free" /\ f.pc = "commit"
        /\ f.proposed = eng[n].proposed /\ f.precommits \in VoteSet
  <2>1. eng[n].precommits # None => vs \in VoteSet
    BY <1>1, AddVoteType DEF EngineState, Message
  <2>2. eng[n].pc = "free"
    BY DEF Free
  <2> HIDE DEF vs
  <2>3. eng[n].precommits # None => e \in EngineState /\ e.pc = "free"
    BY <1>1, <2>1, <2>2 DEF EngineState
  <2>4. eng[n].precommits # None => f \in EngineState
    <3>1. "commit" \in PCs /\ 0 \in 0 .. 2
      BY DEF PCs
    <3> QED  BY Zenon, <1>1, <2>1, <3>1 DEF EngineState
  <2>5. eng[n].precommits # None =>
          f.pc = "commit" /\ f.proposed = eng[n].proposed /\ f.precommits = vs
    BY <1>1 DEF EngineState
  <2> QED  BY <2>1, <2>3, <2>4, <2>5
<1>3. /\ \/ eng' = eng
         \/ eng[n].precommits # None /\ eng' = [eng EXCEPT ![n] = e]
         \/ /\ eng[n].precommits # None /\ eng[n].proposed # None
            /\ eng' = [eng EXCEPT ![n] = f]
      /\ cons' = cons \/ cons' = SetState(n, "COMMITTING")
      /\ timers' = timers \/ timers' = StopRoundTimer(n)
  <2>1. [eng EXCEPT ![n].precommits = vs] = [eng EXCEPT ![n] = e]
    BY <1>1 DEF TypeOK
  <2> HIDE DEF vs
  <2> QED  BY <2>1 DEF CountPrecommit, vs
<1> HIDE DEF e, f
<1>4. eng' \in [Engines -> EngineState]
  BY <1>1, <1>2, <1>3 DEF TypeOK
<1>5. PcOK'
  <2>1. eng[n].proposed # None => eng[n].proposed \in Block
    BY <1>1 DEF EngineState
  <2> QED  BY <1>1, <1>2, <1>3, <2>1 DEF TypeOK, PcOK
<1>6. cons' \in [Engines -> ConsState]
  BY <1>1, <1>3 DEF TypeOK, SetState, ConsState, States
<1>7. timers' \in [Engines -> TimerState]
  BY <1>1, <1>3 DEF TypeOK, StopRoundTimer, TimerState
<1> QED  BY <1>4, <1>5, <1>6, <1>7

\* HandleVote keeps the types.
LEMMA HandleVoteType == ASSUME TypeInv, NEW n \in Engines, HandleVote(n) PROVE TypeInv'
<1>1. TypeOK /\ PcOK /\ jobs[n] \in SUBSET VoteJob
  BY FieldTypes DEF TypeInv
<1>2. PICK m \in msgs :
        /\ Take(n, m)
        /\ \/ UNCHANGED <<eng, cons, jobs, timers>>
           \/ CountPrevote(n, m, jobs[n]) /\ UNCHANGED timers
           \/ CountPrecommit(n, m) /\ UNCHANGED jobs
        /\ UNCHANGED <<chain, app, msgs, announced, restarts>>
  BY DEF HandleVote
<1>3. m \in Message /\ seen' \in [Engines -> SUBSET Key] /\ Free(n)
  BY Zenon, <1>1, <1>2, TakeType DEF Take
<1>4. CASE UNCHANGED <<eng, cons, jobs, timers>>
  BY <1>1, <1>2, <1>3, <1>4 DEF TypeInv, TypeOK, PcOK
<1>5. CASE CountPrevote(n, m, jobs[n]) /\ UNCHANGED timers
  BY <1>1, <1>2, <1>3, <1>5, CountPrevoteType DEF TypeInv, TypeOK
<1>6. CASE CountPrecommit(n, m) /\ UNCHANGED jobs
  BY <1>1, <1>2, <1>3, <1>6, CountPrecommitType DEF TypeInv, TypeOK
<1> QED  BY <1>2, <1>4, <1>5, <1>6

\* castVote keeps the types.
LEMMA CastVoteType == ASSUME TypeInv, NEW n \in Engines, CastVote(n) PROVE TypeInv'
<1>1. TypeOK /\ PcOK /\ jobs[n] \in SUBSET VoteJob /\ n \in Validators
  BY FieldTypes, ConsensusAssumption DEF TypeInv
<1>2. PICK j \in jobs[n] :
        LET m == Vote(j.type, j.height, j.round, n, j.block)
            rest == jobs[n] \ {j}
        IN /\ Free(n)
           /\ \/ /\ jobs' = [jobs EXCEPT ![n] = rest]
                 /\ UNCHANGED <<eng, cons, timers, msgs>>
              \/ /\ msgs' = msgs \cup {m}
                 /\ CountPrevote(n, m, rest) /\ UNCHANGED timers
              \/ /\ msgs' = msgs \cup {m}
                 /\ CountPrecommit(n, m) /\ jobs' = [jobs EXCEPT ![n] = rest]
           /\ UNCHANGED <<chain, seen, app, announced, restarts>>
  BY Zenon DEF CastVote
<1> DEFINE m == Vote(j.type, j.height, j.round, n, j.block)
           rest == jobs[n] \ {j}
<1>3. m \in Message /\ rest \in SUBSET VoteJob
  BY <1>1 DEF Vote, VoteJob, Message
<1> HIDE DEF m, rest
<1>4. CASE jobs' = [jobs EXCEPT ![n] = rest] /\ UNCHANGED <<eng, cons, timers, msgs>>
  BY <1>1, <1>2, <1>3, <1>4 DEF TypeInv, TypeOK, PcOK
<1>5. CASE msgs' = msgs \cup {m} /\ CountPrevote(n, m, rest) /\ UNCHANGED timers
  BY <1>1, <1>2, <1>3, <1>5, CountPrevoteType DEF TypeInv, TypeOK
<1>6. CASE /\ msgs' = msgs \cup {m} /\ CountPrecommit(n, m)
           /\ jobs' = [jobs EXCEPT ![n] = rest]
  BY <1>1, <1>2, <1>3, <1>6, CountPrecommitType DEF TypeInv, TypeOK
<1> QED  BY <1>2, <1>4, <1>5, <1>6 DEF m, rest

\* A handler that ends leaves the engine of n well typed and the others alone.
LEMMA FreePc ==
  ASSUME TypeInv, NEW n \in Engines, NEW e \in EngineState,
         e.pc \in {"free", "repropose", "resync"} \/ e.proposed \in Block,
         e.pc \notin {"commit", "add"} \/ e.precommits \in VoteSet,
         eng' = [eng EXCEPT ![n] = e]
  PROVE  eng' \in [Engines -> EngineState] /\ PcOK'
  BY DEF TypeInv, TypeOK, PcOK

\* The failure path of commitBlockWithSignatures keeps the types.
LEMMA CommitFailsType ==
  ASSUME TypeInv, NEW n \in Engines, CommitFails(n)
  PROVE  /\ eng' \in [Engines -> EngineState] /\ PcOK'
         /\ cons' \in [Engines -> ConsState]
<1>1. TypeOK /\ PcOK /\ eng[n] \in EngineState
  BY FieldTypes DEF TypeInv
<1>2. eng' \in [Engines -> EngineState] /\ PcOK'
  BY <1>1 DEF CommitFails, TypeOK, EngineState, PCs, PcOK
<1>3. cons' \in [Engines -> ConsState]
  BY <1>1 DEF CommitFails, IncrementRound, TypeOK, ConsState
<1> QED  BY <1>2, <1>3

\* The final validation keeps the types.
LEMMA FinalValidationType ==
  ASSUME TypeInv, NEW n \in Engines, FinalValidation(n) PROVE TypeInv'
<1>1. TypeOK /\ PcOK /\ eng[n] \in EngineState
  BY FieldTypes DEF TypeInv
<1>2. CASE CommitFails(n)
  BY <1>1, <1>2, CommitFailsType DEF FinalValidation, TypeInv, TypeOK
<1>3. CASE eng' = [eng EXCEPT ![n].pc = "add"] /\ UNCHANGED cons
  <2>1. eng' \in [Engines -> EngineState]
    BY <1>1, <1>3 DEF TypeOK, EngineState, PCs
  <2>2. PcOK'
    BY <1>1, <1>3 DEF TypeOK, EngineState, PcOK, FinalValidation
  <2> QED  BY <1>1, <1>3, <2>1, <2>2 DEF FinalValidation, TypeInv, TypeOK
<1> QED  BY <1>2, <1>3 DEF FinalValidation

\* AddBlock keeps the type of the chain.
LEMMA AddBlockType ==
  ASSUME TypeOK, NEW n \in Engines, NEW e \in Entry
  PROVE  AddBlock(n, e) \in [Engines -> ChainState]
<1>1. /\ chain \in [Engines -> ChainState] /\ chain[n] \in ChainState
      /\ e.block \in Block /\ e.block.height \in Heights
      /\ e.block.spends \subseteq Utxos
  BY FieldTypes, ConsensusAssumption DEF TypeOK, Entry, Heights
<1> DEFINE c == [index |-> [chain[n].index EXCEPT ![e.block.height] = e],
                 tip |-> IF e.block.height > chain[n].tip.height
                         THEN e.block ELSE chain[n].tip,
                 spent |-> chain[n].spent \cup e.block.spends]
<1>2. c \in ChainState
  BY <1>1 DEF ChainState
<1>3. AddBlock(n, e) = [chain EXCEPT ![n] = c]
  BY DEF AddBlock
<1> HIDE DEF c
<1> QED  BY <1>1, <1>2, <1>3

\* The committed block with its signatures is an entry.
LEMMA CertificateType ==
  ASSUME TypeInv, NEW n \in Engines, eng[n].pc \in {"commit", "add"}
  PROVE  Certificate(n) \in Entry
  BY DEF TypeInv, PcOK, Certificate, Entry, VoteSet

\* AddBlock and onBlockCommit keep the types.
LEMMA CommitBlockType == ASSUME TypeInv, NEW n \in Engines, CommitBlock(n) PROVE TypeInv'
<1>1. TypeOK /\ PcOK /\ eng[n] \in EngineState /\ eng[n].pc = "add"
  BY FieldTypes DEF TypeInv, CommitBlock
<1>2. CASE CommitFails(n) /\ UNCHANGED <<chain, announced>>
  BY <1>1, <1>2, CommitFailsType DEF CommitBlock, TypeInv, TypeOK
<1>3. CASE /\ chain' = AddBlock(n, Certificate(n))
           /\ announced' = announced \cup {Certificate(n)}
           /\ eng' = [eng EXCEPT ![n].pc = "advance"]
           /\ UNCHANGED cons
  <2>1. Certificate(n) \in Entry
    BY <1>1, CertificateType
  <2>2. chain' \in [Engines -> ChainState] /\ announced' \in SUBSET Entry
    BY <1>1, <1>3, <2>1, AddBlockType DEF TypeOK
  <2>3. eng' \in [Engines -> EngineState]
    BY <1>1, <1>3 DEF TypeOK, EngineState, PCs
  <2>4. PcOK'
    BY <1>1, <1>3 DEF TypeOK, EngineState, PcOK
  <2> QED  BY <1>1, <1>3, <2>2, <2>3, <2>4 DEF CommitBlock, TypeInv, TypeOK
<1> QED  BY <1>2, <1>3 DEF CommitBlock

\* UpdateHeight keeps the type of Consensus.
LEMMA UpdateHeightType ==
  ASSUME TypeOK, NEW n \in Engines, NEW h \in Nat
  PROVE  UpdateHeight(n, h) \in [Engines -> ConsState]
  BY DEF TypeOK, UpdateHeight, ConsState, States

\* The end of commitBlockWithSignatures keeps the types.
LEMMA NextHeightType == ASSUME TypeInv, NEW n \in Engines, NextHeight(n) PROVE TypeInv'
<1>1. TypeOK /\ PcOK /\ eng[n] \in EngineState /\ eng[n].proposed \in Block
  BY FieldTypes DEF TypeInv, NextHeight, PcOK
<1>2. cons' \in [Engines -> ConsState]
  <2>1. eng[n].proposed.height + 1 \in Nat
    BY <1>1, ConsensusAssumption
  <2>2. cons' = UpdateHeight(n, eng[n].proposed.height + 1)
    BY DEF NextHeight
  <2> QED  BY <1>1, <2>1, <2>2, UpdateHeightType
<1> DEFINE e == [ClearRound(eng[n]) EXCEPT !.pc = "free"]
<1>3. e \in EngineState
  BY Zenon, <1>1, EngineUpdates DEF PCs
<1>4. e.pc = "free"
  BY <1>1 DEF ClearRound, EngineState
<1>5. eng' = [eng EXCEPT ![n] = e]
  BY DEF NextHeight
<1> HIDE DEF e
<1> QED  BY Zenon, <1>1, <1>2, <1>3, <1>4, <1>5, FreePc DEF NextHeight, TypeInv, TypeOK

\* A timer that fires keeps the types.
LEMMA TimerFiresType == ASSUME TypeInv, NEW n \in Engines, TimerFires(n) PROVE TypeInv'
<1>1. TypeOK /\ PcOK /\ timers[n] \in TimerState
  BY FieldTypes DEF TypeInv
<1> DEFINE t == [armed |-> None, fired |-> timers[n].fired \cup {timers[n].armed}]
<1>2. t \in TimerState /\ timers' = [timers EXCEPT ![n] = t]
  BY <1>1 DEF TimerFires, TimerState
<1> HIDE DEF t
<1>3. timers' \in [Engines -> TimerState]
  BY <1>1, <1>2 DEF TypeOK
<1> QED  BY <1>1, <1>3 DEF TimerFires, TypeInv, TypeOK, PcOK

\* The end of handleRoundTimeout keeps the types it touches.
LEMMA NextRoundType ==
  ASSUME TypeInv, NEW n \in Engines, NEW f \in SUBSET Timer, NEW c \in 0 .. 2,
         NextRound(n, f, c)
  PROVE  /\ eng' \in [Engines -> EngineState] /\ PcOK'
         /\ cons' \in [Engines -> ConsState]
         /\ timers' \in [Engines -> TimerState]
<1> DEFINE h == cons[n].height
           r == cons[n].round + 1
           e == [ClearRound(eng[n]) EXCEPT !.timeouts = c]
           e1 == [e EXCEPT !.pc = "repropose"]
           e2 == [e EXCEPT !.pc = "free"]
<1>1. TypeOK /\ PcOK /\ eng[n] \in EngineState /\ cons[n] \in ConsState /\ timers[n] \in TimerState
  BY FieldTypes DEF TypeInv
<1>2. h \in Nat /\ r \in Nat
  BY <1>1 DEF ConsState
<1>3. e \in EngineState
  <2>1. ClearRound(eng[n]) \in EngineState
    BY <1>1, EngineUpdates
  <2> QED  BY <2>1 DEF EngineState
<1>4. e1 \in EngineState /\ e2 \in EngineState /\ e1.pc = "repropose" /\ e2.pc = "free"
  <2> HIDE DEF e
  <2>1. "repropose" \in PCs /\ "free" \in PCs
    BY DEF PCs
  <2> QED  BY <1>3, <2>1 DEF EngineState
<1>5. \/ /\ cons' = [cons EXCEPT ![n].round = r, ![n].state = "PROPOSING"]
         /\ eng' = [eng EXCEPT ![n] = e1]
         /\ timers' = [timers EXCEPT ![n].fired = f]
      \/ /\ cons' = IncrementRound(n)
         /\ eng' = [eng EXCEPT ![n] = e2]
         /\ timers' = [timers EXCEPT ![n] =
              [armed |-> [height |-> h, round |-> r], fired |-> f]]
  BY DEF NextRound
<1>6. eng' \in [Engines -> EngineState] /\ PcOK'
  <2> HIDE DEF e1, e2
  <2> QED  BY <1>4, <1>5, FreePc
<1>7. cons' \in [Engines -> ConsState]
  <2> DEFINE d1 == [cons[n] EXCEPT !.round = r, !.state = "PROPOSING"]
             d2 == [cons[n] EXCEPT !.round = r]
  <2>1. cons' = [cons EXCEPT ![n] = d1] \/ cons' = [cons EXCEPT ![n] = d2]
    BY <1>1, <1>5 DEF TypeOK, IncrementRound
  <2> HIDE DEF r
  <2>2. d1 \in ConsState /\ d2 \in ConsState
    BY Zenon, <1>1, <1>2 DEF ConsState, States
  <2> HIDE DEF d1, d2
  <2> QED  BY <1>1, <2>1, <2>2 DEF TypeOK
<1>8. timers' \in [Engines -> TimerState]
  <2> DEFINE t1 == [timers[n] EXCEPT !.fired = f]
             t2 == [armed |-> [height |-> h, round |-> r], fired |-> f]
  <2>1. t1 \in TimerState
    BY <1>1 DEF TimerState
  <2>2. [height |-> h, round |-> r] \in Timer
    BY <1>2 DEF Timer
  <2>3. t2 \in TimerState
    BY <2>2 DEF TimerState
  <2>4. timers' = [timers EXCEPT ![n] = t1] \/ timers' = [timers EXCEPT ![n] = t2]
    BY <1>5
  <2> HIDE DEF t1, t2
  <2> QED  BY <1>1, <2>1, <2>3, <2>4 DEF TypeOK
<1> QED  BY <1>6, <1>7, <1>8

\* handleRoundTimeout keeps the types.
LEMMA HandleRoundTimeoutType ==
  ASSUME TypeInv, NEW n \in Engines, HandleRoundTimeout(n) PROVE TypeInv'
<1>1. TypeOK /\ PcOK /\ eng[n] \in EngineState /\ timers[n] \in TimerState
      /\ LatestHeight(n) \in Nat
  BY FieldTypes DEF TypeInv
<1>2. PICK t \in timers[n].fired :
        LET rest == timers[n].fired \ {t}
        IN /\ \/ /\ eng' = [eng EXCEPT ![n].timeouts = 0]
                 /\ timers' = [timers EXCEPT ![n].fired = rest] /\ UNCHANGED cons
              \/ eng[n].timeouts + 1 < 3 /\ NextRound(n, rest, eng[n].timeouts + 1)
              \/ /\ eng' = [eng EXCEPT ![n] = [eng[n] EXCEPT
                      !.pc = "resync", !.timeouts = 0, !.mark = LatestHeight(n)]]
                 /\ timers' = [timers EXCEPT ![n].fired = rest] /\ UNCHANGED cons
           /\ UNCHANGED <<chain, jobs, seen, app, msgs, announced, restarts>>
  BY DEF HandleRoundTimeout
<1> DEFINE rest == timers[n].fired \ {t}
           e == [eng[n] EXCEPT !.pc = "resync", !.timeouts = 0, !.mark = LatestHeight(n)]
<1>3. rest \in SUBSET Timer
  BY <1>1 DEF TimerState
<1>4. e \in EngineState /\ e.pc = "resync"
  <2>1. "resync" \in PCs /\ 0 \in 0 .. 2
    BY DEF PCs
  <2>2. e.pc = "resync"
    BY <1>1 DEF EngineState
  <2> QED  BY Zenon, <1>1, <2>1, <2>2 DEF EngineState
<1> HIDE DEF rest, e
<1>5. CASE /\ eng' = [eng EXCEPT ![n].timeouts = 0]
           /\ timers' = [timers EXCEPT ![n].fired = rest] /\ UNCHANGED cons
  <2>1. timers' \in [Engines -> TimerState]
    BY <1>1, <1>3, <1>5 DEF TypeOK, TimerState
  <2>2. eng' \in [Engines -> EngineState] /\ PcOK'
    BY <1>1, <1>5 DEF TypeOK, EngineState, PcOK
  <2> QED  BY <1>1, <1>2, <1>5, <2>1, <2>2 DEF TypeInv, TypeOK
<1>6. CASE eng[n].timeouts + 1 < 3 /\ NextRound(n, rest, eng[n].timeouts + 1)
  <2>1. eng[n].timeouts + 1 \in 0 .. 2
    BY <1>1, <1>6 DEF EngineState
  <2> QED  BY <1>1, <1>2, <1>3, <1>6, <2>1, NextRoundType DEF TypeInv, TypeOK
<1>7. CASE /\ eng' = [eng EXCEPT ![n] = e]
           /\ timers' = [timers EXCEPT ![n].fired = rest] /\ UNCHANGED cons
  <2>1. timers' \in [Engines -> TimerState]
    BY <1>1, <1>3, <1>7 DEF TypeOK, TimerState
  <2>2. eng' \in [Engines -> EngineState] /\ PcOK'
    BY Zenon, <1>4, <1>7, FreePc
  <2> QED  BY <1>1, <1>2, <1>7, <2>1, <2>2 DEF TypeInv, TypeOK
<1> QED  BY <1>2, <1>5, <1>6, <1>7 DEF rest, e

\* The block sync after three timeouts keeps the types.
LEMMA ResyncType == ASSUME TypeInv, NEW n \in Engines, Resync(n) PROVE TypeInv'
<1>1. TypeOK /\ PcOK /\ eng[n] \in EngineState /\ timers[n] \in TimerState
      /\ LatestHeight(n) \in Nat
  BY FieldTypes DEF TypeInv
<1>2. CASE NextRound(n, timers[n].fired, 0)
  <2>1. timers[n].fired \in SUBSET Timer /\ 0 \in 0 .. 2
    BY <1>1 DEF TimerState
  <2> QED  BY <1>1, <1>2, <2>1, NextRoundType DEF Resync, TypeInv, TypeOK
<1> DEFINE e == [ClearRound(eng[n]) EXCEPT !.pc = "free"]
<1>3. CASE /\ cons' = [cons EXCEPT ![n].height = LatestHeight(n) + 1, ![n].round = 0]
           /\ eng' = [eng EXCEPT ![n] = e] /\ UNCHANGED timers
  <2>1. e \in EngineState
    BY Zenon, <1>1, EngineUpdates DEF PCs
  <2>2. e.pc = "free"
    BY <1>1 DEF ClearRound, EngineState
  <2> HIDE DEF e
  <2>3. eng' \in [Engines -> EngineState] /\ PcOK'
    BY Zenon, <1>3, <2>1, <2>2, FreePc
  <2>4. cons' \in [Engines -> ConsState]
    <3> DEFINE k == LatestHeight(n) + 1
               d == [cons[n] EXCEPT !.height = k, !.round = 0]
    <3>1. k \in Nat /\ cons[n] \in ConsState
      BY <1>1 DEF TypeOK
    <3>2. cons' = [cons EXCEPT ![n] = d]
      BY Zenon, <1>1, <1>3 DEF TypeOK
    <3> HIDE DEF k
    <3>3. d \in ConsState
      BY Zenon, <3>1 DEF ConsState
    <3> HIDE DEF d
    <3> QED  BY <1>1, <3>2, <3>3 DEF TypeOK
  <2> QED  BY <1>1, <1>3, <2>3, <2>4 DEF Resync, TypeInv, TypeOK
<1> QED  BY <1>2, <1>3 DEF Resync

\* The block handler keeps the types when it receives a block.
LEMMA ReceiveBlockType ==
  ASSUME TypeInv, NEW n \in Engines, ReceiveBlock(n) PROVE TypeInv'
<1>1. TypeOK /\ PcOK /\ app[n] \in AppState
  BY FieldTypes DEF TypeInv
<1>2. PICK e \in announced :
        \/ app' = [app EXCEPT ![n].pending[e.block.height] = e]
        \/ app' = [app EXCEPT ![n].running = @ \cup {Worker(e, "add")}]
        \/ app' = app
  BY DEF ReceiveBlock
<1>3. e \in Entry /\ e.block.height \in Heights
  BY <1>1 DEF TypeOK, Entry, Heights
<1>4. Worker(e, "add") \in [entry : Entry, pc : {"add", "update"}]
  BY <1>3 DEF Worker
<1>5. app' \in [Engines -> AppState]
  <2>1. CASE app' = [app EXCEPT ![n].pending[e.block.height] = e]
    BY Zenon, <1>1, <1>3, <2>1 DEF TypeOK, AppState
  <2>2. CASE app' = [app EXCEPT ![n].running = @ \cup {Worker(e, "add")}]
    BY <1>1, <1>4, <2>2 DEF TypeOK, AppState
  <2> QED  BY <1>1, <1>2, <2>1, <2>2 DEF TypeOK
<1> QED  BY <1>1, <1>5 DEF ReceiveBlock, TypeInv, TypeOK, PcOK

\* The block handler keeps the types when it adds a block.
LEMMA HandlerAddsType == ASSUME TypeInv, NEW n \in Engines, HandlerAdds(n) PROVE TypeInv'
<1>1. TypeOK /\ PcOK /\ app[n] \in AppState
  BY FieldTypes DEF TypeInv
<1>2. PICK w \in app[n].running :
        \/ /\ chain' = AddBlock(n, w.entry)
           /\ app' = [app EXCEPT ![n].running =
                        (@ \ {w}) \cup {Worker(w.entry, "update")}]
        \/ app' = [app EXCEPT ![n].running = @ \ {w}] /\ UNCHANGED chain
  BY DEF HandlerAdds
<1>3. w.entry \in Entry
  BY <1>1 DEF AppState
<1>4. Worker(w.entry, "update") \in [entry : Entry, pc : {"add", "update"}]
  BY <1>3 DEF Worker
<1>5. app' \in [Engines -> AppState]
  <2> DEFINE r1 == (app[n].running \ {w}) \cup {Worker(w.entry, "update")}
             r2 == app[n].running \ {w}
             W  == [entry : Entry, pc : {"add", "update"}]
  <2>1. r1 \in SUBSET W /\ r2 \in SUBSET W
    BY <1>1, <1>4 DEF AppState
  <2>2. PICK r \in SUBSET W : app' = [app EXCEPT ![n].running = r]
    BY Zenon, <1>2, <2>1
  <2> QED  BY <1>1, <2>2 DEF TypeOK, AppState
<1>6. chain' \in [Engines -> ChainState]
  BY <1>1, <1>2, <1>3, AddBlockType DEF TypeOK
<1> QED  BY <1>1, <1>5, <1>6 DEF HandlerAdds, TypeInv, TypeOK, PcOK

\* The block handler keeps the types when it moves the height.
LEMMA HandlerUpdatesType ==
  ASSUME TypeInv, NEW n \in Engines, HandlerUpdates(n) PROVE TypeInv'
<1>1. TypeOK /\ PcOK /\ app[n] \in AppState
  BY FieldTypes DEF TypeInv
<1>2. PICK w \in app[n].running :
        LET h    == w.entry.block.height + 1
            next == IF h \in Heights THEN app[n].pending[h] ELSE None
            rest == app[n].running \ {w}
        IN /\ cons' = UpdateHeight(n, h)
           /\ \/ app' = [app EXCEPT ![n].running = rest]
              \/ /\ next # None
                 /\ app' = [app EXCEPT ![n] =
                      [running |-> IF ValidateCommitted(n, next)
                                   THEN rest \cup {Worker(next, "add")} ELSE rest,
                       pending |-> [@.pending EXCEPT ![h] = None]]]
  BY Zenon DEF HandlerUpdates
<1> DEFINE h    == w.entry.block.height + 1
           next == IF h \in Heights THEN app[n].pending[h] ELSE None
           rest == app[n].running \ {w}
           a    == [running |-> IF ValidateCommitted(n, next)
                                THEN rest \cup {Worker(next, "add")} ELSE rest,
                    pending |-> [app[n].pending EXCEPT ![h] = None]]
<1>3. h \in Nat
  BY <1>1, ConsensusAssumption DEF AppState, Entry
<1>4. next # None => next \in Entry
  BY <1>1 DEF AppState
<1>5. rest \in SUBSET [entry : Entry, pc : {"add", "update"}]
  BY <1>1 DEF AppState
<1>6. next # None => a \in AppState
  <2>1. next # None => Worker(next, "add") \in [entry : Entry, pc : {"add", "update"}]
    BY <1>4 DEF Worker
  <2>2. [app[n].pending EXCEPT ![h] = None] \in [Heights -> Entry \cup {None}]
    BY Zenon, <1>1 DEF AppState
  <2> HIDE DEF next, rest, h
  <2> QED  BY <1>5, <2>1, <2>2 DEF AppState
<1>7. \/ app' = [app EXCEPT ![n].running = rest]
      \/ next # None /\ app' = [app EXCEPT ![n] = a]
  BY Zenon, <1>2
<1>8. cons' \in [Engines -> ConsState]
  BY <1>1, <1>2, <1>3, UpdateHeightType
<1> HIDE DEF h, next, rest, a
<1>9. app' \in [Engines -> AppState]
  <2>1. CASE app' = [app EXCEPT ![n].running = rest]
    BY <1>1, <1>5, <2>1 DEF TypeOK, AppState
  <2>2. CASE next # None /\ app' = [app EXCEPT ![n] = a]
    BY <1>1, <1>6, <2>2 DEF TypeOK
  <2> QED  BY <1>7, <2>1, <2>2
<1> QED  BY Zenon, <1>1, <1>8, <1>9 DEF HandlerUpdates, TypeInv, TypeOK, PcOK

\* A block of a validator elsewhere keeps the types.
LEMMA RemoteCommitType == ASSUME TypeInv, RemoteCommit PROVE TypeInv'
<1>1. PICK b \in Block :
        announced' = announced \cup
          {[block |-> b,
            sigs |-> [v \in Validators |-> IF Precommitted(v, b) THEN b ELSE None]]}
  BY DEF RemoteCommit
<1>2. announced' \in SUBSET Entry
  BY <1>1 DEF TypeInv, TypeOK, Entry, Sigs
<1> QED  BY <1>2 DEF RemoteCommit, TypeInv, TypeOK, PcOK

\* A restart keeps the types.
LEMMA RestartType == ASSUME TypeInv, NEW n \in Engines, Restart(n) PROVE TypeInv'
<1>1. TypeOK /\ PcOK /\ LatestHeight(n) \in Nat
  BY FieldTypes DEF TypeInv
<1>2. EngineInit \in EngineState /\ EngineInit.pc = "free"
  BY DEF EngineInit, EngineState, PCs
<1>3. eng' \in [Engines -> EngineState] /\ PcOK'
  <2>1. eng' = [eng EXCEPT ![n] = EngineInit]
    BY DEF Restart
  <2> QED  BY Zenon, <1>2, <2>1, FreePc
<1>4. cons' \in [Engines -> ConsState]
  BY <1>1, UpdateHeightType DEF Restart
<1>5. /\ jobs' \in [Engines -> SUBSET VoteJob] /\ seen' \in [Engines -> SUBSET Key]
      /\ restarts' \in Nat
  BY <1>1 DEF Restart, TypeOK
<1>6. timers' \in [Engines -> TimerState] /\ app' \in [Engines -> AppState]
  BY <1>1 DEF Restart, TypeOK, TimerState, AppState
<1> QED  BY <1>1, <1>3, <1>4, <1>5, <1>6 DEF Restart, TypeInv, TypeOK

LEMMA ForgetSeenType == ASSUME TypeInv, NEW n \in Engines, ForgetSeen(n) PROVE TypeInv'
<1>1. TypeOK /\ PcOK
  BY DEF TypeInv
<1>2. PICK k \in seen[n] : seen' = [seen EXCEPT ![n] = @ \ {k}]
  BY Zenon DEF ForgetSeen
<1>3. seen' \in [Engines -> SUBSET Key]
  BY <1>1, <1>2 DEF TypeOK
<1> QED  BY <1>1, <1>3 DEF ForgetSeen, TypeInv, TypeOK, PcOK

\* Every step keeps the types.
LEMMA NextTypeInv == TypeInv /\ [Next]_vars => TypeInv'
<1> SUFFICES ASSUME TypeInv, [Next]_vars PROVE TypeInv'
  OBVIOUS
<1>1. CASE UNCHANGED vars
  BY <1>1 DEF vars, TypeInv, TypeOK, PcOK
<1>2. CASE RemoteCommit
  BY <1>2, RemoteCommitType
<1>3. ASSUME NEW n \in Engines,
             \/ RunRound(n) \/ BuildBlock(n) \/ BroadcastProposal(n) \/ HandleProposal(n)
             \/ FinishProposal(n) \/ HandleVote(n) \/ CastVote(n) \/ FinalValidation(n)
             \/ CommitBlock(n) \/ NextHeight(n) \/ TimerFires(n) \/ HandleRoundTimeout(n)
             \/ Resync(n) \/ ReceiveBlock(n) \/ HandlerAdds(n) \/ HandlerUpdates(n)
             \/ Restart(n) \/ ForgetSeen(n)
      PROVE  TypeInv'
  BY <1>3, RunRoundType, BuildBlockType, BroadcastProposalType, HandleProposalType,
     FinishProposalType, HandleVoteType, CastVoteType, FinalValidationType,
     CommitBlockType, NextHeightType, TimerFiresType, HandleRoundTimeoutType,
     ResyncType, ReceiveBlockType, HandlerAddsType, HandlerUpdatesType, RestartType,
     ForgetSeenType
<1> QED  BY <1>1, <1>2, <1>3 DEF Next

\* In every behaviour every variable stays in its type: the counters of the
\* engine, the phases of its handlers and what its pointers point to.
THEOREM TypeCorrect == Spec => []TypeOK
<1>1. TypeInv => TypeOK
  BY DEF TypeInv
<1> QED  BY InitTypeInv, NextTypeInv, <1>1, PTL DEF Spec
=============================================================================
