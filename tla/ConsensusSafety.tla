-------------------------- MODULE ConsensusSafety --------------------------
(***************************************************************************)
(* Safety of the consensus engines, for any number of validators and       *)
(* engines, any voting power, any blocks and any rounds.  Of one node: no  *)
(* output is spent twice in its chain, its engine never runs ahead of the  *)
(* chain, and the next N rounds have every validator for a proposer.  Of   *)
(* all nodes together: every committed block carries a certificate, and a  *)
(* fork is attributable.                                                   *)
(*                                                                         *)
(* What is committed was first held back: in a block handler, in           *)
(* pendingBlocks, or in the engine between the final validation and        *)
(* AddBlock.  CertInv therefore speaks of all those entries, and of the    *)
(* votes a precommit set is made of.                                       *)
(***************************************************************************)
EXTENDS ConsensusProofs

-----------------------------------------------------------------------------
(* The chain of one node.                                                  *)

\* AddBlock of a block that passes the Spent test of UpdateUtxo.
LEMMA AddBlockSpends ==
  ASSUME TypeOK, NoDoubleSpend, NEW n \in Engines, NEW e \in Entry,
         CanAdd(n, e.block), chain' = AddBlock(n, e)
  PROVE  NoDoubleSpend'
<1> SUFFICES ASSUME NEW m \in Engines
             PROVE  /\ \A h \in Heights : chain'[m].index[h] # None =>
                         chain'[m].index[h].block.spends \subseteq chain'[m].spent
                    /\ \A h, k \in Heights :
                         h # k /\ chain'[m].index[h] # None /\ chain'[m].index[k] # None
                           => chain'[m].index[h].block.spends
                                \cap chain'[m].index[k].block.spends = {}
  BY DEF NoDoubleSpend
<1>1. chain[m].index \in [Heights -> Entry \cup {None}] /\ chain[n] \in ChainState
  BY FieldTypes DEF TypeOK, ChainState
<1>2. /\ \A h \in Heights : chain[m].index[h] # None =>
           chain[m].index[h].block.spends \subseteq chain[m].spent
      /\ \A h, k \in Heights :
           h # k /\ chain[m].index[h] # None /\ chain[m].index[k] # None
             => chain[m].index[h].block.spends \cap chain[m].index[k].block.spends = {}
  BY DEF NoDoubleSpend
<1>3. CASE m # n
  BY <1>2, <1>3 DEF AddBlock, TypeOK
<1>4. CASE m = n
  <2>1. /\ \A h \in Heights :
             chain'[m].index[h] = IF h = e.block.height THEN e ELSE chain[m].index[h]
        /\ chain'[m].spent = chain[m].spent \cup e.block.spends
    BY <1>1, <1>4 DEF AddBlock, TypeOK
  <2>2. e.block.spends \cap chain[m].spent = {}
    BY <1>4 DEF CanAdd
  <2> QED  BY <1>2, <2>1, <2>2
<1> QED  BY <1>3, <1>4

\* The chain of a node grows by AddBlock only.
ChainStep ==
  \/ UNCHANGED chain
  \/ \E n \in Engines, e \in Entry : CanAdd(n, e.block) /\ chain' = AddBlock(n, e)

LEMMA ChainSteps == TypeInv /\ [Next]_vars => ChainStep
<1> SUFFICES ASSUME TypeInv, [Next]_vars PROVE ChainStep
  OBVIOUS
<1>1. CASE UNCHANGED chain
  BY <1>1 DEF ChainStep
<1>2. CASE \E n \in Engines : CommitBlock(n)
  <2>1. PICK n \in Engines : CommitBlock(n)
    BY <1>2
  <2>2. Certificate(n) \in Entry /\ Certificate(n).block = eng[n].proposed
    BY <2>1, CertificateType DEF CommitBlock, Certificate
  <2>3. CASE chain' = AddBlock(n, Certificate(n)) /\ CanAdd(n, eng[n].proposed)
    BY Zenon, <2>2, <2>3 DEF ChainStep
  <2> QED  BY <1>1, <2>1, <2>3 DEF CommitBlock
<1>3. CASE \E n \in Engines : HandlerAdds(n)
  <2>1. PICK n \in Engines : HandlerAdds(n)
    BY <1>3
  <2>2. PICK w \in app[n].running :
          \/ CanAdd(n, w.entry.block) /\ chain' = AddBlock(n, w.entry)
          \/ UNCHANGED chain
    BY <2>1 DEF HandlerAdds
  <2>3. w.entry \in Entry
    BY FieldTypes DEF TypeInv, AppState
  <2> QED  BY Zenon, <2>2, <2>3 DEF ChainStep
<1>4. CASE RemoteCommit
  BY <1>1, <1>4 DEF RemoteCommit
<1>5. ASSUME NEW n \in Engines,
             \/ RunRound(n) \/ BuildBlock(n) \/ BroadcastProposal(n) \/ HandleProposal(n)
             \/ FinishProposal(n) \/ HandleVote(n) \/ CastVote(n) \/ FinalValidation(n)
      PROVE  UNCHANGED chain
  BY Zenon, <1>5 DEF RunRound, BuildBlock, BroadcastProposal, HandleProposal, FinishProposal,
              HandleVote, CastVote, FinalValidation
<1>6. ASSUME NEW n \in Engines,
             \/ NextHeight(n) \/ TimerFires(n) \/ HandleRoundTimeout(n) \/ Resync(n)
             \/ ReceiveBlock(n) \/ HandlerUpdates(n) \/ Restart(n) \/ ForgetSeen(n)
      PROVE  UNCHANGED chain
  BY Zenon, <1>6 DEF NextHeight, TimerFires, HandleRoundTimeout, Resync, ReceiveBlock,
              HandlerUpdates, Restart, ForgetSeen
<1> QED  BY <1>1, <1>2, <1>3, <1>4, <1>5, <1>6 DEF Next, vars

LEMMA NextSpends == TypeInv /\ NoDoubleSpend /\ [Next]_vars => NoDoubleSpend'
<1> SUFFICES ASSUME TypeInv, NoDoubleSpend, ChainStep PROVE NoDoubleSpend'
  BY ChainSteps
<1>1. CASE UNCHANGED chain
  BY <1>1 DEF NoDoubleSpend
<1> QED  BY <1>1, AddBlockSpends DEF ChainStep, TypeInv

\* No output is spent by two blocks of a node's chain: the engine and the block
\* handlers validate without the write lock, but UpdateUtxo tests again under it.
THEOREM SpentOnce == Spec => []NoDoubleSpend
<1>1. Init => NoDoubleSpend
  BY ConsensusAssumption DEF Init, NoDoubleSpend
<1> QED  BY InitTypeInv, NextTypeInv, NextSpends, <1>1, PTL DEF Spec

-----------------------------------------------------------------------------
(* The height of the engine and the height of the chain.                   *)

\* A height is only handed to UpdateHeight by a goroutine that has just added
\* the block below it; the tip may have moved on since, but never back.
AheadInv ==
  /\ ConsensusNotAhead
  /\ \A n \in Engines :
       /\ eng[n].pc = "advance" => eng[n].proposed.height <= LatestHeight(n)
       /\ \A w \in app[n].running :
            w.pc = "update" => w.entry.block.height <= LatestHeight(n)

\* What a step does to the heights of every node.
HeightStep ==
  /\ \A n \in Engines :
       /\ LatestHeight(n) <= LatestHeight(n)'
       /\ cons'[n].height = cons[n].height \/ cons'[n].height <= LatestHeight(n)' + 1
       /\ \A j \in jobs'[n] : j \in jobs[n] \/ j.height = cons[n].height
       /\ eng'[n].pc = "advance" =>
            \/ eng[n].pc = "advance" /\ eng'[n].proposed = eng[n].proposed
            \/ eng'[n].proposed.height <= LatestHeight(n)'
       /\ \A w \in app'[n].running :
            w.pc = "update" => w \in app[n].running
                               \/ w.entry.block.height <= LatestHeight(n)'
  /\ \A m \in msgs' : m \in msgs \/ m.height = cons[m.from].height
                      \/ \E j \in jobs[m.from] : j.height = m.height

\* A HeightStep keeps AheadInv.
LEMMA HeightStepKeeps ==
  ASSUME TypeInv, TypeInv', AheadInv, HeightStep PROVE AheadInv'
<1> TypeOK /\ TypeOK'
  BY DEF TypeInv
<1>1. \A n \in Engines :
        /\ LatestHeight(n) \in Nat /\ LatestHeight(n)' \in Nat
        /\ cons[n].height \in Nat
        /\ cons'[n].height \in Nat
        /\ \A j \in jobs[n] : j.height \in Nat
        /\ \A w \in app[n].running : w.entry.block.height \in Nat
  <2>1. \A n \in Engines : LatestHeight(n) \in Nat /\ LatestHeight(n)' \in Nat
    BY Zenon, FieldTypes, HeightsNat DEF TypeOK, ChainState, LatestHeight, Tip, Heights
  <2>2. \A n \in Engines : cons[n].height \in Nat /\ cons'[n].height \in Nat
    BY DEF TypeOK, ConsState
  <2>3. \A n \in Engines : \A j \in jobs[n] : j.height \in Nat
    BY DEF TypeOK, VoteJob
  <2>4. \A n \in Engines : \A w \in app[n].running : w.entry.block.height \in Nat
    BY ConsensusAssumption DEF TypeOK, AppState, Entry
  <2> QED  BY <2>1, <2>2, <2>3, <2>4, ConsensusAssumption
<1>2. \A n \in Engines : cons'[n].height <= LatestHeight(n)' + 1
  BY <1>1 DEF HeightStep, AheadInv, ConsensusNotAhead
<1>3. \A n \in Engines : \A j \in jobs'[n] : j.height <= LatestHeight(n)' + 1
  BY <1>1 DEF HeightStep, AheadInv, ConsensusNotAhead
<1>4. \A m \in msgs : m.height \in Nat
  BY DEF TypeOK, Message
<1>5. \A n \in Engines : \A m \in msgs' : m.from = n => m.height <= LatestHeight(n)' + 1
  BY <1>1, <1>4 DEF HeightStep, AheadInv, ConsensusNotAhead
<1>6. \A n \in Engines : eng'[n].pc = "advance" => eng'[n].proposed.height <= LatestHeight(n)'
  <2> SUFFICES ASSUME NEW n \in Engines, eng[n].pc = "advance",
                      eng'[n].proposed = eng[n].proposed
               PROVE  eng[n].proposed.height <= LatestHeight(n)'
    BY DEF HeightStep
  <2>1. eng[n].proposed.height <= LatestHeight(n) /\ LatestHeight(n) <= LatestHeight(n)'
    BY DEF AheadInv, HeightStep
  <2>2. eng[n].proposed.height \in Nat
    BY ConsensusAssumption DEF TypeInv, PcOK
  <2> QED  BY <1>1, <2>1, <2>2
<1>7. \A n \in Engines : \A w \in app'[n].running :
        w.pc = "update" => w.entry.block.height <= LatestHeight(n)'
  BY <1>1 DEF HeightStep, AheadInv
<1> QED  BY <1>2, <1>3, <1>5, <1>6, <1>7 DEF AheadInv, ConsensusNotAhead

\* The handlers of the engine that leave the chain and the blocks alone.
LEMMA EngineHeights ==
  ASSUME TypeInv, NEW n \in Engines,
         \/ RunRound(n) \/ BuildBlock(n) \/ BroadcastProposal(n) \/ HandleProposal(n)
         \/ FinishProposal(n) \/ TimerFires(n) \/ HandleRoundTimeout(n) \/ Resync(n)
         \/ HandleVote(n) \/ CastVote(n) \/ FinalValidation(n)
  PROVE  HeightStep
<1>1. /\ TypeOK /\ eng[n] \in EngineState /\ cons[n] \in ConsState
      /\ LatestHeight(n) \in Nat
      /\ \A m \in Engines : LatestHeight(m) \in Nat
  BY FieldTypes DEF TypeInv
<1>2. UNCHANGED <<chain, app>>
  BY Zenon DEF RunRound, BuildBlock, BroadcastProposal, HandleProposal, FinishProposal,
         TimerFires, HandleRoundTimeout, Resync, HandleVote, CastVote, FinalValidation
<1>3. \A m \in Engines : LatestHeight(m)' = LatestHeight(m)
  BY <1>2 DEF LatestHeight, Tip
<1>4. \A m \in Engines : cons'[m].height = cons[m].height \/ cons'[m].height = LatestHeight(m) + 1
  <2> DEFINE next == LatestHeight(n) + 1
             sync(h, r) == [cons[n] EXCEPT !.height = h, !.round = r]
             open(h, r) == [sync(h, r) EXCEPT !.state = "PROPOSING"]
  <2>0. \A h, r : sync(h, r).height = h /\ open(h, r).height = h
    BY <1>1 DEF ConsState
  <2>1. CASE RunRound(n)
    <3>1. PICK r : \/ cons' = [cons EXCEPT ![n] = sync(next, r)]
                   \/ cons' = [cons EXCEPT ![n] = open(next, r)]
      BY Zenon, <2>1 DEF RunRound
    <3> HIDE DEF sync, open, next
    <3>2. \A m \in Engines : cons'[m].height = cons[m].height \/ (m = n /\ cons'[m].height = next)
      BY <1>1, <2>0, <3>1 DEF TypeOK
    <3> QED  BY <3>2 DEF next
  <2>2. CASE BuildBlock(n) \/ TimerFires(n)
    BY Zenon, <2>2 DEF BuildBlock, TimerFires
  <2>3. CASE BroadcastProposal(n) \/ FinishProposal(n)
    BY <1>1, <2>3 DEF BroadcastProposal, FinishProposal, SetState, TypeOK, ConsState
  <2>4. CASE HandleProposal(n)
    <3>1. CASE UNCHANGED cons
      BY <3>1
    <3>2. CASE ~ UNCHANGED cons
      <4>1. PICK r : \/ cons' = [cons EXCEPT ![n] = sync(next, r)]
                     \/ cons' = [cons EXCEPT ![n] = open(next, r)]
        BY Zenon, <2>4, <3>2 DEF HandleProposal
      <4> HIDE DEF sync, open, next
      <4>2. \A m \in Engines : cons'[m].height = cons[m].height \/ (m = n /\ cons'[m].height = next)
        BY <1>1, <2>0, <4>1 DEF TypeOK
      <4> QED  BY <4>2 DEF next
    <3> QED  BY <3>1, <3>2
  <2>5. ASSUME NEW f, NEW c, NextRound(n, f, c)
        PROVE  \A m \in Engines : cons'[m].height = cons[m].height
    BY <1>1, <2>5 DEF NextRound, IncrementRound, TypeOK, ConsState
  <2>6. CASE HandleRoundTimeout(n)
    BY <2>5, <2>6 DEF HandleRoundTimeout
  <2>7. CASE Resync(n)
    <3>1. CASE cons' = [cons EXCEPT ![n].height = LatestHeight(n) + 1, ![n].round = 0]
      BY <1>1, <3>1 DEF TypeOK, ConsState
    <3> QED  BY <2>5, <2>7, <3>1 DEF Resync
  <2>8. ASSUME NEW m, NEW js, CountPrevote(n, m, js)
        PROVE  \A x \in Engines : cons'[x].height = cons[x].height
    BY <1>1, <2>8 DEF CountPrevote, TypeOK, ConsState
  <2>9. ASSUME NEW m, CountPrecommit(n, m)
        PROVE  \A x \in Engines : cons'[x].height = cons[x].height
    BY <1>1, <2>9 DEF CountPrecommit, SetState, TypeOK, ConsState
  <2>10. CASE HandleVote(n)
    BY <2>8, <2>9, <2>10 DEF HandleVote
  <2>11. CASE CastVote(n)
    BY <2>8, <2>9, <2>11 DEF CastVote
  <2>12. CASE FinalValidation(n)
    BY <1>1, <2>12 DEF FinalValidation, CommitFails, IncrementRound, TypeOK, ConsState
  <2> QED  BY <2>1, <2>2, <2>3, <2>4, <2>6, <2>7, <2>10, <2>11, <2>12
<1>5. \A m \in Engines : \A j \in jobs'[m] : j \in jobs[m] \/ j.height = cons[m].height
  <2>1. \A t, blk, h, r : Job(t, blk, h, r).height = h
    BY DEF Job
  <2>2. CASE BroadcastProposal(n) \/ FinishProposal(n)
    BY <2>1, <2>2, <1>1 DEF BroadcastProposal, FinishProposal, TypeOK
  <2>3. ASSUME NEW m, NEW js \in SUBSET jobs[n], CountPrevote(n, m, js)
        PROVE  \A x \in Engines : \A j \in jobs'[x] : j \in jobs[x] \/ j.height = cons[x].height
    BY <1>1, <2>1, <2>3 DEF CountPrevote, TypeOK
  <2>4. CASE HandleVote(n)
    BY <2>3, <2>4 DEF HandleVote
  <2>5. CASE CastVote(n)
    <3>1. PICK js \in SUBSET jobs[n] :
            (\E m : CountPrevote(n, m, js)) \/ jobs' = [jobs EXCEPT ![n] = js]
      BY Zenon, <2>5 DEF CastVote
    <3>2. CASE jobs' = [jobs EXCEPT ![n] = js]
      BY <1>1, <3>2 DEF TypeOK
    <3> QED  BY Zenon, <2>3, <3>1, <3>2
  <2>6. CASE RunRound(n) \/ BuildBlock(n) \/ HandleProposal(n)
    BY Zenon, <2>6 DEF RunRound, BuildBlock, HandleProposal
  <2>7. CASE TimerFires(n) \/ HandleRoundTimeout(n) \/ Resync(n) \/ FinalValidation(n)
    BY Zenon, <2>7 DEF TimerFires, HandleRoundTimeout, Resync, FinalValidation
  <2> QED  BY <2>2, <2>4, <2>5, <2>6, <2>7
<1>6. \A m \in msgs' : m \in msgs \/ m.height = cons[m.from].height
                       \/ \E j \in jobs[m.from] : j.height = m.height
  <2>1. \A t, h, r, v, blk : /\ Vote(t, h, r, v, blk).height = h
                             /\ Vote(t, h, r, v, blk).from = v
    BY DEF Vote
  <2>2. CASE BroadcastProposal(n)
    BY <2>1, <2>2 DEF BroadcastProposal
  <2>3. CASE CastVote(n)
    <3>1. PICK j \in jobs[n] :
            msgs' = msgs \/ msgs' = msgs \cup {Vote(j.type, j.height, j.round, n, j.block)}
      BY Zenon, <2>3 DEF CastVote
    <3> DEFINE v == Vote(j.type, j.height, j.round, n, j.block)
    <3>2. v.from = n /\ v.height = j.height
      BY <2>1
    <3>3. \A m \in msgs' : m \in msgs \/ m = v
      BY Zenon, <3>1
    <3> HIDE DEF v
    <3> QED  BY Zenon, <3>2, <3>3
  <2>4. CASE RunRound(n) \/ BuildBlock(n) \/ HandleProposal(n) \/ FinishProposal(n)
    BY Zenon, <2>4 DEF RunRound, BuildBlock, HandleProposal, FinishProposal
  <2>5. CASE TimerFires(n) \/ HandleRoundTimeout(n) \/ Resync(n)
    BY Zenon, <2>5 DEF TimerFires, HandleRoundTimeout, Resync
  <2>6. CASE HandleVote(n) \/ FinalValidation(n)
    BY <2>6 DEF HandleVote, FinalValidation
  <2> QED  BY <2>2, <2>3, <2>4, <2>5, <2>6
<1>7. \A m \in Engines : eng'[m].pc = "advance" => eng'[m] = eng[m]
  <2> DEFINE P == \A m \in Engines : eng'[m].pc = "advance" => eng'[m] = eng[m]
  <2>0. ASSUME NEW e, eng' = [eng EXCEPT ![n] = e], e.pc # "advance" PROVE P
    BY <1>1, <2>0 DEF TypeOK
  <2>1. CASE RunRound(n)
    <3>1. CASE eng' = [eng EXCEPT ![n].pc = "propose"]
      BY <1>1, <3>1 DEF TypeOK, EngineState
    <3>2. CASE eng' = [eng EXCEPT ![n] = OpenVoteSets(eng[n], LatestHeight(n) + 1, 0)]
      <4>1. OpenVoteSets(eng[n], LatestHeight(n) + 1, 0).pc = "free"
        BY <1>1, <2>1 DEF RunRound, Free, OpenVoteSets, EngineState
      <4> QED  BY <2>0, <3>2, <4>1
    <3> QED  BY <2>1, <3>1, <3>2 DEF RunRound
  <2>2. CASE BuildBlock(n)
    <3>1. PICK blk \in Block, p \in {"announce", "reannounce"} :
            eng' = [eng EXCEPT ![n] = [eng[n] EXCEPT !.proposed = blk, !.pc = p]]
      BY Zenon, <1>1, <2>2 DEF BuildBlock
    <3> QED  BY <1>1, <3>1 DEF TypeOK, EngineState
  <2>3. CASE BroadcastProposal(n) \/ FinishProposal(n)
    <3>1. CASE eng' = [eng EXCEPT ![n].pc = "free"]
      BY <1>1, <3>1 DEF TypeOK, EngineState
    <3> DEFINE e == [OpenVoteSets(eng[n], cons[n].height, cons[n].round) EXCEPT !.pc = "free"]
    <3>2. CASE eng' = [eng EXCEPT ![n] = e]
      <4>1. e.pc = "free"
        BY <1>1 DEF OpenVoteSets, EngineState
      <4> QED  BY <2>0, <3>2, <4>1
    <3> QED  BY <2>3, <3>1, <3>2 DEF BroadcastProposal, FinishProposal
  <2>4. CASE HandleProposal(n)
    <3>1. CASE UNCHANGED eng
      BY <3>1
    <3>2. CASE ~ UNCHANGED eng
      <4> DEFINE e(m) == [OpenVoteSets(eng[n], m.height, m.round) EXCEPT
                            !.proposed = m.block, !.pc = "prevote"]
      <4>1. PICK m \in msgs : eng' = [eng EXCEPT ![n] = e(m)]
        BY Zenon, <2>4, <3>2 DEF HandleProposal
      <4>2. e(m).pc = "prevote"
        BY <1>1 DEF OpenVoteSets, EngineState
      <4> QED  BY <2>0, <4>1, <4>2
    <3> QED  BY <3>1, <3>2
  <2>5. ASSUME NEW f, NEW c, NextRound(n, f, c) PROVE P
    <3> DEFINE z(p) == [[ClearRound(eng[n]) EXCEPT !.timeouts = c] EXCEPT !.pc = p]
    <3>1. \/ eng' = [eng EXCEPT ![n] = z("repropose")]
          \/ eng' = [eng EXCEPT ![n] = z("free")]
      BY <2>5 DEF NextRound
    <3>2. z("repropose").pc = "repropose" /\ z("free").pc = "free"
      BY <1>1 DEF ClearRound, EngineState
    <3> QED  BY Zenon, <2>0, <3>1, <3>2
  <2>6. CASE HandleRoundTimeout(n)
    <3>1. CASE eng' = [eng EXCEPT ![n].timeouts = 0]
      BY <1>1, <2>6, <3>1 DEF HandleRoundTimeout, Free, TypeOK, EngineState
    <3>2. CASE eng' = [eng EXCEPT ![n] = [eng[n] EXCEPT
                 !.pc = "resync", !.timeouts = 0, !.mark = LatestHeight(n)]]
      BY <1>1, <3>2 DEF TypeOK, EngineState
    <3> QED  BY <2>5, <2>6, <3>1, <3>2 DEF HandleRoundTimeout
  <2>7. CASE Resync(n)
    <3>1. CASE eng' = [eng EXCEPT ![n] = [ClearRound(eng[n]) EXCEPT !.pc = "free"]]
      BY <1>1, <3>1 DEF ClearRound, TypeOK, EngineState
    <3> QED  BY <2>5, <2>7, <3>1 DEF Resync
  <2>8. ASSUME NEW m, NEW js, Free(n), CountPrevote(n, m, js) PROVE P
    BY <1>1, <2>8 DEF CountPrevote, Free, TypeOK, EngineState
  <2>9. ASSUME NEW m, Free(n), CountPrecommit(n, m) PROVE P
    <3> DEFINE vs == AddVote(eng[n].precommits, m.height, m.round, m.from, m.block)
               e1 == [eng[n] EXCEPT !.precommits = vs, !.pc = "commit", !.timeouts = 0]
               e2 == [eng[n] EXCEPT !.precommits = vs]
    <3>1. \/ UNCHANGED eng
          \/ eng' = [eng EXCEPT ![n] = e1]
          \/ eng' = [eng EXCEPT ![n] = e2]
      BY <2>9 DEF CountPrecommit
    <3>2. e1.pc = "commit" /\ e2.pc = "free"
      BY <1>1, <2>9 DEF Free, EngineState
    <3> HIDE DEF e1, e2
    <3> QED  BY <2>0, <3>1, <3>2
  <2>10. CASE HandleVote(n)
    BY <2>8, <2>9, <2>10 DEF HandleVote, Take
  <2>11. CASE CastVote(n)
    BY <2>8, <2>9, <2>11 DEF CastVote
  <2>12. CASE FinalValidation(n)
    BY <1>1, <2>12 DEF FinalValidation, CommitFails, TypeOK, EngineState
  <2>13. CASE TimerFires(n)
    BY <2>13 DEF TimerFires
  <2> QED  BY <2>1, <2>2, <2>3, <2>4, <2>6, <2>7, <2>10, <2>11, <2>12, <2>13
<1> QED  BY <1>1, <1>2, <1>3, <1>4, <1>5, <1>6, <1>7 DEF HeightStep

\* AddBlock never lowers the tip and raises it to the block that is added.
LEMMA AddBlockHeights ==
  ASSUME TypeOK, NEW n \in Engines, NEW e \in Entry, chain' = AddBlock(n, e)
  PROVE  /\ \A m \in Engines : LatestHeight(m) <= LatestHeight(m)'
         /\ e.block.height <= LatestHeight(n)'
<1>1. \A m \in Engines : LatestHeight(m) \in Nat
  BY FieldTypes
<1>2. e.block.height \in Nat
  BY ConsensusAssumption DEF Entry
<1>3. \A m \in Engines : chain'[m].tip =
        IF m = n /\ e.block.height > chain[m].tip.height THEN e.block ELSE chain[m].tip
  BY DEF AddBlock, TypeOK
<1> QED  BY <1>1, <1>2, <1>3 DEF LatestHeight, Tip

\* The end of a commit is a HeightStep.
LEMMA CommitHeights ==
  ASSUME TypeInv, AheadInv, NEW n \in Engines, CommitBlock(n) \/ NextHeight(n)
  PROVE  HeightStep
<1>1. TypeOK /\ eng[n] \in EngineState /\ UNCHANGED <<jobs, app, msgs>>
      /\ \A m \in Engines : LatestHeight(m) \in Nat
  BY FieldTypes DEF TypeInv, CommitBlock, NextHeight
<1>2. CASE CommitBlock(n)
  <2>1. /\ \A m \in Engines : LatestHeight(m) <= LatestHeight(m)'
        /\ chain' # chain => eng[n].proposed.height <= LatestHeight(n)'
    <3>1. Certificate(n) \in Entry /\ Certificate(n).block = eng[n].proposed
      BY <1>2, CertificateType DEF CommitBlock, Certificate
    <3>2. CASE UNCHANGED chain
      BY <1>1, <3>2 DEF LatestHeight, Tip
    <3>3. CASE chain' = AddBlock(n, Certificate(n))
      BY <1>1, <3>1, <3>3, AddBlockHeights
    <3> QED  BY <1>2, <3>2, <3>3 DEF CommitBlock
  <2>2. \A m \in Engines : cons'[m].height = cons[m].height
    BY <1>1, <1>2 DEF CommitBlock, CommitFails, IncrementRound, TypeOK, ConsState
  <2>3. \A m \in Engines : eng'[m].pc = "advance" =>
          \/ eng'[m] = eng[m]
          \/ eng'[m].proposed.height <= LatestHeight(m)'
    <3>1. CASE /\ chain' = AddBlock(n, Certificate(n))
               /\ eng' = [eng EXCEPT ![n].pc = "advance"]
      <4>1. eng'[n].proposed = eng[n].proposed /\ \A m \in Engines : m # n => eng'[m] = eng[m]
        BY <1>1, <3>1 DEF TypeOK, EngineState
      <4>2. Certificate(n) \in Entry /\ Certificate(n).block = eng[n].proposed
        BY <1>2, CertificateType DEF CommitBlock, Certificate
      <4>3. eng[n].proposed.height <= LatestHeight(n)'
        BY <1>1, <3>1, <4>2, AddBlockHeights
      <4> QED  BY <4>1, <4>3
    <3>2. CASE eng' = [eng EXCEPT ![n].pc = "free"]
      BY <1>1, <3>2 DEF TypeOK, EngineState
    <3> QED  BY <1>2, <3>1, <3>2 DEF CommitBlock, CommitFails
  <2> QED  BY <1>1, <2>1, <2>2, <2>3 DEF HeightStep
<1>3. CASE NextHeight(n)
  <2>1. \A m \in Engines : LatestHeight(m)' = LatestHeight(m)
    BY <1>3 DEF NextHeight, LatestHeight, Tip
  <2>2. eng[n].proposed.height \in Nat /\ eng[n].proposed.height <= LatestHeight(n)
    BY <1>3, ConsensusAssumption DEF NextHeight, TypeInv, PcOK, AheadInv
  <2>3. \A m \in Engines :
          cons'[m].height = cons[m].height \/ cons'[m].height <= LatestHeight(m) + 1
    BY <1>1, <1>3, <2>2 DEF NextHeight, UpdateHeight, TypeOK, ConsState
  <2>4. \A m \in Engines : eng'[m].pc = "advance" => eng'[m] = eng[m]
    <3> DEFINE e == [ClearRound(eng[n]) EXCEPT !.pc = "free"]
    <3>1. e.pc = "free" /\ eng' = [eng EXCEPT ![n] = e]
      BY <1>1, <1>3 DEF NextHeight, ClearRound, EngineState
    <3> HIDE DEF e
    <3> QED  BY <1>1, <3>1 DEF TypeOK
  <2> QED  BY <1>1, <2>1, <2>3, <2>4 DEF HeightStep
<1> QED  BY <1>2, <1>3

\* The steps of the block handler are HeightSteps.
LEMMA HandlerHeights ==
  ASSUME TypeInv, AheadInv, NEW n \in Engines,
         ReceiveBlock(n) \/ HandlerAdds(n) \/ HandlerUpdates(n)
  PROVE  HeightStep
<1>1. /\ TypeOK /\ app[n] \in AppState /\ UNCHANGED <<eng, jobs, msgs>>
      /\ \A m \in Engines : LatestHeight(m) \in Nat
  BY Zenon, FieldTypes DEF TypeInv, ReceiveBlock, HandlerAdds, HandlerUpdates
<1>2. CASE ReceiveBlock(n)
  <2>1. UNCHANGED <<chain, cons>>
    BY <1>2 DEF ReceiveBlock
  <2>2. \A m \in Engines : \A w \in app'[m].running : w \in app[m].running \/ w.pc = "add"
    <3>1. PICK e \in announced :
            \/ app' = [app EXCEPT ![n].pending[e.block.height] = e]
            \/ app' = [app EXCEPT ![n].running = @ \cup {Worker(e, "add")}]
            \/ app' = app
      BY <1>2 DEF ReceiveBlock
    <3>2. Worker(e, "add").pc = "add"
      BY DEF Worker
    <3>3. CASE app' = [app EXCEPT ![n].pending[e.block.height] = e]
      BY <1>1, <3>3 DEF TypeOK, AppState
    <3>4. CASE app' = [app EXCEPT ![n].running = @ \cup {Worker(e, "add")}]
      BY <1>1, <3>2, <3>4 DEF TypeOK, AppState
    <3> QED  BY <3>1, <3>3, <3>4
  <2>3. \A m \in Engines : LatestHeight(m)' = LatestHeight(m)
    BY <2>1 DEF LatestHeight, Tip
  <2> QED  BY <1>1, <2>1, <2>2, <2>3 DEF HeightStep
<1>3. CASE HandlerAdds(n)
  <2>1. PICK w \in app[n].running :
          \/ /\ chain' = AddBlock(n, w.entry)
             /\ app' = [app EXCEPT ![n].running =
                          (app[n].running \ {w}) \cup {Worker(w.entry, "update")}]
          \/ /\ UNCHANGED chain
             /\ app' = [app EXCEPT ![n].running = app[n].running \ {w}]
    BY <1>3 DEF HandlerAdds
  <2>2. w.entry \in Entry /\ Worker(w.entry, "update").entry = w.entry
    BY <1>1 DEF AppState, Worker
  <2>3. UNCHANGED cons
    BY <1>3 DEF HandlerAdds
  <2>4. CASE /\ chain' = AddBlock(n, w.entry)
             /\ app' = [app EXCEPT ![n].running =
                          (app[n].running \ {w}) \cup {Worker(w.entry, "update")}]
    <3>1. \A m \in Engines : app'[m].running \subseteq app[m].running
            \cup (IF m = n THEN {Worker(w.entry, "update")} ELSE {})
      BY <1>1, <2>4 DEF TypeOK, AppState
    <3>2. /\ \A m \in Engines : LatestHeight(m) <= LatestHeight(m)'
          /\ w.entry.block.height <= LatestHeight(n)'
      BY <1>1, <2>2, <2>4, AddBlockHeights
    <3> QED  BY <1>1, <2>2, <2>3, <3>1, <3>2 DEF HeightStep
  <2>5. CASE /\ UNCHANGED chain
             /\ app' = [app EXCEPT ![n].running = app[n].running \ {w}]
    <3>1. \A m \in Engines : app'[m].running \subseteq app[m].running
      BY <1>1, <2>5 DEF TypeOK, AppState
    <3>2. \A m \in Engines : LatestHeight(m)' = LatestHeight(m)
      BY <2>5 DEF LatestHeight, Tip
    <3> QED  BY <1>1, <2>3, <3>1, <3>2 DEF HeightStep
  <2> QED  BY <2>1, <2>4, <2>5
<1>4. CASE HandlerUpdates(n)
  <2>1. PICK w \in app[n].running :
          LET h    == w.entry.block.height + 1
              next == IF h \in Heights THEN app[n].pending[h] ELSE None
              rest == app[n].running \ {w}
          IN /\ w.pc = "update" /\ cons' = UpdateHeight(n, h) /\ UNCHANGED chain
             /\ \/ app' = [app EXCEPT ![n].running = rest]
                \/ app' = [app EXCEPT ![n] =
                     [running |-> IF ValidateCommitted(n, next)
                                  THEN rest \cup {Worker(next, "add")} ELSE rest,
                      pending |-> [@.pending EXCEPT ![h] = None]]]
    BY Zenon, <1>4 DEF HandlerUpdates
  <2>2. \A m \in Engines : LatestHeight(m)' = LatestHeight(m)
    BY <2>1 DEF LatestHeight, Tip
  <2>3. w.entry.block.height \in Nat /\ w.entry.block.height <= LatestHeight(n)
    BY <1>1, <2>1, ConsensusAssumption DEF AppState, Entry, AheadInv
  <2>4. \A m \in Engines :
          cons'[m].height = cons[m].height \/ cons'[m].height <= LatestHeight(m) + 1
    <3>1. cons' = UpdateHeight(n, w.entry.block.height + 1) /\ cons \in [Engines -> ConsState]
      BY Zenon, <1>1, <2>1 DEF TypeOK
    <3>2. LatestHeight(n) \in Nat
      BY Zenon, <1>1
    <3> QED  BY <2>3, <3>1, <3>2 DEF UpdateHeight
  <2>5. \A x, p : Worker(x, p).pc = p
    BY DEF Worker
  <2>6. \A m \in Engines : \A x \in app'[m].running : x \in app[m].running \/ x.pc = "add"
    <3> DEFINE h    == w.entry.block.height + 1
               next == IF h \in Heights THEN app[n].pending[h] ELSE None
               rest == app[n].running \ {w}
               r    == IF ValidateCommitted(n, next)
                       THEN rest \cup {Worker(next, "add")} ELSE rest
               a    == [running |-> r, pending |-> [app[n].pending EXCEPT ![h] = None]]
    <3>1. \A x \in r : x \in app[n].running \/ x.pc = "add"
      BY <2>5
    <3>2. \/ app' = [app EXCEPT ![n].running = rest]
          \/ app' = [app EXCEPT ![n] = a]
      BY Zenon, <2>1
    <3>3. a.running = r
      OBVIOUS
    <3>4. CASE app' = [app EXCEPT ![n].running = rest]
      BY <1>1, <3>4 DEF TypeOK, AppState
    <3>5. CASE app' = [app EXCEPT ![n] = a]
      <4> HIDE DEF a, r
      <4> QED  BY <1>1, <3>1, <3>3, <3>5 DEF TypeOK
    <3> QED  BY Zenon, <3>2, <3>4, <3>5
  <2> QED  BY <1>1, <2>2, <2>4, <2>6 DEF HeightStep
<1> QED  BY <1>2, <1>3, <1>4

\* A restart is a HeightStep.
LEMMA RestartHeights ==
  ASSUME TypeInv, NEW n \in Engines, Restart(n) PROVE HeightStep
<1>1. TypeOK /\ UNCHANGED <<chain, msgs>> /\ \A m \in Engines : LatestHeight(m) \in Nat
  BY FieldTypes DEF TypeInv, Restart
<1>2. \A m \in Engines : LatestHeight(m)' = LatestHeight(m)
  BY <1>1 DEF LatestHeight, Tip
<1>3. \A m \in Engines :
        cons'[m].height = cons[m].height \/ cons'[m].height = LatestHeight(m) + 1
  BY <1>1 DEF Restart, UpdateHeight, TypeOK, ConsState
<1>4. \A m \in Engines : /\ jobs'[m] \subseteq jobs[m]
                         /\ app'[m].running \subseteq app[m].running
                         /\ eng'[m] = eng[m] \/ eng'[m].pc = "free"
  BY <1>1 DEF Restart, EngineInit, TypeOK
<1> QED  BY <1>1, <1>2, <1>3, <1>4 DEF HeightStep

\* Every step keeps AheadInv.
LEMMA NextAhead == TypeInv /\ TypeInv' /\ AheadInv /\ [Next]_vars => AheadInv'
<1> SUFFICES ASSUME TypeInv, TypeInv', AheadInv, [Next]_vars PROVE HeightStep
  BY HeightStepKeeps
<1>1. CASE UNCHANGED vars \/ RemoteCommit \/ \E n \in Engines : ForgetSeen(n)
  <2>1. UNCHANGED <<chain, cons, eng, jobs, app, msgs>>
    BY Zenon, <1>1 DEF vars, RemoteCommit, ForgetSeen
  <2>2. \A m \in Engines : LatestHeight(m) \in Nat /\ LatestHeight(m)' = LatestHeight(m)
    BY <2>1, FieldTypes DEF TypeInv, LatestHeight, Tip
  <2> QED  BY <2>1, <2>2 DEF HeightStep
<1>2. ASSUME NEW n \in Engines,
             \/ RunRound(n) \/ BuildBlock(n) \/ BroadcastProposal(n) \/ HandleProposal(n)
             \/ FinishProposal(n) \/ TimerFires(n) \/ HandleRoundTimeout(n) \/ Resync(n)
             \/ HandleVote(n) \/ CastVote(n) \/ FinalValidation(n)
      PROVE  HeightStep
  BY <1>2, EngineHeights
<1>3. ASSUME NEW n \in Engines,
             \/ CommitBlock(n) \/ NextHeight(n) \/ ReceiveBlock(n) \/ HandlerAdds(n)
             \/ HandlerUpdates(n) \/ Restart(n)
      PROVE  HeightStep
  BY <1>3, CommitHeights, HandlerHeights, RestartHeights
<1> QED  BY <1>1, <1>2, <1>3 DEF Next

LEMMA InitAhead == Init => AheadInv
  BY ConsensusAssumption DEF Init, EngineInit, AheadInv, ConsensusNotAhead,
                             LatestHeight, Tip

\* The engine is never more than one height above its chain, and neither is any
\* vote or proposal it sends, although three goroutines move its height.
THEOREM NotAhead == Spec => []ConsensusNotAhead
<1>1. AheadInv => ConsensusNotAhead
  BY DEF AheadInv
<1> QED  BY InitTypeInv, NextTypeInv, InitAhead, NextAhead, <1>1, PTL DEF Spec

-----------------------------------------------------------------------------
(* The proposers of the rounds to come.                                    *)

\* Division has one remainder.
LEMMA OneRemainder ==
  ASSUME NEW d \in Nat \ {0}, NEW p \in Int, NEW q \in Int,
         NEW j \in 0 .. d - 1, NEW k \in 0 .. d - 1, p * d + j = q * d + k
  PROVE  j = k
<1>1. (p - q) * d = k - j /\ (q - p) * d = j - k
  OBVIOUS
<1>2. CASE p - q >= 1
  <2>1. (p - q) * d >= d
    BY <1>2
  <2> QED  BY <1>1, <2>1
<1>3. CASE q - p >= 1
  <2>1. (q - p) * d >= d
    BY <1>3
  <2> QED  BY <1>1, <2>1
<1>4. CASE p = q
  BY <1>4
<1> QED  BY <1>2, <1>3, <1>4

LEMMA Division ==
  ASSUME NEW d \in Nat \ {0}, NEW x \in Int
  PROVE  x % d \in 0 .. d - 1 /\ x \div d \in Int /\ x = (x \div d) * d + (x % d)
  OBVIOUS

\* Any d numbers in a row meet every remainder.
Met(d, b, r, k) == \E i \in r + 1 .. r + d : (b + i) % d = k

LEMMA RemainderMet ==
  ASSUME NEW d \in Nat \ {0}, NEW b \in Nat, NEW r \in Nat, NEW k \in 0 .. d - 1
  PROVE  Met(d, b, r, k)
<1> DEFINE x == b + (r + 1)
           e == (k - x) % d
           p == (k - x) \div d
           j == (x + e) % d
           q == (x + e) \div d
<1>1. x \in Int /\ k - x \in Int
  OBVIOUS
<1>2. e \in 0 .. d - 1 /\ p \in Int /\ k - x = p * d + e
  BY Zenon, <1>1, Division
<1> HIDE DEF x, e, p
<1>3. x + e \in Int
  BY <1>1, <1>2
<1>4. j \in 0 .. d - 1 /\ q \in Int /\ x + e = q * d + j
  BY Zenon, <1>3, Division
<1> HIDE DEF j, q
<1>5. q * d + j = (-p) * d + k
  BY <1>1, <1>2, <1>4
<1>6. j = k
  <2>1. -p \in Int
    BY <1>2
  <2> QED  BY Zenon, <1>4, <1>5, <2>1, OneRemainder
<1>7. (r + 1) + e \in r + 1 .. r + d /\ b + ((r + 1) + e) = x + e
  BY <1>2 DEF x
<1> QED  BY Zenon, <1>6, <1>7 DEF j, Met

LEMMA OrderIsOnto ==
  ASSUME Validators # {}
  PROVE  /\ N \in Nat \ {0} /\ \A i \in 1 .. N : Order[i] \in Validators
         /\ \A v \in Validators : \E i \in 1 .. N : Order[i] = v
<1>1. Order \in Seq(Validators) /\ N \in Nat /\ DOMAIN Order = 1 .. N
  BY VotingAssumption DEF N
<1>2. \A v \in Validators : \E i \in 1 .. N : Order[i] = v
  BY Zenon, <1>1, VotingAssumption
<1> QED  BY <1>1, <1>2

\* A round-robin from any start: N rounds in a row give everyone a turn.
LEMMA RoundRobin ==
  ASSUME Validators # {}, NEW b \in Nat, NEW r \in Nat
  PROVE  {Order[((b + i) % N) + 1] : i \in r + 1 .. r + N} = Validators
<1>1. /\ N \in Nat \ {0} /\ \A i \in 1 .. N : Order[i] \in Validators
      /\ \A v \in Validators : \E i \in 1 .. N : Order[i] = v
  BY OrderIsOnto
<1>2. ASSUME NEW i \in r + 1 .. r + N  PROVE Order[((b + i) % N) + 1] \in Validators
  <2>1. (b + i) % N \in 0 .. N - 1
    BY <1>1, Division
  <2>2. ((b + i) % N) + 1 \in 1 .. N
    BY <1>1, <2>1
  <2> QED  BY Zenon, <1>1, <2>2
<1>3. ASSUME NEW v \in Validators
      PROVE  \E i \in r + 1 .. r + N : Order[((b + i) % N) + 1] = v
  <2>1. PICK k \in 1 .. N : Order[k] = v
    BY Zenon, <1>1
  <2>2. k - 1 \in 0 .. N - 1 /\ (k - 1) + 1 = k
    BY <1>1
  <2>3. PICK i \in r + 1 .. r + N : (b + i) % N = k - 1
    <3>1. Met(N, b, r, k - 1)
      BY Zenon, <1>1, <2>2, RemainderMet
    <3> QED  BY Zenon, <3>1 DEF Met
  <2> QED  BY Zenon, <2>1, <2>2, <2>3
<1> QED  BY Zenon, <1>2, <1>3

\* The height index has an entry for the tip.
TipStored == \A n \in Engines : chain[n].index[LatestHeight(n)] # None

LEMMA NextTip == TypeInv /\ TipStored /\ [Next]_vars => TipStored'
<1> SUFFICES ASSUME TypeOK, TipStored, ChainStep PROVE TipStored'
  BY ChainSteps DEF TypeInv
<1>1. CASE UNCHANGED chain
  BY Zenon, <1>1 DEF TipStored, LatestHeight, Tip
<1>2. ASSUME NEW n \in Engines, NEW e \in Entry, chain' = AddBlock(n, e)  PROVE TipStored'
  <2> SUFFICES ASSUME NEW m \in Engines  PROVE chain'[m].index[chain'[m].tip.height] # None
    BY Zenon DEF TipStored, LatestHeight, Tip
  <2>1. chain[m].index[chain[m].tip.height] # None
    BY Zenon DEF TipStored, LatestHeight, Tip
  <2>2. CASE m # n
    <3>1. chain'[m] = chain[m]
      BY <1>2, <2>2 DEF AddBlock, TypeOK
    <3> QED  BY Zenon, <2>1, <3>1
  <2>3. CASE m = n
    <3>1. /\ chain'[m].index = [chain[m].index EXCEPT ![e.block.height] = e]
          /\ chain'[m].tip = IF e.block.height > chain[m].tip.height THEN e.block ELSE chain[m].tip
      BY <1>2, <2>3 DEF AddBlock, TypeOK
    <3>2. /\ chain[m].index \in [Heights -> Entry \cup {None}]
          /\ e.block.height \in Heights /\ chain[m].tip.height \in Heights
      BY FieldTypes DEF ChainState, Entry, Heights, LatestHeight, Tip
    <3>3. e # None
      BY Zenon, NilAssumption
    <3> QED  BY <2>1, <3>1, <3>2, <3>3
  <2> QED  BY <2>2, <2>3
<1> QED  BY <1>1, <1>2 DEF ChainStep

\* From any state on, N timeouts in a row give every validator a round to propose
\* in, whatever the hashes are (SelectProposer, and SelectProposerHybrid from
\* round 1 on), for any set of validators.
THEOREM EveryoneGetsARound == Spec => []EveryoneProposes
<1>1. TypeInv /\ AheadInv /\ TipStored => EveryoneProposes
  <2> SUFFICES ASSUME TypeInv, AheadInv, TipStored, NEW n \in Engines
               PROVE  LET h    == cons[n].height
                          r    == cons[n].round
                          next == r + 1 .. r + N
                      IN /\ {SelectProposer(h, i) : i \in next} = Validators
                         /\ {SelectProposerHybrid(h, i, PrevHash(n)) : i \in next} = Validators
    BY Zenon DEF EveryoneProposes
  <2> DEFINE h    == cons[n].height
             r    == cons[n].round
             prev == PrevHash(n)
             next == r + 1 .. r + N
  <2>1. /\ h \in Nat /\ r \in Nat /\ Validators # {}
        /\ chain[n].tip \in Block /\ LatestHeight(n) \in Nat /\ LatestHeight(n) \in Heights
        /\ chain[n].index \in [Heights -> Entry \cup {None}]
    BY FieldTypes, ConsensusAssumption DEF TypeInv, ConsState, ChainState
  <2>2. h <= chain[n].tip.height + 1 /\ chain[n].tip.height \in Nat
    BY <2>1 DEF AheadInv, ConsensusNotAhead, LatestHeight, Tip
  <2>3. prev \in Block \cup {None}
    <3>1. chain[n].index[LatestHeight(n)] \in Entry
      BY Zenon, <2>1 DEF TipStored
    <3>2. BlockAt(n, LatestHeight(n)) \in Block
      BY <3>1 DEF BlockAt, Entry
    <3> QED  BY Zenon, <3>2 DEF PrevHash
  <2>4. Base(prev, h) \in Nat
    <3>1. h \in 0 .. chain[n].tip.height + 1
      BY <2>1, <2>2
    <3> QED  BY Zenon, <2>1, <2>3, <3>1, HashAssumption
  <2> HIDE DEF h, r, prev
  <2>5. {SelectProposer(h, i) : i \in next} = Validators
    BY Zenon, <2>1, RoundRobin DEF SelectProposer
  <2>6. {SelectProposerHybrid(h, i, prev) : i \in next} = Validators
    <3> DEFINE b == Base(prev, h) % N
    <3>1. b \in Nat
      <4>1. N \in Nat \ {0}
        BY Zenon, <2>1, OrderIsOnto
      <4> QED  BY <2>4, <4>1, Division
    <3>2. \A i \in next : SelectProposerHybrid(h, i, prev) = Order[((b + i) % N) + 1]
      <4>1. \A i \in next : i # 0
        BY <2>1
      <4> QED  BY Zenon, <4>1 DEF SelectProposerHybrid
    <3>3. {Order[((b + i) % N) + 1] : i \in next} = Validators
      BY Zenon, <2>1, <3>1, RoundRobin
    <3> HIDE DEF b, next
    <3> QED  BY Zenon, <3>2, <3>3
  <2> QED  BY Zenon, <2>5, <2>6 DEF h, r, prev
<1>2. Init => TipStored
  BY NilAssumption, ConsensusAssumption DEF Init, TipStored, LatestHeight, Tip, Entry, NoSigs, Sigs, Heights
<1> QED  BY InitTypeInv, NextTypeInv, InitAhead, NextAhead, NextTip, <1>1, <1>2, PTL DEF Spec

-----------------------------------------------------------------------------
(* Certificates.                                                           *)

\* The entries node n has validated or keeps, and may add to its chain later.
InFlight(n) ==
  {w.entry : w \in app[n].running}
    \cup {app[n].pending[h] : h \in Heights}
    \cup {e \in Entry : eng[n].pc = "add" /\ e = Certificate(n)}

Known == Committed \cup UNION {InFlight(n) : n \in Engines}

\* A precommit set holds only votes that were sent.
VotesSent(vs) ==
  \A v \in Validators : \A blk \in Block :
    vs \in VoteSet /\ vs.votes[v] = blk => Precommitted(v, blk)

CertInv ==
  /\ \A e \in Known \ {None} : Certified(e)
  /\ \A n \in Engines : VotesSent(eng[n].precommits)

LEMMA KnownKept ==
  ASSUME UNCHANGED <<chain, eng, app, announced>>
  PROVE  Known' = Known
<1>1. chain' = chain /\ announced' = announced
  BY Zenon
<1>2. \A m \in Engines : InFlight(m)' = InFlight(m)
  BY Zenon DEF InFlight, Certificate
<1>3. Committed' = Committed
  BY <1>1 DEF Committed
<1> QED  BY Zenon, <1>2, <1>3 DEF Known

\* Messages are never forgotten, so what is certified stays certified.
LEMMA CertifiedStable ==
  ASSUME NEW e, msgs \subseteq msgs', Certified(e)
  PROVE  Certified(e)'
<1> DEFINE S == {v \in Validators : e.sigs[v] = e.block /\ Precommitted(v, e.block)}
           T == {v \in Validators : e.sigs[v] = e.block /\ Precommitted(v, e.block)'}
<1>1. S \in SUBSET Validators /\ T \in SUBSET Validators /\ S \subseteq T
  BY DEF Precommitted
<1>2. TwoThirds(S)
  BY DEF Certified
<1>3. PowerOf[S] \in Nat /\ PowerOf[T] \in Nat /\ PowerOf[Validators] \in Nat
  BY <1>1, PowerAssumption
<1>4. PowerOf[S] <= PowerOf[T]
  BY <1>1, PowerMonotone
<1> HIDE DEF S, T
<1>5. TwoThirds(T)
  BY <1>2, <1>3, <1>4 DEF TwoThirds, TotalVotingPower
<1> QED  BY <1>5 DEF T, Certified

\* The same for the votes of a precommit set.
LEMMA VotesSentStable ==
  ASSUME NEW vs, msgs \subseteq msgs', VotesSent(vs)
  PROVE  VotesSent(vs)'
  BY DEF VotesSent, Precommitted

\* ValidateCommitSignatures makes a certificate of signatures that were sent.
LEMMA ValidatedCertified ==
  ASSUME NEW blk \in Block, NEW sigs \in Sigs, ValidateCommitSignatures(blk, sigs),
         \A v \in Validators : sigs[v] = blk => Precommitted(v, blk)
  PROVE  Certified([block |-> blk, sigs |-> sigs])
<1>1. Voters(sigs) = {v \in Validators : sigs[v] = blk /\ Precommitted(v, blk)}
  BY ConsensusAssumption DEF ValidateCommitSignatures, Voters
<1> QED  BY <1>1 DEF ValidateCommitSignatures, Certified

\* A step that changes only the engine of n, does not pass the final validation
\* and puts only votes that were sent into the precommit set.
LEMMA EngineStep ==
  ASSUME TypeOK, CertInv, NEW n \in Engines, UNCHANGED <<chain, app, announced>>,
         msgs \subseteq msgs',
         NEW e, eng' = [eng EXCEPT ![n] = e], e.pc # "add", VotesSent(e.precommits)'
  PROVE  CertInv'
<1>1. \A m \in Engines : eng'[m] = IF m = n THEN e ELSE eng[m]
  BY DEF TypeOK
<1>2. Known' \subseteq Known
  BY <1>1 DEF Known, InFlight, Committed, Certificate
<1>3. \A x \in Known' \ {None} : Certified(x)'
  BY <1>2, CertifiedStable DEF CertInv
<1>4. \A m \in Engines : VotesSent(eng[m].precommits)'
  BY <1>1, VotesSentStable DEF CertInv, VotesSent, Precommitted
<1> QED  BY <1>3, <1>4 DEF CertInv

\* The precommit sets the handlers leave behind: the old one, none, a new one.
LEMMA SetKept ==
  ASSUME CertInv, NEW n \in Engines, msgs \subseteq msgs', NEW vs,
         \/ vs = eng[n].precommits
         \/ vs = None
         \/ \E h, r \in Nat : vs = NewVoteSet(h, r)
  PROVE  VotesSent(vs)'
<1>1. CASE vs = eng[n].precommits
  BY <1>1, VotesSentStable DEF CertInv, VotesSent, Precommitted
<1>2. CASE vs = None
  BY <1>2, NilAssumption DEF VotesSent
<1>3. CASE \E h, r \in Nat : vs = NewVoteSet(h, r)
  BY <1>3, ConsensusAssumption DEF VotesSent, NewVoteSet
<1> QED  BY <1>1, <1>2, <1>3

\* AddVote of a precommit that was sent.
LEMMA SetExtended ==
  ASSUME TypeOK, CertInv, NEW n \in Engines, msgs \subseteq msgs', NEW m \in msgs',
         m.type = Precommit, m.from \in Validators, m.block \in Block,
         eng[n].precommits \in VoteSet, NEW vs,
         vs = AddVote(eng[n].precommits, m.height, m.round, m.from, m.block)
  PROVE  VotesSent(vs)'
<1> DEFINE old == eng[n].precommits
<1>1. vs \in VoteSet /\ \A v \in Validators :
        vs.votes[v] = old.votes[v] \/ (v = m.from /\ vs.votes[v] = m.block)
  <2>1. old \in VoteSet
    OBVIOUS
  <2> HIDE DEF old
  <2>2. vs = AddVote(old, m.height, m.round, m.from, m.block)
    BY DEF old
  <2>3. vs \in VoteSet
    BY <2>1, <2>2, AddVoteType
  <2>4. vs = old \/ vs = [old EXCEPT !.votes[m.from] = m.block]
    BY Zenon, <2>2 DEF AddVote
  <2>5. old.votes = [v \in Validators |-> old.votes[v]]
    BY <2>1 DEF VoteSet, Sigs
  <2>6. ASSUME vs = [old EXCEPT !.votes[m.from] = m.block]
        PROVE  vs.votes = [old.votes EXCEPT ![m.from] = m.block]
    BY <2>1, <2>6 DEF VoteSet
  <2> QED  BY <2>3, <2>4, <2>5, <2>6
<1>2. \A v \in Validators : \A blk \in Block : old.votes[v] = blk => Precommitted(v, blk)'
  BY DEF CertInv, VotesSent, Precommitted
<1>3. Precommitted(m.from, m.block)'
  BY DEF Precommitted
<1> HIDE DEF old
<1> QED  BY <1>1, <1>2, <1>3 DEF VotesSent, Precommitted

\* The handlers that leave the precommit set alone, clear it or open a new one.
LEMMA QuietSteps ==
  ASSUME TypeInv, CertInv, NEW n \in Engines,
         \/ RunRound(n) \/ BuildBlock(n) \/ BroadcastProposal(n) \/ HandleProposal(n)
         \/ FinishProposal(n) \/ NextHeight(n) \/ TimerFires(n)
         \/ HandleRoundTimeout(n) \/ Resync(n)
  PROVE  CertInv'
<1>1. TypeOK /\ eng[n] \in EngineState /\ cons[n] \in ConsState /\ LatestHeight(n) \in Nat
  BY FieldTypes DEF TypeInv
<1>2. UNCHANGED <<chain, app, announced>> /\ msgs \subseteq msgs'
  BY Zenon DEF RunRound, BuildBlock, BroadcastProposal, HandleProposal, FinishProposal,
         NextHeight, TimerFires, HandleRoundTimeout, Resync
<1> DEFINE Kept(e) == \/ e.precommits = eng[n].precommits
                      \/ e.precommits = None
                      \/ \E h, r \in Nat : e.precommits = NewVoteSet(h, r)
           Goal == \E e : /\ eng' = [eng EXCEPT ![n] = e]
                          /\ e.pc # "add" \/ e = eng[n]
                          /\ Kept(e)
<1>a. ASSUME Goal PROVE CertInv'
  <2>1. PICK e : /\ eng' = [eng EXCEPT ![n] = e]
                 /\ e.pc # "add" \/ e = eng[n]
                 /\ Kept(e)
    BY Zenon, <1>a
  <2>2. VotesSent(e.precommits)'
    BY <1>2, <2>1, SetKept
  <2>3. CASE e.pc # "add"
    BY Zenon, <1>1, <1>2, <2>1, <2>2, <2>3, EngineStep
  <2>4. CASE e = eng[n]
    <3>1. eng' = eng
      BY <1>1, <2>1, <2>4 DEF TypeOK
    <3>2. Known' = Known
      BY <1>2, <3>1, KnownKept
    <3>3. \A x \in Known' \ {None} : Certified(x)'
      BY <1>2, <3>2, CertifiedStable DEF CertInv
    <3>4. \A m \in Engines : VotesSent(eng[m].precommits)'
      <4> SUFFICES ASSUME NEW m \in Engines  PROVE VotesSent(eng[m].precommits)'
        BY Zenon
      <4>1. PICK vs : vs = eng[m].precommits /\ VotesSent(vs)
        BY Zenon DEF CertInv
      <4>2. VotesSent(vs)'
        BY <1>2, <4>1, VotesSentStable
      <4> QED  BY Zenon, <3>1, <4>1, <4>2 DEF VotesSent
    <3> QED  BY <3>3, <3>4 DEF CertInv
  <2> QED  BY <2>1, <2>3, <2>4
<1>b. ASSUME UNCHANGED eng PROVE Goal
  <2>1. eng' = [eng EXCEPT ![n] = eng[n]]
    BY <1>b, <1>1 DEF TypeOK
  <2> QED  BY Zenon, <2>1
<1>c. ASSUME NEW p, p # "add", eng' = [eng EXCEPT ![n].pc = p] PROVE Goal
  <2>1. [eng[n] EXCEPT !.pc = p].pc = p
        /\ [eng[n] EXCEPT !.pc = p].precommits = eng[n].precommits
    BY <1>1 DEF EngineState
  <2>2. eng' = [eng EXCEPT ![n] = [eng[n] EXCEPT !.pc = p]]
    BY <1>c
  <2> QED  BY Zenon, <1>c, <2>1, <2>2
<1> HIDE DEF Goal
<1>3. CASE RunRound(n)
  <2> DEFINE next == LatestHeight(n) + 1
             e == OpenVoteSets(eng[n], next, 0)
  <2>1. \/ eng' = [eng EXCEPT ![n].pc = "propose"]
        \/ eng' = [eng EXCEPT ![n] = e]
        \/ UNCHANGED eng
    BY <1>3 DEF RunRound
  <2>2. e.pc = eng[n].pc /\ e.precommits = NewVoteSet(next, 0) /\ next \in Nat
    BY <1>1 DEF OpenVoteSets, EngineState
  <2>3. eng[n].pc = "free"
    BY <1>3 DEF RunRound, Free
  <2>4. ASSUME eng' = [eng EXCEPT ![n] = e] PROVE Goal
    <3> HIDE DEF e, next
    <3> QED  BY Zenon, <2>2, <2>3, <2>4 DEF Goal
  <2> QED  BY <1>a, <1>b, <1>c, <2>1, <2>4
<1>4. CASE BuildBlock(n)
  <2>1. PICK blk \in Block, p \in {"announce", "reannounce"} :
          eng' = [eng EXCEPT ![n] = [eng[n] EXCEPT !.proposed = blk, !.pc = p]]
    BY Zenon, <1>4, <1>1 DEF BuildBlock
  <2> DEFINE e == [eng[n] EXCEPT !.proposed = blk, !.pc = p]
  <2>2. e.pc = p /\ e.precommits = eng[n].precommits
    BY <1>1 DEF EngineState
  <2> HIDE DEF e
  <2>3. eng' = [eng EXCEPT ![n] = e] /\ p # "add"
    BY <2>1 DEF e
  <2>4. Goal
    BY Zenon, <2>2, <2>3 DEF Goal
  <2> QED  BY <1>a, <2>4
<1>5. CASE BroadcastProposal(n)
  <2> DEFINE o == OpenVoteSets(eng[n], cons[n].height, cons[n].round)
             e == [o EXCEPT !.pc = "free"]
  <2>1. eng' = [eng EXCEPT ![n] = e]
    BY <1>5 DEF BroadcastProposal
  <2>2. cons[n].height \in Nat /\ cons[n].round \in Nat
    BY <1>1 DEF ConsState
  <2>3. e.pc = "free" /\ e.precommits = NewVoteSet(cons[n].height, cons[n].round)
    BY <1>1 DEF OpenVoteSets, EngineState
  <2> HIDE DEF e
  <2>4. Goal
    BY Zenon, <2>1, <2>2, <2>3 DEF Goal
  <2> QED  BY <1>a, <2>4
<1>6. CASE HandleProposal(n)
  <2>1. CASE UNCHANGED eng
    BY <1>a, <1>b, <2>1
  <2>2. CASE ~ UNCHANGED eng
    <3>1. PICK m \in msgs : eng' = [eng EXCEPT ![n] =
            [OpenVoteSets(eng[n], m.height, m.round) EXCEPT
               !.proposed = m.block, !.pc = "prevote"]]
      BY Zenon, <1>6, <2>2 DEF HandleProposal
    <3> DEFINE e == [OpenVoteSets(eng[n], m.height, m.round) EXCEPT
                       !.proposed = m.block, !.pc = "prevote"]
    <3>2. m.height \in Nat /\ m.round \in Nat
      BY <1>1 DEF TypeOK, Message
    <3>3. e.pc = "prevote" /\ e.precommits = NewVoteSet(m.height, m.round)
      BY <1>1 DEF OpenVoteSets, EngineState
    <3>4. eng' = [eng EXCEPT ![n] = e]
      BY <3>1
    <3> HIDE DEF e
    <3>5. Goal
      BY Zenon, <3>2, <3>3, <3>4 DEF Goal
    <3> QED  BY <1>a, <3>5
  <2> QED  BY <2>1, <2>2
<1>7. CASE FinishProposal(n)
  BY Zenon, <1>7, <1>a, <1>c DEF FinishProposal
<1>8. CASE TimerFires(n)
  BY <1>8, <1>a, <1>b DEF TimerFires
<1> DEFINE z(c, p) == [[ClearRound(eng[n]) EXCEPT !.timeouts = c] EXCEPT !.pc = p]
           y == [ClearRound(eng[n]) EXCEPT !.pc = "free"]
<1>9. \A c : \A p : z(c, p).pc = p /\ z(c, p).precommits = None
  BY <1>1 DEF ClearRound, EngineState
<1>10. y.pc = "free" /\ y.precommits = None
  BY <1>1 DEF ClearRound, EngineState
<1>11. ASSUME NEW f, NEW c, NextRound(n, f, c) PROVE Goal
  <2>1. eng' = [eng EXCEPT ![n] = z(c, "repropose")] \/ eng' = [eng EXCEPT ![n] = z(c, "free")]
    BY <1>11 DEF NextRound
  <2> HIDE DEF z
  <2> QED  BY <1>9, <2>1 DEF Goal
<1>12. ASSUME eng' = [eng EXCEPT ![n] = y] PROVE Goal
  <2> HIDE DEF y
  <2> QED  BY Zenon, <1>10, <1>12 DEF Goal
<1>13. CASE NextHeight(n)
  BY <1>13, <1>a, <1>12 DEF NextHeight
<1>14. CASE Resync(n)
  BY <1>14, <1>a, <1>11, <1>12 DEF Resync
<1>15. CASE HandleRoundTimeout(n)
  <2> DEFINE x == [eng[n] EXCEPT !.timeouts = 0]
             w == [eng[n] EXCEPT !.pc = "resync", !.timeouts = 0, !.mark = LatestHeight(n)]
  <2>1. \/ eng' = [eng EXCEPT ![n] = x]
        \/ \E f : NextRound(n, f, eng[n].timeouts + 1)
        \/ eng' = [eng EXCEPT ![n] = w]
    BY <1>15 DEF HandleRoundTimeout
  <2>2. x.pc = eng[n].pc /\ x.precommits = eng[n].precommits
    BY <1>1 DEF EngineState
  <2>3. w.pc = "resync" /\ w.precommits = eng[n].precommits
    BY <1>1 DEF EngineState
  <2>4. eng[n].pc = "free"
    BY <1>15 DEF HandleRoundTimeout, Free
  <2>5. CASE eng' = [eng EXCEPT ![n] = x]
    <3> HIDE DEF x
    <3> QED  BY Zenon, <2>2, <2>4, <2>5, <1>a DEF Goal
  <2>6. CASE eng' = [eng EXCEPT ![n] = w]
    <3> HIDE DEF w
    <3> QED  BY Zenon, <2>3, <2>6, <1>a DEF Goal
  <2> QED  BY <2>1, <2>5, <2>6, <1>11, <1>a
<1> QED  BY <1>3, <1>4, <1>5, <1>6, <1>7, <1>8, <1>13, <1>14, <1>15

\* Counting a prevote does not touch the precommit set.
LEMMA CountPrevoteCert ==
  ASSUME TypeOK, CertInv, NEW n \in Engines, NEW m, NEW js, CountPrevote(n, m, js),
         eng[n].pc = "free", UNCHANGED <<chain, app, announced>>, msgs \subseteq msgs'
  PROVE  CertInv'
<1>1. eng[n] \in EngineState
  BY FieldTypes
<1>2. PICK e : /\ eng' = [eng EXCEPT ![n] = e]
               /\ e.pc = "free" /\ e.precommits = eng[n].precommits
  <2> DEFINE vs == AddVote(eng[n].prevotes, m.height, m.round, m.from, m.block)
             e  == [eng[n] EXCEPT !.prevotes = vs]
  <2>1. eng' = [eng EXCEPT ![n] = eng[n]] \/ eng' = [eng EXCEPT ![n] = e]
    BY DEF CountPrevote, TypeOK
  <2>2. e.pc = eng[n].pc /\ e.precommits = eng[n].precommits
    BY <1>1 DEF EngineState
  <2> HIDE DEF e
  <2> QED  BY <2>1, <2>2
<1>3. VotesSent(e.precommits)'
  BY <1>2, SetKept
<1> QED  BY Zenon, <1>2, <1>3, EngineStep

\* Counting a precommit that was sent.
LEMMA CountPrecommitCert ==
  ASSUME TypeOK, CertInv, NEW n \in Engines, NEW m \in msgs', CountPrecommit(n, m),
         m.type = Precommit, m.from \in Validators, m.block \in Block,
         eng[n].pc = "free", UNCHANGED <<chain, app, announced>>, msgs \subseteq msgs'
  PROVE  CertInv'
<1>1. eng[n] \in EngineState
  BY FieldTypes
<1>2. CASE eng[n].precommits = None /\ UNCHANGED eng
  <2>1. eng' = [eng EXCEPT ![n] = eng[n]]
    BY <1>2 DEF TypeOK
  <2>2. PICK e : e = eng[n]
    OBVIOUS
  <2>3. VotesSent(e.precommits)'
    BY <2>2, SetKept
  <2> QED  BY Zenon, <2>1, <2>2, <2>3, EngineStep
<1>3. CASE ~ (eng[n].precommits = None /\ UNCHANGED eng)
  <2>1. eng[n].precommits \in VoteSet
    BY <1>1, <1>3 DEF CountPrecommit, EngineState
  <2>2. PICK vs : vs = AddVote(eng[n].precommits, m.height, m.round, m.from, m.block)
    OBVIOUS
  <2>3. PICK e : /\ eng' = [eng EXCEPT ![n] = e]
                 /\ e.pc \in {"free", "commit"} /\ e.precommits = vs
    <3> DEFINE e1 == [eng[n] EXCEPT !.precommits = vs, !.pc = "commit", !.timeouts = 0]
               e2 == [eng[n] EXCEPT !.precommits = vs]
    <3>1. eng' = [eng EXCEPT ![n] = e1] \/ eng' = [eng EXCEPT ![n] = e2]
      BY <1>3, <2>2 DEF CountPrecommit
    <3>2. /\ e1.pc = "commit" /\ e1.precommits = vs
          /\ e2.pc = "free" /\ e2.precommits = vs
      BY <1>1 DEF EngineState
    <3> HIDE DEF e1, e2
    <3> QED  BY <3>1, <3>2
  <2>4. VotesSent(e.precommits)'
    BY <2>1, <2>2, <2>3, SetExtended
  <2> QED  BY Zenon, <2>3, <2>4, EngineStep
<1> QED  BY <1>2, <1>3

\* HandleVote and castVote keep CertInv.
LEMMA VoteSteps ==
  ASSUME TypeInv, CertInv, NEW n \in Engines, HandleVote(n) \/ CastVote(n)
  PROVE  CertInv'
<1>1. TypeOK /\ jobs[n] \in SUBSET VoteJob /\ Engines \subseteq Validators
  BY FieldTypes, ConsensusAssumption DEF TypeInv
<1>2. /\ eng[n].pc = "free" /\ msgs \subseteq msgs'
      /\ UNCHANGED <<chain, app, announced>>
  BY Zenon DEF HandleVote, CastVote, Take, Free
<1>3. CASE UNCHANGED eng
  <2>1. eng' = [eng EXCEPT ![n] = eng[n]]
    BY <1>1, <1>3 DEF TypeOK
  <2>2. PICK e : e = eng[n]
    OBVIOUS
  <2>3. VotesSent(e.precommits)'
    BY <1>2, <2>2, SetKept
  <2> QED  BY Zenon, <1>1, <1>2, <2>1, <2>2, <2>3, EngineStep
<1>4. CASE ~ UNCHANGED eng
  <2>1. PICK m \in msgs' :
          \/ \E js : CountPrevote(n, m, js)
          \/ m.type = Precommit /\ m.from \in Validators /\ m.block \in Block
             /\ CountPrecommit(n, m)
    <3>1. CASE HandleVote(n)
      <4>1. \A m \in msgs : m.from \in Validators /\ m.block \in Block
        BY <1>1 DEF TypeOK, Message
      <4> QED  BY <1>2, <1>4, <3>1, <4>1 DEF HandleVote
    <3>2. CASE CastVote(n)
      <4>1. PICK j \in jobs[n] :
              LET m    == Vote(j.type, j.height, j.round, n, j.block)
                  rest == jobs[n] \ {j}
              IN /\ msgs' = msgs \cup {m}
                 /\ \/ CountPrevote(n, m, rest)
                    \/ j.type = Precommit /\ CountPrecommit(n, m)
        BY Zenon, <1>4, <3>2 DEF CastVote
      <4>2. j.block \in Block
        BY <1>1 DEF VoteJob
      <4>3. PICK m : m = Vote(j.type, j.height, j.round, n, j.block)
        OBVIOUS
      <4>4. m.type = j.type /\ m.from = n /\ m.block = j.block
        BY <4>3 DEF Vote
      <4> QED  BY <1>1, <4>1, <4>2, <4>3, <4>4
    <3> QED  BY <3>1, <3>2
  <2> QED  BY <1>1, <1>2, <2>1, CountPrevoteCert, CountPrecommitCert
<1> QED  BY <1>3, <1>4

\* A step that only adds entries that are known or certified.
LEMMA EntryStep ==
  ASSUME TypeOK, CertInv, UNCHANGED msgs,
         \A e \in Known' : e = None \/ e \in Known \/ Certified(e),
         \A n \in Engines : VotesSent(eng'[n].precommits)
  PROVE  CertInv'
<1>1. \A e \in Known' \ {None} : Certified(e)'
  BY CertifiedStable DEF CertInv
<1>2. \A n \in Engines : VotesSent(eng[n].precommits)'
  BY DEF VotesSent, Precommitted
<1> QED  BY <1>1, <1>2 DEF CertInv

\* The final validation of commitBlockWithSignatures certifies the block it
\* passes, because the precommit set holds only votes that were sent.
LEMMA FinalValidationCert ==
  ASSUME TypeInv, CertInv, NEW n \in Engines, FinalValidation(n)
  PROVE  CertInv'
<1>1. TypeOK /\ eng[n] \in EngineState /\ UNCHANGED <<chain, app, announced, msgs>>
  BY FieldTypes DEF TypeInv, FinalValidation
<1>2. eng[n].proposed \in Block /\ eng[n].precommits \in VoteSet
  BY DEF TypeInv, PcOK, FinalValidation
<1>3. PICK p \in {"add", "free"} :
        /\ eng' = [eng EXCEPT ![n].pc = p]
        /\ p = "add" => ValidateCommitted(n, Certificate(n))
  BY DEF FinalValidation, CommitFails
<1>4. \A m \in Engines : /\ eng'[m].precommits = eng[m].precommits
                         /\ eng'[m].proposed = eng[m].proposed
                         /\ eng'[m].pc = IF m = n THEN p ELSE eng[m].pc
  BY <1>1, <1>3 DEF TypeOK, EngineState
<1>5. p = "add" => Certified(Certificate(n))
  <2> SUFFICES ASSUME p = "add" PROVE Certified(Certificate(n))
    OBVIOUS
  <2> DEFINE blk == eng[n].proposed
             sigs == eng[n].precommits.votes
  <2>1. blk \in Block /\ sigs \in Sigs
    BY <1>2 DEF VoteSet
  <2>2. ValidateCommitSignatures(blk, sigs)
    BY <1>3 DEF ValidateCommitted, Certificate
  <2>3. \A v \in Validators : sigs[v] = blk => Precommitted(v, blk)
    BY <1>2, <2>1 DEF CertInv, VotesSent
  <2>4. Certificate(n) = [block |-> blk, sigs |-> sigs]
    BY DEF Certificate
  <2> HIDE DEF blk, sigs
  <2> QED  BY <2>1, <2>2, <2>3, <2>4, ValidatedCertified
<1>6. \A e \in Known' : e \in Known \/ Certified(e)
  <2>1. \A m \in Engines : \A e \in InFlight(m)' :
          e \in InFlight(m) \/ (p = "add" /\ e = Certificate(n))
    BY <1>1, <1>4 DEF InFlight, Certificate
  <2>2. Committed' = Committed
    BY <1>1 DEF Committed
  <2> QED  BY <1>5, <2>1, <2>2 DEF Known
<1>7. \A m \in Engines : VotesSent(eng'[m].precommits)
  BY <1>4 DEF CertInv, VotesSent
<1> QED  BY <1>1, <1>6, <1>7, EntryStep

\* AddBlock stores one entry; the others were stored before.
LEMMA AddBlockCommitted ==
  ASSUME TypeOK, NEW n \in Engines, NEW e \in Entry, chain' = AddBlock(n, e),
         announced' \subseteq announced \cup {e}
  PROVE  Committed' \subseteq Committed \cup {e}
<1>1. \A m \in Engines : \A h \in Heights :
        chain'[m].index[h] = IF m = n /\ h = e.block.height THEN e ELSE chain[m].index[h]
  <2>1. chain[n].index \in [Heights -> Entry \cup {None}]
    BY DEF TypeOK, ChainState
  <2> QED  BY <2>1 DEF AddBlock, TypeOK
<1> QED  BY <1>1 DEF Committed

\* AddBlock stores and sends only what passed the final validation.
LEMMA CommitBlockCert ==
  ASSUME TypeInv, CertInv, NEW n \in Engines, CommitBlock(n)
  PROVE  CertInv'
<1>1. TypeOK /\ eng[n] \in EngineState /\ UNCHANGED <<app, msgs>> /\ eng[n].pc = "add"
  BY FieldTypes DEF TypeInv, CommitBlock
<1>2. Certificate(n) \in Entry
  BY CertificateType DEF CommitBlock, TypeInv
<1>3. PICK p \in {"advance", "free"} : eng' = [eng EXCEPT ![n].pc = p]
  BY DEF CommitBlock, CommitFails
<1>4. \A m \in Engines : /\ eng'[m].precommits = eng[m].precommits
                         /\ eng'[m].proposed = eng[m].proposed
                         /\ eng'[m].pc = IF m = n THEN p ELSE eng[m].pc
  BY <1>1, <1>3 DEF TypeOK, EngineState
<1>5. Certificate(n) \in Known
  BY <1>1, <1>2 DEF Known, InFlight
<1>6. Committed' \subseteq Committed \cup {Certificate(n)}
  <2>1. CASE UNCHANGED <<chain, announced>>
    BY <2>1 DEF Committed
  <2>2. CASE chain' = AddBlock(n, Certificate(n))
             /\ announced' = announced \cup {Certificate(n)}
    BY <1>1, <1>2, <2>2, AddBlockCommitted
  <2> QED  BY <2>1, <2>2 DEF CommitBlock
<1>7. \A m \in Engines : InFlight(m)' \subseteq InFlight(m)
  BY <1>1, <1>4 DEF InFlight, Certificate
<1>8. \A e \in Known' : e \in Known
  BY <1>5, <1>6, <1>7 DEF Known
<1>9. \A m \in Engines : VotesSent(eng'[m].precommits)
  BY <1>4 DEF CertInv, VotesSent
<1> QED  BY <1>1, <1>8, <1>9, EntryStep

\* The block handler only moves entries it was sent or has kept.
LEMMA HandlerSteps ==
  ASSUME TypeInv, CertInv, NEW n \in Engines,
         ReceiveBlock(n) \/ HandlerAdds(n) \/ HandlerUpdates(n)
  PROVE  CertInv'
<1>1. TypeOK /\ app[n] \in AppState /\ UNCHANGED <<eng, msgs, announced>>
  BY Zenon, FieldTypes DEF TypeInv, ReceiveBlock, HandlerAdds, HandlerUpdates
<1>2. /\ Committed' \subseteq Known
      /\ \A m \in Engines : \A w \in app'[m].running : w.entry \in Known
      /\ \A m \in Engines : \A h \in Heights : app'[m].pending[h] \in Known \cup {None}
  <2>1. \A m \in Engines : \A w \in app[m].running : w.entry \in Known
    BY DEF Known, InFlight
  <2>2. \A m \in Engines : \A h \in Heights : app[m].pending[h] \in Known
    BY DEF Known, InFlight
  <2>3. announced \subseteq Known /\ Committed \subseteq Known
    BY DEF Known, Committed
  <2>4. CASE ReceiveBlock(n)
    <3>1. PICK e \in announced :
            \/ app' = [app EXCEPT ![n].pending[e.block.height] = e]
            \/ app' = [app EXCEPT ![n].running = @ \cup {Worker(e, "add")}]
            \/ app' = app
      BY <2>4 DEF ReceiveBlock
    <3>2. Committed' = Committed
      BY <2>4 DEF ReceiveBlock, Committed
    <3>3. CASE app' = [app EXCEPT ![n].pending[e.block.height] = e]
      <4>1. \A m \in Engines : app'[m].running = app[m].running
        BY <1>1, <3>3 DEF TypeOK, AppState
      <4>2. \A m \in Engines : \A h \in Heights :
              app'[m].pending[h] = app[m].pending[h] \/ app'[m].pending[h] = e
        BY <1>1, <3>3 DEF TypeOK, AppState
      <4> QED  BY <2>1, <2>2, <2>3, <3>2, <4>1, <4>2
    <3>4. CASE app' = [app EXCEPT ![n].running = @ \cup {Worker(e, "add")}]
      <4>1. Worker(e, "add").entry = e
        BY DEF Worker
      <4>2. \A m \in Engines : /\ app'[m].running \subseteq app[m].running \cup {Worker(e, "add")}
                               /\ app'[m].pending = app[m].pending
        BY <1>1, <3>4 DEF TypeOK, AppState
      <4> QED  BY <2>1, <2>2, <2>3, <3>2, <4>1, <4>2
    <3> QED  BY <2>1, <2>2, <2>3, <3>1, <3>2, <3>3, <3>4
  <2>5. CASE HandlerAdds(n)
    <3>1. PICK w \in app[n].running :
            \/ /\ chain' = AddBlock(n, w.entry)
               /\ app' = [app EXCEPT ![n].running =
                            (app[n].running \ {w}) \cup {Worker(w.entry, "update")}]
            \/ /\ UNCHANGED chain
               /\ app' = [app EXCEPT ![n].running = app[n].running \ {w}]
      BY <2>5 DEF HandlerAdds
    <3>2. w.entry \in Entry /\ w.entry \in Known /\ Worker(w.entry, "update").entry = w.entry
      BY <1>1, <2>1 DEF AppState, Worker
    <3>3. \A m \in Engines :
            /\ app'[m].running \subseteq app[m].running \cup {Worker(w.entry, "update")}
            /\ app'[m].pending = app[m].pending
      BY <1>1, <3>1 DEF TypeOK, AppState
    <3>4. Committed' \subseteq Committed \cup {w.entry}
      <4>1. CASE UNCHANGED chain
        BY <1>1, <4>1 DEF Committed
      <4>2. CASE chain' = AddBlock(n, w.entry)
        BY <1>1, <3>2, <4>2, AddBlockCommitted
      <4> QED  BY <3>1, <4>1, <4>2
    <3> QED  BY <2>1, <2>2, <2>3, <3>2, <3>3, <3>4
  <2>6. CASE HandlerUpdates(n)
    <3>1. PICK w \in app[n].running, next \in {app[n].pending[h] : h \in Heights} \cup {None} :
            \/ app' = [app EXCEPT ![n].running = app[n].running \ {w}]
            \/ \E r, h : /\ r \subseteq app[n].running \cup {Worker(next, "add")}
                         /\ next # None
                         /\ app' = [app EXCEPT ![n] =
                              [running |-> r,
                               pending |-> [app[n].pending EXCEPT ![h] = None]]]
      <4>1. PICK w \in app[n].running :
              LET h    == w.entry.block.height + 1
                  next == IF h \in Heights THEN app[n].pending[h] ELSE None
                  rest == app[n].running \ {w}
              IN \/ app' = [app EXCEPT ![n].running = rest]
                 \/ /\ next # None
                    /\ app' = [app EXCEPT ![n] =
                         [running |-> IF ValidateCommitted(n, next)
                                      THEN rest \cup {Worker(next, "add")} ELSE rest,
                          pending |-> [@.pending EXCEPT ![h] = None]]]
        BY Zenon, <2>6 DEF HandlerUpdates
      <4> DEFINE h    == w.entry.block.height + 1
                 next == IF h \in Heights THEN app[n].pending[h] ELSE None
                 r    == IF ValidateCommitted(n, next)
                         THEN (app[n].running \ {w}) \cup {Worker(next, "add")}
                         ELSE app[n].running \ {w}
      <4>2. next \in {app[n].pending[k] : k \in Heights} \cup {None}
        OBVIOUS
      <4>3. r \subseteq app[n].running \cup {Worker(next, "add")}
        OBVIOUS
      <4>4. \/ app' = [app EXCEPT ![n].running = app[n].running \ {w}]
            \/ /\ next # None
               /\ app' = [app EXCEPT ![n] =
                    [running |-> r, pending |-> [app[n].pending EXCEPT ![h] = None]]]
        BY Zenon, <4>1
      <4> HIDE DEF next, r, h
      <4> QED  BY <4>2, <4>3, <4>4
    <3>2. /\ next # None => next \in Known
          /\ Worker(next, "add").entry = next
      BY <2>2 DEF Worker
    <3>3. Committed' = Committed
      <4>1. UNCHANGED chain
        BY Zenon, <2>6 DEF HandlerUpdates
      <4> QED  BY <1>1, <4>1 DEF Committed
    <3>4. CASE app' = [app EXCEPT ![n].running = app[n].running \ {w}]
      <4>1. \A m \in Engines : /\ app'[m].running \subseteq app[m].running
                               /\ app'[m].pending = app[m].pending
        BY <1>1, <3>4 DEF TypeOK, AppState
      <4> QED  BY <2>1, <2>2, <2>3, <3>3, <4>1
    <3>5. ASSUME NEW r, NEW h, r \subseteq app[n].running \cup {Worker(next, "add")},
                 next # None,
                 app' = [app EXCEPT ![n] =
                   [running |-> r, pending |-> [app[n].pending EXCEPT ![h] = None]]]
          PROVE  /\ \A m \in Engines : \A x \in app'[m].running : x.entry \in Known
                 /\ \A m \in Engines : \A k \in Heights :
                      app'[m].pending[k] \in Known \cup {None}
      <4>1. \A m \in Engines :
              app'[m].running = IF m = n THEN r ELSE app[m].running
        BY <1>1, <3>5 DEF TypeOK
      <4>2. \A m \in Engines : \A k \in Heights :
              app'[m].pending[k] = app[m].pending[k] \/ app'[m].pending[k] = None
        BY <1>1, <3>5 DEF TypeOK, AppState
      <4> QED  BY <2>1, <2>2, <3>2, <3>5, <4>1, <4>2
    <3> QED  BY <2>3, <3>1, <3>3, <3>4, <3>5
  <2> QED  BY <2>4, <2>5, <2>6
<1>3. \A m \in Engines : InFlight(m)' \subseteq Known \cup {None}
  <2>1. \A m \in Engines : {e \in Entry : eng[m].pc = "add" /\ e = Certificate(m)} \subseteq Known
    BY DEF Known, InFlight
  <2>2. \A m \in Engines : Certificate(m)' = Certificate(m)
    BY <1>1 DEF Certificate
  <2> QED  BY <1>1, <1>2, <2>1, <2>2 DEF InFlight
<1>4. \A e \in Known' : e = None \/ e \in Known
  BY <1>2, <1>3 DEF Known
<1>5. \A m \in Engines : VotesSent(eng'[m].precommits)
  BY <1>1 DEF CertInv
<1> QED  BY <1>1, <1>4, <1>5, EntryStep

\* A block of a validator elsewhere carries a certificate.
LEMMA RemoteCommitCert == ASSUME TypeInv, CertInv, RemoteCommit PROVE CertInv'
<1>1. PICK blk \in Block : \E sigs :
        /\ sigs = [v \in Validators |-> IF Precommitted(v, blk) THEN blk ELSE None]
        /\ TwoThirds(Voters(sigs))
        /\ announced' = announced \cup {[block |-> blk, sigs |-> sigs]}
  BY DEF RemoteCommit
<1>s. PICK sigs :
        /\ sigs = [v \in Validators |-> IF Precommitted(v, blk) THEN blk ELSE None]
        /\ TwoThirds(Voters(sigs))
        /\ announced' = announced \cup {[block |-> blk, sigs |-> sigs]}
  BY <1>1
<1>2. UNCHANGED <<chain, eng, app, msgs>> /\ TypeOK
  BY DEF RemoteCommit, TypeInv
<1>3. Certified([block |-> blk, sigs |-> sigs])
  <2>1. Voters(sigs) = {v \in Validators : sigs[v] = blk /\ Precommitted(v, blk)}
    BY <1>s, ConsensusAssumption DEF Voters
  <2> QED  BY <1>s, <2>1 DEF Certified
<1>4. \A e \in Known' : e \in Known \/ Certified(e)
  <2>1. \A m \in Engines : InFlight(m)' = InFlight(m)
    BY Zenon, <1>2 DEF InFlight, Certificate
  <2>2. Committed' \subseteq Committed \cup {[block |-> blk, sigs |-> sigs]}
    <3>1. chain' = chain /\ announced' = announced \cup {[block |-> blk, sigs |-> sigs]}
      BY <1>s, <1>2
    <3> QED  BY <3>1 DEF Committed
  <2> QED  BY Zenon, <1>3, <2>1, <2>2 DEF Known
<1>5. \A m \in Engines : VotesSent(eng'[m].precommits)
  BY <1>2 DEF CertInv
<1> QED  BY <1>2, <1>4, <1>5, EntryStep

\* A restart forgets what was in flight and keeps what was stored.
LEMMA RestartCert ==
  ASSUME TypeInv, CertInv, NEW n \in Engines, Restart(n) PROVE CertInv'
<1>1. UNCHANGED <<chain, announced, msgs>> /\ TypeOK
  BY DEF Restart, TypeInv
<1>2. \A m \in Engines : /\ m # n => app'[m] = app[m] /\ eng'[m] = eng[m]
                         /\ eng'[n].pc = "free" /\ eng'[n].precommits = None
                         /\ app'[n].running = {}
                         /\ \A h \in Heights : app'[n].pending[h] = None
  BY <1>1 DEF Restart, TypeOK, EngineInit
<1>3. ASSUME NEW m \in Engines  PROVE InFlight(m)' \subseteq InFlight(m) \cup {None}
  <2>1. CASE m = n
    BY <1>2, <2>1 DEF InFlight
  <2>2. CASE m # n
    <3>1. app'[m] = app[m] /\ eng'[m] = eng[m]
      BY Zenon, <1>2, <2>2
    <3>2. InFlight(m)' = InFlight(m)
      BY Zenon, <3>1 DEF InFlight, Certificate
    <3> QED  BY Zenon, <3>2
  <2> QED  BY <2>1, <2>2
<1>4. \A e \in Known' : e = None \/ e \in Known
  BY <1>1, <1>3 DEF Known, Committed
<1>5. \A m \in Engines : VotesSent(eng'[m].precommits)
  BY <1>2, NilAssumption DEF CertInv, VotesSent
<1> QED  BY <1>1, <1>4, <1>5, EntryStep

\* CertInv holds initially: nothing is committed.
LEMMA InitCert == Init => CertInv
<1> SUFFICES ASSUME Init PROVE CertInv
  OBVIOUS
<1>1. Known \subseteq {None}
  <2>1. announced = {} /\ \A n \in Engines : \A h \in Heights \ {0} : chain[n].index[h] = None
    BY DEF Init
  <2>2. \A n \in Engines : /\ app[n].running = {} /\ eng[n].pc = "free"
                           /\ \A h \in Heights : app[n].pending[h] = None
    BY DEF Init, EngineInit
  <2>3. \A n \in Engines : InFlight(n) \subseteq {None}
    BY <2>2 DEF InFlight
  <2> QED  BY <2>1, <2>3 DEF Known, Committed
<1>2. \A n \in Engines : VotesSent(eng[n].precommits)
  BY NilAssumption DEF Init, EngineInit, VotesSent
<1> QED  BY <1>1, <1>2 DEF CertInv

\* Every step keeps CertInv.
LEMMA NextCert == TypeInv /\ CertInv /\ [Next]_vars => CertInv'
<1> SUFFICES ASSUME TypeInv, CertInv, [Next]_vars PROVE CertInv'
  OBVIOUS
<1>1. CASE UNCHANGED vars \/ \E n \in Engines : ForgetSeen(n)
  <2>1. UNCHANGED <<chain, eng, app, announced, msgs>> /\ TypeOK
    BY <1>1 DEF vars, TypeInv, ForgetSeen
  <2>2. Known' = Known
    BY <2>1, KnownKept
  <2>3. \A m \in Engines : VotesSent(eng'[m].precommits)
    BY <2>1 DEF CertInv
  <2> QED  BY <2>1, <2>2, <2>3, EntryStep
<1>2. CASE RemoteCommit
  BY <1>2, RemoteCommitCert
<1>3. ASSUME NEW n \in Engines,
             \/ RunRound(n) \/ BuildBlock(n) \/ BroadcastProposal(n) \/ HandleProposal(n)
             \/ FinishProposal(n) \/ NextHeight(n) \/ TimerFires(n)
             \/ HandleRoundTimeout(n) \/ Resync(n)
      PROVE  CertInv'
  BY <1>3, QuietSteps
<1>4. ASSUME NEW n \in Engines,
             \/ HandleVote(n) \/ CastVote(n) \/ FinalValidation(n) \/ CommitBlock(n)
             \/ ReceiveBlock(n) \/ HandlerAdds(n) \/ HandlerUpdates(n) \/ Restart(n)
      PROVE  CertInv'
  BY <1>4, VoteSteps, FinalValidationCert, CommitBlockCert, HandlerSteps, RestartCert
<1> QED  BY <1>1, <1>2, <1>3, <1>4 DEF Next

\* Every block a node stores or sends carries precommits of more than 2/3 of the
\* power for this very block, although AddVote counts precommits for any block.
THEOREM Certification == Spec => []StoredBlocksCertified
<1>1. CertInv => StoredBlocksCertified
  BY DEF CertInv, StoredBlocksCertified, Known
<1> QED  BY InitTypeInv, NextTypeInv, InitCert, NextCert, <1>1, PTL DEF Spec

\* Two certificates share validators with more than 1/3 of the power.
LEMMA CertifiedFork ==
  StoredBlocksCertified => ForkAccountability
<1> SUFFICES ASSUME StoredBlocksCertified,
                    NEW e \in Committed \ {None}, NEW f \in Committed \ {None}
             PROVE  3 * PowerOf[{v \in Validators : Precommitted(v, e.block)
                                                    /\ Precommitted(v, f.block)}]
                      > TotalVotingPower
  BY DEF ForkAccountability
<1> DEFINE S(x) == {v \in Validators : x.sigs[v] = x.block /\ Precommitted(v, x.block)}
           B == {v \in Validators : Precommitted(v, e.block) /\ Precommitted(v, f.block)}
<1>1. TwoThirds(S(e)) /\ TwoThirds(S(f))
  BY DEF StoredBlocksCertified, Certified
<1>2. /\ S(e) \in SUBSET Validators /\ S(f) \in SUBSET Validators
      /\ B \in SUBSET Validators /\ S(e) \cap S(f) \subseteq B
  OBVIOUS
<1> HIDE DEF S, B
<1>3. 3 * PowerOf[S(e) \cap S(f)] > TotalVotingPower
  BY Zenon, <1>1, <1>2, QuorumIntersection
<1>4. PowerOf[S(e) \cap S(f)] <= PowerOf[B]
  <2>1. S(e) \cap S(f) \in SUBSET Validators
    BY <1>2
  <2> QED  BY <1>2, <2>1, PowerMonotone
<1>5. /\ PowerOf[S(e) \cap S(f)] \in Nat /\ PowerOf[B] \in Nat /\ TotalVotingPower \in Nat
  BY <1>2, PowerAssumption DEF TotalVotingPower
<1>6. 3 * PowerOf[B] > TotalVotingPower
  BY <1>3, <1>4, <1>5
<1> QED  BY <1>6 DEF B

\* A fork needs validators with more than 1/3 of the power to precommit both of
\* its blocks, whatever timeouts, late commits, races and restarts do.
THEOREM Accountability == Spec => []ForkAccountability
  BY Certification, CertifiedFork, PTL
=============================================================================
