----------------------------- MODULE Consensus -----------------------------
(***************************************************************************)
(* The consensus engines of a network of ABCFe nodes (consensus/engine.go, *)
(* consensus/consensus.go) together with what they share their state with: *)
(* the block handler of the application (app/app.go), which adds blocks    *)
(* received from peers and moves the consensus height WITHOUT taking the   *)
(* engine's mutex, the part of core.BlockChain both of them call, and the  *)
(* duplicate filter of the p2p service.                                    *)
(*                                                                         *)
(* Granularity.  Every engine handler runs under e.mu, so handlers of one  *)
(* node exclude each other; eng[n].pc tells where the handler that holds   *)
(* the mutex is.  A handler is cut where the block handler can run between *)
(* two of its accesses to shared state: at the sleeps of the proposing and *)
(* committing phases, between building a block and reading the consensus   *)
(* height to announce it, and between validating and adding a block.       *)
(*                                                                         *)
(* Network.  msgs and announced hold everything ever sent.  A node may     *)
(* take a message at any time or never, so delay, loss and reordering are  *)
(* all covered.  Proposals and votes pass the seen caches once per key.    *)
(***************************************************************************)
EXTENDS Voting

CONSTANTS
  Engines,      \* the validators that run this code
  Block,        \* the blocks that can be built, Genesis included
  Genesis,
  Utxos,        \* the outputs the transactions in blocks spend
  RemoteMsgs,   \* proposals and votes of the validators outside Engines
  Forgetful,    \* bound: the engines whose seen caches drop keys
  MaxRound,     \* bound: timeouts are handled in rounds below MaxRound
  MaxHandlers,  \* bound: block handlers running at once in one node
  MaxRestarts   \* bound: process restarts in one behaviour

Proposal  == "proposal"
Prevote   == "prevote"
Precommit == "precommit"
Heights   == {b.height : b \in Block}
Sigs      == [Validators -> Block \cup {None}]
Entry     == [block : Block, sigs : Sigs]   \* a block with CommitSignatures
Message   == [type : {Proposal, Prevote, Precommit}, height : Nat,
              round : Nat, from : Validators, block : Block]
Key       == [type : {Proposal, Prevote, Precommit}, height : Nat,
              round : Nat, from : Validators]
VoteJob   == [type : {Prevote, Precommit}, block : Block,
              height : Nat, round : Nat]

ASSUME ConsensusAssumption ==
  /\ Engines \subseteq Validators
  /\ Genesis \in Block
  /\ Genesis.height = 0 /\ Genesis.spends = {}
  /\ None \notin Block
  /\ \A b \in Block : b.height \in Nat /\ b.spends \subseteq Utxos
  /\ \A m \in RemoteMsgs : m \in Message /\ m.from \notin Engines
  /\ MaxRound \in Nat
  /\ MaxHandlers \in Nat
  /\ MaxRestarts \in Nat

\* The bytes of a hash are read as a number (binary.BigEndian.Uint64).
ASSUME HashAssumption ==
  \A b \in Block, prev \in Block \cup {None} :
    \A h \in 0 .. b.height + 1 : Base(prev, h) \in Nat

VARIABLES
  chain,     \* chain[n]: block index, latest block and spent outputs
  cons,      \* cons[n]: CurrentHeight, CurrentRound and State
  eng,       \* eng[n]: the engine's own fields and its program counter
  jobs,      \* jobs[n]: vote goroutines that sleep or wait for e.mu
  timers,    \* timers[n]: the armed round timer and the fired callbacks
  seen,      \* seen[n]: keys of the proposals and votes already taken
  app,       \* app[n]: the running block handler and pendingBlocks
  msgs,      \* proposals and votes sent so far
  announced, \* blocks sent so far, with their commit signatures
  restarts   \* number of restarts so far

vars == <<chain, cons, eng, jobs, timers, seen, app, msgs, announced, restarts>>

NoSigs == [v \in Validators |-> None]

EngineInit ==
  [pc |-> "free", proposed |-> None, prevotes |-> None, precommits |-> None,
   timeouts |-> 0, mark |-> 0]

Init ==
  /\ chain = [n \in Engines |->
       [index |-> [h \in Heights |->
                     IF h = 0 THEN [block |-> Genesis, sigs |-> NoSigs] ELSE None],
        tip |-> Genesis, spent |-> {}]]
  /\ cons = [n \in Engines |-> [height |-> 1, round |-> 0, state |-> "IDLE"]]
  /\ eng = [n \in Engines |-> EngineInit]
  /\ jobs = [n \in Engines |-> {}]
  /\ timers = [n \in Engines |-> [armed |-> None, fired |-> {}]]
  /\ seen = [n \in Engines |-> {}]
  /\ app = [n \in Engines |->
       [running |-> {}, pending |-> [h \in Heights |-> None]]]
  /\ msgs = RemoteMsgs
  /\ announced = {}
  /\ restarts = 0

-----------------------------------------------------------------------------
(* core.BlockChain as the engine and the block handler use it.             *)

Tip(n) == chain[n].tip
LatestHeight(n) == Tip(n).height

\* GetBlockByHeight goes through the height index, not through the tip.
BlockAt(n, h) == chain[n].index[h].block

\* The hash used as the seed of the selection is zero on an empty chain.
PrevHash(n) == IF LatestHeight(n) = 0 THEN None ELSE BlockAt(n, LatestHeight(n))

ValidateBlock(n, b) ==
  /\ b.height - 1 \in DOMAIN chain[n].index
  /\ chain[n].index[b.height - 1] # None
  /\ b.prev = BlockAt(n, b.height - 1)
  /\ b.proposer \in Validators
  /\ b.spends \cap chain[n].spent = {}

\* ValidateBlock with checkCommit set.
ValidateCommitted(n, e) ==
  /\ ValidateBlock(n, e.block)
  /\ ValidateCommitSignatures(e.block, e.sigs)

\* Mutant: UpdateUtxo without its Spent test.
MutCanAdd(n, b) == TRUE

\* UpdateUtxo refuses an output that is already spent.
CanAdd(n, b) == b.spends \cap chain[n].spent = {}

\* AddBlock writes the index entry of the block's height whatever the chain
\* holds there; only the tip is kept when the height is not a new one.
AddBlock(n, e) ==
  [chain EXCEPT ![n] =
     [index |-> [@.index EXCEPT ![e.block.height] = e],
      tip   |-> IF e.block.height > @.tip.height THEN e.block ELSE @.tip,
      spent |-> @.spent \cup e.block.spends]]

-----------------------------------------------------------------------------
(* consensus.Consensus.                                                    *)

\* Mutant: the height after next.
MutUpdateHeight(n, h) ==
  [cons EXCEPT ![n] = [height |-> h + 1, round |-> 0, state |-> "IDLE"]]

UpdateHeight(n, h) ==
  [cons EXCEPT ![n] = [height |-> h, round |-> 0, state |-> "IDLE"]]

IncrementRound(n) == [cons EXCEPT ![n].round = @ + 1]

SetState(n, s) == [cons EXCEPT ![n].state = s]

Proposer(n, h, r) == SelectProposerByMode(h, r, PrevHash(n))

-----------------------------------------------------------------------------
(* Pieces shared by the engine's handlers.                                 *)

Free(n) == eng[n].pc = "free"

Vote(t, h, r, v, b) ==
  [type |-> t, height |-> h, round |-> r, from |-> v, block |-> b]

Job(t, b, h, r) == [type |-> t, block |-> b, height |-> h, round |-> r]

KeyOf(m) ==
  [type |-> m.type, height |-> m.height, round |-> m.round, from |-> m.from]

\* Mutant: a timer for the round before.
MutStartRoundTimer(n, h, r) ==
  [timers EXCEPT ![n].armed = [height |-> h, round |-> r - 1]]

\* startRoundTimer replaces the armed timer; a callback that already fired
\* is not recalled.
StartRoundTimer(n, h, r) ==
  [timers EXCEPT ![n].armed = [height |-> h, round |-> r]]

StopRoundTimer(n) == [timers EXCEPT ![n].armed = None]

ClearRound(e) ==
  [e EXCEPT !.proposed = None, !.prevotes = None, !.precommits = None]

OpenVoteSets(e, h, r) ==
  [e EXCEPT !.prevotes = NewVoteSet(h, r), !.precommits = NewVoteSet(h, r)]

-----------------------------------------------------------------------------
(* Proposing.                                                              *)

\* runRound, called by the ticker of runConsensusLoop.  The consensus height
\* follows the chain.  The proposer of the round starts proposeBlock unless a
\* block of this height is already proposed; the others open vote sets for
\* round 0 and arm the timer unless they have vote sets of this height.
RunRound(n) ==
  LET next   == LatestHeight(n) + 1
      synced == [cons[n] EXCEPT !.height = next,
                                !.round = IF cons[n].height = next THEN @ ELSE 0]
      local  == Proposer(n, next, synced.round) = n
      proposedHere == eng[n].proposed # None /\ eng[n].proposed.height = next
      votingHere   == eng[n].prevotes # None /\ eng[n].prevotes.height = next
  IN /\ Free(n)
     /\ next \in Heights
     /\ \/ /\ local /\ ~proposedHere
           /\ cons' = [cons EXCEPT ![n] = [synced EXCEPT !.state = "PROPOSING"]]
           /\ eng' = [eng EXCEPT ![n].pc = "propose"]
           /\ UNCHANGED timers
        \/ /\ ~local /\ ~votingHere
           /\ cons' = [cons EXCEPT ![n] = synced]
           /\ eng' = [eng EXCEPT ![n] = OpenVoteSets(@, next, 0)]
           /\ timers' = StartRoundTimer(n, next, synced.round)
        \/ /\ IF local THEN proposedHere ELSE votingHere
           /\ cons' = [cons EXCEPT ![n] = synced]
           /\ UNCHANGED <<eng, timers>>
     /\ UNCHANGED <<chain, jobs, seen, app, msgs, announced, restarts>>

\* Blocks n has proposed at height h: the next one has a later timestamp.
ProposedBefore(n, h) ==
  {m.block : m \in {x \in msgs : x.type = Proposal /\ x.from = n
                                 /\ x.block.height = h}}

\* proposeBlock after its sleep: a block on top of the chain as it is now,
\* with transactions of the mempool that are still valid.
BuildBlock(n) ==
  /\ eng[n].pc \in {"propose", "repropose"}
  /\ \E b \in Block :
       /\ b.height = LatestHeight(n) + 1
       /\ b.prev = BlockAt(n, LatestHeight(n))
       /\ b.proposer = n
       /\ b.nonce = Cardinality(ProposedBefore(n, b.height))
       /\ b.spends \cap chain[n].spent = {}
       /\ eng' = [eng EXCEPT ![n] = [@ EXCEPT !.proposed = b, !.pc =
                    IF @ = "propose" THEN "announce" ELSE "reannounce"]]
  /\ UNCHANGED <<chain, cons, jobs, timers, seen, app, msgs, announced, restarts>>

\* broadcastProposal (after runRound) and broadcastProposalInternal with the
\* startRoundTimer of handleRoundTimeout.  Height and round are those of the
\* consensus at this point.  Only the first one moves State to PREVOTING.
BroadcastProposal(n) ==
  LET h == cons[n].height
      r == cons[n].round
      blk == eng[n].proposed
  IN /\ eng[n].pc \in {"announce", "reannounce"}
     /\ msgs' = msgs \cup {Vote(Proposal, h, r, n, blk)}
     /\ eng' = [eng EXCEPT ![n] = [OpenVoteSets(@, h, r) EXCEPT !.pc = "free"]]
     /\ cons' = IF eng[n].pc = "announce" THEN SetState(n, "PREVOTING") ELSE cons
     /\ timers' = StartRoundTimer(n, h, r)
     /\ jobs' = [jobs EXCEPT ![n] = @ \cup {Job(Prevote, blk, h, r)}]
     /\ UNCHANGED <<chain, seen, app, announced, restarts>>

-----------------------------------------------------------------------------
(* Handling proposals and votes.                                           *)

\* A message reaches the engine once per key: handleProposal and handleVote
\* of the p2p service drop the keys they have seen.  Messages are not relayed
\* back to their origin.
Take(n, m) ==
  /\ Free(n)
  /\ m.from # n
  /\ KeyOf(m) \notin seen[n]
  /\ seen' = [seen EXCEPT ![n] = @ \cup {KeyOf(m)}]

\* A key leaves the seen caches: markProposalSeen and markVoteSeen drop old keys
\* when the cache is large.  Two connections that deliver one message between
\* hasSeen and markSeen have the same effect: it is taken twice.
ForgetSeen(n) ==
  /\ n \in Forgetful
  /\ \E k \in seen[n] : seen' = [seen EXCEPT ![n] = @ \ {k}]
  /\ UNCHANGED <<chain, cons, eng, jobs, timers, app, msgs, announced, restarts>>

\* HandleProposal up to its sleep.  Height and round follow the proposal as
\* soon as its proposer is the expected one, before the block is validated.
HandleProposal(n) ==
  \E m \in msgs :
    LET expected == /\ m.height = LatestHeight(n) + 1
                    /\ m.block.proposer = Proposer(n, m.height, m.round)
        synced   == [cons[n] EXCEPT !.height = m.height, !.round = m.round]
    IN /\ m.type = Proposal
       /\ Take(n, m)
       /\ \/ ~expected /\ UNCHANGED <<cons, eng>>
          \/ /\ expected /\ ~ValidateBlock(n, m.block)
             /\ cons' = [cons EXCEPT ![n] = synced]
             /\ UNCHANGED eng
          \/ /\ expected /\ ValidateBlock(n, m.block)
             /\ cons' = [cons EXCEPT ![n] = [synced EXCEPT !.state = "PROPOSING"]]
             /\ eng' = [eng EXCEPT ![n] =
                  [OpenVoteSets(@, m.height, m.round) EXCEPT
                     !.proposed = m.block, !.pc = "prevote"]]
       /\ UNCHANGED <<chain, jobs, timers, app, msgs, announced, restarts>>

\* HandleProposal after its sleep: the timer and the prevote are for the
\* height and round the consensus has now.
FinishProposal(n) ==
  LET h == cons[n].height
      r == cons[n].round
  IN /\ eng[n].pc = "prevote"
     /\ cons' = SetState(n, "PREVOTING")
     /\ timers' = StartRoundTimer(n, h, r)
     /\ jobs' = [jobs EXCEPT ![n] = @ \cup {Job(Prevote, eng[n].proposed, h, r)}]
     /\ eng' = [eng EXCEPT ![n].pc = "free"]
     /\ UNCHANGED <<chain, seen, app, msgs, announced, restarts>>

\* The prevote case of HandleVote and of castVote.  js are the jobs left over.
\* The 2/3 test is made whether or not the vote was added, and the precommit is
\* for the block of this vote.
CountPrevote(n, m, js) ==
  LET vs == AddVote(eng[n].prevotes, m.height, m.round, m.from, m.block)
      precommit == Job(Precommit, m.block, cons[n].height, cons[n].round)
  IN \/ /\ eng[n].prevotes = None
        /\ jobs' = [jobs EXCEPT ![n] = js]
        /\ UNCHANGED <<eng, cons>>
     \/ /\ eng[n].prevotes # None
        /\ eng' = [eng EXCEPT ![n].prevotes = vs]
        /\ IF HasTwoThirdsMajority(vs)
           THEN /\ cons' = [cons EXCEPT ![n].state =
                              IF @ = "PREVOTING" THEN "PRECOMMITTING" ELSE @]
                /\ jobs' = [jobs EXCEPT ![n] = js \cup {precommit}]
           ELSE /\ jobs' = [jobs EXCEPT ![n] = js]
                /\ UNCHANGED cons

\* The precommit case of HandleVote, castVote and castVoteInternal, with the
\* first half of commitBlockWithSignatures.
CountPrecommit(n, m) ==
  LET vs == AddVote(eng[n].precommits, m.height, m.round, m.from, m.block)
  IN \/ eng[n].precommits = None /\ UNCHANGED <<eng, cons, timers>>
     \/ /\ eng[n].precommits # None
        /\ IF HasTwoThirdsMajority(vs) /\ eng[n].proposed # None
           THEN /\ eng' = [eng EXCEPT ![n] =
                     [@ EXCEPT !.precommits = vs, !.pc = "commit", !.timeouts = 0]]
                /\ cons' = SetState(n, "COMMITTING")
                /\ timers' = StopRoundTimer(n)
           ELSE /\ eng' = [eng EXCEPT ![n].precommits = vs]
                /\ UNCHANGED <<cons, timers>>

HandleVote(n) ==
  \E m \in msgs :
    LET relevant == m.height = LatestHeight(n) + 1 /\ m.round = cons[n].round
    IN /\ m.type \in {Prevote, Precommit}
       /\ Take(n, m)
       /\ \/ ~relevant /\ UNCHANGED <<eng, cons, jobs, timers>>
          \/ /\ relevant /\ m.type = Prevote
             /\ CountPrevote(n, m, jobs[n])
             /\ UNCHANGED timers
          \/ /\ relevant /\ m.type = Precommit
             /\ CountPrecommit(n, m)
             /\ UNCHANGED jobs
       /\ UNCHANGED <<chain, app, msgs, announced, restarts>>

\* The goroutine of castVote, and castVoteInternal, once the delay is over.
CastVote(n) ==
  \E j \in jobs[n] :
    LET m    == Vote(j.type, j.height, j.round, n, j.block)
        rest == jobs[n] \ {j}
        current == cons[n].height = j.height /\ cons[n].round = j.round
    IN /\ Free(n)
       /\ \/ /\ ~current
             /\ jobs' = [jobs EXCEPT ![n] = rest]
             /\ UNCHANGED <<eng, cons, timers, msgs>>
          \/ /\ current /\ j.type = Prevote
             /\ msgs' = msgs \cup {m}
             /\ CountPrevote(n, m, rest)
             /\ UNCHANGED timers
          \/ /\ current /\ j.type = Precommit
             /\ msgs' = msgs \cup {m}
             /\ CountPrecommit(n, m)
             /\ jobs' = [jobs EXCEPT ![n] = rest]
       /\ UNCHANGED <<chain, seen, app, announced, restarts>>

-----------------------------------------------------------------------------
(* commitBlockWithSignatures after its sleep.                              *)

\* The proposed block with CommitSignatures made from the precommit set,
\* whatever blocks those precommits are for.
Certificate(n) == [block |-> eng[n].proposed, sigs |-> eng[n].precommits.votes]

\* A failure only increments the round: no timer, no reset of the round.
CommitFails(n) ==
  /\ cons' = IncrementRound(n)
  /\ eng' = [eng EXCEPT ![n].pc = "free"]

FinalValidation(n) ==
  /\ eng[n].pc = "commit"
  /\ \/ /\ ValidateCommitted(n, Certificate(n))
        /\ eng' = [eng EXCEPT ![n].pc = "add"]
        /\ UNCHANGED cons
     \/ /\ ~ValidateCommitted(n, Certificate(n))
        /\ CommitFails(n)
  /\ UNCHANGED <<chain, jobs, timers, seen, app, msgs, announced, restarts>>

\* AddBlock and the onBlockCommit callback, which broadcasts the block.
CommitBlock(n) ==
  /\ eng[n].pc = "add"
  /\ \/ /\ CanAdd(n, eng[n].proposed)
        /\ chain' = AddBlock(n, Certificate(n))
        /\ announced' = announced \cup {Certificate(n)}
        /\ eng' = [eng EXCEPT ![n].pc = "advance"]
        /\ UNCHANGED cons
     \/ /\ ~CanAdd(n, eng[n].proposed)
        /\ CommitFails(n)
        /\ UNCHANGED <<chain, announced>>
  /\ UNCHANGED <<jobs, timers, seen, app, msgs, restarts>>

NextHeight(n) ==
  /\ eng[n].pc = "advance"
  /\ cons' = UpdateHeight(n, eng[n].proposed.height + 1)
  /\ eng' = [eng EXCEPT ![n] = [ClearRound(@) EXCEPT !.pc = "free"]]
  /\ UNCHANGED <<chain, jobs, timers, seen, app, msgs, announced, restarts>>

-----------------------------------------------------------------------------
(* Round timeouts.                                                         *)

TimerFires(n) ==
  /\ timers[n].armed # None
  /\ timers' = [timers EXCEPT ![n] =
       [armed |-> None, fired |-> @.fired \cup {@.armed}]]
  /\ UNCHANGED <<chain, cons, eng, jobs, seen, app, msgs, announced, restarts>>

\* The end of handleRoundTimeout: the next round, proposed by this node or
\* waited for.  f are the fired callbacks left over, c the new counter.
NextRound(n, f, c) ==
  LET h == cons[n].height
      r == cons[n].round + 1
      e == [ClearRound(eng[n]) EXCEPT !.timeouts = c]
  IN IF Proposer(n, h, r) = n
     THEN /\ cons' = [cons EXCEPT ![n].round = r, ![n].state = "PROPOSING"]
          /\ eng' = [eng EXCEPT ![n] = [e EXCEPT !.pc = "repropose"]]
          /\ timers' = [timers EXCEPT ![n].fired = f]
     ELSE /\ cons' = IncrementRound(n)
          /\ eng' = [eng EXCEPT ![n] = [e EXCEPT !.pc = "free"]]
          /\ timers' = [timers EXCEPT ![n] =
               [armed |-> [height |-> h, round |-> r], fired |-> f]]

\* handleRoundTimeout.  The third consecutive timeout starts a block sync and
\* compares the chain height before and after starting it (Resync).
HandleRoundTimeout(n) ==
  \E t \in timers[n].fired :
    LET rest    == timers[n].fired \ {t}
        current == cons[n].height = t.height /\ cons[n].round = t.round
    IN /\ Free(n)
       /\ \/ /\ ~current
             /\ eng' = [eng EXCEPT ![n].timeouts = 0]
             /\ timers' = [timers EXCEPT ![n].fired = rest]
             /\ UNCHANGED cons
          \/ /\ current /\ t.round < MaxRound /\ eng[n].timeouts + 1 < 3
             /\ NextRound(n, rest, eng[n].timeouts + 1)
          \/ /\ current /\ t.round < MaxRound /\ eng[n].timeouts + 1 >= 3
             /\ eng' = [eng EXCEPT ![n] = [@ EXCEPT
                  !.pc = "resync", !.timeouts = 0, !.mark = LatestHeight(n)]]
             /\ timers' = [timers EXCEPT ![n].fired = rest]
             /\ UNCHANGED cons
       /\ UNCHANGED <<chain, jobs, seen, app, msgs, announced, restarts>>

Resync(n) ==
  /\ eng[n].pc = "resync"
  /\ \/ /\ LatestHeight(n) > eng[n].mark
        /\ cons' = [cons EXCEPT ![n].height = LatestHeight(n) + 1, ![n].round = 0]
        /\ eng' = [eng EXCEPT ![n] = [ClearRound(@) EXCEPT !.pc = "free"]]
        /\ UNCHANGED timers
     \/ /\ LatestHeight(n) <= eng[n].mark
        /\ NextRound(n, timers[n].fired, 0)
  /\ UNCHANGED <<chain, jobs, seen, app, msgs, announced, restarts>>

-----------------------------------------------------------------------------
(* The block handler of the application (SetBlockHandler in app.New).      *)

Worker(e, pc) == [entry |-> e, pc |-> pc]

\* A block beyond the next height is kept; the request for the missing ones is
\* answered from announced.  The next block is validated; others are skipped.
ReceiveBlock(n) ==
  \E e \in announced :
    LET h == e.block.height
    IN /\ Cardinality(app[n].running) < MaxHandlers
       /\ \/ /\ h > LatestHeight(n) + 1
             /\ app' = [app EXCEPT ![n].pending[h] = e]
          \/ /\ h = LatestHeight(n) + 1 /\ ValidateCommitted(n, e)
             /\ app' = [app EXCEPT ![n].running = @ \cup {Worker(e, "add")}]
          \/ /\ h <= LatestHeight(n) \/ ~ValidateCommitted(n, e)
             /\ h <= LatestHeight(n) + 1
             /\ UNCHANGED app
       /\ UNCHANGED <<chain, cons, eng, jobs, timers, seen, msgs, announced, restarts>>

HandlerAdds(n) ==
  \E w \in app[n].running :
    /\ w.pc = "add"
    /\ \/ /\ CanAdd(n, w.entry.block)
          /\ chain' = AddBlock(n, w.entry)
          /\ app' = [app EXCEPT ![n].running =
                       (@ \ {w}) \cup {Worker(w.entry, "update")}]
       \/ /\ ~CanAdd(n, w.entry.block)
          /\ app' = [app EXCEPT ![n].running = @ \ {w}]
          /\ UNCHANGED chain
    /\ UNCHANGED <<cons, eng, jobs, timers, seen, msgs, announced, restarts>>

\* UpdateHeight, then the loop over pendingBlocks: the next pending block is
\* taken out and, when valid, added in the same way.
HandlerUpdates(n) ==
  \E w \in app[n].running :
    LET h    == w.entry.block.height + 1
        next == IF h \in Heights THEN app[n].pending[h] ELSE None
        rest == app[n].running \ {w}
    IN /\ w.pc = "update"
       /\ cons' = UpdateHeight(n, h)
       /\ \/ /\ next = None
             /\ app' = [app EXCEPT ![n].running = rest]
          \/ /\ next # None
             /\ app' = [app EXCEPT ![n] =
                  [running |-> IF ValidateCommitted(n, next)
                               THEN rest \cup {Worker(next, "add")} ELSE rest,
                   pending |-> [@.pending EXCEPT ![h] = None]]]
       /\ UNCHANGED <<chain, eng, jobs, timers, seen, msgs, announced, restarts>>

-----------------------------------------------------------------------------
(* The rest of the network.                                                *)

Precommitted(v, b) ==
  \E m \in msgs : m.type = Precommit /\ m.from = v /\ m.block = b

\* A validator outside Engines commits and broadcasts a block: the signatures
\* it attaches were sent as precommits and hold 2/3 of the power.
RemoteCommit ==
  \E b \in Block \ {Genesis} :
    LET sigs == [v \in Validators |-> IF Precommitted(v, b) THEN b ELSE None]
    IN /\ Engines # Validators
       /\ TwoThirds(Voters(sigs))
       /\ announced' = announced \cup {[block |-> b, sigs |-> sigs]}
       /\ UNCHANGED <<chain, cons, eng, jobs, timers, seen, app, msgs, restarts>>

\* A crash or stop of the process and its next start: only the chain is on
\* disk.  Start sets the consensus to the next height.
Restart(n) ==
  /\ restarts < MaxRestarts
  /\ restarts' = restarts + 1
  /\ cons' = UpdateHeight(n, LatestHeight(n) + 1)
  /\ eng' = [eng EXCEPT ![n] = EngineInit]
  /\ jobs' = [jobs EXCEPT ![n] = {}]
  /\ timers' = [timers EXCEPT ![n] = [armed |-> None, fired |-> {}]]
  /\ seen' = [seen EXCEPT ![n] = {}]
  /\ app' = [app EXCEPT ![n] =
       [running |-> {}, pending |-> [h \in Heights |-> None]]]
  /\ UNCHANGED <<chain, msgs, announced>>

Next ==
  \/ \E n \in Engines :
       \/ RunRound(n)
       \/ BuildBlock(n)
       \/ BroadcastProposal(n)
       \/ HandleProposal(n)
       \/ FinishProposal(n)
       \/ HandleVote(n)
       \/ ForgetSeen(n)
       \/ CastVote(n)
       \/ FinalValidation(n)
       \/ CommitBlock(n)
       \/ NextHeight(n)
       \/ TimerFires(n)
       \/ HandleRoundTimeout(n)
       \/ Resync(n)
       \/ ReceiveBlock(n)
       \/ HandlerAdds(n)
       \/ HandlerUpdates(n)
       \/ Restart(n)
  \/ RemoteCommit

Spec == Init /\ [][Next]_vars

\* What a node does without anybody's help: the ticker, the goroutines that
\* sleep or hold e.mu, the timers and their callbacks, the block handlers.
Fairness ==
  \A n \in Engines :
    /\ WF_vars(RunRound(n))
    /\ WF_vars(BuildBlock(n) \/ BroadcastProposal(n) \/ FinishProposal(n))
    /\ WF_vars(CastVote(n))
    /\ WF_vars(FinalValidation(n) \/ CommitBlock(n) \/ NextHeight(n))
    /\ WF_vars(TimerFires(n))
    /\ SF_vars(HandleRoundTimeout(n))
    /\ WF_vars(Resync(n))
    /\ WF_vars(HandlerAdds(n) \/ HandlerUpdates(n))

FairSpec == Spec /\ Fairness

-----------------------------------------------------------------------------
(* Properties.                                                             *)

PCs == {"free", "propose", "repropose", "announce", "reannounce", "prevote",
        "commit", "add", "advance", "resync"}

States == {"IDLE", "PROPOSING", "PREVOTING", "PRECOMMITTING", "COMMITTING"}

VoteSet == [height : Nat, round : Nat, votes : Sigs]

Timer == [height : Nat, round : Nat]

\* nil is none of the things a pointer of the engine can point to.
ASSUME NilAssumption == None \notin Entry /\ None \notin VoteSet

ChainState ==
  [index : [Heights -> Entry \cup {None}], tip : Block, spent : SUBSET Utxos]

ConsState == [height : Nat, round : Nat, state : States]

EngineState ==
  [pc : PCs, proposed : Block \cup {None}, prevotes : VoteSet \cup {None},
   precommits : VoteSet \cup {None}, timeouts : 0 .. 2, mark : Nat]

TimerState == [armed : Timer \cup {None}, fired : SUBSET Timer]

AppState ==
  [running : SUBSET [entry : Entry, pc : {"add", "update"}],
   pending : [Heights -> Entry \cup {None}]]

\* Every variable stays in its set: the fields of ConsensusEngine, Consensus,
\* BlockChain and the application have the types they are declared with, and
\* consecutiveTimeouts never stays at the threshold that starts a block sync.
TypeOK ==
  /\ chain \in [Engines -> ChainState]
  /\ cons \in [Engines -> ConsState]
  /\ eng \in [Engines -> EngineState]
  /\ jobs \in [Engines -> SUBSET VoteJob]
  /\ timers \in [Engines -> TimerState]
  /\ seen \in [Engines -> SUBSET Key]
  /\ app \in [Engines -> AppState]
  /\ msgs \in SUBSET Message
  /\ announced \in SUBSET Entry
  /\ restarts \in Nat

\* A certificate: validators with more than 2/3 of the power have signed this
\* very block, and sent the signature as a precommit.
Certified(e) ==
  TwoThirds({v \in Validators : e.sigs[v] = e.block /\ Precommitted(v, e.block)})

\* Every block some node ever committed, as it was stored or sent.
Committed ==
  announced \cup {chain[n].index[h] : n \in Engines, h \in Heights \ {0}}

\* Every block above genesis in the database of a node, and every block a node
\* sends, carries a certificate.  AddVote counts precommits for any block, so
\* this rests on the final ValidateBlock of commitBlockWithSignatures and on
\* the one of the block handler, both made before a sleep, a lock or a race.
StoredBlocksCertified ==
  \A e \in Committed \ {None} : Certified(e)

\* Wherever an engine stands, the next N timeouts give every validator a round to
\* propose in, with round-robin and in hybrid mode, whatever the hashes are
\* (handleRoundTimeout; "ensures liveness" at SelectProposerHybrid).
EveryoneProposes ==
  \A n \in Engines :
    LET next == cons[n].round + 1 .. cons[n].round + N
    IN /\ {SelectProposer(cons[n].height, r) : r \in next} = Validators
       /\ {SelectProposerHybrid(cons[n].height, r, PrevHash(n)) : r \in next} = Validators

\* Two different blocks of one height are committed only if validators holding
\* more than 1/3 of the power sent precommits for both of them: a fork is always
\* attributable, whatever timeouts, late commits and restarts do.
ForkAccountability ==
  \A e, f \in Committed \ {None} :
    e.block.height = f.block.height /\ e.block # f.block =>
      3 * PowerOf[{v \in Validators : Precommitted(v, e.block)
                                      /\ Precommitted(v, f.block)}]
        > TotalVotingPower

\* No output is spent by two blocks of a node's chain, although the engine and
\* several block handlers validate blocks before they take the write lock.
NoDoubleSpend ==
  \A n \in Engines :
    LET ix == chain[n].index
    IN /\ \A h \in Heights : ix[h] # None => ix[h].block.spends \subseteq chain[n].spent
       /\ \A h, k \in Heights :
            h # k /\ ix[h] # None /\ ix[k] # None
              => ix[h].block.spends \cap ix[k].block.spends = {}

\* All the blocks of one height that were ever committed are the same block.
\* The engine has no lock across rounds and forgets its votes when it stops, so
\* this holds within one round and with at most one restart, and not beyond.
Agreement ==
  \A e, f \in Committed \ {None} : e.block.height = f.block.height => e.block = f.block

\* The engine never runs ahead of the chain: its height is at most one above
\* the latest block, and so is the height of every vote it sends or holds back.
\* UpdateHeight is called by three goroutines with heights read earlier.
ConsensusNotAhead ==
  \A n \in Engines :
    /\ cons[n].height <= LatestHeight(n) + 1
    /\ \A j \in jobs[n] : j.height <= LatestHeight(n) + 1
    /\ \A m \in msgs : m.from = n => m.height <= LatestHeight(n) + 1

\* A precommit of an engine at some height and round follows prevotes of more
\* than 2/3 of the power for that height and round.
PrecommitFollowsPrevotes ==
  \A m \in msgs :
    m.type = Precommit /\ m.from \in Engines =>
      TwoThirds({v \in Validators :
                   \E p \in msgs : p.type = Prevote /\ p.from = v
                                   /\ p.height = m.height /\ p.round = m.round})

\* A validator proposes at most one block for a height and round.
OneProposalPerRound ==
  \A m, p \in msgs :
    m.type = Proposal /\ m.from \in Engines /\ KeyOf(m) = KeyOf(p) => m = p

\* A node that refused the block of a proposal does not stay in the proposal's
\* round: the round timer moves it on (HandleProposal, handleRoundTimeout).
RefusalTimesOut ==
  \A n \in Engines : \A m \in RemoteMsgs :
    LET refused == /\ m.type = Proposal /\ KeyOf(m) \in seen[n]
                   /\ m.height = LatestHeight(n) + 1 /\ ~ValidateBlock(n, m.block)
                   /\ cons[n].height = m.height /\ cons[n].round = m.round
    IN refused ~> cons[n].height # m.height \/ cons[n].round # m.round

\* A stored block is never replaced by another one.
Finality ==
  [][\A n \in Engines : \A h \in Heights :
       chain[n].index[h] # None =>
         chain'[n].index[h] # None
         /\ chain'[n].index[h].block = chain[n].index[h].block]_vars
=============================================================================
