------------------------------- MODULE Ledger -------------------------------
(***************************************************************************)
(* core.BlockChain of one node: the UTXO set and the block index in        *)
(* LevelDB, the mempool, the construction of transactions and of blocks,   *)
(* block validation and AddBlock.                                          *)
(*                                                                         *)
(* Granularity.  AddBlock holds p.mu, but writes to the database twice:    *)
(* one batch with the block and the UTXO updates, a second one with the    *)
(* new height.  The process may die between them.  Validating a block and  *)
(* adding it are two critical sections, as are building or validating a    *)
(* transaction and inserting it into the mempool.                          *)
(*                                                                         *)
(* Data.  A transaction and a block stand for their own hashes.  An        *)
(* outpoint is <<transaction, output index>>.  The order in which GetTxs,  *)
(* GetUtxoList and the loops of UpdateUtxo run over Go maps is arbitrary,  *)
(* so transactions and inputs are sets and what depends on the order is a  *)
(* choice.  Amounts are far below 2^64.                                    *)
(***************************************************************************)
EXTENDS Integers, Sequences, FiniteSets, FiniteSetsExt, Functions

CONSTANTS
  Addr,
  None,            \* Go's nil; the empty address as a proposer
  GenesisOuts,     \* outputs of the genesis transaction
  Reward,          \* GetBlockReward
  MinFee,          \* GetMinFee
  MaxTxsPerBlock,
  Amounts, Fees,   \* what requests ask for
  Stamps,          \* creation times: what tells equal transfers apart
  Proposers,       \* what this node proposes as: its address, None without a key
  Peers,           \* the addresses of the other proposers
  Direct,          \* the goroutines that add the block they build unchecked
  Checked,         \* the goroutines that validate a block and then add it
  MaxMade,         \* bound: transactions made
  MaxHeight,       \* bound: highest block
  MaxBuilt,        \* bound: blocks proposed
  MaxCrashes       \* bound: crashes

Adders == Direct \cup Checked

ASSUME LedgerAssumption ==
  /\ None \notin Addr
  /\ GenesisOuts \in Seq([addr : Addr, amount : Nat])
  /\ Proposers \subseteq Addr \cup {None} /\ Peers \subseteq Addr
  /\ Reward \in Nat /\ MinFee \in Nat /\ MaxTxsPerBlock \in Nat
  /\ Amounts \subseteq Nat \ {0} /\ Fees \subseteq Nat
  /\ None \notin Adders
  /\ {MaxMade, MaxHeight, MaxBuilt, MaxCrashes} \subseteq Nat

VARIABLES
  utxo,      \* database: outpoint -> owner, amount, Spent
  list,      \* database: address -> outpoints listed for it
  index,     \* database: height -> block
  meta,      \* database: latest height
  latest,    \* LatestHeight
  mempool,   \* transactions in the mempool
  inflight,  \* transactions checked or made, not yet in the mempool
  made,      \* every transaction made, here or at a client
  built,     \* blocks built here or by a peer in the same state
  adder,     \* the block each adder is about to add
  writing,   \* the adder between the two writes of AddBlock
  crashes

db   == <<utxo, list, index, meta>>
pool == <<mempool, inflight, made>>
vars == <<db, latest, pool, built, adder, writing, crashes>>

-----------------------------------------------------------------------------
(* Transactions and outputs.                                               *)

Out(a, n) == [addr |-> a, amount |-> n]

Tx(ins, outs, signed, stamp) ==
  [ins |-> ins, outs |-> outs, signed |-> signed, stamp |-> stamp]

OutSum(outs) == SumFunction([i \in DOMAIN outs |-> outs[i].amount])

InSum(ins) == SumFunction([o \in ins |-> utxo[o].amount])

Outpoints(txs) == UNION {{<<t, i>> : i \in DOMAIN t.outs} : t \in txs}

Inputs(txs) == UNION {t.ins : t \in txs}

\* validate.go: ValidateCoinbaseTx, ValidateAllTxSignatures, ValidateTransaction
ValidateCoinbaseTx(t) == t.outs # <<>> /\ OutSum(t.outs) > 0

ValidateAllTxSignatures(t) == t.signed /\ t.ins \subseteq DOMAIN utxo

ValidateTransaction(t) ==
  IF t.ins = {} THEN ValidateCoinbaseTx(t)
  ELSE /\ t.ins \subseteq DOMAIN utxo
       /\ \A o \in t.ins : ~utxo[o].spent
       /\ InSum(t.ins) >= OutSum(t.outs) + MinFee
       /\ ValidateAllTxSignatures(t)

CalculateTxFee(t) == IF t.ins = {} THEN 0 ELSE InSum(t.ins) - OutSum(t.outs)

FeeSum(txs) == SumFunction([t \in txs |-> CalculateTxFee(t)])

\* The listed outputs of an address that are not spent; with mempoolCheck, nor
\* an input of a transaction in the mempool.
GetUtxoList(a, mempoolCheck) ==
  {o \in list[a] : ~utxo[o].spent /\ (mempoolCheck => o \notin Inputs(mempool))}

GetBalance(a) == InSum(GetUtxoList(a, FALSE))

\* What the address has received, block by block; an output that is not in the
\* database counts as spent.
GetAddressTransactions(a) ==
  UNION {{[height |-> h, amount |-> o[1].outs[o[2]].amount, out |-> o,
           spent |-> o \in DOMAIN utxo => utxo[o].spent] :
             o \in {q \in Outpoints(index[h].txs) : q[1].outs[q[2]].addr = a}} :
         h \in DOMAIN index \cap (0 .. latest)}

-----------------------------------------------------------------------------
(* The database starts with the genesis block.                             *)

GenesisTx == Tx({}, GenesisOuts, TRUE, <<0, 0>>)

GenesisBlock ==
  [height |-> 0, prev |-> None, txs |-> {GenesisTx}, proposer |-> None, stamp |-> 0]

Init ==
  /\ utxo = [o \in Outpoints({GenesisTx}) |->
               [addr |-> GenesisOuts[o[2]].addr,
                amount |-> GenesisOuts[o[2]].amount, spent |-> FALSE]]
  /\ list = [a \in Addr |-> {o \in Outpoints({GenesisTx}) : GenesisOuts[o[2]].addr = a}]
  /\ index = [h \in {0} |-> GenesisBlock]
  /\ meta = 0
  /\ latest = 0
  /\ mempool = {} /\ inflight = {} /\ made = {}
  /\ built = {}
  /\ adder = [a \in Adders |-> None]
  /\ writing = None
  /\ crashes = 0

-----------------------------------------------------------------------------
(* The mempool (mempool.go) and the ways into it.                          *)

Make(t) ==
  /\ t \in made \/ Cardinality(made) < MaxMade
  /\ made' = made \cup {t}
  /\ inflight' = inflight \cup {t}
  /\ UNCHANGED <<db, latest, mempool, built, adder, writing, crashes>>

\* A request of the REST API makes a transfer: SendTxWithWallet signs it
\* (CreateSignedTx), SubmitTransferTx does not (SubmitTx, SetTransferTx).
\* Outputs are collected until amount and fee are covered; what is left is
\* paid back.
CreateTx(from, to, amount, fee, signed, stamp) ==
  LET due == amount + (IF fee = 0 THEN MinFee ELSE fee)
  IN \E ins \in SUBSET GetUtxoList(from, TRUE) :
       /\ InSum(ins) >= due
       /\ \E last \in ins : InSum(ins \ {last}) < due
       /\ LET change == IF InSum(ins) > due
                        THEN <<Out(from, InSum(ins) - due)>> ELSE <<>>
          IN Make(Tx(ins, <<Out(to, amount)>> \o change, signed, stamp))

\* SubmitSignedTx: a client spends one output of its own as it likes.  Only
\* the signatures are checked; a spent output is still in the database.
SubmitSignedTx(o, to, amount, stamp) ==
  LET t == Tx({o}, <<Out(to, amount)>>, TRUE, stamp)
  IN ValidateAllTxSignatures(t) /\ Make(t)

\* TxHandler: a transaction arrives from a peer, perhaps not for the first time.
ReceiveTx(t) ==
  /\ t \in made
  /\ inflight' = IF ValidateTransaction(t) THEN inflight \cup {t} ELSE inflight
  /\ UNCHANGED <<db, latest, mempool, made, built, adder, writing, crashes>>

NewTranaction(t) ==
  /\ t \in inflight
  /\ inflight' = inflight \ {t}
  /\ mempool' = mempool \cup {t}
  /\ UNCHANGED <<db, latest, made, built, adder, writing, crashes>>

-----------------------------------------------------------------------------
(* Building a block (SetBlock).                                            *)

\* GetTxs: every cached fee is 0, so any choice of MaxTxsPerBlock
\* transactions may come first in the sorted slice.
GetTxs ==
  IF Cardinality(mempool) > MaxTxsPerBlock
  THEN {S \in SUBSET mempool : Cardinality(S) = MaxTxsPerBlock}
  ELSE {mempool}

Conflict(t, u) == t # u /\ t.ins \cap u.ins # {}

\* Mutant: two candidates that spend the same output are both kept.
MutKept(txs) == {{t \in txs : ValidateTransaction(t)}}

\* The loop over the candidates keeps a valid one unless an earlier one that
\* was kept spends the same output.
Kept(txs) ==
  {K \in SUBSET {t \in txs : ValidateTransaction(t)} :
     /\ \A t, u \in K : ~Conflict(t, u)
     /\ \A t \in txs \ K : ValidateTransaction(t) => \E u \in K : Conflict(t, u)}

\* Mutant: the fees are not paid out.
MutcreateCoinbaseTx(p, txs, stamp) ==
  Tx({}, <<Out(p, Reward)>>, TRUE, <<latest + 1, stamp>>)

\* The memo of a transaction without inputs names the height of its block.
createCoinbaseTx(p, txs, stamp) ==
  Tx({}, <<Out(p, Reward + FeeSum(txs))>>, TRUE, <<latest + 1, stamp>>)

Compose(p, stamp, txs) ==
  [height |-> latest + 1, prev |-> index[latest], proposer |-> p, stamp |-> stamp,
   txs |-> txs \cup (IF p = None THEN {} ELSE {createCoinbaseTx(p, txs, stamp)})]

\* What SetBlock may do: the block it returns, and the candidates it leaves out
\* and deletes from the mempool.
SetBlock(p, stamp) ==
  UNION {{[block |-> Compose(p, stamp, kept), dropped |-> txs \ kept] :
            kept \in Kept(txs)} : txs \in GetTxs}

\* proposeBlock of this node.
ProposeBlock(p, stamp) ==
  /\ writing = None
  /\ latest < MaxHeight
  /\ Cardinality(built) < MaxBuilt
  /\ \E s \in SetBlock(p, stamp) :
       built' = built \cup {s.block} /\ mempool' = mempool \ s.dropped
  /\ UNCHANGED <<db, latest, inflight, made, adder, writing, crashes>>

\* The block of a peer with the same chain and a mempool of its own.
PeerProposes(p, stamp) ==
  /\ writing = None
  /\ latest < MaxHeight
  /\ Cardinality(built) < MaxBuilt
  /\ \E txs \in {S \in SUBSET made : Cardinality(S) <= MaxTxsPerBlock} :
       \E kept \in Kept(txs) : built' = built \cup {Compose(p, stamp, kept)}
  /\ UNCHANGED <<db, latest, pool, adder, writing, crashes>>

\* produceBlockSolo, and ComposeAndAddBlock of the REST API with no proposer:
\* the block goes to AddBlock without validation.
ProduceBlock(ad, p, stamp) ==
  /\ writing = None
  /\ latest < MaxHeight
  /\ adder[ad] = None
  /\ \E s \in SetBlock(p, stamp) :
       adder' = [adder EXCEPT ![ad] = s.block] /\ mempool' = mempool \ s.dropped
  /\ UNCHANGED <<db, latest, inflight, made, built, writing, crashes>>

-----------------------------------------------------------------------------
(* Validating and adding a block.                                          *)

ValidateBlock(blk) ==
  /\ blk.height - 1 \in DOMAIN index
  /\ index[blk.height - 1] = blk.prev
  /\ blk.proposer # None
  /\ Cardinality(blk.txs) <= MaxTxsPerBlock
  /\ \A t, u \in blk.txs : ~Conflict(t, u)
  /\ \A t \in blk.txs : ValidateTransaction(t)

\* The block handler and the commit of the consensus engine validate a block
\* of the next height before they add it.
CheckBlock(ad, blk) ==
  /\ writing = None
  /\ adder[ad] = None
  /\ blk \in built
  /\ blk.height = latest + 1
  /\ ValidateBlock(blk)
  /\ adder' = [adder EXCEPT ![ad] = blk]
  /\ UNCHANGED <<db, latest, pool, built, writing, crashes>>

UpdateUtxoFails(blk) ==
  \/ ~(Inputs(blk.txs) \subseteq DOMAIN utxo)
  \/ \E o \in Inputs(blk.txs) : utxo[o].spent

\* Mutant: the inputs of the block stay unspent.
MutUpdatedUtxo(blk) ==
  [o \in DOMAIN utxo \cup Outpoints(blk.txs) |->
     IF o \in Outpoints(blk.txs)
     THEN [addr |-> o[1].outs[o[2]].addr, amount |-> o[1].outs[o[2]].amount,
           spent |-> FALSE]
     ELSE utxo[o]]

\* Mutant: Spent says whether this block spends the output.
MutSpentByBlock(blk) ==
  [o \in DOMAIN utxo \cup Outpoints(blk.txs) |->
     IF o \in Outpoints(blk.txs)
     THEN [addr |-> o[1].outs[o[2]].addr, amount |-> o[1].outs[o[2]].amount,
           spent |-> FALSE]
     ELSE [utxo[o] EXCEPT !.spent = o \in Inputs(blk.txs)]]

UpdatedUtxo(blk) ==
  [o \in DOMAIN utxo \cup Outpoints(blk.txs) |->
     IF o \in Outpoints(blk.txs)
     THEN [addr |-> o[1].outs[o[2]].addr, amount |-> o[1].outs[o[2]].amount,
           spent |-> FALSE]
     ELSE [utxo[o] EXCEPT !.spent = @ \/ o \in Inputs(blk.txs)]]

PaidTo(blk, a) == {o \in Outpoints(blk.txs) : o[1].outs[o[2]].addr = a}

SpentOf(blk, a) == {o \in Inputs(blk.txs) : utxo[o].addr = a}

\* Mutant: the list of a paid address starts empty.
MutUpdatedList(blk, last) ==
  [a \in Addr |-> IF PaidTo(blk, a) # {} THEN PaidTo(blk, a) ELSE list[a] \ last]

\* Every input rewrites the list of its owner from the stored one, so only the
\* last removal of an address remains; the list of an address that is paid is
\* again written from the stored one, with the new outputs.
UpdatedList(blk, last) ==
  [a \in Addr |-> IF PaidTo(blk, a) # {} THEN list[a] \cup PaidTo(blk, a)
                  ELSE list[a] \ last]

LastInputs(blk) ==
  {S \in SUBSET Inputs(blk.txs) :
     \A a \in Addr : Cardinality(S \cap SpentOf(blk, a)) =
                       (IF SpentOf(blk, a) = {} THEN 0 ELSE 1)}

\* The error returns of AddBlock: nothing is written.
AddBlockFails(ad) ==
  /\ writing = None
  /\ adder[ad] # None
  /\ UpdateUtxoFails(adder[ad])
  /\ adder' = [adder EXCEPT ![ad] = None]
  /\ UNCHANGED <<db, latest, pool, built, writing, crashes>>

\* Mutant: the height is written with the first batch, the block later.
MutAddBlock(ad) ==
  LET blk == adder[ad] IN
  /\ writing = None
  /\ blk # None
  /\ ~UpdateUtxoFails(blk)
  /\ meta' = IF blk.height > latest THEN blk.height ELSE meta
  /\ writing' = ad
  /\ UNCHANGED <<utxo, list, index, latest, pool, built, adder, crashes>>

\* AddBlock up to the first batch.
AddBlock(ad) ==
  LET blk == adder[ad] IN
  /\ writing = None
  /\ blk # None
  /\ ~UpdateUtxoFails(blk)
  /\ utxo' = UpdatedUtxo(blk)
  /\ \E last \in LastInputs(blk) : list' = UpdatedList(blk, last)
  /\ index' = [h \in DOMAIN index \cup {blk.height} |->
                 IF h = blk.height THEN blk ELSE index[h]]
  /\ writing' = ad
  /\ UNCHANGED <<meta, latest, pool, built, adder, crashes>>

\* Mutant: p.mu is not released.
MutUpdateChainState(ad) ==
  LET blk == adder[ad] IN
  /\ writing = ad
  /\ mempool' = mempool \ blk.txs
  /\ latest' = IF blk.height > latest THEN blk.height ELSE latest
  /\ meta' = IF blk.height > latest THEN blk.height ELSE meta
  /\ built' = built \cup {blk}
  /\ adder' = [adder EXCEPT ![ad] = None]
  /\ UNCHANGED <<utxo, list, index, inflight, made, writing, crashes>>

\* The rest of AddBlock: the mempool is updated, UpdateChainState writes the
\* height, and the block is announced.
UpdateChainState(ad) ==
  LET blk == adder[ad] IN
  /\ writing = ad
  /\ mempool' = mempool \ blk.txs
  /\ latest' = IF blk.height > latest THEN blk.height ELSE latest
  /\ meta' = IF blk.height > latest THEN blk.height ELSE meta
  /\ built' = built \cup {blk}
  /\ adder' = [adder EXCEPT ![ad] = None]
  /\ writing' = None
  /\ UNCHANGED <<utxo, list, index, inflight, made, crashes>>

\* The process dies and is started again: LoadChainDB reads the height.
Crash ==
  /\ crashes < MaxCrashes
  /\ crashes' = crashes + 1
  /\ latest' = meta
  /\ mempool' = {} /\ inflight' = {}
  /\ adder' = [a \in Adders |-> None]
  /\ writing' = None
  /\ UNCHANGED <<db, made, built>>

-----------------------------------------------------------------------------
Next ==
  \/ \E from, to \in Addr, n \in Amounts, fee \in Fees, signed \in BOOLEAN, s \in Stamps :
       CreateTx(from, to, n, fee, signed, s)
  \/ \E o \in DOMAIN utxo, to \in Addr, n \in Amounts, s \in Stamps :
       SubmitSignedTx(o, to, n, s)
  \/ \E t \in made : ReceiveTx(t)
  \/ \E t \in inflight : NewTranaction(t)
  \/ \E p \in Proposers \ {None}, s \in Stamps : ProposeBlock(p, s)
  \/ \E p \in Peers, s \in Stamps : PeerProposes(p, s)
  \/ \E ad \in Direct, p \in Proposers, s \in Stamps : ProduceBlock(ad, p, s)
  \/ \E ad \in Checked, blk \in built : CheckBlock(ad, blk)
  \/ \E ad \in Adders : AddBlockFails(ad) \/ AddBlock(ad) \/ UpdateChainState(ad)
  \/ Crash

Spec == Init /\ [][Next]_vars

-----------------------------------------------------------------------------
(* Properties.                                                             *)

IsTx(t) ==
  /\ DOMAIN t = {"ins", "outs", "signed", "stamp"}
  /\ t.signed \in BOOLEAN
  /\ t.outs \in Seq([addr : Addr, amount : Nat])

\* Types.  Every index entry has the height it is stored under, every adder
\* that is writing has a block, and every transaction pays Addr.
TypeOK ==
  /\ \A o \in DOMAIN utxo :
       IsTx(o[1]) /\ utxo[o] \in [addr : Addr, amount : Nat, spent : BOOLEAN]
  /\ list \in [Addr -> SUBSET DOMAIN utxo]
  /\ \A h \in DOMAIN index : h \in Nat /\ index[h].height = h
  /\ meta \in Nat /\ latest \in Nat
  /\ inflight \subseteq made /\ mempool \subseteq made
  /\ \A t \in made : IsTx(t) /\ t.ins # {}
  /\ writing # None => adder[writing] # None

ChainTxs == UNION {index[h].txs : h \in DOMAIN index}

\* The UTXO set is what the stored chain says: the outputs in the database are
\* those of the transactions of the indexed blocks, an output is marked spent
\* exactly when one of these transactions spends it, and no two of them spend
\* the same one (UpdateUtxo, saveBlockData).  This needs one adder and no crash:
\* AddBlock overwrites the index entry of a height and keeps the outputs of the
\* block it replaces, so two adders that race for a height, or a crash between
\* the two writes of AddBlock, break it.
UtxoMatchesChain ==
  /\ DOMAIN utxo = Outpoints(ChainTxs)
  /\ \A o \in DOMAIN utxo : utxo[o].spent <=> o \in Inputs(ChainTxs)
  /\ \A t, u \in ChainTxs : ~Conflict(t, u)

Unspent == {o \in DOMAIN utxo : ~utxo[o].spent}

\* Money is made by block rewards only: the unspent outputs sum up to the
\* genesis balances and one reward for every block with a proposer; the fees
\* go to the proposer, and are lost in a block without one (createCoinbaseTx).
\* It rests on UtxoMatchesChain and needs one adder and no crash as well.
Conservation ==
  LET paid   == {h \in DOMAIN index : index[h].proposer # None}
      unpaid == DOMAIN index \ paid
  IN InSum(Unspent) = OutSum(GenesisOuts) + Reward * Cardinality(paid)
                        - SumFunction([h \in unpaid |-> FeeSum(index[h].txs)])

\* An output once marked spent stays so (UTXO.Spent).
SpentStaysSpent ==
  [][\A o \in DOMAIN utxo : utxo[o].spent => utxo'[o].spent]_utxo

\* No unspent output is missing from the list of its owner, so balances and
\* input selection (GetUtxoList) see all of them, whatever order the lists of
\* one batch are overwritten in.
BalanceComplete == \A o \in Unspent : o \in list[utxo[o].addr]

\* The two answers of the REST API about an address agree whenever no block is
\* being added: what its history shows as unspent (GetAddressTransactions, from
\* the chain) is its balance (GetBalance, from the list of its outputs).
HistoryMatchesBalance ==
  writing = None =>
    \A a \in Addr :
      LET unspent == {e \in GetAddressTransactions(a) : ~e.spent}
      IN GetBalance(a) = SumFunction([e \in unspent |-> e.amount])

\* The height in memory is the one a restart reads.  All blocks up to it are in
\* the database, and at most one above it: UpdateChainState writes the height
\* after AddBlock's batch, so a crash between them loses one block of the chain,
\* never more, also when several goroutines add blocks.
HeightStored ==
  /\ latest = meta
  /\ 0 .. meta \subseteq DOMAIN index
  /\ DOMAIN index \subseteq 0 .. meta + 1

\* A block proposed on the latest block passes validation as long as the chain
\* does not move: SetBlock drops from its candidates what ValidateBlock would
\* refuse, stale and conflicting transactions included.
ProposalsValid ==
  \A blk \in built :
    (/\ writing = None
     /\ blk.prev = index[latest]
     /\ latest = Max(DOMAIN index)) => ValidateBlock(blk)

\* After a restart LatestHeight is the height of the highest block in the
\* database (LoadChainDB; "DB kept" in the restart scripts).
RestartComplete == writing = None => meta = Max(DOMAIN index)

\* A spent output is removed from the list of its address (UpdateUtxo).
ListsPruned == \A a \in Addr : \A o \in list[a] : ~utxo[o].spent

\* A block takes the transactions with the higher fees (GetTxs): none that is
\* left in the mempool, valid and free of conflicts with the block, offers more
\* than one that is taken.
HighestFeesFirst ==
  [][\A blk \in built' \ built, t \in mempool, u \in mempool :
       (/\ t \in blk.txs
        /\ u \notin blk.txs /\ ValidateTransaction(u)
        /\ \A w \in blk.txs : ~Conflict(u, w))
       => CalculateTxFee(u) <= CalculateTxFee(t)]_built
=============================================================================
