------------------------- MODULE LedgerChainProofs -------------------------
(***************************************************************************)
(* What holds of the ledger when one goroutine adds blocks and the process *)
(* does not die (Solo): then the database is the one the chain describes,  *)
(* spent outputs stay spent, money is conserved, histories agree with      *)
(* balances, and proposals validate.  Without Solo these fail: two racing  *)
(* AddBlocks apply two blocks of one height, and a crash between the       *)
(* writes applies a block twice.                                           *)
(*                                                                         *)
(* ChainShape says that the index is a chain from genesis to the latest    *)
(* block, or one more while a block is being added, and that all blocks,   *)
(* stored, proposed or about to be added, are as SetBlock makes them       *)
(* (Composed).  ChainOutputs adds to UtxoMatchesChain that no transaction  *)
(* is in two blocks.  From both follows that what AddBlock adds is new     *)
(* (AddedIsNew), and from that the rest.  Values are sums over outputs,    *)
(* not over database entries, so that they can be compared across steps.   *)
(***************************************************************************)
EXTENDS LedgerProofs

-----------------------------------------------------------------------------
(* One goroutine adds blocks, and the process does not die.                *)

Solo == (\E a : Adders = {a}) /\ MaxCrashes = 0

\* The fees, from the outputs themselves instead of the database.
Fee(t) == IF t.ins = {} THEN 0 ELSE Value(t.ins) - OutSum(t.outs)

FeesOf(txs) == Sum([t \in txs |-> Fee(t)], txs)

Transfers(blk) == {t \in blk.txs : t.ins # {}}

\* What SetBlock promises of a block: its transfers do not conflict, the
\* transaction without inputs names the height, and pays reward and fees.
Composed(blk) ==
  /\ \A t, u \in blk.txs : ~Conflict(t, u)
  /\ \A t \in blk.txs : t.ins = {} => t.stamp[1] = blk.height
  /\ blk.proposer = None => Transfers(blk) = blk.txs
  /\ blk.proposer # None =>
       \E c \in blk.txs : /\ c.ins = {} /\ blk.txs = Transfers(blk) \cup {c}
                          /\ OutSum(c.outs) = Reward + FeesOf(Transfers(blk))

Follows(blk) ==
  /\ blk.height - 1 \in 0 .. latest
  /\ blk.prev = index[blk.height - 1]

ChainShape ==
  /\ crashes = 0
  /\ DOMAIN index = 0 .. (IF writing = None THEN latest ELSE latest + 1)
  /\ writing # None => index[latest + 1] = adder[writing]
  /\ index[0] = GenesisBlock
  /\ \A h \in DOMAIN index \ {0} : Composed(index[h])
  /\ \A a \in Adders : adder[a] # None =>
       Composed(adder[a]) /\ Follows(adder[a]) /\ adder[a].height = latest + 1
  /\ \A blk \in built : Composed(blk) /\ Follows(blk)

\* In the database the fee of a transaction is the fee of its outputs.
LEMMA FeeSumIs ==
  ASSUME OutputsSound, NEW txs, \A t \in txs : t.ins \subseteq DOMAIN utxo
  PROVE  FeeSum(txs) = FeesOf(txs)
<1>1. \A t \in txs : CalculateTxFee(t) = Fee(t)
  BY InSumIs DEF CalculateTxFee, Fee
<1>2. [t \in txs |-> CalculateTxFee(t)] = [t \in txs |-> Fee(t)]
  BY <1>1
<1> QED  BY <1>2 DEF FeeSum, FeesOf, SumFunction, Sum

LEMMA NewBlockComposed ==
  ASSUME OutputsSound, latest \in Nat, NEW p \in Addr \cup {None}, NEW blk, NewBlock(blk, p)
  PROVE  /\ Composed(blk) /\ Follows(blk) /\ blk.height = latest + 1
         /\ blk.prev = index[latest] /\ blk.proposer = p
<1>1. PICK s \in Stamps, kept \in SUBSET made : ComposedOf(blk, p, s, kept)
  BY DEF NewBlock
<1>2. /\ blk.height = latest + 1 /\ blk.prev = index[latest] /\ blk.proposer = p
      /\ blk.txs = kept \cup (IF p = None THEN {} ELSE {createCoinbaseTx(p, kept, s)})
  BY <1>1 DEF ComposedOf, Compose
<1>3. /\ Candidates(kept) /\ \A t, u \in kept : ~Conflict(t, u)
      /\ \A t \in kept : t.ins # {}
  BY <1>1 DEF ComposedOf, Candidates
<1>4. Follows(blk)
  BY <1>2 DEF Follows
<1>5. CASE p = None
  <2>1. blk.txs = kept
    BY <1>2, <1>5
  <2> QED  BY <1>2, <1>3, <1>4, <1>5, <2>1 DEF Composed, Transfers
<1>6. CASE p # None
  <2> DEFINE c == createCoinbaseTx(p, kept, s)
  <2>1. c.ins = {} /\ c.stamp[1] = latest + 1 /\ OutSum(c.outs) = Reward + FeeSum(kept)
    BY <1>3, <1>6, CoinbaseSound
  <2>2. blk.txs = kept \cup {c}
    BY <1>2, <1>6
  <2> HIDE DEF c
  <2>3. Transfers(blk) = kept
    BY <1>3, <2>1, <2>2 DEF Transfers
  <2>4. FeeSum(kept) = FeesOf(kept)
    BY <1>3, ValidFee, FeeSumIs DEF Candidates
  <2>5. \A t, u \in blk.txs : ~Conflict(t, u)
    BY <1>3, <2>1, <2>2 DEF Conflict
  <2>6. \A t \in blk.txs : t.ins = {} => t.stamp[1] = blk.height
    BY <1>2, <1>3, <2>1, <2>2
  <2>7. Composed(blk)
    BY <1>2, <1>6, <2>1, <2>2, <2>3, <2>4, <2>5, <2>6 DEF Composed
  <2> QED  BY <1>2, <1>4, <2>7
<1> QED  BY <1>5, <1>6

LEMMA InitShape == Init => ChainShape
  BY DEF Init, ChainShape

\* Blocks that followed the chain follow it when it has grown.
LEMMA FollowsKept ==
  ASSUME latest \in Nat, latest' \in Nat, latest <= latest',
         \A h \in 0 .. latest : index'[h] = index[h], NEW blk, Follows(blk)
  PROVE  Follows(blk)'
  BY DEF Follows

LEMMA NextShape ==
  Solo /\ HeightsSound /\ TypesSound /\ ChainShape /\ [Next]_vars => ChainShape'
<1> SUFFICES ASSUME Solo, HeightsSound, TypesSound, ChainShape, [Next]_vars  PROVE ChainShape'
  OBVIOUS
<1> USE DEF db, pool
<1>0. PoolSound /\ OutputsSound /\ BlocksSound /\ latest \in Nat /\ DOMAIN adder = Adders
  BY DEF TypesSound, HeightsSound
<1>1. CASE PoolStep
  BY <1>1 DEF PoolStep, ChainShape, Follows
<1>2. ASSUME NEW p \in Addr, NEW blk, BuildStep(blk, p)  PROVE ChainShape'
  <2>1. Composed(blk) /\ Follows(blk)
    BY <1>0, <1>2, NewBlockComposed DEF BuildStep
  <2> QED  BY <1>2, <2>1 DEF BuildStep, ChainShape, Follows
<1>3. ASSUME NEW ad \in Adders, NEW blk, GetStep(ad, blk), Composed(blk), Follows(blk)
      PROVE  ChainShape'
  <2>1. \A a \in Adders : adder'[a] = IF a = ad THEN blk ELSE adder[a]
    BY <1>0, <1>3 DEF GetStep
  <2> QED  BY <1>3, <2>1 DEF GetStep, ChainShape, Follows
<1>4. ASSUME NEW ad \in Adders, AddBlockFails(ad)  PROVE ChainShape'
  <2>1. \A a \in Adders : adder'[a] = IF a = ad THEN None ELSE adder[a]
    BY <1>0, <1>4 DEF AddBlockFails
  <2> QED  BY <1>4, <2>1 DEF AddBlockFails, ChainShape, Follows
<1>5. ASSUME NEW ad \in Adders, AddBlock(ad)  PROVE ChainShape'
  <2> DEFINE blk == adder[ad]
  <2>1. /\ blk # None /\ writing = None /\ writing' = ad /\ ad # None
        /\ index' = [h \in DOMAIN index \cup {blk.height} |->
                       IF h = blk.height THEN blk ELSE index[h]]
        /\ UNCHANGED <<latest, built, adder, crashes>>
    BY Zenon, <1>5, AddBlockStep, LedgerAssumption
  <2>2. Composed(blk) /\ Follows(blk) /\ blk.height = latest + 1 /\ DOMAIN index = 0 .. latest
    BY <2>1 DEF ChainShape
  <2> HIDE DEF blk
  <2>3. /\ DOMAIN index' = 0 .. latest + 1 /\ index'[latest + 1] = blk
        /\ \A h \in 0 .. latest : index'[h] = index[h]
    <3>1. index' = [h \in 0 .. latest \cup {latest + 1} |->
                      IF h = latest + 1 THEN blk ELSE index[h]]
      BY Zenon, <2>1, <2>2
    <3>2. (0 .. latest) \cup {latest + 1} = 0 .. latest + 1 /\ latest + 1 \notin 0 .. latest
      BY <1>0
    <3> QED  BY Zenon, <3>1, <3>2
  <2>4. \A h \in DOMAIN index' \ {0} : Composed(index'[h])
    <3>1. \A h \in 0 .. latest + 1 : h \in 0 .. latest \/ h = latest + 1
      BY <1>0
    <3>2. \A h \in (0 .. latest) \ {0} : Composed(index[h])
      BY Zenon, <2>2 DEF ChainShape
    <3> QED  BY Zenon, <2>2, <2>3, <3>1, <3>2
  <2>5. \A b : Follows(b) => Follows(b)'
    <3>1. latest' = latest
      BY Zenon, <2>1
    <3>2. latest' \in Nat /\ latest <= latest'
      BY <1>0, <3>1
    <3> QED  BY Zenon, <1>0, <2>3, <3>2, FollowsKept
  <2>6. index'[0] = GenesisBlock
    BY <1>0, <2>3 DEF ChainShape
  <2> QED  BY Zenon, <2>1, <2>3, <2>4, <2>5, <2>6 DEF ChainShape, blk
<1>6. ASSUME NEW ad \in Adders, UpdateChainState(ad)  PROVE ChainShape'
  <2> DEFINE blk == adder[ad]
  <2>1. /\ writing = ad /\ ad # None /\ blk # None
        /\ latest' = IF blk.height > latest THEN blk.height ELSE latest
        /\ built' = built \cup {blk} /\ adder' = [adder EXCEPT ![ad] = None]
        /\ writing' = None /\ UNCHANGED <<index, crashes>>
    BY <1>6, LedgerAssumption DEF UpdateChainState, HeightsSound
  <2>2. /\ Composed(blk) /\ Follows(blk) /\ blk.height = latest + 1
        /\ DOMAIN index = 0 .. latest + 1
    BY <2>1 DEF ChainShape
  <2>3. latest' = latest + 1
    BY <1>0, <2>1, <2>2
  <2>4. \A a \in Adders : adder'[a] = None
    BY <1>0, <2>1 DEF Solo
  <2>5. \A b : Follows(b) => Follows(b)'
    BY <1>0, <2>1, <2>3, FollowsKept
  <2> HIDE DEF blk
  <2> QED  BY <2>1, <2>2, <2>3, <2>4, <2>5 DEF ChainShape
<1>7. ~Crash
  BY DEF Crash, Solo, ChainShape
<1>8. ASSUME NEW ad \in Adders, NEW p \in Addr \cup {None}, NEW blk,
             NewBlock(blk, p), GetStep(ad, blk)
      PROVE  ChainShape'
  BY <1>0, <1>3, <1>8, NewBlockComposed
<1>9. ASSUME NEW ad \in Adders, NEW blk \in built, GetStep(ad, blk)  PROVE ChainShape'
  BY <1>3, <1>9 DEF ChainShape
<1> QED  BY <1>0, <1>1, <1>2, <1>4, <1>5, <1>6, <1>7, <1>8, <1>9, NextKinds

-----------------------------------------------------------------------------
(* The database and the chain.                                             *)

ChainOutputs ==
  /\ UtxoMatchesChain
  /\ Inputs(ChainTxs) \subseteq DOMAIN utxo
  /\ \A h, k \in DOMAIN index : h # k => index[h].txs \cap index[k].txs = {}

LEMMA InitChain == Init => ChainOutputs
<1> SUFFICES ASSUME Init  PROVE ChainOutputs
  OBVIOUS
<1>1. DOMAIN index = {0} /\ index[0].txs = {GenesisTx}
  BY DEF Init, GenesisBlock
<1>2. ChainTxs = {GenesisTx}
  BY <1>1 DEF ChainTxs
<1>3. Inputs(ChainTxs) = {}
  BY <1>2, GenesisSound DEF Inputs
<1>4. DOMAIN utxo = Outpoints(ChainTxs) /\ \A o \in DOMAIN utxo : utxo[o].spent = FALSE
  BY <1>2 DEF Init
<1>5. UtxoMatchesChain
  BY <1>2, <1>3, <1>4 DEF UtxoMatchesChain, Conflict
<1> QED  BY <1>1, <1>3, <1>5 DEF ChainOutputs

\* What AddBlock adds is new: a transfer of the chain has spent its inputs, and
\* a transaction without inputs names its height.
LEMMA AddedIsNew ==
  ASSUME HeightsSound, TypesSound, ChainShape, ChainOutputs, NEW ad \in Adders, AddBlock(ad)
  PROVE  LET blk == adder[ad] IN
         /\ ChainTxs' = ChainTxs \cup blk.txs /\ ChainTxs \cap blk.txs = {}
         /\ DOMAIN index' = DOMAIN index \cup {latest + 1} /\ latest + 1 \notin DOMAIN index
         /\ index'[latest + 1] = blk /\ \A h \in DOMAIN index : index'[h] = index[h]
         /\ Outpoints(blk.txs) \cap DOMAIN utxo = {}
         /\ Composed(blk)
<1> DEFINE blk == adder[ad]
<1>1. /\ blk # None /\ BlockSound(blk) /\ writing = None
      /\ Inputs(blk.txs) \subseteq Unspent
      /\ index' = [h \in DOMAIN index \cup {blk.height} |->
                     IF h = blk.height THEN blk ELSE index[h]]
  BY Zenon, AddBlockStep
<1>2. Composed(blk) /\ blk.height = latest + 1 /\ DOMAIN index = 0 .. latest /\ latest \in Nat
  BY <1>1 DEF ChainShape, HeightsSound
<1> HIDE DEF blk
<1>3. /\ DOMAIN index' = DOMAIN index \cup {latest + 1} /\ latest + 1 \notin DOMAIN index
      /\ index'[latest + 1] = blk /\ \A h \in DOMAIN index : index'[h] = index[h]
  <2>1. latest + 1 \notin DOMAIN index
    BY <1>2
  <2>2. index' = [h \in DOMAIN index \cup {latest + 1} |->
                    IF h = latest + 1 THEN blk ELSE index[h]]
    BY Zenon, <1>1, <1>2
  <2> QED  BY Zenon, <2>1, <2>2
<1>4. ChainTxs' = ChainTxs \cup blk.txs
  BY <1>3 DEF ChainTxs
<1>5. ASSUME NEW t \in ChainTxs, t \in blk.txs  PROVE FALSE
  <2>1. PICK h \in DOMAIN index : t \in index[h].txs
    BY DEF ChainTxs
  <2>2. CASE t.ins = {}
    <3>1. t.stamp[1] = latest + 1
      BY <1>2, <1>5, <2>2 DEF Composed
    <3>2. t.stamp[1] = h
      <4>1. CASE h = 0
        <5>1. t = GenesisTx
          BY <2>1, <4>1 DEF ChainShape, GenesisBlock
        <5> QED  BY <4>1, <5>1 DEF GenesisTx, Tx
      <4>2. CASE h # 0
        <5>1. Composed(index[h]) /\ index[h].height = h
          BY <4>2 DEF ChainShape, TypesSound, BlocksSound
        <5> QED  BY <2>1, <2>2, <5>1 DEF Composed
      <4> QED  BY <4>1, <4>2
    <3> QED  BY <1>3, <3>1, <3>2
  <2>3. ASSUME NEW o \in t.ins  PROVE FALSE
    <3>1. o \in Inputs(ChainTxs) /\ o \in Inputs(blk.txs)
      BY <1>5 DEF Inputs
    <3>2. o \in DOMAIN utxo /\ ~utxo[o].spent
      BY <1>1, <3>1 DEF Unspent
    <3> QED  BY <3>1, <3>2 DEF ChainOutputs, UtxoMatchesChain
  <2> QED  BY <2>2, <2>3
<1>6. ASSUME NEW o \in Outpoints(blk.txs), o \in DOMAIN utxo  PROVE FALSE
  <2>1. o[1] \in blk.txs
    BY <1>1, OutpointsSound DEF BlockSound
  <2>2. o \in Outpoints(ChainTxs) /\ \A t \in ChainTxs : TxSound(t)
    BY <1>6 DEF ChainOutputs, UtxoMatchesChain, ChainTxs, TypesSound, BlocksSound, BlockSound
  <2>3. o[1] \in ChainTxs
    BY <2>2, OutpointsSound
  <2> QED  BY <1>5, <2>1, <2>3
<1> QED  BY <1>2, <1>3, <1>4, <1>5, <1>6 DEF blk

LEMMA InputsUnion ==
  ASSUME NEW S, NEW T
  PROVE  /\ Inputs(S \cup T) = Inputs(S) \cup Inputs(T)
         /\ Outpoints(S \cup T) = Outpoints(S) \cup Outpoints(T)
  BY DEF Inputs, Outpoints

LEMMA NextChain ==
  Solo /\ HeightsSound /\ TypesSound /\ ChainShape /\ ChainOutputs /\ [Next]_vars
    => ChainOutputs'
<1> SUFFICES ASSUME Solo, HeightsSound, TypesSound, ChainShape, ChainOutputs, [Next]_vars
             PROVE  ChainOutputs'
  OBVIOUS
<1>1. CASE UNCHANGED <<utxo, list, index>>
  BY Zenon, <1>1 DEF ChainOutputs, UtxoMatchesChain, ChainTxs
<1>2. ASSUME NEW ad \in Adders, AddBlock(ad)  PROVE ChainOutputs'
  <2> DEFINE blk == adder[ad]
             N == Outpoints(blk.txs)
             I == Inputs(blk.txs)
             C == ChainTxs
  <2>1. /\ C' = C \cup blk.txs /\ C \cap blk.txs = {}
        /\ DOMAIN index' = DOMAIN index \cup {latest + 1} /\ latest + 1 \notin DOMAIN index
        /\ index'[latest + 1] = blk /\ \A h \in DOMAIN index : index'[h] = index[h]
        /\ N \cap DOMAIN utxo = {} /\ Composed(blk)
    BY <1>2, AddedIsNew
  <2>2. /\ DOMAIN utxo' = DOMAIN utxo \cup N
        /\ \A o \in N : ~utxo'[o].spent
        /\ \A o \in DOMAIN utxo \ N : utxo'[o].spent = (utxo[o].spent \/ o \in I)
        /\ I \subseteq Unspent
    BY Zenon, <1>2, AddBlockStep
  <2>3. /\ Inputs(C \cup blk.txs) = Inputs(C) \cup I
        /\ Outpoints(C \cup blk.txs) = Outpoints(C) \cup N
    BY Zenon, InputsUnion
  <2>4. /\ Inputs(C) \subseteq DOMAIN utxo /\ DOMAIN utxo = Outpoints(C)
        /\ \A o \in DOMAIN utxo : utxo[o].spent <=> o \in Inputs(C)
        /\ \A t, u \in C : ~Conflict(t, u)
    BY DEF ChainOutputs, UtxoMatchesChain
  <2>5. \A o \in I : o \in DOMAIN utxo /\ o \notin Inputs(C)
    BY <2>2, <2>4 DEF Unspent
  <2>6. ASSUME NEW t \in C, NEW u \in blk.txs  PROVE t.ins \cap u.ins = {}
    BY <2>5 DEF Inputs
  <2>7. ASSUME NEW t \in C \cup blk.txs, NEW u \in C \cup blk.txs  PROVE ~Conflict(t, u)
    <3>1. \A v, w \in blk.txs : ~Conflict(v, w)
      BY <2>1 DEF Composed
    <3> QED  BY <2>4, <2>6, <3>1 DEF Conflict
  <2>8. \A h \in DOMAIN index : index[h].txs \subseteq C
    BY DEF ChainTxs
  <2> HIDE DEF blk, N, I, C
  <2>9. \A o \in DOMAIN utxo' : utxo'[o].spent <=> o \in Inputs(C) \cup I
    <3> TAKE o \in DOMAIN utxo'
    <3>1. CASE o \in N
      BY <2>1, <2>2, <2>4, <2>5, <3>1
    <3>2. CASE o \in DOMAIN utxo \ N
      BY Zenon, <2>2, <2>4, <3>2
    <3> QED  BY <2>2, <3>1, <3>2
  <2>10. UtxoMatchesChain'
    <3>1. DOMAIN utxo' = Outpoints(C')
      BY Zenon, <2>1, <2>2, <2>3, <2>4
    <3>2. \A o \in DOMAIN utxo' : utxo'[o].spent <=> o \in Inputs(C')
      BY Zenon, <2>1, <2>3, <2>9
    <3>3. \A t, u \in C' : ~Conflict(t, u)
      BY <2>1, <2>7
    <3> QED  BY <3>1, <3>2, <3>3 DEF UtxoMatchesChain, C
  <2>11. Inputs(C') \subseteq DOMAIN utxo'
    BY Zenon, <2>1, <2>2, <2>3, <2>4, <2>5
  <2>12. ASSUME NEW h \in DOMAIN index', NEW k \in DOMAIN index', h # k
         PROVE  index'[h].txs \cap index'[k].txs = {}
    <3>1. CASE h \in DOMAIN index /\ k \in DOMAIN index
      BY <2>1, <2>12, <3>1 DEF ChainOutputs
    <3>2. CASE h = latest + 1 /\ k \in DOMAIN index
      BY <2>1, <2>8, <3>2
    <3>3. CASE h \in DOMAIN index /\ k = latest + 1
      BY <2>1, <2>8, <3>3
    <3> QED  BY <2>1, <2>12, <3>1, <3>2, <3>3
  <2> QED  BY Zenon, <2>10, <2>11, <2>12 DEF ChainOutputs, C
<1> QED  BY <1>1, <1>2, OutputsWritten

\* With one goroutine that adds blocks and no crash, the outputs in the database
\* are those of the stored chain, and an output is marked spent exactly when a
\* transaction of the chain spends it.
THEOREM DatabaseMatchesChain == Solo => (Spec => []UtxoMatchesChain)
<1> SUFFICES ASSUME Solo  PROVE Spec => []UtxoMatchesChain
  OBVIOUS
<1>1. HeightsSound /\ TypesSound /\ ChainShape /\ ChainOutputs /\ [Next]_vars
        => ChainShape' /\ ChainOutputs'
  BY NextShape, NextChain
<1>2. ChainOutputs => UtxoMatchesChain
  BY DEF ChainOutputs
<1> QED  BY InitHeights, NextHeights, InitTypes, NextTypes, InitShape, InitChain,
            <1>1, <1>2, PTL DEF Spec

\* With one goroutine that adds blocks and no crash, AddBlock never turns a spent
\* output into an unspent one: it never adds a transaction a second time.
THEOREM SpentForGood == Solo => (Spec => SpentStaysSpent)
<1> SUFFICES ASSUME Solo  PROVE Spec => SpentStaysSpent
  OBVIOUS
<1> DEFINE Kept1 == \A o \in DOMAIN utxo : utxo[o].spent => utxo'[o].spent
<1>1. HeightsSound /\ TypesSound /\ ChainShape /\ ChainOutputs /\ [Next]_vars
        => ChainShape' /\ ChainOutputs'
  BY NextShape, NextChain
<1>2. HeightsSound /\ TypesSound /\ ChainShape /\ ChainOutputs /\ [Next]_vars => [Kept1]_utxo
  <2> SUFFICES ASSUME HeightsSound, TypesSound, ChainShape, ChainOutputs, [Next]_vars,
                      utxo' # utxo
               PROVE  Kept1
    OBVIOUS
  <2>1. PICK ad \in Adders : AddBlock(ad)
    BY OutputsWritten
  <2>2. Outpoints(adder[ad].txs) \cap DOMAIN utxo = {}
    BY <2>1, AddedIsNew
  <2>3. \A o \in DOMAIN utxo \ Outpoints(adder[ad].txs) :
          utxo'[o].spent = (utxo[o].spent \/ o \in Inputs(adder[ad].txs))
    BY Zenon, <2>1, AddBlockStep
  <2> QED  BY Zenon, <2>2, <2>3
<1> QED  BY InitHeights, NextHeights, InitTypes, NextTypes, InitShape, InitChain, <1>1, <1>2, PTL
         DEF Spec, SpentStaysSpent

-----------------------------------------------------------------------------
(* Values.                                                                 *)

LEMMA ValueUnion ==
  ASSUME NEW S, IsFiniteSet(S), NEW T, IsFiniteSet(T), S \cap T = {},
         \A o \in S \cup T : OutpointSound(o)
  PROVE  Value(S \cup T) = Value(S) + Value(T)
<1> DEFINE f == [o \in S \cup T |-> Amount(o)]
<1>1. \A o \in S \cup T : f[o] = Amount(o) /\ f[o] \in Int
  BY OutpointOutputs
<1>2. IsFiniteSet(S \cup T)
  BY Zenon, FS_Union
<1> HIDE DEF f
<1>3. Value(S \cup T) = Sum(f, S \cup T) /\ Value(S) = Sum(f, S) /\ Value(T) = Sum(f, T)
  BY <1>1, <1>2, ValueIs
<1>4. Sum(f, S \cup T) = Sum(f, S) + Sum(f, T)
  BY <1>1, SumUnion
<1> QED  BY <1>3, <1>4

LEMMA ValueDifference ==
  ASSUME NEW S, IsFiniteSet(S), NEW T \in SUBSET S, \A o \in S : OutpointSound(o)
  PROVE  Value(S \ T) = Value(S) - Value(T)
<1>1. IsFiniteSet(T) /\ IsFiniteSet(S \ T)
  BY FS_Subset, FS_Difference
<1>2. (S \ T) \cap T = {} /\ (S \ T) \cup T = S
  OBVIOUS
<1>3. Value(S) = Value(S \ T) + Value(T)
  <2>1. Value((S \ T) \cup T) = Value(S \ T) + Value(T)
    BY <1>1, <1>2, ValueUnion
  <2> QED  BY Zenon, <1>2, <2>1
<1>4. Value(S \ T) \in Nat /\ Value(T) \in Nat
  BY <1>1, ValueNat
<1> QED  BY <1>3, <1>4

\* The inputs of transactions that do not conflict.
LEMMA ValueInputs ==
  ASSUME NEW txs, IsFiniteSet(txs), \A t \in txs : TxSound(t),
         \A t, u \in txs : ~Conflict(t, u), \A o \in Inputs(txs) : OutpointSound(o)
  PROVE  /\ IsFiniteSet(Inputs(txs)) /\ \A t \in txs : Value(t.ins) \in Nat
         /\ Value(Inputs(txs)) = Sum([t \in txs |-> Value(t.ins)], txs)
<1> DEFINE A == [t \in txs |-> t.ins]
           f == [o \in Inputs(txs) |-> Amount(o)]
           g == [t \in txs |-> Value(t.ins)]
<1>1. \A t \in txs : IsFiniteSet(A[t]) /\ A[t] = t.ins
  BY DEF TxSound
<1>0. \A t, u \in txs : t # u => A[t] \cap A[u] = {}
  BY DEF Conflict
<1>2. \A o : o \in Inputs(txs) <=> \E t \in txs : o \in A[t]
  BY DEF Inputs
<1>3. \A t \in txs : \A o \in t.ins : o \in Inputs(txs)
  BY DEF Inputs
<1>4. \A o \in Inputs(txs) : f[o] = Amount(o) /\ f[o] \in Int
  BY OutpointOutputs
<1> HIDE DEF A, f
<1>5. ASSUME NEW t \in txs  PROVE Value(t.ins) = Sum(f, A[t]) /\ Value(t.ins) \in Nat
  <2>1. IsFiniteSet(t.ins) /\ A[t] = t.ins /\ \A o \in t.ins : OutpointSound(o) /\ f[o] = Amount(o)
    BY <1>1, <1>3, <1>4
  <2> QED  BY <2>1, ValueIs, ValueNat
<1>6. \A t \in txs : g[t] = Sum(f, A[t])
  BY <1>5
<1>7. Parts(Inputs(txs), A, txs)
  BY <1>0, <1>1, <1>2 DEF Parts
<1> HIDE DEF g
<1>8. IsFiniteSet(Inputs(txs)) /\ Sum(f, Inputs(txs)) = Sum(g, txs)
  BY <1>4, <1>6, <1>7, SumUNION
<1>9. Value(Inputs(txs)) = Sum(f, Inputs(txs))
  BY <1>4, <1>8, ValueIs
<1> QED  BY <1>5, <1>8, <1>9 DEF g

\* The outputs of transactions.
LEMMA ValueOutputs ==
  ASSUME NEW txs, IsFiniteSet(txs), \A t \in txs : TxSound(t)
  PROVE  Value(Outpoints(txs)) = Sum([t \in txs |-> OutSum(t.outs)], txs)
<1> DEFINE A == [t \in txs |-> {<<t, i>> : i \in DOMAIN t.outs}]
           f == [o \in Outpoints(txs) |-> Amount(o)]
           g == [t \in txs |-> OutSum(t.outs)]
<1>1. \A t, u \in txs : t # u => A[t] \cap A[u] = {}
  OBVIOUS
<1>2. \A o : o \in Outpoints(txs) <=> \E t \in txs : o \in A[t]
  BY DEF Outpoints
<1>3. \A t \in txs : \A i \in DOMAIN t.outs : <<t, i>> \in Outpoints(txs)
  BY DEF Outpoints
<1>4. \A o \in Outpoints(txs) : f[o] = Amount(o) /\ f[o] \in Int /\ OutpointSound(o)
  BY OutpointsSound, OutpointOutputs
<1> HIDE DEF f
<1>5. ASSUME NEW t \in txs  PROVE IsFiniteSet(A[t]) /\ OutSum(t.outs) = Sum(f, A[t])
  <2> DEFINE D == DOMAIN t.outs
             b == [i \in D |-> <<t, i>>]
             n == [i \in D |-> t.outs[i].amount]
  <2>1. IsFiniteSet(D) /\ OutSum(t.outs) = Sum(n, D)
    BY TxOutputs
  <2>2. \A i \in D : n[i] \in Int
    BY TxOutputs
  <2>3. \A i \in D : f[b[i]] = n[i]
    BY <1>3, <1>4 DEF Amount
  <2>4. \A i, j \in D : b[i] = b[j] => i = j
    OBVIOUS
  <2>5. \A o : o \in A[t] <=> \E i \in D : o = b[i]
    BY Zenon
  <2> HIDE DEF b, n, D
  <2>6. IsFiniteSet(A[t]) /\ Sum(f, A[t]) = Sum(n, D)
    <3> HIDE DEF A
    <3> QED  BY <2>1, <2>2, <2>3, <2>4, <2>5, SumReindex
  <2> QED  BY <2>1, <2>6
<1>6. \A t \in txs : g[t] = Sum(f, A[t])
  BY <1>5
<1> HIDE DEF A, g
<1>7. Parts(Outpoints(txs), A, txs)
  BY <1>1, <1>2, <1>5 DEF Parts
<1>8. IsFiniteSet(Outpoints(txs)) /\ Sum(f, Outpoints(txs)) = Sum(g, txs)
  BY <1>4, <1>6, <1>7, SumUNION
<1>9. Value(Outpoints(txs)) = Sum(f, Outpoints(txs))
  BY <1>4, <1>8, ValueIs
<1> QED  BY <1>8, <1>9 DEF g

LEMMA ValueOfOne ==
  ASSUME NEW t, TxSound(t)
  PROVE  Value(Outpoints({t})) = OutSum(t.outs)
<1> DEFINE f == [u \in {t} |-> OutSum(u.outs)]
<1>1. Value(Outpoints({t})) = Sum(f, {t})
  BY Zenon, ValueOutputs, FS_Singleton
<1>2. f[t] = OutSum(t.outs) /\ OutSum(t.outs) \in Int
  <2>1. OutSum(t.outs) \in Nat
    BY Zenon, TxOutputs
  <2> QED  BY <2>1
<1> HIDE DEF f
<1> QED  BY <1>1, <1>2, SumSingleton

\* Transfers pay what they take, less their fees.
LEMMA TransferValues ==
  ASSUME NEW txs, IsFiniteSet(txs), \A t \in txs : TxSound(t) /\ t.ins # {},
         \A t, u \in txs : ~Conflict(t, u), \A o \in Inputs(txs) : OutpointSound(o)
  PROVE  FeesOf(txs) \in Int /\ Value(Inputs(txs)) = Value(Outpoints(txs)) + FeesOf(txs)
<1> DEFINE f == [t \in txs |-> OutSum(t.outs)]
           g == [t \in txs |-> Fee(t)]
           h == [t \in txs |-> Value(t.ins)]
<1>1. \A t \in txs : f[t] \in Int /\ h[t] \in Int
  <2>1. \A t \in txs : OutSum(t.outs) \in Nat
    BY Zenon, TxOutputs
  <2>2. \A t \in txs : Value(t.ins) \in Nat
    BY Zenon, ValueInputs
  <2> QED  BY <2>1, <2>2
<1>2. \A t \in txs : g[t] = h[t] - f[t]
  BY DEF Fee
<1>3. /\ Value(Inputs(txs)) = Sum(h, txs) /\ Value(Outpoints(txs)) = Sum(f, txs)
      /\ FeesOf(txs) = Sum(g, txs)
  BY ValueInputs, ValueOutputs DEF FeesOf
<1> HIDE DEF f, g, h
<1>4. \A t \in txs : g[t] \in Int /\ h[t] = f[t] + g[t]
  BY <1>1, <1>2
<1>5. Sum(h, txs) = Sum(f, txs) + Sum(g, txs)
  BY <1>1, <1>4, SumPlus
<1>6. Sum(g, txs) \in Int
  BY <1>4, SumInt
<1> QED  BY <1>3, <1>5, <1>6

\* A block with a proposer adds the reward, one without loses the fees.
LEMMA BlockValue ==
  ASSUME NEW blk, BlockSound(blk), Composed(blk), \A o \in Inputs(blk.txs) : OutpointSound(o)
  PROVE  /\ IsFiniteSet(Inputs(blk.txs)) /\ Value(Inputs(blk.txs)) \in Nat
         /\ Value(Outpoints(blk.txs)) \in Nat
         /\ blk.proposer = None =>
              /\ FeesOf(blk.txs) \in Int
              /\ Value(Outpoints(blk.txs)) = Value(Inputs(blk.txs)) - FeesOf(blk.txs)
         /\ blk.proposer # None =>
              Value(Outpoints(blk.txs)) = Value(Inputs(blk.txs)) + Reward
<1> DEFINE T == Transfers(blk)
           O(S) == Outpoints(S)
<1>1. /\ IsFiniteSet(blk.txs) /\ \A t \in blk.txs : TxSound(t)
      /\ \A t, u \in blk.txs : ~Conflict(t, u)
  BY Zenon DEF BlockSound, Composed
<1>2. IsFiniteSet(Inputs(blk.txs))
  BY Zenon, <1>1, ValueInputs
<1>3. IsFiniteSet(T) /\ T \subseteq blk.txs /\ Inputs(T) = Inputs(blk.txs)
  <2>1. T \subseteq blk.txs
    BY DEF Transfers
  <2>2. IsFiniteSet(T)
    BY Zenon, <1>1, <2>1, FS_Subset
  <2>3. Inputs(T) = Inputs(blk.txs)
    BY DEF Transfers, Inputs
  <2> QED  BY Zenon, <2>1, <2>2, <2>3
<1>4. FeesOf(T) \in Int /\ Value(Inputs(T)) = Value(O(T)) + FeesOf(T)
  <2>1. \A t \in T : TxSound(t) /\ t.ins # {}
    BY <1>1 DEF Transfers
  <2>2. (\A t, u \in T : ~Conflict(t, u)) /\ \A o \in Inputs(T) : OutpointSound(o)
    BY <1>1, <1>3
  <2> HIDE DEF T
  <2> QED  BY <1>3, <2>1, <2>2, TransferValues
<1>5. ASSUME NEW S \in SUBSET blk.txs  PROVE IsFiniteSet(O(S)) /\ Value(O(S)) \in Nat
  <2>1. IsFiniteSet(S) /\ \A t \in S : TxSound(t)
    BY <1>1, FS_Subset
  <2>2. IsFiniteSet(O(S)) /\ \A o \in O(S) : OutpointSound(o)
    BY <2>1, OutsFinite, OutpointsSound
  <2> QED  BY <2>2, ValueNat
<1>6. Value(Inputs(T)) \in Nat
  BY <1>2, <1>3, ValueNat
<1>7. CASE blk.proposer = None
  <2>1. T = blk.txs
    BY <1>7 DEF Composed
  <2>2. Value(O(T)) \in Nat
    BY <1>3, <1>5
  <2> QED  BY <1>2, <1>4, <1>6, <1>7, <2>1, <2>2
<1>8. CASE blk.proposer # None
  <2>1. PICK c \in blk.txs : /\ c.ins = {} /\ blk.txs = T \cup {c}
                             /\ OutSum(c.outs) = Reward + FeesOf(T)
    BY Zenon, <1>8 DEF Composed
  <2>2. c \notin T /\ TxSound(c) /\ {c} \subseteq blk.txs
    BY Zenon, <1>1, <2>1 DEF Transfers
  <2>3. O(blk.txs) = O(T) \cup O({c})
    BY Zenon, <2>1, InputsUnion
  <2>4. O(T) \cap O({c}) = {}
    <3>1. \A S : \A o \in Outpoints(S) : o[1] \in S
      BY DEF Outpoints
    <3> QED  BY Zenon, <2>2, <3>1
  <2>5. Value(O({c})) = OutSum(c.outs)
    BY <2>2, ValueOfOne
  <2>6. Value(O(T) \cup O({c})) = Value(O(T)) + Value(O({c}))
    <3>1. IsFiniteSet(O(T)) /\ IsFiniteSet(O({c}))
      BY <1>3, <1>5, <2>2
    <3>2. \A o \in O(T) \cup O({c}) : OutpointSound(o)
      BY <1>1, <2>3, OutpointsSound
    <3> HIDE DEF O
    <3> QED  BY Zenon, <2>4, <3>1, <3>2, ValueUnion
  <2>7. Value(O(T)) \in Nat /\ Value(O(blk.txs)) \in Nat /\ Reward \in Nat
    BY <1>3, <1>5, LedgerAssumption
  <2> HIDE DEF T, O
  <2>8. Value(O(blk.txs)) = Value(Inputs(blk.txs)) + Reward
    <3>1. Value(O(blk.txs)) = Value(O(T)) + Value(O({c}))
      BY Zenon, <2>3, <2>6
    <3>2. Value(Inputs(blk.txs)) = Value(O(T)) + FeesOf(T)
      BY Zenon, <1>3, <1>4
    <3>3. Value(O({c})) = Reward + FeesOf(T)
      BY Zenon, <2>1, <2>5
    <3>4. \A m, r \in Nat, e \in Int : m + (r + e) = (m + e) + r
      OBVIOUS
    <3>5. Value(O(T)) + (Reward + FeesOf(T)) = (Value(O(T)) + FeesOf(T)) + Reward
      BY Zenon, <1>4, <2>7, <3>4
    <3> QED  BY Zenon, <3>1, <3>2, <3>3, <3>5
  <2> QED  BY Zenon, <1>2, <1>3, <1>6, <1>8, <2>7, <2>8 DEF O
<1> QED  BY <1>7, <1>8

-----------------------------------------------------------------------------
(* Money.                                                                  *)

Paid   == {h \in DOMAIN index : index[h].proposer # None}
Unpaid == DOMAIN index \ Paid
Lost   == Sum([h \in Unpaid |-> FeesOf(index[h].txs)], Unpaid)

\* Conservation, from the outputs themselves.
Conserved == Value(Unspent) = OutSum(GenesisOuts) + Reward * Cardinality(Paid) - Lost

LEMMA GenesisFees == FeesOf({GenesisTx}) = 0
<1> DEFINE f == [t \in {GenesisTx} |-> Fee(t)]
<1>1. FeesOf({GenesisTx}) = Sum(f, {GenesisTx})
  BY DEF FeesOf
<1>2. f[GenesisTx] = 0
  BY GenesisSound DEF Fee
<1> HIDE DEF f
<1> QED  BY <1>1, <1>2, SumSingleton

LEMMA InitMoney == Init => Conserved
<1> SUFFICES ASSUME Init  PROVE Conserved
  OBVIOUS
<1>1. Unspent = Outpoints({GenesisTx})
  BY Zenon DEF Init, Unspent
<1>2. Value(Unspent) = OutSum(GenesisOuts) /\ OutSum(GenesisOuts) \in Nat
  BY Zenon, <1>1, GenesisSound, ValueOfOne, TxOutputs
<1>3. DOMAIN index = {0} /\ index[0].proposer = None /\ index[0].txs = {GenesisTx}
  BY DEF Init, GenesisBlock
<1>4. Paid = {} /\ Unpaid = {0}
  BY <1>3 DEF Paid, Unpaid
<1>5. Cardinality(Paid) = 0
  BY <1>4, FS_EmptySet
<1>6. Lost = 0
  <2> DEFINE f == [h \in Unpaid |-> FeesOf(index[h].txs)]
  <2>1. Lost = Sum(f, {0}) /\ f[0] = 0
    BY <1>3, <1>4, GenesisFees DEF Lost
  <2> HIDE DEF f
  <2> QED  BY <2>1, SumSingleton
<1> QED  BY <1>2, <1>5, <1>6, LedgerAssumption DEF Conserved

\* The fees of the blocks of the chain.
LEMMA ChainFees ==
  ASSUME HeightsSound, TypesSound, ChainShape, ChainOutputs
  PROVE  /\ IsFiniteSet(DOMAIN index)
         /\ \A h \in DOMAIN index : \A t \in index[h].txs : t.ins \subseteq DOMAIN utxo
         /\ \A h \in Unpaid : FeesOf(index[h].txs) \in Int
<1>1. IsFiniteSet(DOMAIN index)
  <2>1. latest \in Nat /\ latest + 1 \in Nat
    BY DEF HeightsSound
  <2>2. \A i \in Nat : IsFiniteSet(0 .. i)
    BY FS_Interval
  <2> QED  BY Zenon, <2>1, <2>2 DEF ChainShape
<1>2. \A h \in DOMAIN index : \A t \in index[h].txs : t.ins \subseteq DOMAIN utxo
  BY DEF ChainOutputs, Inputs, ChainTxs
<1>3. ASSUME NEW h \in Unpaid  PROVE FeesOf(index[h].txs) \in Int
  <2>1. h \in DOMAIN index /\ index[h].proposer = None /\ BlockSound(index[h])
    BY DEF Unpaid, Paid, TypesSound, BlocksSound
  <2>2. CASE h = 0
    <3>1. index[h].txs = {GenesisTx}
      <4>1. index[h] = GenesisBlock
        BY Zenon, <2>2 DEF ChainShape
      <4>2. GenesisBlock.txs = {GenesisTx}
        BY DEF GenesisBlock
      <4> QED  BY Zenon, <4>1, <4>2
    <3>2. FeesOf(index[h].txs) = 0
      BY Zenon, <3>1, GenesisFees
    <3> QED  BY <3>2
  <2>3. CASE h # 0
    <3>1. Composed(index[h])
      BY <2>1, <2>3 DEF ChainShape
    <3>2. \A o \in Inputs(index[h].txs) : OutpointSound(o)
      BY <1>2, <2>1 DEF Inputs, TypesSound, OutputsSound
    <3> QED  BY <2>1, <3>1, <3>2, BlockValue
  <2> QED  BY <2>2, <2>3
<1> QED  BY <1>1, <1>2, <1>3

\* AddBlock's batch, and what it does to the unspent outputs.
LEMMA AddBlockMoney ==
  ASSUME HeightsSound, TypesSound, ChainShape, ChainOutputs, Conserved,
         NEW ad \in Adders, AddBlock(ad)
  PROVE  Conserved'
<1> DEFINE blk == adder[ad]
           N == Outpoints(blk.txs)
           I == Inputs(blk.txs)
           k == latest + 1
<1>1. /\ DOMAIN index' = DOMAIN index \cup {k} /\ k \notin DOMAIN index
      /\ index'[k] = blk /\ \A h \in DOMAIN index : index'[h] = index[h]
      /\ N \cap DOMAIN utxo = {} /\ Composed(blk)
  BY AddedIsNew
<1>2. /\ DOMAIN utxo' = DOMAIN utxo \cup N
      /\ \A o \in N : ~utxo'[o].spent
      /\ \A o \in DOMAIN utxo \ N : utxo'[o].spent = (utxo[o].spent \/ o \in I)
      /\ I \subseteq Unspent /\ BlockSound(blk)
  BY Zenon, AddBlockStep
<1>3. /\ \A o \in DOMAIN utxo : OutpointSound(o)
      /\ \A o \in N : OutpointSound(o)
      /\ IsFiniteSet(Unspent) /\ IsFiniteSet(N)
  <2>1. IsFiniteSet(DOMAIN utxo) /\ \A o \in DOMAIN utxo : OutpointSound(o)
    BY DEF TypesSound, OutputsSound
  <2>2. IsFiniteSet(Unspent)
    BY <2>1, FS_Subset DEF Unspent
  <2>3. IsFiniteSet(blk.txs) /\ \A t \in blk.txs : TxSound(t)
    BY <1>2 DEF BlockSound
  <2> QED  BY <2>1, <2>2, <2>3, OutsFinite, OutpointsSound
<1>4. \A o \in I : OutpointSound(o)
  BY Zenon, <1>2, <1>3 DEF Unspent
<1>5. /\ Value(I) \in Nat /\ Value(N) \in Nat
      /\ blk.proposer = None => FeesOf(blk.txs) \in Int /\ Value(N) = Value(I) - FeesOf(blk.txs)
      /\ blk.proposer # None => Value(N) = Value(I) + Reward
  BY Zenon, <1>1, <1>2, <1>4, BlockValue
<1> HIDE DEF N, I, k, blk
<1>6. Unspent' = (Unspent \ I) \cup N
  BY Zenon, <1>1, <1>2 DEF Unspent
<1>7. Value(Unspent') = Value(Unspent) - Value(I) + Value(N) /\ Value(Unspent) \in Nat
  <2>1. Unspent \subseteq DOMAIN utxo
    BY DEF Unspent
  <2>2. \A o \in Unspent : OutpointSound(o)
    BY <1>3, <2>1
  <2>3. Value(Unspent) \in Nat /\ Value(Unspent \ I) = Value(Unspent) - Value(I)
    BY Zenon, <1>2, <1>3, <2>2, ValueNat, ValueDifference
  <2>4. IsFiniteSet(Unspent \ I) /\ (Unspent \ I) \cap N = {}
        /\ \A o \in (Unspent \ I) \cup N : OutpointSound(o)
    BY Zenon, <1>1, <1>3, <2>1, FS_Difference
  <2>5. Value((Unspent \ I) \cup N) = Value(Unspent \ I) + Value(N)
    BY <1>3, <2>4, ValueUnion
  <2>6. Value(Unspent') = Value(Unspent \ I) + Value(N)
    BY Zenon, <1>6, <2>5
  <2> QED  BY <2>3, <2>6
<1>8. /\ IsFiniteSet(Paid) /\ IsFiniteSet(Unpaid) /\ Cardinality(Paid) \in Nat
      /\ \A h \in Unpaid : FeesOf(index[h].txs) \in Int
  <2>1. IsFiniteSet(DOMAIN index) /\ \A h \in Unpaid : FeesOf(index[h].txs) \in Int
    BY ChainFees
  <2>2. IsFiniteSet(Paid) /\ IsFiniteSet(Unpaid)
    BY <2>1, FS_Subset DEF Paid, Unpaid
  <2> QED  BY <2>1, <2>2, FS_CardinalityType
<1> DEFINE f == [h \in Unpaid |-> FeesOf(index[h].txs)]
           g == [h \in Unpaid' |-> FeesOf(index'[h].txs)]
<1>9. Lost = Sum(f, Unpaid) /\ Lost' = Sum(g, Unpaid') /\ Lost \in Int
  <2>1. Lost = Sum(f, Unpaid) /\ Lost' = Sum(g, Unpaid')
    BY DEF Lost
  <2>2. \A h \in Unpaid : f[h] \in Int
    BY <1>8
  <2> HIDE DEF f, g
  <2> QED  BY <1>8, <2>1, <2>2, SumInt
<1>10. OutSum(GenesisOuts) \in Nat /\ Reward \in Nat
  BY Zenon, GenesisSound, TxOutputs, LedgerAssumption
<1>11. CASE blk.proposer = None
  <2>1. Paid' = Paid /\ Unpaid' = Unpaid \cup {k} /\ k \notin Unpaid
    BY Zenon, <1>1, <1>11 DEF Paid, Unpaid
  <2>2. (\A h \in Unpaid : g[h] = f[h]) /\ g[k] = FeesOf(blk.txs)
    BY Zenon, <1>1, <2>1 DEF Unpaid
  <2>3. (\A h \in Unpaid \cup {k} : g[h] \in Int) /\ \A h \in Unpaid : f[h] \in Int
    BY <1>5, <1>8, <1>11, <2>2
  <2> HIDE DEF f, g
  <2>4. Sum(g, Unpaid \cup {k}) = g[k] + Sum(g, Unpaid) /\ Sum(g, Unpaid) = Sum(f, Unpaid)
    BY Zenon, <1>8, <2>1, <2>2, <2>3, SumAdd, SumEqual
  <2>5. Sum(g, Unpaid') = Sum(g, Unpaid \cup {k})
    BY Zenon, <2>1
  <2>6. Lost' = FeesOf(blk.txs) + Lost
    <3>1. Lost' = g[k] + Sum(g, Unpaid)
      BY Zenon, <1>9, <2>4, <2>5
    <3> QED  BY Zenon, <1>9, <2>2, <2>4, <3>1
  <2>7. Reward * Cardinality(Paid') = Reward * Cardinality(Paid)
    BY Zenon, <2>1
  <2>8. Reward * Cardinality(Paid) \in Nat
    BY <1>8, <1>10
  <2>9. FeesOf(blk.txs) \in Int /\ Value(N) = Value(I) - FeesOf(blk.txs)
    BY Zenon, <1>5, <1>11
  <2> QED  BY <1>5, <1>7, <1>9, <1>10, <2>6, <2>7, <2>8, <2>9 DEF Conserved
<1>12. CASE blk.proposer # None
  <2>1. Paid' = Paid \cup {k} /\ k \notin Paid /\ Unpaid' = Unpaid
    BY <1>1, <1>12 DEF Paid, Unpaid
  <2>2. g = f
    BY <1>1, <2>1 DEF Unpaid
  <2> HIDE DEF f, g
  <2>3. Lost' = Lost
    BY Zenon, <1>9, <2>1, <2>2
  <2>4. Cardinality(Paid \cup {k}) = Cardinality(Paid) + 1
    BY Zenon, <1>8, <2>1, FS_AddElement
  <2>5. Cardinality(Paid') = Cardinality(Paid \cup {k})
    BY Zenon, <2>1
  <2>6. Reward * Cardinality(Paid') = Reward * Cardinality(Paid) + Reward
    BY <1>8, <1>10, <2>4, <2>5
  <2>7. Reward * Cardinality(Paid) \in Nat
    BY <1>8, <1>10
  <2> QED  BY <1>5, <1>7, <1>9, <1>10, <1>12, <2>3, <2>6, <2>7 DEF Conserved
<1> QED  BY <1>11, <1>12

LEMMA NextMoney ==
  HeightsSound /\ TypesSound /\ ChainShape /\ ChainOutputs /\ Conserved /\ [Next]_vars
    => Conserved'
<1> SUFFICES ASSUME HeightsSound, TypesSound, ChainShape, ChainOutputs, Conserved, [Next]_vars
             PROVE  Conserved'
  OBVIOUS
<1>1. CASE UNCHANGED <<utxo, list, index>>
  BY <1>1 DEF Conserved, Unspent, Paid, Unpaid, Lost
<1> QED  BY <1>1, OutputsWritten, AddBlockMoney

\* With one goroutine that adds blocks and no crash, the unspent outputs are
\* worth the genesis balances and one reward for every block with a proposer,
\* less the fees of the blocks without one: no step makes or loses money.
THEOREM MoneyConserved == Solo => (Spec => []Conservation)
<1> SUFFICES ASSUME Solo  PROVE Spec => []Conservation
  OBVIOUS
<1>1. HeightsSound /\ TypesSound /\ ChainShape /\ ChainOutputs /\ [Next]_vars
        => ChainShape' /\ ChainOutputs'
  BY NextShape, NextChain
<1>2. HeightsSound /\ TypesSound /\ ChainShape /\ ChainOutputs /\ Conserved => Conservation
  <2> SUFFICES ASSUME HeightsSound, TypesSound, ChainShape, ChainOutputs, Conserved
               PROVE  Conservation
    OBVIOUS
  <2>1. OutputsSound /\ Unspent \subseteq DOMAIN utxo
    BY DEF TypesSound, Unspent
  <2>2. InSum(Unspent) = Value(Unspent)
    BY <2>1, InSumIs
  <2>3. \A h \in Unpaid : FeeSum(index[h].txs) = FeesOf(index[h].txs)
    BY <2>1, ChainFees, FeeSumIs DEF Unpaid
  <2>4. [h \in Unpaid |-> FeeSum(index[h].txs)] = [h \in Unpaid |-> FeesOf(index[h].txs)]
    BY <2>3
  <2>5. SumFunction([h \in Unpaid |-> FeeSum(index[h].txs)]) = Lost
    BY <2>4 DEF SumFunction, Lost, Sum
  <2> QED  BY <2>2, <2>5 DEF Conservation, Conserved, Paid, Unpaid
<1> QED  BY InitHeights, NextHeights, InitTypes, NextTypes, InitShape, InitChain, InitMoney,
            NextMoney, <1>1, <1>2, PTL DEF Spec

-----------------------------------------------------------------------------
(* Histories.                                                              *)

Entry(h, o) == [height |-> h, amount |-> Amount(o), out |-> o, spent |-> FALSE]

\* The unspent outputs of an address.
UnspentOf(a) == {o \in Unspent : Owner(o) = a}

LEMMA UnspentList ==
  ASSUME TypesSound, BalanceComplete, NEW a \in Addr
  PROVE  GetUtxoList(a, FALSE) = UnspentOf(a)
<1>1. \A o \in list[a] : o \in DOMAIN utxo /\ utxo[o].addr = a
  BY DEF TypesSound, OutputsSound
<1>2. \A o \in DOMAIN utxo : utxo[o].addr = Owner(o)
  BY DEF TypesSound, OutputsSound
<1>3. \A o \in Unspent : o \in DOMAIN utxo /\ o \in list[utxo[o].addr] /\ ~utxo[o].spent
  BY DEF BalanceComplete, Unspent
<1>4. GetUtxoList(a, FALSE) = {o \in list[a] : ~utxo[o].spent}
  BY DEF GetUtxoList
<1> QED  BY Zenon, <1>1, <1>2, <1>3, <1>4 DEF UnspentOf, Unspent

\* The block that an unspent output was paid in is one of the chain, and only
\* one; so the entries of a history that are not spent are its unspent outputs.
LEMMA HistoryEntries ==
  ASSUME HeightsSound, TypesSound, ChainShape, ChainOutputs, writing = None, NEW a \in Addr
  PROVE  LET unspent == {e \in GetAddressTransactions(a) : ~e.spent}
         IN  \E b : /\ \A o, q \in UnspentOf(a) : b[o] = b[q] => o = q
                    /\ \A o \in UnspentOf(a) : b[o].amount = Amount(o)
                    /\ \A e : e \in unspent <=> \E o \in UnspentOf(a) : e = b[o]
<1> DEFINE unspent == {e \in GetAddressTransactions(a) : ~e.spent}
           In(o, h) == h \in DOMAIN index /\ o \in Outpoints(index[h].txs)
           b == [o \in UnspentOf(a) |-> Entry(CHOOSE h : In(o, h), o)]
<1>1. DOMAIN index = 0 .. latest
  BY DEF ChainShape
<1>2. ASSUME NEW o \in Unspent  PROVE \E h : In(o, h)
  <2>1. o \in Outpoints(ChainTxs) /\ \A t \in ChainTxs : TxSound(t)
    <3>1. o \in Outpoints(ChainTxs)
      BY Zenon DEF ChainOutputs, UtxoMatchesChain, Unspent
    <3>2. \A h \in DOMAIN index : \A t \in index[h].txs : TxSound(t)
      BY Zenon DEF TypesSound, BlocksSound, BlockSound
    <3> QED  BY <3>1, <3>2 DEF ChainTxs
  <2>2. PICK t \in ChainTxs : \E i \in DOMAIN t.outs : o = <<t, i>>
    BY <2>1 DEF Outpoints
  <2>3. PICK h \in DOMAIN index : t \in index[h].txs
    BY DEF ChainTxs
  <2>4. o \in Outpoints(index[h].txs)
    BY <2>2, <2>3 DEF Outpoints
  <2> QED  BY <2>4
<1>3. ASSUME NEW o, NEW h, NEW k, In(o, h), In(o, k)  PROVE h = k
  <2>1. o[1] \in index[h].txs /\ o[1] \in index[k].txs
    BY <1>3, OutpointsSound DEF TypesSound, BlocksSound, BlockSound
  <2> QED  BY <1>3, <2>1 DEF ChainOutputs
<1>4. ASSUME NEW o \in UnspentOf(a)
      PROVE  \E h : In(o, h) /\ b[o] = Entry(h, o)
  <2>1. \E h : In(o, h)
    BY <1>2 DEF UnspentOf
  <2>2. In(o, CHOOSE h : In(o, h))
    <3> HIDE DEF In
    <3> QED  BY Zenon, <2>1
  <2>3. b[o] = Entry(CHOOSE h : In(o, h), o)
    BY Zenon
  <2> HIDE DEF b, In
  <2> QED  BY Zenon, <2>2, <2>3
<1>5. \A o \in UnspentOf(a) : b[o].amount = Amount(o) /\ b[o].out = o
  <2>1. \A h, o : Entry(h, o).amount = Amount(o) /\ Entry(h, o).out = o
    BY DEF Entry
  <2> TAKE o \in UnspentOf(a)
  <2>2. PICK h : b[o] = Entry(h, o)
    BY Zenon, <1>4
  <2> HIDE DEF b
  <2> QED  BY Zenon, <2>1, <2>2
<1>6. \A e : e \in unspent <=>
        \E h \in DOMAIN index : \E o \in Outpoints(index[h].txs) :
          Owner(o) = a /\ o \in Unspent /\ e = Entry(h, o)
  <2> DEFINE Was(h, o) == [height |-> h, amount |-> Amount(o), out |-> o,
                           spent |-> o \in DOMAIN utxo => utxo[o].spent]
  <2>1. \A e : e \in GetAddressTransactions(a) <=>
          \E h \in DOMAIN index : \E o \in Outpoints(index[h].txs) : Owner(o) = a /\ e = Was(h, o)
    <3>1. DOMAIN index \cap (0 .. latest) = DOMAIN index
      BY <1>1
    <3>2. GetAddressTransactions(a) =
            UNION {{Was(h, o) : o \in {q \in Outpoints(index[h].txs) : Owner(q) = a}} :
                     h \in DOMAIN index}
      BY Zenon, <3>1 DEF GetAddressTransactions, Owner, Amount
    <3> HIDE DEF Was
    <3> QED  BY <3>2
  <2>2. \A h, o : ~Was(h, o).spent <=> o \in Unspent
    BY Zenon DEF Unspent
  <2>3. \A h, o : o \in Unspent => Was(h, o) = Entry(h, o)
    BY Zenon DEF Unspent, Entry
  <2>4. \A e : e \in unspent <=> e \in GetAddressTransactions(a) /\ ~e.spent
    OBVIOUS
  <2> HIDE DEF Was, unspent
  <2> TAKE e
  <2>5. ASSUME e \in unspent
        PROVE  \E h \in DOMAIN index : \E o \in Outpoints(index[h].txs) :
                 Owner(o) = a /\ o \in Unspent /\ e = Entry(h, o)
    <3>1. PICK h \in DOMAIN index :
            \E o \in Outpoints(index[h].txs) : Owner(o) = a /\ e = Was(h, o)
      BY Zenon, <2>1, <2>4, <2>5
    <3>2. PICK o \in Outpoints(index[h].txs) : Owner(o) = a /\ e = Was(h, o)
      BY Zenon, <3>1
    <3>3. o \in Unspent /\ e = Entry(h, o)
      BY Zenon, <2>2, <2>3, <2>4, <2>5, <3>2
    <3> QED  BY Zenon, <3>2, <3>3
  <2>6. ASSUME NEW h \in DOMAIN index, NEW o \in Outpoints(index[h].txs),
               Owner(o) = a, o \in Unspent, e = Entry(h, o)
        PROVE  e \in unspent
    <3>1. e = Was(h, o) /\ ~Was(h, o).spent
      BY Zenon, <2>2, <2>3, <2>6
    <3>2. e \in GetAddressTransactions(a)
      BY Zenon, <2>1, <2>6, <3>1
    <3> QED  BY Zenon, <2>4, <3>1, <3>2
  <2> QED  BY Zenon, <2>5, <2>6
<1>7. ASSUME NEW e  PROVE e \in unspent <=> \E o \in UnspentOf(a) : e = b[o]
  <2>1. ASSUME e \in unspent  PROVE \E o \in UnspentOf(a) : e = b[o]
    <3>1. PICK h \in DOMAIN index : \E o \in Outpoints(index[h].txs) :
                                      Owner(o) = a /\ o \in Unspent /\ e = Entry(h, o)
      BY Zenon, <1>6, <2>1
    <3>2. PICK o \in Outpoints(index[h].txs) : Owner(o) = a /\ o \in Unspent /\ e = Entry(h, o)
      BY Zenon, <3>1
    <3>3. o \in UnspentOf(a) /\ In(o, h)
      BY Zenon, <3>2 DEF UnspentOf
    <3>4. PICK k : In(o, k) /\ b[o] = Entry(k, o)
      BY Zenon, <1>4, <3>3
    <3>5. k = h
      BY Zenon, <1>3, <3>3, <3>4
    <3> QED  BY Zenon, <3>2, <3>3, <3>4, <3>5
  <2>2. ASSUME NEW o \in UnspentOf(a), e = b[o]  PROVE e \in unspent
    <3>1. PICK k : In(o, k) /\ b[o] = Entry(k, o)
      BY Zenon, <1>4
    <3> HIDE DEF b, unspent
    <3> QED  BY Zenon, <1>6, <2>2, <3>1 DEF UnspentOf
  <2> QED  BY Zenon, <2>1, <2>2
<1>8. \A o, q \in UnspentOf(a) : b[o] = b[q] => o = q
  <2> HIDE DEF b
  <2> QED  BY Zenon, <1>5
<1> HIDE DEF b, unspent
<1>9. /\ \A o, q \in UnspentOf(a) : b[o] = b[q] => o = q
      /\ \A o \in UnspentOf(a) : b[o].amount = Amount(o)
      /\ \A e : e \in unspent <=> \E o \in UnspentOf(a) : e = b[o]
  BY Zenon, <1>5, <1>7, <1>8
<1> QED  BY Zenon, <1>9 DEF unspent

\* With one goroutine that adds blocks and no crash, the balance of an address
\* is the sum of what its history shows as unspent, whenever no block is being
\* added.
THEOREM HistoriesMatchBalances == Solo => (Spec => []HistoryMatchesBalance)
<1> SUFFICES ASSUME Solo  PROVE Spec => []HistoryMatchesBalance
  OBVIOUS
<1>1. HeightsSound /\ TypesSound /\ ChainShape /\ ChainOutputs /\ [Next]_vars
        => ChainShape' /\ ChainOutputs'
  BY NextShape, NextChain
<1>2. HeightsSound /\ TypesSound /\ ChainShape /\ ChainOutputs /\ BalanceComplete
        => HistoryMatchesBalance
  <2> SUFFICES ASSUME HeightsSound, TypesSound, ChainShape, ChainOutputs, BalanceComplete,
                      writing = None, NEW a \in Addr
               PROVE  LET unspent == {e \in GetAddressTransactions(a) : ~e.spent}
                      IN GetBalance(a) = SumFunction([e \in unspent |-> e.amount])
    BY DEF HistoryMatchesBalance
  <2> DEFINE unspent == {e \in GetAddressTransactions(a) : ~e.spent}
             U == UnspentOf(a)
             f == [o \in U |-> Amount(o)]
             g == [e \in unspent |-> e.amount]
  <2>1. PICK b : /\ \A o, q \in U : b[o] = b[q] => o = q
                 /\ \A o \in U : b[o].amount = Amount(o)
                 /\ \A e : e \in unspent <=> \E o \in U : e = b[o]
    BY Zenon, HistoryEntries
  <2> HIDE DEF unspent
  <2>2. OutputsSound /\ U \subseteq DOMAIN utxo /\ GetBalance(a) = InSum(U)
    BY Zenon, UnspentList DEF UnspentOf, Unspent, GetBalance, TypesSound
  <2>3. IsFiniteSet(U) /\ GetBalance(a) = Value(U) /\ \A o \in U : OutpointSound(o)
    BY Zenon, <2>2, InSumIs
  <2>4. Value(U) = Sum(f, U)
    BY DEF Value
  <2>5. \A o \in U : f[o] \in Int /\ g[b[o]] = f[o]
    <3>1. \A o \in U : Amount(o) \in Nat
      BY Zenon, <2>3, OutpointOutputs
    <3>2. \A o \in U : b[o] \in unspent
      BY Zenon, <2>1
    <3> QED  BY <2>1, <3>1, <3>2
  <2> HIDE DEF f, U
  <2>6. Sum(g, unspent) = Sum(f, U)
    <3> HIDE DEF g
    <3> QED  BY SMTT(30), <2>1, <2>3, <2>5, SumReindex
  <2>7. SumFunction(g) = Sum(g, unspent)
    BY DEF SumFunction, Sum
  <2>8. GetBalance(a) = SumFunction(g)
    <3> HIDE DEF g
    <3> QED  BY <2>3, <2>4, <2>6, <2>7
  <2> QED  BY Zenon, <2>8 DEF unspent
<1> QED  BY InitHeights, NextHeights, InitTypes, NextTypes, InitBalances, NextBalances,
            InitShape, InitChain, <1>1, <1>2, PTL DEF Spec

-----------------------------------------------------------------------------
(* Proposals.                                                              *)

\* The candidates and the coinbase transaction fit into a block, and there is a
\* reward: a coinbase transaction that pays nothing does not validate.
RoomAndReward == MaxMade < MaxTxsPerBlock /\ Reward > 0

BuiltValid ==
  writing = None => \A blk \in built : blk.height = latest + 1 => ValidateBlock(blk)

LEMMA NewBlockValid ==
  ASSUME RoomAndReward, PoolSound, OutputsSound, latest \in Nat, latest \in DOMAIN index,
         NEW p \in Addr, NEW blk, NewBlock(blk, p)
  PROVE  ValidateBlock(blk)
<1>1. PICK s \in Stamps, kept \in SUBSET made : ComposedOf(blk, p, s, kept)
  BY DEF NewBlock
<1> DEFINE c == createCoinbaseTx(p, kept, s)
<1>2. Candidates(kept)
  BY <1>1 DEF ComposedOf
<1>3. blk.txs = kept \cup {c}
  BY Zenon, <1>1, LedgerAssumption DEF ComposedOf, Compose
<1>4. c.ins = {} /\ OutSum(c.outs) = Reward + FeeSum(kept) /\ c.outs # <<>>
  BY Zenon, <1>2, CoinbaseSound
<1> HIDE DEF c
<1>5. ValidateTransaction(c)
  <2>1. FeeSum(kept) \in Nat
    BY <1>2, FeeSumNat
  <2>2. OutSum(c.outs) > 0
    BY <1>4, <2>1, LedgerAssumption DEF RoomAndReward
  <2> QED  BY <1>4, <2>2 DEF ValidateTransaction, ValidateCoinbaseTx
<1>6. \A t \in blk.txs : ValidateTransaction(t)
  BY <1>2, <1>3, <1>5 DEF Candidates
<1>7. Cardinality(blk.txs) <= MaxTxsPerBlock
  <2>1. IsFiniteSet(made) /\ Cardinality(made) <= MaxMade
    BY DEF PoolSound
  <2>2. IsFiniteSet(kept) /\ Cardinality(kept) <= Cardinality(made)
    BY <2>1, FS_Subset
  <2>3. Cardinality(made) \in Nat /\ Cardinality(kept) \in Nat
    BY <2>1, <2>2, FS_CardinalityType
  <2>4. Cardinality(kept \cup {c}) =
          IF c \in kept THEN Cardinality(kept) ELSE Cardinality(kept) + 1
    BY Zenon, <2>2, FS_AddElement
  <2>5. Cardinality(kept \cup {c}) <= MaxTxsPerBlock
    BY <2>1, <2>2, <2>3, <2>4, LedgerAssumption DEF RoomAndReward
  <2> QED  BY Zenon, <1>3, <2>5
<1>8. /\ Composed(blk) /\ blk.height = latest + 1 /\ blk.prev = index[latest] /\ blk.proposer = p
  BY NewBlockComposed
<1>9. /\ blk.height - 1 \in DOMAIN index /\ index[blk.height - 1] = blk.prev /\ blk.proposer # None
  BY <1>8, LedgerAssumption
<1> QED  BY Zenon, <1>6, <1>7, <1>8, <1>9 DEF ValidateBlock, Composed

\* Validation reads the database and the index only.
LEMMA ValidKept ==
  ASSUME NEW blk, ValidateBlock(blk), UNCHANGED <<utxo, index>>
  PROVE  ValidateBlock(blk)'
  BY Zenon DEF ValidateBlock, ValidateTransaction, ValidateCoinbaseTx, ValidateAllTxSignatures,
         InSum, OutSum, Conflict

LEMMA NextBuilt ==
  Solo /\ RoomAndReward /\ HeightsSound /\ TypesSound /\ ChainShape /\ BuiltValid /\ [Next]_vars
    => BuiltValid'
<1> SUFFICES ASSUME Solo, RoomAndReward, HeightsSound, TypesSound, ChainShape, BuiltValid,
                    [Next]_vars
             PROVE  BuiltValid'
  OBVIOUS
<1> USE DEF db, pool
<1>0. PoolSound /\ OutputsSound /\ BlocksSound /\ latest \in Nat
  BY DEF TypesSound, HeightsSound
<1>1. CASE UNCHANGED <<utxo, index, latest, built, writing>>
  <2>1. \A blk : ValidateBlock(blk) => ValidateBlock(blk)'
    BY <1>1, ValidKept
  <2> QED  BY <1>1, <2>1 DEF BuiltValid
<1>2. ASSUME NEW p \in Addr, NEW blk, BuildStep(blk, p)  PROVE BuiltValid'
  <2>1. writing = None /\ NewBlock(blk, p) /\ built' = built \cup {blk}
        /\ UNCHANGED <<utxo, index, latest, writing>>
    BY <1>2 DEF BuildStep
  <2>2. latest \in DOMAIN index
    <3>1. DOMAIN index = 0 .. latest
      BY Zenon, <2>1 DEF ChainShape
    <3> QED  BY <1>0, <3>1
  <2>3. ValidateBlock(blk)
    BY <1>0, <2>1, <2>2, NewBlockValid
  <2>4. \A b : ValidateBlock(b) => ValidateBlock(b)'
    BY <2>1, ValidKept
  <2> QED  BY <2>1, <2>3, <2>4 DEF BuiltValid
<1>3. ASSUME NEW ad \in Adders, AddBlock(ad)  PROVE BuiltValid'
  <2>1. writing' # None
    BY <1>3, LedgerAssumption DEF AddBlock
  <2> QED  BY <2>1 DEF BuiltValid
<1>4. ASSUME NEW ad \in Adders, UpdateChainState(ad)  PROVE BuiltValid'
  <2> DEFINE blk == adder[ad]
  <2>1. /\ writing = ad /\ ad # None /\ blk # None
        /\ latest' = IF blk.height > latest THEN blk.height ELSE latest
        /\ built' = built \cup {blk}
    BY <1>4, LedgerAssumption DEF UpdateChainState, HeightsSound
  <2>2. blk.height = latest + 1 /\ \A b \in built : b.height - 1 \in 0 .. latest
    BY <2>1 DEF ChainShape, Follows
  <2>3. \A b \in built : b.height \in Nat
    BY <1>0 DEF BlocksSound, BlockSound
  <2> HIDE DEF blk
  <2>4. \A b \in built' : b.height # latest' + 1
    BY <1>0, <2>1, <2>2, <2>3
  <2> QED  BY <2>4 DEF BuiltValid
<1>5. ~Crash
  BY DEF Crash, Solo, ChainShape
<1>6. ASSUME NEW ad \in Adders, AddBlockFails(ad)  PROVE BuiltValid'
  BY <1>1, <1>6 DEF AddBlockFails
<1>7. ASSUME NEW ad \in Adders, NEW blk, GetStep(ad, blk)  PROVE BuiltValid'
  BY <1>1, <1>7 DEF GetStep
<1>8. CASE PoolStep
  BY <1>1, <1>8 DEF PoolStep
<1> QED  BY <1>0, <1>2, <1>3, <1>4, <1>5, <1>6, <1>7, <1>8, NextKinds

\* With one goroutine that adds blocks, no crash, and room in a block for the
\* coinbase transaction, what this node or a peer proposes on the latest block
\* passes validation until the chain moves on.
THEOREM ProposalsPass == Solo /\ RoomAndReward => (Spec => []ProposalsValid)
<1> SUFFICES ASSUME Solo, RoomAndReward  PROVE Spec => []ProposalsValid
  OBVIOUS
<1>1. HeightsSound /\ TypesSound /\ ChainShape /\ BuiltValid /\ [Next]_vars
        => ChainShape' /\ BuiltValid'
  BY NextShape, NextBuilt
<1>2. Init => BuiltValid
  BY Zenon DEF Init, BuiltValid
<1>3. HeightsSound /\ TypesSound /\ ChainShape /\ BuiltValid => ProposalsValid
  <2> SUFFICES ASSUME HeightsSound, TypesSound, ChainShape, BuiltValid, writing = None,
                      NEW blk \in built, blk.prev = index[latest]
               PROVE  ValidateBlock(blk)
    BY DEF ProposalsValid
  <2>1. blk.height - 1 \in 0 .. latest /\ blk.prev = index[blk.height - 1] /\ blk.height \in Nat
    BY Zenon DEF ChainShape, Follows, TypesSound, BlocksSound, BlockSound
  <2>2. DOMAIN index = 0 .. latest /\ latest \in Nat /\ \A h \in DOMAIN index : index[h].height = h
    BY DEF ChainShape, HeightsSound, TypesSound, BlocksSound
  <2>3. blk.height - 1 = latest
    <3> DEFINE h == blk.height - 1
    <3>1. h \in DOMAIN index /\ latest \in DOMAIN index
      BY <2>1, <2>2
    <3>2. index[h].height = h /\ index[latest].height = latest
      BY Zenon, <2>2, <3>1
    <3> HIDE DEF h
    <3>3. index[h] = index[latest]
      BY <2>1 DEF h
    <3>4. h = latest
      BY Zenon, <3>2, <3>3
    <3> QED  BY <3>4 DEF h
  <2> QED  BY <2>1, <2>2, <2>3 DEF BuiltValid
<1> QED  BY InitHeights, NextHeights, InitTypes, NextTypes, InitShape,
            <1>1, <1>2, <1>3, PTL DEF Spec
=============================================================================
