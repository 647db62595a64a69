---------------------------- MODULE MempoolProofs ----------------------------
(* Proofs about Mempool: the pool, its index, the orphan index, the blocks    *)
(* made from the pool, and what its operations of several steps achieve.     *)
EXTENDS Mempool, FiniteSetTheorems, TLAPS

\* The prover a leaf is given to unless it names one.
USE ZenonT(10)

\* What CreateNewBlock has collected so far can be connected, and a transaction
\* is either collected, queued, waiting or left out.
BlockInv ==
    task.op = "block" =>
        /\ ConnectsTo(task.vtx, hashBestChain)
        /\ Elements(task.vtx) \subseteq mapTx
        /\ task.vecPriority \subseteq mapTx
        /\ \A t \in task.vecPriority : t \notin Elements(task.vtx) /\ task.setDependsOn[t] = {}
        /\ \A u \in Txs : task.setDependsOn[u] # {} => u \in mapTx /\ u \notin Elements(task.vtx)

IInv == TypeOK /\ NextTxExact /\ PoolOutsideChain /\ OrphanIndexExact /\ BlockInv /\ BlockConnects
-----------------------------------------------------------------------------
(* The operations of the pool and of the orphan index.                       *)

\* A transaction that spends nothing the pool spends keeps the index exact.
LEMMA AddKeepsExact ==
    ASSUME NextTxExact, NEW t \in Txs, Vin[t] \cap DOMAIN mapNextTx = {}, addUnchecked(t)
    PROVE  NextTxExact'
BY SMTT(20) DEF NextTxExact, addUnchecked

\* CTxMemPool::remove keeps the index exact: the entries that go are those of the
\* transactions that go.
LEMMA RemoveKeepsExact ==
    ASSUME NextTxExact, NEW S, Remove(S)
    PROVE  NextTxExact'
<1> DEFINE gone == UNION {Vin[t] : t \in mapTx \cap S}
           left == UNION {Vin[t] : t \in mapTx \ S}
<1>1. \A t, u \in mapTx : \A o \in Vin[t] \cap Vin[u] : t = u
  BY DEF NextTxExact
<1>2. left = DOMAIN mapNextTx \ gone
  BY SMTT(20), <1>1 DEF NextTxExact
<1>3. mapTx' = mapTx \ S /\ DOMAIN mapNextTx' = DOMAIN mapNextTx \ gone
  BY DEF Remove
<1>4. ASSUME NEW t \in mapTx', NEW o \in Vin[t]
      PROVE  mapNextTx'[o] = t
  BY SMTT(20), <1>2, <1>4 DEF Remove, NextTxExact
<1> QED
  BY <1>2, <1>3, <1>4 DEF NextTxExact

\* Types of the pool.
PoolType ==
    /\ mapTx \subseteq Txs \ Generated
    /\ DOMAIN mapNextTx \subseteq Txs /\ mapNextTx \in [DOMAIN mapNextTx -> Txs]

\* What AcceptToMemoryPool may do to the pool.
LEMMA AcceptStep ==
    ASSUME PoolType, NextTxExact, NEW t \in Txs, AcceptToMemoryPool(t)
    PROVE  /\ PoolType' /\ NextTxExact'
           /\ mapTx \subseteq mapTx'
           /\ \A u \in mapTx' \ mapTx : u = t /\ ~ContainsTx(t, hashBestChain)
<1>1. CASE Accepts(t)
  <2>1. addUnchecked(t) /\ Eligible(t)
    BY <1>1 DEF AcceptToMemoryPool, Accepts
  <2>2. NextTxExact'
    BY <2>1, AddKeepsExact DEF Eligible
  <2>3. PoolType'
    BY <2>1, MempoolAssumption DEF Eligible, PoolType, addUnchecked
  <2> QED
    BY <2>1, <2>2, <2>3 DEF Eligible, addUnchecked
<1>2. CASE ~Accepts(t)
  BY <1>2 DEF AcceptToMemoryPool, poolVars, PoolType, NextTxExact
<1> QED
  BY <1>1, <1>2

\* What CTxMemPool::remove does to the types.
LEMMA RemoveStep ==
    ASSUME PoolType, NextTxExact, NEW S, Remove(S)
    PROVE  PoolType' /\ NextTxExact' /\ mapTx' = mapTx \ S
<1>1. NextTxExact'
  BY RemoveKeepsExact
<1> QED
  BY <1>1 DEF Remove, PoolType

OrphanType ==
    /\ mapOrphanTransactions \subseteq Txs \ Large
    /\ Cardinality(mapOrphanTransactions) <= MAX_ORPHAN_TRANSACTIONS
    /\ mapOrphanTransactionsByPrev \in [Txs -> SUBSET Txs]

\* The orphan index stays exact through insertions with evictions.
LEMMA AddOrphanStep ==
    ASSUME OrphanType, OrphanIndexExact, NEW t \in Txs, AddOrphanTx(t)
    PROVE  OrphanType' /\ OrphanIndexExact'
<1>1. CASE t \in mapOrphanTransactions \cup Large
  BY <1>1 DEF AddOrphanTx, orphanVars, OrphanType, OrphanIndexExact
<1>2. CASE t \notin mapOrphanTransactions \cup Large
  <2> DEFINE all == mapOrphanTransactions \cup {t}
  <2>1. PICK kept \in SUBSET all :
          /\ IF Cardinality(all) <= MAX_ORPHAN_TRANSACTIONS
             THEN kept = all
             ELSE Cardinality(kept) = MAX_ORPHAN_TRANSACTIONS
          /\ mapOrphanTransactions' = kept
          /\ mapOrphanTransactionsByPrev' =
                UnindexOrphans(IndexOrphan(mapOrphanTransactionsByPrev, t), all \ kept)
    BY ZenonT(30), <1>2 DEF AddOrphanTx
  <2>2. Cardinality(kept) <= MAX_ORPHAN_TRANSACTIONS
    <3>1. CASE Cardinality(all) <= MAX_ORPHAN_TRANSACTIONS
      <4>1. kept = all
        BY <2>1, <3>1
      <4> QED
        BY <3>1, <4>1
    <3>2. CASE ~(Cardinality(all) <= MAX_ORPHAN_TRANSACTIONS)
      <4>1. Cardinality(kept) = MAX_ORPHAN_TRANSACTIONS
        BY <2>1, <3>2
      <4>2. MAX_ORPHAN_TRANSACTIONS <= MAX_ORPHAN_TRANSACTIONS
        BY SMTT(20), MempoolAssumption
      <4> QED
        BY <4>1, <4>2
    <3> QED
      BY <3>1, <3>2
  <2>3. \A p \in Txs : mapOrphanTransactionsByPrev'[p] =
            (IF p \in Vin[t] THEN mapOrphanTransactionsByPrev[p] \cup {t}
                             ELSE mapOrphanTransactionsByPrev[p])
            \ {o \in all \ kept : p \in Vin[o]}
    BY <2>1 DEF UnindexOrphans, IndexOrphan
  <2>4. OrphanIndexExact'
    BY ZenonT(30), <2>1, <2>3 DEF OrphanIndexExact
  <2>5. mapOrphanTransactionsByPrev' \in [Txs -> SUBSET Txs]
    BY <2>1, <2>3 DEF UnindexOrphans, IndexOrphan, OrphanType
  <2> QED
    BY ZenonT(30), <1>2, <2>1, <2>2, <2>4, <2>5 DEF OrphanType
<1> QED
  BY <1>1, <1>2

\* EraseOrphanTx of some orphans keeps the index by parent exact.
LEMMA EraseOrphansStep ==
    ASSUME OrphanType, OrphanIndexExact, NEW S \in SUBSET Txs, EraseOrphanTxs(S)
    PROVE  OrphanType' /\ OrphanIndexExact'
<1>1. IsFiniteSet(mapOrphanTransactions)
  BY FS_Subset, MempoolAssumption DEF OrphanType
<1>2. mapOrphanTransactions' = mapOrphanTransactions \ S
  BY DEF EraseOrphanTxs
<1>3. Cardinality(mapOrphanTransactions') <= Cardinality(mapOrphanTransactions)
  BY <1>1, <1>2, FS_Subset
<1>4. Cardinality(mapOrphanTransactions) \in Nat /\ Cardinality(mapOrphanTransactions') \in Nat
  BY <1>1, <1>2, FS_Subset, FS_CardinalityType
<1>5. Cardinality(mapOrphanTransactions') <= MAX_ORPHAN_TRANSACTIONS
  BY SMTT(20), <1>3, <1>4, MempoolAssumption DEF OrphanType
<1>6. OrphanIndexExact'
  BY <1>2 DEF EraseOrphanTxs, UnindexOrphans, OrphanIndexExact
<1>7. mapOrphanTransactionsByPrev' \in [Txs -> SUBSET Txs]
  BY DEF EraseOrphanTxs, UnindexOrphans, OrphanType
<1> QED
  BY <1>2, <1>5, <1>6, <1>7 DEF OrphanType
-----------------------------------------------------------------------------
(* The types.                                                                *)

\* The node starts in a state of the inductive invariant.
THEOREM InitOK == Init => IInv
<1> SUFFICES ASSUME Init PROVE IInv
  OBVIOUS
<1>1. Genesis \in Blocks
  BY TreeAssumption
<1>2. TypeOK
  <2>1. Cardinality(mapOrphanTransactions) <= MAX_ORPHAN_TRANSACTIONS
    BY SMTT(20), FS_EmptySet, MempoolAssumption DEF Init
  <2> QED
    BY SMTT(20), <1>1, <2>1 DEF Init, TypeOK, Tasks, NoTask, NoBlock
<1>3. NextTxExact /\ PoolOutsideChain /\ OrphanIndexExact
  BY SMTT(20) DEF Init, NextTxExact, PoolOutsideChain, OrphanIndexExact
<1>4. BlockInv /\ BlockConnects
  BY DEF Init, BlockInv, BlockConnects, NoTask, NoBlock
<1> QED
  BY <1>2, <1>3, <1>4 DEF IInv

\* The parts of TypeOK that are not about the pool or the orphans.
TaskType ==
    /\ hashBestChain \in Blocks /\ pindexBest \in Blocks
    /\ task.op \notin {"resurrect", "postponed"} => pindexBest = hashBestChain
    /\ task \in Tasks
    /\ task.op = "orphans" => task.work # <<>>
    /\ task.op = "resurrect" => \A x \in task.vResurrect : x[2] \in DOMAIN Vtx[x[1]]
    /\ pblock \in [prev : Blocks \cup {None}, vtx : Seq(Txs)]

\* TypeOK, by the operations that change its parts.
LEMMA TypeParts == TypeOK <=> TaskType /\ PoolType /\ OrphanType
BY DEF TypeOK, TaskType, PoolType, OrphanType

\* The operation under way, by its name.
LEMMA TaskCases ==
    ASSUME task \in Tasks
    PROVE  /\ task.op = "orphans" =>
                task \in [op : {"orphans"}, work : Seq(Txs), left : SUBSET Txs, erase : SUBSET Txs,
                before : SUBSET Txs]
           /\ task.op = "wallet" => task \in [op : {"wallet"}, vtxPrev : SUBSET Txs, tx : Txs]
           /\ task.op = "resurrect" =>
                task \in [op : {"resurrect"}, new : Blocks, vResurrect : SUBSET (Blocks \X Nat),
                          vDelete : SUBSET Txs]
           /\ task.op = "postponed" => task \in [op : {"postponed"}, new : Blocks]
           /\ task.op = "block" =>
                task \in [op : {"block"}, vtx : Seq(Txs), vecPriority : SUBSET Txs,
                          setDependsOn : [Txs -> SUBSET Txs]]
BY DEF Tasks
-----------------------------------------------------------------------------
(* The parts of the invariant that most steps leave alone.                   *)

\* Steps that leave the orphans alone keep what is said of them.
LEMMA OrphansSame ==
    ASSUME OrphanType, OrphanIndexExact, UNCHANGED orphanVars
    PROVE  OrphanType' /\ OrphanIndexExact'
BY DEF orphanVars, OrphanType, OrphanIndexExact

\* Steps that leave the pool alone keep its index.
LEMMA PoolSame ==
    ASSUME PoolType, NextTxExact, UNCHANGED poolVars
    PROVE  PoolType' /\ NextTxExact'
BY DEF poolVars, PoolType, NextTxExact

\* Steps that leave the assembled block alone keep it connected.
LEMMA BlockSame ==
    ASSUME BlockConnects, UNCHANGED pblock
    PROVE  BlockConnects'
BY DEF BlockConnects, NoBlock

\* Nothing is being collected while another operation runs.
LEMMA NoBlockTask ==
    ASSUME task'.op # "block"
    PROVE  BlockInv'
BY DEF BlockInv

\* The inductive invariant with the types taken apart.
LEMMA InvParts ==
    IInv <=> /\ TaskType /\ PoolType /\ OrphanType
             /\ NextTxExact /\ PoolOutsideChain /\ OrphanIndexExact /\ BlockInv /\ BlockConnects
BY TypeParts DEF IInv

\* The primed version of the two directions.
LEMMA InvPartsNext ==
    ASSUME TaskType', PoolType', OrphanType', NextTxExact', PoolOutsideChain', OrphanIndexExact',
           BlockInv', BlockConnects'
    PROVE  IInv'
BY DEF IInv, TypeOK, TaskType, PoolType, OrphanType
-----------------------------------------------------------------------------
(* The "tx" handler.                                                         *)

\* The "tx" handler up to the orphans.
LEMMA RecvTxStep ==
    ASSUME IInv, NEW t \in Txs, RecvTx(t)
    PROVE  IInv'
<1> USE InvParts
<1>0. task.op = "none" /\ UNCHANGED <<hashBestChain, pindexBest, pblock>>
  BY DEF RecvTx, Idle, chainVars
<1>1. CASE /\ Accepts(t)
           /\ addUnchecked(t)
           /\ task' = [op |-> "orphans", work |-> <<t>>,
                       left |-> mapOrphanTransactionsByPrev[t], erase |-> {t}, before |-> mapTx]
           /\ UNCHANGED orphanVars
  <2>1. AcceptToMemoryPool(t)
    BY <1>1 DEF AcceptToMemoryPool
  <2>2. PoolType' /\ NextTxExact' /\ \A u \in mapTx' \ mapTx : u = t /\ ~ContainsTx(t, hashBestChain)
    BY <2>1, AcceptStep
  <2>3. PoolOutsideChain'
    BY <1>0, <1>1, <2>2 DEF PoolOutsideChain
  <2>4. TaskType'
    <3>1. task' \in [op : {"orphans"}, work : Seq(Txs), left : SUBSET Txs, erase : SUBSET Txs,
                before : SUBSET Txs]
      <4>1. mapTx \in SUBSET Txs /\ mapOrphanTransactionsByPrev[t] \in SUBSET Txs /\ <<t>> \in Seq(Txs)
        BY SMTT(20) DEF PoolType, OrphanType
      <4> QED
        BY ZenonT(30), <1>1, <4>1
    <3>2. task' \in Tasks /\ task'.op = "orphans" /\ task'.work # <<>>
      BY <1>1, <3>1 DEF Tasks
    <3> QED
      BY <1>0, <3>2 DEF TaskType
  <2> QED
    BY <1>0, <1>1, <2>2, <2>3, <2>4, OrphansSame, BlockSame, NoBlockTask, InvPartsNext
<1>2. CASE Misses(t) /\ AddOrphanTx(t) /\ UNCHANGED <<poolVars, task>>
  <2>1. OrphanType' /\ OrphanIndexExact'
    BY <1>2, AddOrphanStep
  <2>2. TaskType'
    BY <1>0, <1>2 DEF TaskType
  <2>3. PoolOutsideChain'
    BY <1>0, <1>2 DEF PoolOutsideChain, poolVars
  <2> QED
    BY <1>0, <1>2, <2>1, <2>2, <2>3, PoolSame, BlockSame, NoBlockTask, InvPartsNext
<1> QED
  BY <1>1, <1>2 DEF RecvTx

\* One orphan of the work queue.
LEMMA ResolveOrphanStep ==
    ASSUME IInv, ResolveOrphan
    PROVE  IInv'
<1> USE InvParts
<1>0. task.op = "orphans" /\ UNCHANGED <<hashBestChain, pindexBest, pblock, orphanVars>>
  BY DEF ResolveOrphan, chainVars
<1>1. task \in [op : {"orphans"}, work : Seq(Txs), left : SUBSET Txs, erase : SUBSET Txs,
                before : SUBSET Txs]
  BY <1>0, TaskCases DEF TaskType
<1>2. PICK o \in task.left :
        /\ AcceptToMemoryPool(o)
        /\ task' = [task EXCEPT
                      !.left = @ \ {o},
                      !.work = IF Accepts(o) THEN Append(@, o) ELSE @,
                      !.erase = IF Misses(o) THEN @ ELSE @ \cup {o}]
  BY ZenonT(30) DEF ResolveOrphan
<1>3. o \in Txs
  BY <1>1, <1>2
<1>4. PoolType' /\ NextTxExact' /\ \A u \in mapTx' \ mapTx : u = o /\ ~ContainsTx(o, hashBestChain)
  BY <1>2, <1>3, AcceptStep
<1>5. task' \in [op : {"orphans"}, work : Seq(Txs), left : SUBSET Txs, erase : SUBSET Txs,
                before : SUBSET Txs]
  <2> DEFINE work == IF Accepts(o) THEN Append(task.work, o) ELSE task.work
             erase == IF Misses(o) THEN task.erase ELSE task.erase \cup {o}
  <2>1. task' = [op |-> "orphans", work |-> work, left |-> task.left \ {o}, erase |-> erase,
              before |-> task.before]
    BY ZenonT(30), <1>1, <1>2
  <2>2. work \in Seq(Txs)
    BY SMTT(20), <1>1, <1>3
  <2>3. erase \in SUBSET Txs
    BY <1>1, <1>3
  <2> QED
    BY <1>1, <2>1, <2>2, <2>3
<1>6. task'.work # <<>>
  <2>1. task.work # <<>> /\ task.work \in Seq(Txs)
    BY <1>0, <1>1 DEF TaskType
  <2>2. task'.work = task.work \/ task'.work = Append(task.work, o)
    BY <1>1, <1>2
  <2> QED
    BY SMTT(20), <1>3, <2>1, <2>2
<1>7. TaskType'
  BY <1>0, <1>5, <1>6 DEF TaskType, Tasks
<1>8. PoolOutsideChain'
  BY <1>0, <1>4 DEF PoolOutsideChain
<1> QED
  BY <1>0, <1>4, <1>5, <1>7, <1>8, OrphansSame, BlockSame, NoBlockTask, InvPartsNext

\* A work queue of several entries without its first.
LEMMA WorkLeft ==
    ASSUME NEW w \in Seq(Txs), Len(w) > 1
    PROVE  w[2] \in Txs /\ Tail(w) \in Seq(Txs) /\ Tail(w) # <<>>
<1>1. Len(w) \in Nat /\ 2 \in 1..Len(w) /\ w # <<>>
  BY SMTT(20)
<1>2. w[2] \in Txs
  BY SMTT(20), <1>1
<1>3. Tail(w) \in Seq(Txs)
  BY SMTT(20), <1>1
<1>4. Len(Tail(w)) = Len(w) - 1
  BY SMTT(20), <1>1
<1>5. ASSUME NEW n \in Nat, n > 1 PROVE n - 1 # 0
  BY SMTT(20), <1>5
<1>6. Tail(w) # <<>>
  <2>1. Len(w) - 1 # 0
    BY <1>1, <1>5
  <2>2. Len(<<>>) = 0
    BY SMTT(20)
  <2> QED BY <1>4, <2>1, <2>2
<1> QED BY <1>2, <1>3, <1>6

\* The end of the work queue, or its next entry.
LEMMA NextWorkStep ==
    ASSUME IInv, NextWork
    PROVE  IInv'
<1> USE InvParts
<1>0. task.op = "orphans" /\ UNCHANGED <<hashBestChain, pindexBest, pblock, poolVars>>
  BY DEF NextWork, chainVars
<1>1. task \in [op : {"orphans"}, work : Seq(Txs), left : SUBSET Txs, erase : SUBSET Txs,
                before : SUBSET Txs]
  BY <1>0, TaskCases DEF TaskType
<1>2. PoolOutsideChain' \/ task'.op \notin {"none", "orphans"}
  BY <1>0 DEF PoolOutsideChain, poolVars
<1>3. CASE Len(task.work) > 1
  <2>1. /\ task' = [task EXCEPT !.work = Tail(@), !.left = mapOrphanTransactionsByPrev[task.work[2]]]
        /\ UNCHANGED orphanVars
    BY <1>3 DEF NextWork
  <2>2. task.work[2] \in Txs /\ Tail(task.work) \in Seq(Txs) /\ Tail(task.work) # <<>>
    <3>1. task.work \in Seq(Txs)
      BY <1>1
    <3> QED BY <1>3, <3>1, WorkLeft
  <2>3. task' \in [op : {"orphans"}, work : Seq(Txs), left : SUBSET Txs, erase : SUBSET Txs,
                before : SUBSET Txs]
    BY ZenonT(30), <1>1, <2>1, <2>2 DEF OrphanType
  <2>4. TaskType'
    BY <1>0, <1>1, <2>1, <2>2, <2>3 DEF TaskType, Tasks
  <2> QED
    BY <1>0, <1>2, <2>1, <2>3, <2>4, OrphansSame, PoolSame, BlockSame, NoBlockTask, InvPartsNext
<1>4. CASE ~(Len(task.work) > 1)
  <2>1. EraseOrphanTxs(task.erase) /\ task' = NoTask
    BY <1>4 DEF NextWork
  <2>2. OrphanType' /\ OrphanIndexExact'
    BY <1>1, <2>1, EraseOrphansStep
  <2>3. TaskType' /\ task'.op = "none"
    BY <1>0, <2>1 DEF TaskType, Tasks, NoTask
  <2> QED
    BY <1>0, <1>2, <2>2, <2>3, PoolSame, BlockSame, NoBlockTask, InvPartsNext
<1> QED
  BY <1>3, <1>4
-----------------------------------------------------------------------------
(* The wallet's and RPC's transactions.                                      *)

\* Submission by the wallet or by RPC.
LEMMA WalletStep ==
    ASSUME IInv, (\E t \in Txs : AcceptWalletTransaction(t)) \/ AcceptPrev \/ AcceptOwn
    PROVE  IInv'
<1> USE InvParts
<1>0. UNCHANGED <<hashBestChain, pindexBest, pblock, orphanVars>>
  BY DEF AcceptWalletTransaction, AcceptPrev, AcceptOwn, chainVars
<1>1. ASSUME NEW t \in Txs, AcceptWalletTransaction(t)
      PROVE  IInv'
  <2>1. PICK vtxPrev \in SUBSET (Vin[t] \ Generated) :
              task' = [op |-> "wallet", vtxPrev |-> vtxPrev, tx |-> t]
    BY <1>1 DEF AcceptWalletTransaction
  <2>2. Vin[t] \in SUBSET Txs
    BY MempoolAssumption
  <2>3. task' \in [op : {"wallet"}, vtxPrev : SUBSET Txs, tx : Txs]
    BY <2>1, <2>2
  <2>4. task.op = "none" /\ UNCHANGED poolVars
    BY <1>1 DEF AcceptWalletTransaction, Idle
  <2>5. TaskType'
    BY <1>0, <2>3, <2>4 DEF TaskType, Tasks
  <2>6. PoolOutsideChain'
    BY <1>0, <2>4 DEF PoolOutsideChain, poolVars
  <2> QED
    BY <1>0, <2>3, <2>4, <2>5, <2>6, OrphansSame, PoolSame, BlockSame, NoBlockTask, InvPartsNext
<1>2. ASSUME AcceptPrev \/ AcceptOwn
      PROVE  IInv'
  <2>1. task.op = "wallet"
    BY <1>2 DEF AcceptPrev, AcceptOwn
  <2>2. task \in [op : {"wallet"}, vtxPrev : SUBSET Txs, tx : Txs]
    BY <2>1, TaskCases DEF TaskType
  <2>3. \E p \in Txs : AcceptToMemoryPool(p)
    BY <1>2, <2>2 DEF AcceptPrev, AcceptOwn
  <2>4. PoolType' /\ NextTxExact' /\ \A u \in mapTx' \ mapTx : ~ContainsTx(u, hashBestChain)
    BY <2>3, AcceptStep
  <2>5. PoolOutsideChain'
    BY <1>0, <2>1, <2>4 DEF PoolOutsideChain
  <2>6. CASE AcceptPrev
    <3>1. PICK p \in task.vtxPrev : task' = [task EXCEPT !.vtxPrev = @ \ {p}]
      BY <2>6 DEF AcceptPrev
    <3>2. task' \in [op : {"wallet"}, vtxPrev : SUBSET Txs, tx : Txs]
      BY <2>2, <3>1
    <3>3. TaskType'
      BY <1>0, <2>1, <3>2 DEF TaskType, Tasks
    <3> QED
      BY <1>0, <2>4, <2>5, <3>2, <3>3, OrphansSame, BlockSame, NoBlockTask, InvPartsNext
  <2>7. CASE AcceptOwn
    <3>1. task' = NoTask
      BY <2>7 DEF AcceptOwn
    <3>2. TaskType' /\ task'.op = "none"
      BY <1>0, <2>1, <3>1 DEF TaskType, Tasks, NoTask
    <3> QED
      BY <1>0, <2>4, <2>5, <3>2, OrphansSame, BlockSame, NoBlockTask, InvPartsNext
  <2> QED
    BY <1>2, <2>6, <2>7
<1> QED
  BY <1>1, <1>2
-----------------------------------------------------------------------------
(* SetBestChain.                                                             *)

\* A block adds itself to the chain of its parent.
LEMMA ChainOfPrev ==
    ASSUME NEW b \in Blocks \ {Genesis}
    PROVE  ChainOf(b) = ChainOf(Prev[b]) \cup {b}
BY TreeAssumption DEF ChainOf

\* A transaction is in a chain if it is in the last block or in the chain below.
LEMMA ContainsTxPrev ==
    ASSUME NEW b \in Blocks \ {Genesis}, NEW t
    PROVE  ContainsTx(t, b) <=> ContainsTx(t, Prev[b]) \/ t \in Elements(Vtx[b])
BY SMTT(20), ChainOfPrev DEF ContainsTx, InBlock

\* The new tip is connected and its transactions leave the pool.
LEMMA ConnectStep ==
    ASSUME PoolType, NextTxExact, NEW b \in Blocks \ {Genesis}, Prev[b] = hashBestChain,
           \A t \in mapTx : ~ContainsTx(t, hashBestChain),
           Remove(Elements(Vtx[b])), hashBestChain' = b
    PROVE  PoolType' /\ NextTxExact' /\ PoolOutsideChain'
<1>1. PoolType' /\ NextTxExact' /\ mapTx' = mapTx \ Elements(Vtx[b])
  BY RemoveStep
<1>2. \A t \in mapTx' : ~ContainsTx(t, b)
  BY <1>1, ContainsTxPrev
<1> QED
  BY <1>1, <1>2 DEF PoolOutsideChain

\* A block on top of the best one is connected.
LEMMA ConnectTipStep ==
    ASSUME IInv, NEW b \in Blocks, ConnectTip(b)
    PROVE  IInv'
<1> USE InvParts
<1>1. /\ task.op = "none" /\ task' = task /\ pblock' = pblock /\ UNCHANGED orphanVars
      /\ b \in Blocks \ {Genesis} /\ Prev[b] = hashBestChain
      /\ Remove(Elements(Vtx[b])) /\ hashBestChain' = b /\ pindexBest' = b
  BY DEF ConnectTip, Idle
<1>2. \A t \in mapTx : ~ContainsTx(t, hashBestChain)
  BY <1>1 DEF PoolOutsideChain
<1>3. PoolType' /\ NextTxExact' /\ PoolOutsideChain'
  BY <1>1, <1>2, ConnectStep
<1>4. TaskType'
  BY <1>1 DEF TaskType
<1> QED
  BY <1>1, <1>3, <1>4, OrphansSame, BlockSame, NoBlockTask, InvPartsNext

\* Reorganize commits: the pool may now hold what vDelete lists, and nothing else, of the chain.
LEMMA ReorganizeStep ==
    ASSUME IInv, NEW b \in Blocks, Reorganize(b)
    PROVE  IInv'
<1> USE InvParts
<1>1. /\ task.op = "none" /\ pblock' = pblock /\ pindexBest' = pindexBest
      /\ UNCHANGED orphanVars /\ UNCHANGED poolVars
  BY DEF Reorganize, Idle
<1>2. PICK goal \in Blocks :
        /\ hashBestChain' = goal
        /\ task' = [op |-> "resurrect", new |-> b,
                    vResurrect |-> vResurrect(pindexBest, goal),
                    vDelete |-> vDelete(pindexBest, goal)]
  BY DEF Reorganize
<1>3. ChainOf(pindexBest) \subseteq Blocks /\ ChainOf(goal) \subseteq Blocks
  BY TreeAssumption DEF TaskType, ChainOf
<1>4. ASSUME NEW x \in vResurrect(pindexBest, goal)
      PROVE  x \in Blocks \X Nat /\ x[2] \in DOMAIN Vtx[x[1]]
  <2>1. PICK c \in ChainOf(pindexBest) \ ChainOf(goal) : x \in {c} \X {i \in DOMAIN Vtx[c] : Vtx[c][i] \notin Generated}
    BY <1>4 DEF vResurrect
  <2>2. x[1] = c /\ x[2] \in DOMAIN Vtx[c] /\ x = <<x[1], x[2]>>
    BY SMTT(20), <2>1
  <2>3. DOMAIN Vtx[c] \subseteq Nat
    BY SMTT(20), <1>3, <2>1, MempoolAssumption
  <2> QED
    BY <1>3, <2>1, <2>2, <2>3
<1>5. vDelete(pindexBest, goal) \subseteq Txs
  <2>1. \A c \in Blocks : Elements(Vtx[c]) \subseteq Txs
    BY SMTT(20), MempoolAssumption DEF Elements
  <2> QED
    BY <1>3, <2>1 DEF vDelete
<1>6. task' \in [op : {"resurrect"}, new : Blocks, vResurrect : SUBSET (Blocks \X Nat), vDelete : SUBSET Txs]
  BY <1>2, <1>4, <1>5
<1>7. TaskType'
  BY <1>1, <1>2, <1>4, <1>6 DEF TaskType, Tasks
<1>8. PoolOutsideChain'
  <2>1. \A t \in mapTx : ~ContainsTx(t, pindexBest)
    BY <1>1 DEF PoolOutsideChain, TaskType
  <2>2. \A t \in mapTx : ContainsTx(t, goal) => t \in vDelete(pindexBest, goal)
    BY <2>1 DEF ContainsTx, InBlock, vDelete
  <2> QED
    BY <1>1, <1>2, <2>2 DEF PoolOutsideChain, poolVars
<1> QED
  BY <1>1, <1>6, <1>7, <1>8, OrphansSame, PoolSame, BlockSame, NoBlockTask, InvPartsNext

\* One transaction of the old branch is resurrected.
LEMMA ResurrectStep ==
    ASSUME IInv, ResurrectNext
    PROVE  IInv'
<1> USE InvParts
<1>1. task.op = "resurrect" /\ UNCHANGED <<hashBestChain, pindexBest, pblock, orphanVars>>
  BY DEF ResurrectNext, chainVars
<1>2. task \in [op : {"resurrect"}, new : Blocks, vResurrect : SUBSET (Blocks \X Nat), vDelete : SUBSET Txs]
  BY <1>1, TaskCases DEF TaskType
<1>3. PICK x \in task.vResurrect :
        AcceptToMemoryPool(Vtx[x[1]][x[2]]) /\ task' = [task EXCEPT !.vResurrect = @ \ {x}]
  BY ZenonT(30) DEF ResurrectNext
<1>4. Vtx[x[1]][x[2]] \in Txs
  <2>1. x[1] \in Blocks /\ x[2] \in DOMAIN Vtx[x[1]]
    BY <1>1, <1>2, <1>3 DEF TaskType
  <2> QED
    BY SMTT(20), <2>1, MempoolAssumption
<1>5. PoolType' /\ NextTxExact' /\ \A u \in mapTx' \ mapTx : ~ContainsTx(u, hashBestChain)
  BY <1>3, <1>4, AcceptStep
<1>6. task' \in [op : {"resurrect"}, new : Blocks, vResurrect : SUBSET (Blocks \X Nat), vDelete : SUBSET Txs]
  BY <1>2, <1>3
<1>7. task'.vDelete = task.vDelete /\ task'.vResurrect \subseteq task.vResurrect
  BY <1>2, <1>3
<1>8. TaskType'
  BY <1>1, <1>6, <1>7 DEF TaskType, Tasks
<1>9. PoolOutsideChain'
  BY <1>1, <1>5, <1>6, <1>7 DEF PoolOutsideChain
<1> QED
  BY <1>1, <1>5, <1>6, <1>8, <1>9, OrphansSame, BlockSame, NoBlockTask, InvPartsNext

\* The end of Reorganize or of a postponed block: the tip is reached or not.
LEMMA ArriveStep ==
    ASSUME pindexBest \in Blocks, pblock \in [prev : Blocks \cup {None}, vtx : Seq(Txs)], pblock' = pblock,
           NEW new \in Blocks, hashBestChain' \in Blocks, Arrive(hashBestChain', new)
    PROVE  TaskType' /\ task'.op \in {"none", "postponed"}
<1>1. CASE hashBestChain' = new
  BY SMTT(20), <1>1 DEF Arrive, TaskType, Tasks, NoTask
<1>2. CASE hashBestChain' # new
  BY SMTT(20), <1>2 DEF Arrive, TaskType, Tasks
<1> QED
  BY <1>1, <1>2

\* The redundant transactions go, and the pool is outside the chain again.
LEMMA DeleteStep ==
    ASSUME IInv, DeleteRedundant
    PROVE  IInv'
<1> USE InvParts
<1>1. /\ task.op = "resurrect" /\ hashBestChain' = hashBestChain /\ pblock' = pblock
      /\ UNCHANGED orphanVars /\ Remove(task.vDelete) /\ Arrive(hashBestChain', task.new)
  BY DEF DeleteRedundant
<1>2. task.new \in Blocks
  BY <1>1, TaskCases DEF TaskType
<1>3. TaskType' /\ task'.op \in {"none", "postponed"}
  BY <1>1, <1>2, ArriveStep DEF TaskType
<1>4. PoolType' /\ NextTxExact' /\ mapTx' = mapTx \ task.vDelete
  BY <1>1, RemoveStep
<1>5. PoolOutsideChain'
  BY <1>1, <1>4 DEF PoolOutsideChain
<1> QED
  BY <1>1, <1>3, <1>4, <1>5, OrphansSame, BlockSame, NoBlockTask, InvPartsNext

\* A postponed block is connected.
LEMMA PostponedStep ==
    ASSUME IInv, ConnectPostponed
    PROVE  IInv'
<1> USE InvParts
<1>1. task.op = "postponed" /\ pblock' = pblock /\ UNCHANGED orphanVars
  BY DEF ConnectPostponed
<1>2. task.new \in Blocks
  BY <1>1, TaskCases DEF TaskType
<1>3. PICK b \in ChainOf(task.new) \ {Genesis} :
        /\ Prev[b] = hashBestChain /\ hashBestChain' = b
        /\ Remove(Elements(Vtx[b])) /\ Arrive(b, task.new)
  BY DEF ConnectPostponed
<1>4. b \in Blocks \ {Genesis}
  BY <1>2, <1>3, TreeAssumption DEF ChainOf
<1>5. \A t \in mapTx : ~ContainsTx(t, hashBestChain)
  BY <1>1 DEF PoolOutsideChain
<1>6. PoolType' /\ NextTxExact' /\ PoolOutsideChain'
  BY <1>3, <1>4, <1>5, ConnectStep
<1>7. TaskType' /\ task'.op \in {"none", "postponed"}
  BY <1>1, <1>2, <1>3, <1>4, ArriveStep DEF TaskType
<1> QED
  BY <1>1, <1>6, <1>7, OrphansSame, BlockSame, NoBlockTask, InvPartsNext
-----------------------------------------------------------------------------
(* CreateNewBlock.                                                           *)

\* The pool is read for a new block.
LEMMA CreateNewBlockStep ==
    ASSUME IInv, CreateNewBlock
    PROVE  IInv'
<1> USE InvParts
<1> DEFINE usable == {t \in mapTx : IsFinalTx(t, Height[pindexBest] + 1) /\ DependsOn(t) \subseteq mapTx}
<1>1. /\ task.op = "none"
      /\ UNCHANGED <<hashBestChain, pindexBest, pblock, orphanVars, poolVars>>
  BY DEF CreateNewBlock, Idle, chainVars
<1>2. task' = [op |-> "block", vtx |-> <<>>,
               vecPriority |-> {t \in usable : DependsOn(t) = {}},
               setDependsOn |-> [t \in Txs |-> IF t \in usable THEN DependsOn(t) ELSE {}]]
  BY DEF CreateNewBlock
<1>3. usable \subseteq mapTx /\ mapTx \subseteq Txs
  BY DEF PoolType
<1>4. \A t \in Txs : DependsOn(t) \subseteq Txs
  BY MempoolAssumption DEF DependsOn
<1>5. [t \in Txs |-> IF t \in usable THEN DependsOn(t) ELSE {}] \in [Txs -> SUBSET Txs]
  BY <1>4
<1>6. task' \in [op : {"block"}, vtx : Seq(Txs), vecPriority : SUBSET Txs, setDependsOn : [Txs -> SUBSET Txs]]
  BY SMTT(20), <1>2, <1>3, <1>5
<1>7. TaskType'
  BY <1>1, <1>6 DEF TaskType, Tasks
<1>8. PoolOutsideChain'
  BY <1>1 DEF PoolOutsideChain, poolVars
<1>9. BlockInv'
  <2>1. task'.vtx = <<>> /\ Elements(task'.vtx) = {}
    BY SMTT(20), <1>2 DEF Elements
  <2>2. ConnectsTo(task'.vtx, hashBestChain')
    BY SMTT(20), <2>1 DEF ConnectsTo
  <2>3. task'.vecPriority \subseteq mapTx'
    BY <1>1, <1>2, <1>3 DEF poolVars
  <2>4. \A t \in task'.vecPriority : task'.setDependsOn[t] = {}
    BY <1>2, <1>3
  <2>5. \A u \in Txs : task'.setDependsOn[u] # {} => u \in mapTx'
    BY <1>1, <1>2, <1>3 DEF poolVars
  <2> QED
    BY <2>1, <2>2, <2>3, <2>4, <2>5 DEF BlockInv
<1> QED
  BY <1>1, <1>7, <1>8, <1>9, OrphansSame, PoolSame, BlockSame, InvPartsNext

\* A transaction that connects after the others can be appended.
LEMMA AppendConnects ==
    ASSUME NEW vtx \in Seq(Txs), NEW t \in Txs, pindexBest = hashBestChain,
           ConnectsTo(vtx, hashBestChain), t \notin Elements(vtx),
           ~ContainsTx(t, hashBestChain), ConnectsInBlock(t, vtx)
    PROVE  ConnectsTo(Append(vtx, t), hashBestChain)
<1> DEFINE s == Append(vtx, t)
<1>1. DOMAIN s = 1..(Len(vtx) + 1) /\ s[Len(vtx) + 1] = t /\ \A i \in 1..Len(vtx) : s[i] = vtx[i]
  BY SMTT(20)
<1>2. DOMAIN vtx = 1..Len(vtx) /\ Len(vtx) \in Nat
  BY SMTT(20)
<1> SUFFICES ASSUME NEW i \in DOMAIN s
             PROVE  LET earlier == {s[j] : j \in 1..(i - 1)}
                    IN  /\ s[i] \notin earlier /\ ~ContainsTx(s[i], hashBestChain)
                        /\ \A p \in Vin[s[i]] :
                              /\ p \in earlier \/ ContainsTx(p, hashBestChain)
                              /\ ~Immature(p, hashBestChain) /\ ~IsSpent(p, hashBestChain)
                              /\ \A u \in earlier : p \notin Vin[u]
  BY DEF ConnectsTo
<1>3. CASE i \in 1..Len(vtx)
  <2>1. s[i] = vtx[i] /\ {s[j] : j \in 1..(i - 1)} = {vtx[j] : j \in 1..(i - 1)}
    BY SMTT(20), <1>1, <1>2, <1>3
  <2> HIDE DEF s
  <2> QED
    BY ZenonT(30), <1>2, <1>3, <2>1 DEF ConnectsTo
<1>4. CASE i = Len(vtx) + 1
  <2>1. s[i] = t /\ {s[j] : j \in 1..(i - 1)} = Elements(vtx)
    BY SMTT(20), <1>1, <1>2, <1>4 DEF Elements
  <2> HIDE DEF s
  <2>2. \A p \in Vin[t] : /\ p \in Elements(vtx) \/ ContainsTx(p, hashBestChain)
                          /\ ~Immature(p, hashBestChain) /\ ~IsSpent(p, hashBestChain)
                          /\ \A u \in Elements(vtx) : p \notin Vin[u]
    BY DEF ConnectsInBlock, ConnectInputs
  <2> QED
    BY <2>1, <2>2
<1>5. i \in 1..Len(vtx) \/ i = Len(vtx) + 1
  BY SMTT(20), <1>1, <1>2
<1> QED
  BY ZenonT(30), <1>3, <1>4, <1>5

\* Elements of an appended sequence.
LEMMA AppendElements ==
    ASSUME NEW vtx \in Seq(Txs), NEW t \in Txs
    PROVE  Elements(Append(vtx, t)) = Elements(vtx) \cup {t}
<1>1. DOMAIN Append(vtx, t) = (DOMAIN vtx) \cup {Len(vtx) + 1}
  BY SMTT(20)
<1>2. \A i \in DOMAIN vtx : Append(vtx, t)[i] = vtx[i]
  BY SMTT(20)
<1>3. Append(vtx, t)[Len(vtx) + 1] = t
  BY SMTT(20)
<1> QED
  BY <1>1, <1>2, <1>3 DEF Elements

\* What a transaction that is added changes in the queue and in what the others wait
\* for: what is queued waits for nothing and is not collected.
LEMMA QueueAfterAdd ==
    ASSUME NEW V \in SUBSET Txs, NEW D \in [Txs -> SUBSET Txs], NEW E, NEW M, NEW t \in V,
           \A v \in V : v \in M /\ v \notin E /\ D[v] = {},
           \A u \in Txs : D[u] # {} => u \in M /\ u \notin E,
           NEW waits, waits = [u \in Txs |-> D[u] \ {t}],
           NEW queue, queue = (V \ {t}) \cup {u \in Txs : waits[u] = {} /\ D[u] # {}}
    PROVE  /\ waits \in [Txs -> SUBSET Txs] /\ queue \subseteq Txs
           /\ \A u \in Txs : waits[u] # {} => u \in M /\ u \notin E \cup {t}
           /\ \A u \in queue : u \in M /\ u \notin E \cup {t} /\ waits[u] = {}
<1>1. \A u \in Txs : waits[u] = D[u] \ {t}
  OBVIOUS
<1>2. D[t] = {}
  OBVIOUS
<1>3. \A u \in Txs : waits[u] # {} => D[u] # {} /\ u # t
  BY <1>1, <1>2
<1>4. \A u \in queue : u \in M /\ u \notin E \cup {t} /\ waits[u] = {}
  BY ZenonT(30), <1>1, <1>2
<1> QED
  BY ZenonT(30), <1>3, <1>4

\* A step of the collection keeps what was collected connected: a transaction
\* that is added connects to the chain and to the ones before it.
LEMMA CollectTxStep ==
    ASSUME IInv, CollectTx
    PROVE  IInv'
<1>0. TaskType /\ PoolType /\ OrphanType /\ NextTxExact /\ OrphanIndexExact /\ BlockConnects
  BY InvParts
<1>1. /\ task.op = "block"
      /\ UNCHANGED <<hashBestChain, pindexBest, pblock, orphanVars, poolVars>>
  BY DEF CollectTx, chainVars
<1>2. task \in [op : {"block"}, vtx : Seq(Txs), vecPriority : SUBSET Txs, setDependsOn : [Txs -> SUBSET Txs]]
  BY <1>0, <1>1, TaskCases DEF TaskType
<1>3. hashBestChain = pindexBest
  BY <1>0, <1>1 DEF TaskType
<1>4. PICK t \in task.vecPriority :
        task' = IF Len(task.vtx) < MaxBlockTxs /\ t \notin Skipped /\ ConnectsInBlock(t, task.vtx)
                THEN Add(t) ELSE [task EXCEPT !.vecPriority = @ \ {t}]
  BY ZenonT(30) DEF CollectTx
<1>5. /\ ConnectsTo(task.vtx, hashBestChain) /\ Elements(task.vtx) \subseteq mapTx /\ task.vecPriority \subseteq mapTx
      /\ \A v \in task.vecPriority : v \notin Elements(task.vtx) /\ task.setDependsOn[v] = {}
      /\ \A u \in Txs : task.setDependsOn[u] # {} => u \in mapTx /\ u \notin Elements(task.vtx)
  BY ZenonT(30), <1>1, InvParts DEF BlockInv
<1>6. t \in Txs /\ t \in mapTx /\ t \notin Elements(task.vtx) /\ mapTx' = mapTx
  BY <1>1, <1>2, <1>4, <1>5 DEF poolVars
<1>7. \A u \in mapTx : ~ContainsTx(u, hashBestChain)
  BY ZenonT(30), <1>1, InvParts DEF PoolOutsideChain
<1>8. PoolOutsideChain'
  BY ZenonT(30), <1>1, <1>6, <1>7 DEF PoolOutsideChain
<1>9. CASE Len(task.vtx) < MaxBlockTxs /\ t \notin Skipped /\ ConnectsInBlock(t, task.vtx)
  <2>1. PICK waits, queue, vtx :
          /\ waits = [u \in Txs |-> task.setDependsOn[u] \ {t}]
          /\ queue = (task.vecPriority \ {t}) \cup {u \in Txs : waits[u] = {} /\ task.setDependsOn[u] # {}}
          /\ vtx = Append(task.vtx, t)
    BY ZenonT(30)
  <2>2. task' = [op |-> "block", vtx |-> vtx, vecPriority |-> queue, setDependsOn |-> waits]
    BY ZenonT(30), <1>2, <1>4, <1>9, <2>1 DEF Add
  <2>3. /\ waits \in [Txs -> SUBSET Txs] /\ queue \subseteq Txs
        /\ \A u \in Txs : waits[u] # {} => u \in mapTx /\ u \notin Elements(task.vtx) \cup {t}
        /\ \A u \in queue : u \in mapTx /\ u \notin Elements(task.vtx) \cup {t} /\ waits[u] = {}
    <3>1. task.vecPriority \in SUBSET Txs /\ task.setDependsOn \in [Txs -> SUBSET Txs]
      BY <1>2
    <3>2. \A v \in task.vecPriority : v \in mapTx /\ v \notin Elements(task.vtx) /\ task.setDependsOn[v] = {}
      BY ZenonT(30), <1>5
    <3>3. \A u \in Txs : task.setDependsOn[u] # {} => u \in mapTx /\ u \notin Elements(task.vtx)
      BY ZenonT(30), <1>5
    <3> QED
      BY ZenonT(30), <2>1, <3>1, <3>2, <3>3, QueueAfterAdd
  <2>4. vtx \in Seq(Txs) /\ Elements(vtx) = Elements(task.vtx) \cup {t}
    BY SMTT(20), <1>2, <1>6, <2>1, AppendElements
  <2>5. ConnectsTo(vtx, hashBestChain)
    BY <1>2, <1>3, <1>5, <1>6, <1>7, <1>9, <2>1, AppendConnects
  <2>6. TaskType'
    BY ZenonT(30), <1>0, <1>1, <2>2, <2>3, <2>4 DEF TaskType, Tasks
  <2>7. BlockInv'
    BY ZenonT(30), <1>1, <1>5, <1>6, <2>2, <2>3, <2>4, <2>5 DEF BlockInv
  <2> QED
    BY <1>0, <1>1, <1>8, <2>6, <2>7, OrphansSame, PoolSame, BlockSame, InvPartsNext
<1>10. CASE ~(Len(task.vtx) < MaxBlockTxs /\ t \notin Skipped /\ ConnectsInBlock(t, task.vtx))
  <2>1. task' = [op |-> "block", vtx |-> task.vtx, vecPriority |-> task.vecPriority \ {t},
                 setDependsOn |-> task.setDependsOn]
    BY ZenonT(30), <1>2, <1>4, <1>10
  <2>2. TaskType'
    BY ZenonT(30), <1>0, <1>1, <1>2, <2>1 DEF TaskType, Tasks
  <2>3. BlockInv'
    BY ZenonT(30), <1>1, <1>5, <1>6, <2>1 DEF BlockInv
  <2> QED
    BY <1>0, <1>1, <1>8, <2>2, <2>3, OrphansSame, PoolSame, BlockSame, InvPartsNext
<1> QED
  BY <1>9, <1>10

\* The finished block is the collection.
LEMMA FinishBlockStep ==
    ASSUME IInv, FinishBlock
    PROVE  IInv'
<1> USE InvParts
<1>1. /\ task.op = "block" /\ task' = NoTask
      /\ pblock' = [prev |-> pindexBest, vtx |-> task.vtx]
      /\ UNCHANGED <<hashBestChain, pindexBest, orphanVars, poolVars>>
  BY DEF FinishBlock, chainVars
<1>2. task.vtx \in Seq(Txs) /\ hashBestChain = pindexBest /\ pindexBest \in Blocks
  BY <1>1, TaskCases DEF TaskType
<1>3. TaskType'
  BY ZenonT(30), <1>1, <1>2 DEF TaskType, Tasks, NoTask
<1>4. BlockConnects'
  BY <1>1, <1>2 DEF BlockInv, BlockConnects
<1>5. PoolOutsideChain'
  BY <1>1 DEF PoolOutsideChain, NoTask, poolVars
<1>6. BlockInv'
  BY <1>1 DEF BlockInv, NoTask
<1> QED
  BY <1>1, <1>3, <1>4, <1>5, <1>6, OrphansSame, PoolSame, InvPartsNext
-----------------------------------------------------------------------------
\* Every step of the node keeps the inductive invariant.
LEMMA NextOK ==
    ASSUME IInv, [Next]_vars
    PROVE  IInv'
<1>1. CASE UNCHANGED vars
  BY <1>1 DEF vars, chainVars, poolVars, orphanVars, IInv, TypeOK, NextTxExact, PoolOutsideChain,
              OrphanIndexExact, BlockInv, BlockConnects, Idle
<1>2. CASE Next
  BY <1>2, RecvTxStep, ResolveOrphanStep, NextWorkStep, WalletStep, ConnectTipStep,
     ReorganizeStep, ResurrectStep, DeleteStep, PostponedStep, CreateNewBlockStep,
     CollectTxStep, FinishBlockStep DEF Next
<1> QED
  BY <1>1, <1>2

\* The inductive invariant holds throughout.
THEOREM Invariance == Spec => []IInv
<1>1. Init => IInv
  BY InitOK
<1>2. IInv /\ [Next]_vars => IInv'
  BY NextOK
<1> QED
  BY <1>1, <1>2, PTL DEF Spec

\* mapNextTx is exactly the index of what the pool spends, so that no two pool
\* transactions spend the same output (addUnchecked, remove, AcceptToMemoryPool), and
\* the index of the orphan transactions by parent names exactly the stored ones
\* (AddOrphanTx, EraseOrphanTx, LimitOrphanTxSize).
THEOREM IndexesKept == Spec => []IndexesExact
<1>1. IInv => IndexesExact
  BY DEF IInv, IndexesExact
<1> QED
  BY <1>1, Invariance, PTL

\* Every variable keeps its type, and the orphan transactions are bounded.
THEOREM TypeCorrect == Spec => []TypeOK
<1>1. IInv => TypeOK
  BY DEF IInv
<1> QED
  BY <1>1, Invariance, PTL

\* Whenever the chain rests, no pool transaction is in it (SetBestChain, Reorganize).
THEOREM PoolLeavesChain == Spec => []PoolOutsideChain
<1>1. IInv => PoolOutsideChain
  BY DEF IInv
<1> QED
  BY <1>1, Invariance, PTL

\* Every block CreateNewBlock has assembled connects on the block it builds on,
\* whatever conflicting or parentless transactions the pool holds.
THEOREM AssembledBlockConnects == Spec => []BlockConnects
<1>1. IInv => BlockConnects
  BY DEF IInv
<1> QED
  BY <1>1, Invariance, PTL
-----------------------------------------------------------------------------
(* Which operation an action belongs to.                                    *)

\* Outside the "tx" handler, SetBestChain and CreateNewBlock.
LEMMA OtherFlow ==
    ASSUME IInv,
           \/ \E t \in Txs : AcceptWalletTransaction(t)
           \/ AcceptPrev \/ AcceptOwn
           \/ \E b \in Blocks : ConnectTip(b)
           \/ ConnectPostponed
    PROVE  /\ task.op \in {"none", "wallet", "postponed"}
           /\ task'.op \in {"none", "wallet", "postponed"}
<1>1. CASE (\E t \in Txs : AcceptWalletTransaction(t)) \/ \E b \in Blocks : ConnectTip(b)
  BY SMTT(20), <1>1 DEF AcceptWalletTransaction, ConnectTip, Idle
<1>2. CASE AcceptPrev
  <2>1. task \in [op : {"wallet"}, vtxPrev : SUBSET Txs, tx : Txs]
    BY <1>2, InvParts, TaskCases DEF TaskType, AcceptPrev
  <2> QED BY <1>2, <2>1 DEF AcceptPrev
<1>3. CASE AcceptOwn
  BY <1>3 DEF AcceptOwn, NoTask
<1>4. CASE ConnectPostponed
  <2>1. PICK b : Arrive(b, task.new)
    BY <1>4 DEF ConnectPostponed
  <2>2. task' = NoTask \/ task' = [op |-> "postponed", new |-> task.new]
    BY <2>1 DEF Arrive
  <2> QED BY SMTT(20), <1>4, <2>2 DEF ConnectPostponed, NoTask
<1> QED BY <1>1, <1>2, <1>3, <1>4

\* The "tx" handler.
LEMMA OrphanFlow ==
    ASSUME IInv, (\E t \in Txs : RecvTx(t)) \/ ResolveOrphan \/ NextWork
    PROVE  task.op \in {"none", "orphans"} /\ task'.op \in {"none", "orphans"}
<1>1. CASE \E t \in Txs : RecvTx(t)
  <2>1. \/ \E t \in Txs : task' = [op |-> "orphans", work |-> <<t>>,
                left |-> mapOrphanTransactionsByPrev[t], erase |-> {t}, before |-> mapTx]
        \/ task' = task
    BY <1>1 DEF RecvTx
  <2> QED BY SMTT(20), <1>1, <2>1 DEF RecvTx, Idle
<1>2. CASE ResolveOrphan \/ NextWork
  <2>1. task \in [op : {"orphans"}, work : Seq(Txs), left : SUBSET Txs, erase : SUBSET Txs,
                  before : SUBSET Txs]
    BY ZenonT(30), <1>2, InvParts, TaskCases DEF TaskType, ResolveOrphan, NextWork
  <2>2. CASE ResolveOrphan
    <3>1. PICK work, left, erase : task' = [task EXCEPT !.left = left, !.work = work, !.erase = erase]
      BY ZenonT(30), <2>2 DEF ResolveOrphan
    <3> QED BY <2>1, <3>1
  <2>3. CASE NextWork
    <3>1. CASE Len(task.work) > 1
      <4>1. task' = [task EXCEPT !.work = Tail(@), !.left = mapOrphanTransactionsByPrev[task.work[2]]]
        BY <2>3, <3>1 DEF NextWork
      <4> QED BY ZenonT(30), <2>1, <4>1
    <3>2. CASE ~(Len(task.work) > 1)
      BY SMTT(20), <2>1, <2>3, <3>2 DEF NextWork, NoTask
    <3> QED BY <3>1, <3>2
  <2> QED BY <1>2, <2>2, <2>3
<1> QED BY <1>1, <1>2

\* Reorganize and what follows it.
LEMMA ReorganizeFlow ==
    ASSUME IInv, (\E b \in Blocks : Reorganize(b)) \/ ResurrectNext \/ DeleteRedundant
    PROVE  /\ task.op \in {"none", "resurrect"}
           /\ task'.op \in {"none", "resurrect", "postponed"}
           /\ task'.op # "resurrect" <=> DeleteRedundant
<1>1. CASE \E b \in Blocks : Reorganize(b)
  <2>1. task.op = "none" /\ task'.op = "resurrect"
    BY SMTT(20), <1>1 DEF Reorganize, Idle
  <2> QED BY <2>1 DEF DeleteRedundant
<1>2. CASE ResurrectNext
  <2>1. task.op = "resurrect" /\ \E x \in task.vResurrect : task' = [task EXCEPT !.vResurrect = @ \ {x}]
    BY <1>2 DEF ResurrectNext
  <2>2. task \in [op : {"resurrect"}, new : Blocks, vResurrect : SUBSET (Blocks \X Nat), vDelete : SUBSET Txs]
    BY <2>1, InvParts, TaskCases DEF TaskType
  <2>3. task'.op = "resurrect" /\ task.vResurrect # {}
    BY <2>1, <2>2
  <2> QED BY <2>1, <2>3 DEF DeleteRedundant
<1>3. CASE DeleteRedundant
  <2>1. task' = NoTask \/ task' = [op |-> "postponed", new |-> task.new]
    BY <1>3 DEF DeleteRedundant, Arrive
  <2>2. task'.op \in {"none", "postponed"}
    BY SMTT(20), <2>1 DEF NoTask
  <2> QED BY <1>3, <2>2 DEF DeleteRedundant
<1> QED BY <1>1, <1>2, <1>3

\* CreateNewBlock.
LEMMA BlockFlow ==
    ASSUME IInv, CreateNewBlock \/ CollectTx \/ FinishBlock
    PROVE  /\ task.op \in {"none", "block"} /\ task'.op \in {"none", "block"}
           /\ task'.op = "none" <=> FinishBlock
<1>1. CASE CreateNewBlock
  <2>1. task.op = "none" /\ task'.op = "block"
    BY <1>1 DEF CreateNewBlock, Idle
  <2> QED BY <2>1 DEF FinishBlock
<1>2. CASE CollectTx
  <2>1. task.op = "block" /\ task.vecPriority # {}
    BY <1>2 DEF CollectTx
  <2>2. task \in [op : {"block"}, vtx : Seq(Txs), vecPriority : SUBSET Txs, setDependsOn : [Txs -> SUBSET Txs]]
    BY ZenonT(30), <2>1, InvParts, TaskCases DEF TaskType
  <2>3. PICK t \in task.vecPriority : task' = Add(t) \/ task' = [task EXCEPT !.vecPriority = @ \ {t}]
    BY ZenonT(30), <1>2 DEF CollectTx
  <2>4. task'.op = "block"
    <3>1. \E vtx, queue, waits :
            task' = [task EXCEPT !.vtx = vtx, !.vecPriority = queue, !.setDependsOn = waits]
          \/ task' = [task EXCEPT !.vecPriority = queue]
      BY ZenonT(30), <2>3 DEF Add
    <3> QED BY ZenonT(30), <2>2, <3>1
  <2> QED BY <2>1, <2>4 DEF FinishBlock
<1>3. CASE FinishBlock
  BY <1>3 DEF FinishBlock, NoTask
<1> QED BY <1>1, <1>2, <1>3

-----------------------------------------------------------------------------
(* What CreateNewBlock leaves out.                                          *)

\* The transactions CreateNewBlock considers.
Usable(t) == IsFinalTx(t, Height[pindexBest] + 1) /\ DependsOn(t) \subseteq mapTx

\* A usable transaction waits for exactly the parents that are not in the block, and
\* one that has had its turn in vain is not let in by the transactions that follow.
Turns(vtx, queue, waits) ==
    /\ waits = [t \in Txs |-> IF t \in mapTx /\ Usable(t) THEN DependsOn(t) \ Elements(vtx) ELSE {}]
    /\ \A t \in mapTx \ (Elements(vtx) \cup Skipped) :
          Usable(t) => \/ t \in queue \/ waits[t] # {}
                       \/ ~(Len(vtx) < MaxBlockTxs)
                       \/ ~ConnectInputs(t, pindexBest, Elements(vtx))

TurnsInv == task.op = "block" => Turns(task.vtx, task.vecPriority, task.setDependsOn)

\* A transaction joins the block.
LEMMA AddTurns ==
    ASSUME NEW vtx \in Seq(Txs), NEW queue, NEW waits, NEW t \in Txs, mapTx \subseteq Txs,
           Turns(vtx, queue, waits), NEW waits2, NEW queue2,
           waits2 = [u \in Txs |-> waits[u] \ {t}],
           queue2 = (queue \ {t}) \cup {u \in Txs : waits2[u] = {} /\ waits[u] # {}}
    PROVE  Turns(Append(vtx, t), queue2, waits2)
<1> DEFINE vtx2 == Append(vtx, t)
<1>1. Elements(vtx2) = Elements(vtx) \cup {t}
  BY AppendElements
<1>2. Len(vtx2) < MaxBlockTxs => Len(vtx) < MaxBlockTxs
  BY SMTT(20), MempoolAssumption
<1> HIDE DEF vtx2
<1>3. waits2 = [u \in Txs |-> IF u \in mapTx /\ Usable(u) THEN DependsOn(u) \ Elements(vtx2) ELSE {}]
  <2>1. \A u \in Txs : waits[u] = IF u \in mapTx /\ Usable(u) THEN DependsOn(u) \ Elements(vtx) ELSE {}
    BY DEF Turns
  <2> QED BY ZenonT(30), <1>1, <2>1
<1>4. ASSUME NEW u \in mapTx \ (Elements(vtx2) \cup Skipped), Usable(u), Len(vtx2) < MaxBlockTxs,
             ConnectInputs(u, pindexBest, Elements(vtx2))
      PROVE  u \in queue2 \/ waits2[u] # {}
  <2>1. ConnectInputs(u, pindexBest, Elements(vtx))
    BY <1>1, <1>4 DEF ConnectInputs
  <2>2. u \in queue \/ waits[u] # {}
    BY <1>1, <1>2, <1>4, <2>1 DEF Turns
  <2> QED BY <1>1, <1>4, <2>2
<1>5. Turns(vtx2, queue2, waits2)
  BY <1>3, <1>4 DEF Turns
<1> QED BY <1>5 DEF vtx2

\* A transaction is skipped.
LEMMA SkipTurns ==
    ASSUME NEW vtx \in Seq(Txs), NEW queue, NEW waits, NEW t \in Txs, waits[t] = {},
           Turns(vtx, queue, waits),
           ~(Len(vtx) < MaxBlockTxs /\ t \notin Skipped /\ ConnectsInBlock(t, vtx))
    PROVE  Turns(vtx, queue \ {t}, waits)
<1>1. ASSUME t \in mapTx \ (Elements(vtx) \cup Skipped), Usable(t), Len(vtx) < MaxBlockTxs
      PROVE  ~ConnectInputs(t, pindexBest, Elements(vtx))
  <2>1. DependsOn(t) \subseteq Elements(vtx)
    BY <1>1 DEF Turns
  <2>2. \A i \in Vin[t] : i \in Elements(vtx) \/ ContainsTx(i, hashBestChain)
    BY <2>1 DEF DependsOn
  <2> QED BY <1>1, <2>2 DEF ConnectsInBlock
<1> QED BY ZenonT(30), <1>1 DEF Turns

\* Every step of the collection.
LEMMA CollectTurns ==
    ASSUME IInv, TurnsInv, CollectTx
    PROVE  TurnsInv'
<1>1. /\ task.op = "block" /\ UNCHANGED <<hashBestChain, pindexBest, mapTx, mapNextTx>>
  BY DEF CollectTx, chainVars, poolVars
<1>2. task \in [op : {"block"}, vtx : Seq(Txs), vecPriority : SUBSET Txs, setDependsOn : [Txs -> SUBSET Txs]]
  BY <1>1, InvParts, TaskCases DEF TaskType
<1>3. mapTx \subseteq Txs
  BY InvParts DEF PoolType
<1>4. PICK t \in task.vecPriority :
        task' = IF Len(task.vtx) < MaxBlockTxs /\ t \notin Skipped /\ ConnectsInBlock(t, task.vtx)
                THEN Add(t) ELSE [task EXCEPT !.vecPriority = @ \ {t}]
  BY ZenonT(30) DEF CollectTx
<1>5. t \in Txs /\ task.setDependsOn[t] = {}
  BY <1>1, <1>2, <1>4, InvParts DEF BlockInv
<1>6. Turns(task.vtx, task.vecPriority, task.setDependsOn)
  BY <1>1 DEF TurnsInv
<1>7. \A vtx, queue, waits : Turns(vtx, queue, waits) => Turns(vtx, queue, waits)'
  BY ZenonT(120), <1>1 DEF Turns, Usable, DependsOn, ConnectInputs
<1>8. CASE Len(task.vtx) < MaxBlockTxs /\ t \notin Skipped /\ ConnectsInBlock(t, task.vtx)
  <2>1. PICK waits, queue, vtx :
          /\ waits = [u \in Txs |-> task.setDependsOn[u] \ {t}]
          /\ queue = (task.vecPriority \ {t}) \cup {u \in Txs : waits[u] = {} /\ task.setDependsOn[u] # {}}
          /\ vtx = Append(task.vtx, t)
    BY ZenonT(30)
  <2>2. task' = [op |-> "block", vtx |-> vtx, vecPriority |-> queue, setDependsOn |-> waits]
    BY ZenonT(30), <1>2, <1>4, <1>8, <2>1 DEF Add
  <2>3. Turns(vtx, queue, waits)
    <3>1. PICK v, q, w : v = task.vtx /\ q = task.vecPriority /\ w = task.setDependsOn
      BY ZenonT(30)
    <3>2. v \in Seq(Txs)
      BY <1>2, <3>1
    <3>3. /\ Turns(v, q, w) /\ waits = [u \in Txs |-> w[u] \ {t}]
          /\ queue = (q \ {t}) \cup {u \in Txs : waits[u] = {} /\ w[u] # {}}
      BY ZenonT(30), <1>6, <2>1, <3>1
    <3>4. Turns(Append(v, t), queue, waits)
      BY ZenonT(120), <1>3, <1>5, <3>2, <3>3, AddTurns
    <3> QED BY ZenonT(30), <2>1, <3>1, <3>4
  <2>4. Turns(vtx, queue, waits)'
    BY <1>7, <2>3
  <2> QED BY <2>2, <2>4 DEF TurnsInv
<1>9. CASE ~(Len(task.vtx) < MaxBlockTxs /\ t \notin Skipped /\ ConnectsInBlock(t, task.vtx))
  <2>1. PICK vtx, queue, waits :
          vtx = task.vtx /\ queue = task.vecPriority \ {t} /\ waits = task.setDependsOn
    BY ZenonT(30)
  <2>2. task' = [op |-> "block", vtx |-> vtx, vecPriority |-> queue, setDependsOn |-> waits]
    BY ZenonT(30), <1>2, <1>4, <1>9, <2>1
  <2>3. Turns(vtx, queue, waits)
    <3>1. task.vtx \in Seq(Txs)
      BY <1>2
    <3> QED BY ZenonT(30), <1>5, <1>6, <1>9, <2>1, <3>1, SkipTurns
  <2>4. Turns(vtx, queue, waits)'
    BY <1>7, <2>3
  <2> QED BY <2>2, <2>4 DEF TurnsInv
<1> QED BY <1>8, <1>9

\* The collection starts with every usable transaction queued or waiting.
LEMMA CreateTurns ==
    ASSUME IInv, CreateNewBlock
    PROVE  TurnsInv'
<1>1. UNCHANGED <<hashBestChain, pindexBest, mapTx, mapNextTx>>
  BY DEF CreateNewBlock, chainVars, poolVars
<1>2. PICK queue, waits :
        /\ queue = {t \in {u \in mapTx : Usable(u)} : DependsOn(t) = {}}
        /\ waits = [t \in Txs |-> IF t \in {u \in mapTx : Usable(u)} THEN DependsOn(t) ELSE {}]
  BY ZenonT(30)
<1>3. task' = [op |-> "block", vtx |-> <<>>, vecPriority |-> queue, setDependsOn |-> waits]
  BY ZenonT(30), <1>2 DEF CreateNewBlock, Usable
<1>4. mapTx \subseteq Txs
  BY InvParts DEF PoolType
<1>5. Elements(<<>>) = {}
  BY SMTT(20) DEF Elements
<1>6. Turns(<<>>, queue, waits)
  BY ZenonT(30), <1>2, <1>4, <1>5 DEF Turns
<1>7. Turns(<<>>, queue, waits)'
  BY ZenonT(40), <1>1, <1>6 DEF Turns, Usable, DependsOn, ConnectInputs
<1> QED BY <1>3, <1>7 DEF TurnsInv

\* At the end of the collection nothing that connects has been left out.
LEMMA NothingLeftOut ==
    ASSUME IInv, TurnsInv, FinishBlock, Len(task.vtx) < MaxBlockTxs,
           NEW t \in mapTx \ (Elements(task.vtx) \cup Skipped),
           IsFinalTx(t, Height[pindexBest] + 1), ConnectsInBlock(t, task.vtx)
    PROVE  FALSE
<1>1. task.op = "block" /\ task.vecPriority = {}
  BY DEF FinishBlock
<1>2. Elements(task.vtx) \subseteq mapTx /\ mapTx \subseteq Txs
  BY <1>1, InvParts DEF BlockInv, PoolType
<1>3. DependsOn(t) \subseteq Elements(task.vtx)
  BY DEF ConnectsInBlock, DependsOn
<1>4. Usable(t) /\ ConnectInputs(t, pindexBest, Elements(task.vtx))
  BY <1>2, <1>3 DEF Usable, ConnectsInBlock
<1>5. task.setDependsOn[t] = {}
  BY <1>1, <1>2, <1>3 DEF TurnsInv, Turns
<1> QED BY <1>1, <1>4, <1>5 DEF TurnsInv, Turns

\* Every step keeps the account of the turns, and a finished block is complete.
LEMMA TurnsStep ==
    ASSUME IInv, TurnsInv, [Next]_vars
    PROVE  /\ TurnsInv'
           /\ task.op = "block" /\ task'.op = "none" /\ Len(task.vtx) < MaxBlockTxs
              => \A t \in mapTx \ (Elements(task.vtx) \cup Skipped) :
                    ~(IsFinalTx(t, Height[pindexBest] + 1) /\ ConnectsInBlock(t, task.vtx))
<1>1. CASE UNCHANGED vars
  BY ZenonT(30), <1>1 DEF vars, chainVars, poolVars, TurnsInv, Turns, Usable, DependsOn, ConnectInputs
<1>2. CASE \/ \E t \in Txs : AcceptWalletTransaction(t)
           \/ AcceptPrev \/ AcceptOwn
           \/ \E b \in Blocks : ConnectTip(b)
           \/ ConnectPostponed
  BY ZenonT(30), <1>2, OtherFlow DEF TurnsInv
<1>3. CASE (\E t \in Txs : RecvTx(t)) \/ ResolveOrphan \/ NextWork
  BY ZenonT(30), <1>3, OrphanFlow DEF TurnsInv
<1>4. CASE (\E b \in Blocks : Reorganize(b)) \/ ResurrectNext \/ DeleteRedundant
  BY ZenonT(30), <1>4, ReorganizeFlow DEF TurnsInv
<1>5. CASE CreateNewBlock
  BY <1>5, BlockFlow, CreateTurns DEF CreateNewBlock, Idle
<1>6. CASE CollectTx
  <2>1. ~(task'.op = "none")
    BY <1>6, BlockFlow DEF FinishBlock, CollectTx
  <2> QED BY <1>6, <2>1, CollectTurns
<1>7. CASE FinishBlock
  <2>1. task'.op = "none"
    BY <1>7, BlockFlow
  <2> QED BY ZenonT(30), <1>7, <2>1, NothingLeftOut DEF TurnsInv
<1> QED BY ZenonT(30), <1>1, <1>2, <1>3, <1>4, <1>5, <1>6, <1>7 DEF Next

\* A block that is not full has left out nothing that could be appended to it and is not
\* skipped: every transaction whose parents made it into the block got its turn.
THEOREM AssembledBlockComplete == Spec => BlockComplete
<1>1. Init => TurnsInv
  BY SMTT(20) DEF Init, TurnsInv, NoTask
<1>2. IInv /\ TurnsInv /\ [Next]_vars =>
        /\ TurnsInv'
        /\ [task.op = "block" /\ task'.op = "none" /\ Len(task.vtx) < MaxBlockTxs
            => \A t \in mapTx \ (Elements(task.vtx) \cup Skipped) :
                 ~(IsFinalTx(t, Height[pindexBest] + 1) /\ ConnectsInBlock(t, task.vtx))]_vars
  BY ZenonT(30), TurnsStep
<1> QED BY <1>1, <1>2, Invariance, PTL DEF Spec, BlockComplete

-----------------------------------------------------------------------------
(* What the "tx" handler leaves among the orphans.                          *)

\* A transaction the handler has accepted and not yet looked at leads to o.
Ahead(o, work) == \E j \in 2..Len(work) : work[j] \in Vin[o]

\* An orphan that depends on a transaction the handler has accepted is still to be
\* tried, or cannot be accepted as the pool is, or a parent of it is ahead.
Looked(work, left, erase, before) ==
    \A o \in mapOrphanTransactions \ (erase \cup left) :
        Vin[o] \cap (mapTx \ before) # {} => ~Eligible(o) \/ MissingInputs(o) \/ Ahead(o, work)

LookedInv ==
    task.op = "orphans" => Looked(task.work, task.left, task.erase, task.before)

\* What the pool takes makes no other transaction eligible, and supplies only the
\* inputs it is.
LEMMA AcceptMonotone ==
    ASSUME NEW t \in Txs, AcceptToMemoryPool(t), UNCHANGED <<hashBestChain, pindexBest>>, NEW o
    PROVE  /\ Eligible(o)' => Eligible(o)
           /\ MissingInputs(o) /\ ~(Accepts(t) /\ t \in Vin[o]) => MissingInputs(o)'
           /\ mapTx' = mapTx \/ (Accepts(t) /\ mapTx' = mapTx \cup {t})
<1>1. CASE Accepts(t)
  <2>1. addUnchecked(t)
    BY <1>1 DEF AcceptToMemoryPool
  <2>2. mapTx' = mapTx \cup {t} /\ DOMAIN mapNextTx \subseteq DOMAIN mapNextTx'
    BY <2>1 DEF addUnchecked
  <2> QED BY <1>1, <2>2 DEF Eligible, MissingInputs
<1>2. CASE ~Accepts(t)
  BY <1>2 DEF AcceptToMemoryPool, poolVars, Eligible, MissingInputs
<1> QED BY <1>1, <1>2

\* An orphan is tried.
LEMMA ResolveLooked ==
    ASSUME IInv, LookedInv, ResolveOrphan
    PROVE  LookedInv'
<1>1. task.op = "orphans" /\ UNCHANGED <<hashBestChain, pindexBest, mapOrphanTransactions>>
  BY DEF ResolveOrphan, chainVars, orphanVars
<1>2. task \in [op : {"orphans"}, work : Seq(Txs), left : SUBSET Txs, erase : SUBSET Txs,
                before : SUBSET Txs]
  BY <1>1, InvParts, TaskCases DEF TaskType
<1>3. PICK t \in task.left :
        /\ AcceptToMemoryPool(t)
        /\ task' = [task EXCEPT
                      !.left = @ \ {t},
                      !.work = IF Accepts(t) THEN Append(@, t) ELSE @,
                      !.erase = IF Misses(t) THEN @ ELSE @ \cup {t}]
  BY ZenonT(30) DEF ResolveOrphan
<1>4. PICK work, left, erase, before, work2, left2, erase2 :
        /\ work = task.work /\ left = task.left /\ erase = task.erase /\ before = task.before
        /\ work2 = IF Accepts(t) THEN Append(work, t) ELSE work
        /\ left2 = left \ {t}
        /\ erase2 = IF Misses(t) THEN erase ELSE erase \cup {t}
  BY ZenonT(30)
<1>5. task' = [op |-> "orphans", work |-> work2, left |-> left2, erase |-> erase2, before |-> before]
  BY ZenonT(30), <1>2, <1>3, <1>4
<1>6. work \in Seq(Txs) /\ work # <<>> /\ t \in Txs
  BY <1>1, <1>2, <1>3, <1>4, InvParts DEF TaskType
<1>7. Looked(work, left, erase, before)
  BY ZenonT(30), <1>1, <1>4 DEF LookedInv
<1>8. \A o : Ahead(o, work) => Ahead(o, work2)
  BY SMTT(20), <1>4, <1>6 DEF Ahead
<1>9. Accepts(t) => \A o : t \in Vin[o] => Ahead(o, work2)
  BY SMTT(20), <1>4, <1>6 DEF Ahead
<1>10. ASSUME NEW o \in mapOrphanTransactions \ (erase2 \cup left2),
              Vin[o] \cap (mapTx' \ before) # {}, Eligible(o)', ~Ahead(o, work2)
       PROVE  MissingInputs(o)'
  <2>1. /\ Eligible(o)
        /\ MissingInputs(o) => MissingInputs(o)'
        /\ Vin[o] \cap (mapTx \ before) # {}
    BY SMTT(20), <1>1, <1>3, <1>6, <1>9, <1>10, AcceptMonotone
  <2>2. CASE o = t
    BY <1>4, <1>10, <2>1, <2>2 DEF Misses
  <2>3. CASE o # t
    <3>1. o \notin erase \cup left
      BY <1>4, <1>10, <2>3
    <3> QED BY <1>7, <1>8, <1>10, <2>1, <3>1 DEF Looked
  <2> QED BY <2>2, <2>3
<1>11. Looked(work2, left2, erase2, before)'
  BY ZenonT(30), <1>1, <1>10 DEF Looked, Ahead
<1> QED BY ZenonT(30), <1>5, <1>11 DEF LookedInv

\* The next entry of the work queue.
LEMMA NextLooked ==
    ASSUME IInv, LookedInv, NextWork, Len(task.work) > 1
    PROVE  LookedInv' /\ task'.op = "orphans"
<1>1. /\ task.op = "orphans" /\ task.left = {}
      /\ UNCHANGED <<hashBestChain, pindexBest, mapOrphanTransactions, mapTx, mapNextTx>>
      /\ task' = [task EXCEPT !.work = Tail(@), !.left = mapOrphanTransactionsByPrev[task.work[2]]]
  BY DEF NextWork, chainVars, orphanVars, poolVars
<1>2. task \in [op : {"orphans"}, work : Seq(Txs), left : SUBSET Txs, erase : SUBSET Txs,
                before : SUBSET Txs]
  BY <1>1, InvParts, TaskCases DEF TaskType
<1>3. PICK work, erase, before, work2, left2 :
        /\ work = task.work /\ erase = task.erase /\ before = task.before
        /\ work2 = Tail(work) /\ left2 = mapOrphanTransactionsByPrev[work[2]]
  BY ZenonT(30)
<1>4. task' = [op |-> "orphans", work |-> work2, left |-> left2, erase |-> erase, before |-> before]
  BY ZenonT(30), <1>1, <1>2, <1>3
<1>5. work \in Seq(Txs) /\ Len(work) > 1
  BY <1>2, <1>3
<1>6. Looked(work, {}, erase, before)
  BY ZenonT(30), <1>1, <1>3 DEF LookedInv
<1>7. work[2] \in Txs
  BY SMTT(20), <1>5
<1>8. left2 = {o \in mapOrphanTransactions : work[2] \in Vin[o]}
  BY <1>3, <1>7, InvParts DEF OrphanIndexExact
<1>9. \A o : Ahead(o, work) /\ work[2] \notin Vin[o] => Ahead(o, work2)
  <2> SUFFICES ASSUME NEW o, NEW j \in 2..Len(work), work[j] \in Vin[o], work[2] \notin Vin[o]
               PROVE  Ahead(o, work2)
    BY DEF Ahead
  <2>1. j # 2 /\ j \in Int /\ Len(work) \in Int
    BY SMTT(20), <1>5
  <2>2. j - 1 \in 2..Len(work2) /\ work2[j - 1] = work[j]
    BY SMTT(20), <1>3, <1>5, <2>1
  <2> QED BY <2>2 DEF Ahead
<1>10. Looked(work2, left2, erase, before)
  BY ZenonT(30), <1>6, <1>8, <1>9 DEF Looked
<1>11. Looked(work2, left2, erase, before)'
  BY ZenonT(30), <1>1, <1>10 DEF Looked, Ahead, Eligible, MissingInputs
<1>12. LookedInv'
  BY ZenonT(30), <1>4, <1>11 DEF LookedInv
<1> QED BY ZenonT(30), <1>4, <1>12

\* The handler starts with all orphans of the new transaction to be tried.
LEMMA RecvLooked ==
    ASSUME IInv, NEW t \in Txs, RecvTx(t)
    PROVE  LookedInv'
<1>1. CASE UNCHANGED task
  BY <1>1 DEF RecvTx, Idle, LookedInv
<1>2. CASE /\ addUnchecked(t) /\ UNCHANGED orphanVars
           /\ task' = [op |-> "orphans", work |-> <<t>>,
                       left |-> mapOrphanTransactionsByPrev[t], erase |-> {t}, before |-> mapTx]
  <2>1. PICK before : before = mapTx
    BY ZenonT(30)
  <2>2. PICK left : left = {o \in mapOrphanTransactions : t \in Vin[o]}
    BY ZenonT(30)
  <2>3. task' = [op |-> "orphans", work |-> <<t>>, left |-> left, erase |-> {t}, before |-> before]
    <3>1. mapOrphanTransactionsByPrev[t] = left
      BY <2>2, InvParts DEF OrphanIndexExact
    <3> QED BY ZenonT(30), <1>2, <2>1, <3>1
  <2>4. mapTx' \ before \subseteq {t} /\ UNCHANGED mapOrphanTransactions
    BY <1>2, <2>1 DEF addUnchecked, orphanVars
  <2>5. Looked(<<t>>, left, {t}, before)'
    BY <2>2, <2>4 DEF Looked
  <2> QED BY ZenonT(30), <2>3, <2>5 DEF LookedInv
<1> QED BY <1>1, <1>2 DEF RecvTx

\* At the end of the handler what it leaves cannot be accepted.
LEMMA EndLooked ==
    ASSUME IInv, LookedInv, NextWork, ~(Len(task.work) > 1)
    PROVE  /\ LookedInv'
           /\ \A o \in mapOrphanTransactions' : Vin[o] \cap (mapTx \ task.before) # {} => ~Accepts(o)
<1>1. task.op = "orphans" /\ task.left = {} /\ task' = NoTask /\ EraseOrphanTxs(task.erase)
  BY DEF NextWork
<1>2. task.work \in Seq(Txs)
  BY <1>1, InvParts, TaskCases DEF TaskType
<1>3. \A o : ~Ahead(o, task.work)
  <2>1. Len(task.work) \in Nat
    BY SMTT(20), <1>2
  <2>2. 2..Len(task.work) = {}
    BY SMTT(20), <2>1
  <2> QED BY <2>2 DEF Ahead
<1>4. mapOrphanTransactions' = mapOrphanTransactions \ task.erase
  BY <1>1 DEF EraseOrphanTxs
<1>5. Looked(task.work, {}, task.erase, task.before)
  BY ZenonT(30), <1>1 DEF LookedInv
<1>6. \A o \in mapOrphanTransactions' : Vin[o] \cap (mapTx \ task.before) # {} => ~Accepts(o)
  BY ZenonT(30), <1>3, <1>4, <1>5 DEF Looked, Accepts
<1>7. LookedInv'
  BY <1>1 DEF LookedInv, NoTask
<1> QED BY <1>6, <1>7

\* Every step keeps the account of the orphans, and the handler ends well.
LEMMA LookedStep ==
    ASSUME IInv, LookedInv, [Next]_vars
    PROVE  /\ LookedInv'
           /\ task.op = "orphans" /\ task'.op = "none"
              => \A o \in mapOrphanTransactions' :
                    Vin[o] \cap (mapTx \ task.before) # {} => ~Accepts(o)
<1>1. CASE UNCHANGED vars
  <2>1. UNCHANGED <<hashBestChain, pindexBest, mapTx, mapNextTx, mapOrphanTransactions, task>>
    BY <1>1 DEF vars, chainVars, poolVars, orphanVars
  <2>2. LookedInv'
    BY ZenonT(30), <2>1 DEF LookedInv, Looked, Ahead, Eligible, MissingInputs
  <2> QED BY <2>1, <2>2
<1>2. CASE \/ \E t \in Txs : AcceptWalletTransaction(t)
           \/ AcceptPrev \/ AcceptOwn
           \/ \E b \in Blocks : ConnectTip(b)
           \/ ConnectPostponed
  BY ZenonT(30), <1>2, OtherFlow DEF LookedInv
<1>3. CASE (\E b \in Blocks : Reorganize(b)) \/ ResurrectNext \/ DeleteRedundant
  BY ZenonT(30), <1>3, ReorganizeFlow DEF LookedInv
<1>4. CASE CreateNewBlock \/ CollectTx \/ FinishBlock
  BY ZenonT(30), <1>4, BlockFlow DEF LookedInv
<1>5. ASSUME NEW t \in Txs, RecvTx(t)
      PROVE  LookedInv' /\ task.op = "none"
  BY ZenonT(30), <1>5, RecvLooked DEF RecvTx, Idle
<1>6. CASE ResolveOrphan
  <2>1. task'.op = "orphans"
    <3>1. task.op = "orphans"
      BY <1>6 DEF ResolveOrphan
    <3>2. task \in [op : {"orphans"}, work : Seq(Txs), left : SUBSET Txs, erase : SUBSET Txs,
                    before : SUBSET Txs]
      BY <3>1, InvParts, TaskCases DEF TaskType
    <3>3. PICK work, left, erase : task' = [task EXCEPT !.left = left, !.work = work, !.erase = erase]
      BY ZenonT(30), <1>6 DEF ResolveOrphan
    <3> QED BY ZenonT(30), <3>2, <3>3
  <2> QED BY <1>6, <2>1, ResolveLooked
<1>7. CASE NextWork
  BY <1>7, NextLooked, EndLooked
<1> QED BY ZenonT(30), <1>1, <1>2, <1>3, <1>4, <1>5, <1>6, <1>7 DEF Next

\* When the "tx" handler is done, no orphan that depends on a transaction it has put into
\* the pool could be accepted: its work queue misses none, however the orphans depend on
\* each other and in whatever order they are tried.
THEOREM HandlerResolvesOrphans == Spec => OrphansResolved
<1>1. Init => LookedInv
  BY SMTT(20) DEF Init, LookedInv, NoTask
<1>2. IInv /\ LookedInv /\ [Next]_vars =>
        /\ LookedInv'
        /\ [task.op = "orphans" /\ task'.op = "none"
            => \A o \in mapOrphanTransactions' :
                  Vin[o] \cap (mapTx \ task.before) # {} => ~Accepts(o)]_vars
  BY ZenonT(30), LookedStep
<1> QED BY <1>1, <1>2, Invariance, PTL DEF Spec, OrphansResolved

-----------------------------------------------------------------------------
(* What a reorganization leaves of the old branch.                          *)

\* The pool does not take t, for a reason that neither later transactions of the old
\* branch nor the deletions nor the new pindexBest take away.
Refused(t) ==
    \/ t \in Generated \cup Malformed \cup Invalid \cup mapTx
    \/ ContainsTx(t, hashBestChain)
    \/ Vin[t] \cap DOMAIN mapNextTx # {}
    \/ MissingInputs(t)
    \/ \E i \in Vin[t] : IsSpent(i, hashBestChain)

\* The transactions of the old branch that are not to be gone through any more are
\* refused, and come before the ones that are.
Settled(left) ==
    /\ left \subseteq vResurrect(pindexBest, hashBestChain)
    /\ \A x \in vResurrect(pindexBest, hashBestChain) \ left :
          Refused(Vtx[x[1]][x[2]]) /\ \A y \in left : NoLater(x, y)

SettledInv ==
    task.op = "resurrect" =>
        Settled(task.vResurrect) /\ task.vDelete = vDelete(pindexBest, hashBestChain)

\* The places vResurrect collects.
LEMMA PlaceOf ==
    ASSUME NEW from \in Blocks, NEW to \in Blocks, NEW x \in vResurrect(from, to)
    PROVE  /\ x = <<x[1], x[2]>> /\ x[1] \in ChainOf(from) \ {Genesis} /\ x[1] \in Blocks
           /\ x[1] \notin ChainOf(to)
           /\ x[2] \in DOMAIN Vtx[x[1]] /\ Vtx[x[1]][x[2]] \in Txs
<1>1. PICK b \in ChainOf(from) \ ChainOf(to) : x \in {b} \X {i \in DOMAIN Vtx[b] : Vtx[b][i] \notin Generated}
  BY DEF vResurrect
<1>2. x = <<x[1], x[2]>> /\ x[1] = b /\ x[2] \in DOMAIN Vtx[b]
  BY SMTT(20), <1>1
<1>3. b \in Blocks /\ b # Genesis
  BY SMTT(20), TreeAssumption, OrderAssumption DEF ChainOf
<1>4. Vtx[b] \in Seq(Txs)
  BY <1>3, MempoolAssumption
<1>5. Vtx[b][x[2]] \in Txs
  BY SMTT(20), <1>2, <1>4
<1> QED BY <1>1, <1>2, <1>3, <1>5

\* What is below b is not in a block above it.
LEMMA NotAgain ==
    ASSUME NEW tip \in Blocks, NEW b \in ChainOf(tip) \ {Genesis}, NEW c \in ChainOf(tip),
           Height[b] < Height[c], NEW p, ContainsTx(p, b)
    PROVE  ~InBlock(p, c)
<1>1. b \in Blocks /\ c \in Blocks /\ Height[b] \in Nat /\ Height[c] \in Nat
  BY TreeAssumption DEF ChainOf
<1>2. c # Genesis
  BY SMTT(20), <1>1, TreeAssumption
<1>3. b \in ChainOf(c) /\ b # c
  BY SMTT(20), <1>1, OrderAssumption
<1>4. b \in ChainOf(Prev[c]) /\ Prev[c] \in Blocks
  BY <1>1, <1>2, <1>3, TreeAssumption DEF ChainOf
<1>5. ChainOf(b) \subseteq ChainOf(Prev[c])
  BY <1>4, OrderAssumption DEF ChainOf
<1>6. ContainsTx(p, Prev[c])
  BY <1>5 DEF ContainsTx
<1>7. \A i \in DOMAIN Vtx[c] : ~ContainsTx(Vtx[c][i], Prev[c])
  BY ZenonT(30), <1>1, <1>2, ConnectableAssumption
<1> QED BY <1>6, <1>7 DEF InBlock, Elements

\* The inputs of a transaction of a block are in its chain.
LEMMA InputsBelow ==
    ASSUME NEW b \in Blocks \ {Genesis}, NEW i \in DOMAIN Vtx[b], NEW p \in Vin[Vtx[b][i]]
    PROVE  ContainsTx(p, b)
<1>1. p \in {Vtx[b][j] : j \in 1..(i - 1)} \/ ContainsTx(p, Prev[b])
  BY ConnectableAssumption
<1>2. CASE ContainsTx(p, Prev[b])
  BY <1>2, ContainsTxPrev
<1>3. CASE p \in {Vtx[b][j] : j \in 1..(i - 1)}
  <2>1. Vtx[b] \in Seq(Txs)
    BY MempoolAssumption
  <2>2. p \in Elements(Vtx[b])
    BY SMTT(20), <1>3, <2>1 DEF Elements
  <2> QED BY <2>2, ContainsTxPrev
<1> QED BY <1>1, <1>2, <1>3

\* A transaction of the old branch is final and its inputs are mature at the old tip.
LEMMA FinalAndMature ==
    ASSUME NEW tip \in Blocks, NEW b \in ChainOf(tip) \ {Genesis}, NEW i \in DOMAIN Vtx[b],
           Vtx[b][i] \in Txs
    PROVE  /\ IsFinalTx(Vtx[b][i], Height[tip] + 1)
           /\ \A p \in Vin[Vtx[b][i]] : ~Immature(p, tip)
<1>1. b \in Blocks /\ Height[b] \in Nat /\ Height[tip] \in Nat /\ Height[b] <= Height[tip]
  <2>1. b \in Blocks /\ Height[b] \in Nat /\ Height[tip] \in Nat
    BY TreeAssumption DEF ChainOf
  <2>2. b = tip \/ Height[b] < Height[tip]
    BY OrderAssumption DEF ChainOf
  <2> QED BY SMTT(20), <2>1, <2>2
<1>2. IsFinalTx(Vtx[b][i], Height[b]) /\ \A p \in Vin[Vtx[b][i]] : ~Immature(p, b)
  BY ZenonT(30), <1>1, ConnectableAssumption
<1>3. IsFinalTx(Vtx[b][i], Height[tip] + 1)
  BY SMTT(20), <1>1, <1>2, MempoolAssumption DEF IsFinalTx
<1>4. ASSUME NEW p \in Vin[Vtx[b][i]], Immature(p, tip) PROVE FALSE
  <2>1. PICK a \in ChainOf(tip) : Height[tip] - Height[a] < nCoinbaseMaturity /\ InBlock(p, a)
    BY <1>4 DEF Immature
  <2>2. a \in Blocks /\ Height[a] \in Nat
    BY TreeAssumption DEF ChainOf
  <2>3. ~(Height[b] < Height[a])
    <3>1. ContainsTx(p, b)
      BY <1>1, InputsBelow
    <3> QED BY <2>1, <3>1, NotAgain
  <2>4. a \in ChainOf(b)
    BY SMTT(20), <1>1, <2>2, <2>3, OrderAssumption
  <2>5. Height[b] - Height[a] < nCoinbaseMaturity
    <3>1. nCoinbaseMaturity \in Nat
      BY MempoolAssumption
    <3> QED BY SMTT(20), <1>1, <2>1, <2>2, <3>1
  <2> QED BY ZenonT(30), <1>2, <1>4, <2>1, <2>4, <2>5 DEF Immature
<1> QED BY <1>3, <1>4

\* No transaction of the old branch is an input of one before it.
LEMMA ParentsFirst ==
    ASSUME NEW tip \in Blocks, NEW to \in Blocks, NEW x \in vResurrect(tip, to),
           NEW y \in vResurrect(tip, to), NoLater(x, y)
    PROVE  Vtx[y[1]][y[2]] \notin Vin[Vtx[x[1]][x[2]]]
<1> DEFINE p == Vtx[y[1]][y[2]]
<1> SUFFICES ASSUME p \in Vin[Vtx[x[1]][x[2]]] PROVE FALSE
  OBVIOUS
<1>1. /\ x[1] \in ChainOf(tip) \ {Genesis} /\ x[1] \in Blocks /\ x[2] \in DOMAIN Vtx[x[1]]
      /\ y[1] \in ChainOf(tip) \ {Genesis} /\ y[1] \in Blocks /\ y[2] \in DOMAIN Vtx[y[1]]
  BY PlaceOf
<1>2. InBlock(p, y[1])
  BY ZenonT(30), <1>1 DEF InBlock, Elements
<1>3. CASE Height[x[1]] < Height[y[1]]
  BY ZenonT(30), <1>1, <1>2, <1>3, InputsBelow, NotAgain
<1>4. CASE x[1] = y[1] /\ x[2] <= y[2]
  <2>1. Vtx[x[1]] \in Seq(Txs)
    BY ZenonT(30), <1>1, MempoolAssumption
  <2>2. x[2] \in Int /\ y[2] \in Int
    BY SMTT(20), <1>1, <1>4, <2>1
  <2>3. p \in {Vtx[x[1]][j] : j \in 1..(x[2] - 1)} \/ ContainsTx(p, Prev[x[1]])
    BY ZenonT(90), <1>1, ConnectableAssumption
  <2>4. p \notin {Vtx[y[1]][j] : j \in 1..(y[2] - 1)} /\ ~ContainsTx(p, Prev[y[1]])
    BY ZenonT(90), <1>1, ConnectableAssumption
  <2>5. 1..(x[2] - 1) \subseteq 1..(y[2] - 1)
    BY SMTT(20), <1>4, <2>2
  <2> QED BY ZenonT(30), <1>4, <2>3, <2>4, <2>5
<1> QED BY <1>3, <1>4 DEF NoLater

\* A transaction that is tried is refused afterwards: it is in the pool, or was refused.
LEMMA TriedIsRefused ==
    ASSUME NEW t \in Txs, AcceptToMemoryPool(t), UNCHANGED <<hashBestChain, pindexBest>>,
           IsFinalTx(t, Height[pindexBest] + 1), \A p \in Vin[t] : ~Immature(p, pindexBest)
    PROVE  Refused(t)'
<1>1. CASE Accepts(t)
  <2>1. t \in mapTx'
    BY <1>1 DEF AcceptToMemoryPool, addUnchecked
  <2> QED BY <2>1 DEF Refused
<1>2. CASE ~Accepts(t)
  <2>1. UNCHANGED <<mapTx, mapNextTx>>
    BY <1>2 DEF AcceptToMemoryPool, poolVars
  <2>2. Refused(t)
    BY ZenonT(30), <1>2 DEF Refused, Accepts, Eligible, ConnectInputs
  <2> QED BY ZenonT(30), <2>1, <2>2 DEF Refused, MissingInputs
<1> QED BY <1>1, <1>2

\* It stays refused when the pool takes a transaction that is not an input of it.
LEMMA RefusedKept ==
    ASSUME NEW t, Refused(t), NEW u \in Txs, AcceptToMemoryPool(u), u \notin Vin[t],
           UNCHANGED <<hashBestChain, pindexBest>>
    PROVE  Refused(t)'
<1>1. CASE Accepts(u)
  <2>1. addUnchecked(u)
    BY <1>1 DEF AcceptToMemoryPool
  <2>2. mapTx' = mapTx \cup {u} /\ DOMAIN mapNextTx \subseteq DOMAIN mapNextTx'
    BY <2>1 DEF addUnchecked
  <2>3. MissingInputs(t) => MissingInputs(t)'
    BY <2>2 DEF MissingInputs
  <2>4. Vin[t] \cap DOMAIN mapNextTx # {} => Vin[t] \cap DOMAIN mapNextTx' # {}
    BY <2>2
  <2> QED BY ZenonT(30), <2>2, <2>3, <2>4 DEF Refused
<1>2. CASE ~Accepts(u)
  <2>1. UNCHANGED <<mapTx, mapNextTx>>
    BY <1>2 DEF AcceptToMemoryPool, poolVars
  <2> QED BY ZenonT(30), <2>1 DEF Refused, MissingInputs
<1> QED BY <1>1, <1>2

\* It stays refused when the transactions of the new branch leave the pool: what it was
\* or conflicted with is in the chain.
LEMMA RefusedAfterDelete ==
    ASSUME NextTxExact, NEW t, Refused(t), UNCHANGED hashBestChain, NEW from,
           Remove(vDelete(from, hashBestChain))
    PROVE  Refused(t)'
<1> DEFINE S == vDelete(from, hashBestChain)
<1>1. \A u \in S : \E a \in ChainOf(hashBestChain) : u \in Elements(Vtx[a])
  BY DEF vDelete
<1> HIDE DEF S
<1>2. /\ mapTx' = mapTx \ S
      /\ DOMAIN mapNextTx' = DOMAIN mapNextTx \ UNION {Vin[u] : u \in mapTx \cap S}
  BY DEF Remove, S
<1>3. CASE t \in mapTx
  <2>1. CASE t \in S
    <3>1. ContainsTx(t, hashBestChain)
      BY <1>1, <2>1 DEF ContainsTx, InBlock
    <3> QED BY ZenonT(30), <3>1 DEF Refused
  <2>2. CASE t \notin S
    BY ZenonT(30), <1>2, <1>3, <2>2 DEF Refused
  <2> QED BY <2>1, <2>2
<1>4. ASSUME NEW o \in Vin[t], o \in DOMAIN mapNextTx
      PROVE  Refused(t)'
  <2>1. CASE o \in DOMAIN mapNextTx'
    BY ZenonT(30), <2>1 DEF Refused
  <2>2. CASE o \notin DOMAIN mapNextTx'
    <3>1. PICK u \in mapTx \cap S : o \in Vin[u]
      BY <1>2, <1>4, <2>2
    <3>2. IsSpent(o, hashBestChain)
      BY <1>1, <3>1 DEF IsSpent
    <3> QED BY ZenonT(30), <3>2 DEF Refused
  <2> QED BY <2>1, <2>2
<1>5. MissingInputs(t) => MissingInputs(t)'
  BY <1>2 DEF MissingInputs
<1>6. CASE \/ t \in Generated \cup Malformed \cup Invalid
           \/ ContainsTx(t, hashBestChain)
           \/ \E i \in Vin[t] : IsSpent(i, hashBestChain)
  BY ZenonT(30), <1>6 DEF Refused
<1> QED BY ZenonT(30), <1>3, <1>4, <1>5, <1>6 DEF Refused

\* Nothing has been gone through when the old branch has just been left.
LEMMA ReorganizeSettled ==
    ASSUME IInv, NEW b \in Blocks, Reorganize(b)
    PROVE  SettledInv'
<1>1. PICK goal \in Blocks :
        /\ hashBestChain' = goal
        /\ task' = [op |-> "resurrect", new |-> b, vResurrect |-> vResurrect(pindexBest, goal),
                    vDelete |-> vDelete(pindexBest, goal)]
  BY ZenonT(30) DEF Reorganize
<1>2. pindexBest' = pindexBest
  BY DEF Reorganize
<1>3. /\ task'.vResurrect = vResurrect(pindexBest', hashBestChain')
      /\ task'.vDelete = vDelete(pindexBest', hashBestChain')
  BY ZenonT(30), <1>1, <1>2
<1> QED BY ZenonT(30), <1>3 DEF SettledInv, Settled

\* A transaction of the old branch has its turn.
LEMMA ResurrectSettled ==
    ASSUME IInv, SettledInv, ResurrectNext
    PROVE  SettledInv'
<1>1. task.op = "resurrect" /\ UNCHANGED <<hashBestChain, pindexBest>>
  BY DEF ResurrectNext, chainVars
<1>2. task \in [op : {"resurrect"}, new : Blocks, vResurrect : SUBSET (Blocks \X Nat), vDelete : SUBSET Txs]
  BY <1>1, InvParts, TaskCases DEF TaskType
<1>3. hashBestChain \in Blocks /\ pindexBest \in Blocks
  BY InvParts DEF TaskType
<1>4. PICK left, del : left = task.vResurrect /\ del = task.vDelete
  BY ZenonT(30)
<1>5. PICK x \in left :
        /\ \A y \in left : NoLater(x, y)
        /\ AcceptToMemoryPool(Vtx[x[1]][x[2]])
        /\ task' = [task EXCEPT !.vResurrect = @ \ {x}]
  BY ZenonT(30), <1>4 DEF ResurrectNext
<1>6. task' = [op |-> "resurrect", new |-> task.new, vResurrect |-> left \ {x}, vDelete |-> del]
  BY ZenonT(30), <1>2, <1>4, <1>5
<1>7. Settled(left) /\ del = vDelete(pindexBest, hashBestChain)
  BY ZenonT(30), <1>1, <1>4 DEF SettledInv
<1> DEFINE all == vResurrect(pindexBest, hashBestChain)
           T(y) == Vtx[y[1]][y[2]]
<1>8. x \in all /\ T(x) \in Txs
  BY <1>3, <1>5, <1>7, PlaceOf DEF Settled
<1>9. Refused(T(x))'
  <2>1. x[1] \in ChainOf(pindexBest) \ {Genesis} /\ x[2] \in DOMAIN Vtx[x[1]]
    BY <1>3, <1>8, PlaceOf
  <2>2. IsFinalTx(T(x), Height[pindexBest] + 1) /\ \A p \in Vin[T(x)] : ~Immature(p, pindexBest)
    BY <1>3, <1>8, <2>1, FinalAndMature
  <2> QED BY <1>1, <1>5, <1>8, <2>2, TriedIsRefused
<1>10. ASSUME NEW y \in all \ left
       PROVE  Refused(T(y))' /\ \A z \in left : NoLater(y, z)
  <2>1. Refused(T(y)) /\ \A z \in left : NoLater(y, z)
    BY <1>7, <1>10 DEF Settled
  <2>2. T(x) \notin Vin[T(y)]
    BY <1>3, <1>5, <1>8, <1>10, <2>1, ParentsFirst
  <2> QED BY <1>1, <1>5, <1>8, <2>1, <2>2, RefusedKept
<1>11. Settled(left \ {x})'
  <2>1. \A y \in all \ (left \ {x}) : Refused(T(y))' /\ \A z \in left \ {x} : NoLater(y, z)
    BY ZenonT(30), <1>5, <1>9, <1>10
  <2>2. left \ {x} \subseteq all
    BY <1>7 DEF Settled
  <2> QED BY ZenonT(30), <1>1, <2>1, <2>2 DEF Settled
<1>12. task'.vResurrect = left \ {x} /\ task'.vDelete = del
  BY ZenonT(30), <1>6
<1> QED BY ZenonT(30), <1>1, <1>7, <1>11, <1>12 DEF SettledInv

\* When the deletions are done the pool takes nothing of the old branch.
LEMMA DeleteSettled ==
    ASSUME IInv, SettledInv, DeleteRedundant,
           NEW b \in ChainOf(pindexBest) \ ChainOf(hashBestChain), Height[b] > TotalBlocksEstimate,
           NEW t \in Elements(Vtx[b])
    PROVE  ~Accepts(t)'
<1>1. /\ task.op = "resurrect" /\ task.vResurrect = {} /\ Remove(task.vDelete)
      /\ UNCHANGED hashBestChain
  BY DEF DeleteRedundant
<1>2. Settled({}) /\ task.vDelete = vDelete(pindexBest, hashBestChain)
  BY ZenonT(30), <1>1 DEF SettledInv
<1>3. CASE t \in Generated
  BY ZenonT(30), <1>3 DEF Accepts, Eligible
<1>4. CASE t \notin Generated
  <2>1. PICK i \in DOMAIN Vtx[b] : t = Vtx[b][i]
    BY DEF Elements
  <2>2. <<b, i>> \in vResurrect(pindexBest, hashBestChain)
    <3>1. <<b, i>> \in {b} \X {j \in DOMAIN Vtx[b] : Vtx[b][j] \notin Generated}
      BY <1>4, <2>1
    <3> QED BY ZenonT(30), <3>1 DEF vResurrect
  <2>3. Refused(t)
    BY SMTT(20), <1>2, <2>1, <2>2 DEF Settled
  <2>4. Refused(t)'
    BY <1>1, <1>2, <2>3, InvParts, RefusedAfterDelete
  <2> QED BY ZenonT(30), <2>4 DEF Refused, Accepts, Eligible, ConnectInputs
<1> QED BY <1>3, <1>4

\* Every step keeps the account of the old branch, and a reorganization ends well.
LEMMA SettledStep ==
    ASSUME IInv, SettledInv, [Next]_vars
    PROVE  /\ SettledInv'
           /\ task.op = "resurrect" /\ task'.op # "resurrect"
              => \A b \in ChainOf(pindexBest) \ ChainOf(hashBestChain) :
                    Height[b] > TotalBlocksEstimate => \A t \in Elements(Vtx[b]) : ~Accepts(t)'
<1>1. CASE UNCHANGED vars
  <2>1. UNCHANGED <<hashBestChain, pindexBest, mapTx, mapNextTx, task>>
    BY <1>1 DEF vars, chainVars, poolVars
  <2>2. SettledInv'
    BY ZenonT(30), <2>1 DEF SettledInv, Settled, Refused, MissingInputs
  <2> QED BY <2>1, <2>2
<1>2. CASE \/ \E t \in Txs : AcceptWalletTransaction(t)
           \/ AcceptPrev \/ AcceptOwn
           \/ \E b \in Blocks : ConnectTip(b)
           \/ ConnectPostponed
  BY ZenonT(30), <1>2, OtherFlow DEF SettledInv
<1>3. CASE (\E t \in Txs : RecvTx(t)) \/ ResolveOrphan \/ NextWork
  BY ZenonT(30), <1>3, OrphanFlow DEF SettledInv
<1>4. CASE CreateNewBlock \/ CollectTx \/ FinishBlock
  BY ZenonT(30), <1>4, BlockFlow DEF SettledInv
<1>5. ASSUME NEW b \in Blocks, Reorganize(b)
      PROVE  SettledInv' /\ task.op # "resurrect"
  BY ZenonT(30), <1>5, ReorganizeSettled DEF Reorganize, Idle
<1>6. CASE ResurrectNext
  <2>1. ~DeleteRedundant
    BY <1>6 DEF ResurrectNext, DeleteRedundant
  <2> QED BY ZenonT(30), <1>6, <2>1, ReorganizeFlow, ResurrectSettled
<1>7. CASE DeleteRedundant
  <2>1. task'.op # "resurrect"
    BY <1>7, ReorganizeFlow
  <2> QED BY ZenonT(30), <1>7, <2>1, DeleteSettled DEF SettledInv
<1> QED BY ZenonT(30), <1>1, <1>2, <1>3, <1>4, <1>5, <1>6, <1>7 DEF Next

\* When a reorganization is done, no transaction of the old branch is lost that the pool
\* would take: the old branch is gone through in the order of the chain, and neither the
\* deletions nor the move of pindexBest make place for what was refused.
THEOREM ReorganizeLosesNothing == Spec => NothingLost
<1>1. Init => SettledInv
  BY SMTT(20) DEF Init, SettledInv, NoTask
<1>2. IInv /\ SettledInv /\ [Next]_vars =>
        /\ SettledInv'
        /\ [task.op = "resurrect" /\ task'.op # "resurrect"
            => \A b \in ChainOf(pindexBest) \ ChainOf(hashBestChain) :
                  Height[b] > TotalBlocksEstimate => \A t \in Elements(Vtx[b]) : ~Accepts(t)']_vars
  BY ZenonT(30), SettledStep
<1> QED BY <1>1, <1>2, Invariance, PTL DEF Spec, NothingLost
=============================================================================
