------------------------------- MODULE Mempool -------------------------------
(***************************************************************************)
(* The memory pool (CTxMemPool), the orphan transactions of the "tx"        *)
(* handler, what SetBestChain does to the pool, and the collection of       *)
(* transactions for a new block (CreateNewBlock).                           *)
(*                                                                          *)
(* All of it runs under cs_main.  An operation that is a loop over          *)
(* transactions is one step for each, and no other starts meanwhile.        *)
(* hashBestChain is the tip the transaction index on disk belongs to;       *)
(* pindexBest follows it only at the end of SetBestChain, and transactions  *)
(* are resurrected in between.  That the index is exactly the transactions  *)
(* of the chain is ChainState's TxIndexMatches.                             *)
(*                                                                          *)
(* A transaction has one output, which stands for all of them; it is named  *)
(* by the transaction.  Blocks that cannot be connected, and a postponed    *)
(* block that fails, leave the pool alone and are left out.                 *)
(***************************************************************************)
EXTENDS BlockTree, Sequences

CONSTANTS
    Txs,                \* the transactions of blocks and peers
    Vin,                \* the outputs a transaction spends
    Vtx,                \* CBlock::vtx, for each block
    Trust,              \* CBlockIndex::nChainTrust
    Generated,          \* coinbases and coinstakes
    Malformed,          \* fail CheckTransaction or IsStandardTx
    Invalid,            \* fail a check that needs their inputs
    Large,              \* larger than 5000 bytes
    Skipped,            \* not for a block: fee, timestamp or signature operations
    Lock,               \* nLockTime, a height
    nCoinbaseMaturity,
    TotalBlocksEstimate,        \* the height of the last checkpoint
    MAX_ORPHAN_TRANSACTIONS,
    MaxBlockTxs,        \* nBlockMaxSize, in transactions
    None

ASSUME MempoolAssumption ==
    /\ IsFiniteSet(Txs)
    /\ Vin \in [Txs -> SUBSET Txs]
    /\ Vtx \in [Blocks -> Seq(Txs)]
    /\ Trust \in [Blocks -> Nat]
    /\ Lock \in [Txs -> Nat]
    /\ nCoinbaseMaturity \in Nat
    /\ TotalBlocksEstimate \in Nat
    /\ MAX_ORPHAN_TRANSACTIONS \in Nat
    /\ MaxBlockTxs \in Nat
    /\ None \notin Blocks

\* The order of the blocks of a chain.
ASSUME OrderAssumption ==
    \A b \in Blocks :
        /\ Genesis \in ChainOf(b)
        /\ \A a \in Ancestors[b] : Height[a] < Height[b] /\ Ancestors[a] \subseteq Ancestors[b]
        /\ \A a, c \in ChainOf(b) : Height[a] <= Height[c] => a \in ChainOf(c)

VARIABLES
    hashBestChain,      \* the tip of the transaction index
    pindexBest,         \* the tip in memory
    mapTx,              \* the pool
    mapNextTx,          \* for each output spent in the pool, by what
    mapOrphanTransactions,
    mapOrphanTransactionsByPrev,    \* an absent entry is an empty one
    task,               \* the operation under cs_main
    pblock              \* the last result of CreateNewBlock

poolVars == <<mapTx, mapNextTx>>
orphanVars == <<mapOrphanTransactions, mapOrphanTransactionsByPrev>>
chainVars == <<hashBestChain, pindexBest>>
vars == <<chainVars, poolVars, orphanVars, task, pblock>>

Elements(s) == {s[i] : i \in DOMAIN s}

NoTask == [op |-> "none"]
NoBlock == [prev |-> None, vtx |-> <<>>]
-----------------------------------------------------------------------------
(* The transaction index of the chain that ends in b.                       *)

InBlock(t, b) == t \in Elements(Vtx[b])
ContainsTx(t, b) == \E a \in ChainOf(b) : InBlock(t, a)
IsSpent(t, b) == \E a \in ChainOf(b) : \E u \in Elements(Vtx[a]) : t \in Vin[u]

IsFinalTx(t, height) == Lock[t] < height

\* An output of a coinbase or coinstake is found in one of the last
\* nCoinbaseMaturity blocks below and including pindexBlock.
Immature(t, pindexBlock) ==
    /\ t \in Generated
    /\ \E a \in ChainOf(pindexBlock) :
          Height[pindexBlock] - Height[a] < nCoinbaseMaturity /\ InBlock(t, a)

\* ConnectInputs of t for a block on pindexBlock, when the transactions of earlier
\* are ahead of it: no output is spent already.
ConnectInputs(t, pindexBlock, earlier) ==
    /\ t \notin Invalid
    /\ \A i \in Vin[t] :
          /\ ~Immature(i, pindexBlock)
          /\ ~IsSpent(i, hashBestChain)
          /\ \A u \in earlier : i \notin Vin[u]

\* AcceptBlock and ConnectBlock took the blocks: their transactions are final, are
\* not in the chain already, and spend mature outputs of what is before them.
ASSUME ConnectableAssumption ==
    \A b \in Blocks \ {Genesis} : \A i \in DOMAIN Vtx[b] :
        LET t == Vtx[b][i]
            earlier == {Vtx[b][j] : j \in 1..(i - 1)}
        IN  /\ IsFinalTx(t, Height[b])
            /\ t \notin earlier /\ ~ContainsTx(t, Prev[b])
            /\ \A p \in Vin[t] : (p \in earlier \/ ContainsTx(p, Prev[b])) /\ ~Immature(p, b)
-----------------------------------------------------------------------------
(* The pool.                                                                *)

\* FetchInputs fails for lack of an input, which makes t an orphan.
MissingInputs(t) == \E i \in Vin[t] : i \notin mapTx /\ ~ContainsTx(i, hashBestChain)

\* Mutant: no look at mapNextTx.
EligibleDespiteConflict(t) ==
    /\ t \notin Generated \cup Malformed
    /\ IsFinalTx(t, Height[pindexBest] + 1)
    /\ t \notin mapTx
    /\ ~ContainsTx(t, hashBestChain)

\* What AcceptToMemoryPool finds out before it looks for the inputs.
Eligible(t) ==
    /\ t \notin Generated \cup Malformed
    /\ IsFinalTx(t, Height[pindexBest] + 1)
    /\ t \notin mapTx
    /\ Vin[t] \cap DOMAIN mapNextTx = {}
    /\ ~ContainsTx(t, hashBestChain)

\* The two answers of AcceptToMemoryPool that differ from a refusal.
Accepts(t) == Eligible(t) /\ ~MissingInputs(t) /\ ConnectInputs(t, pindexBest, {})
Misses(t) == Eligible(t) /\ MissingInputs(t)

addUnchecked(t) ==
    /\ mapTx' = mapTx \cup {t}
    /\ mapNextTx' = [o \in DOMAIN mapNextTx \cup Vin[t] |->
                        IF o \in Vin[t] THEN t ELSE mapNextTx[o]]

\* AcceptToMemoryPool where the answer does not matter.
AcceptToMemoryPool(t) == IF Accepts(t) THEN addUnchecked(t) ELSE UNCHANGED poolVars

\* Mutant: the entries of mapNextTx stay.
RemoveTxOnly(S) == mapTx' = mapTx \ S /\ UNCHANGED mapNextTx

\* CTxMemPool::remove of every transaction of S.
Remove(S) ==
    /\ mapTx' = mapTx \ S
    /\ mapNextTx' = [o \in DOMAIN mapNextTx \ UNION {Vin[t] : t \in mapTx \cap S} |-> mapNextTx[o]]
-----------------------------------------------------------------------------
(* Orphan transactions.                                                     *)

\* mapOrphanTransactionsByPrev after AddOrphanTx(t).
IndexOrphan(byPrev, t) == [p \in Txs |-> IF p \in Vin[t] THEN byPrev[p] \cup {t} ELSE byPrev[p]]

\* mapOrphanTransactionsByPrev after EraseOrphanTx of every orphan in S.
UnindexOrphans(byPrev, S) == [p \in Txs |-> byPrev[p] \ {t \in S : p \in Vin[t]}]

EraseOrphanTxs(S) ==
    /\ mapOrphanTransactions' = mapOrphanTransactions \ S
    /\ mapOrphanTransactionsByPrev' =
          UnindexOrphans(mapOrphanTransactionsByPrev, mapOrphanTransactions \cap S)

\* AddOrphanTx, and LimitOrphanTxSize: random orphans make place.
AddOrphanTx(t) ==
    IF t \in mapOrphanTransactions \cup Large
    THEN UNCHANGED orphanVars
    ELSE \E kept \in SUBSET (mapOrphanTransactions \cup {t}) :
            LET all == mapOrphanTransactions \cup {t}
            IN  /\ IF Cardinality(all) <= MAX_ORPHAN_TRANSACTIONS
                   THEN kept = all
                   ELSE Cardinality(kept) = MAX_ORPHAN_TRANSACTIONS
                /\ mapOrphanTransactions' = kept
                /\ mapOrphanTransactionsByPrev' =
                      UnindexOrphans(IndexOrphan(mapOrphanTransactionsByPrev, t), all \ kept)

Idle == task.op = "none"

\* The "tx" handler, to the point where orphans are looked at.  before remembers
\* the pool it found, for OrphansResolved only.
RecvTx(t) ==
    /\ Idle
    /\ \/ /\ Accepts(t)
          /\ addUnchecked(t)
          /\ task' = [op |-> "orphans", work |-> <<t>>,
                      left |-> mapOrphanTransactionsByPrev[t], erase |-> {t}, before |-> mapTx]
          /\ UNCHANGED orphanVars
       \/ /\ Misses(t)
          /\ AddOrphanTx(t)
          /\ UNCHANGED <<poolVars, task>>
    /\ UNCHANGED <<chainVars, pblock>>

\* Mutant: what an accepted orphan makes acceptable is not looked at.
ResolveOrphanOnce ==
    /\ task.op = "orphans"
    /\ \E o \in task.left :
        /\ AcceptToMemoryPool(o)
        /\ task' = [task EXCEPT
                      !.left = @ \ {o},
                      !.erase = IF Misses(o) THEN @ ELSE @ \cup {o}]
    /\ UNCHANGED <<chainVars, orphanVars, pblock>>

\* The next orphan that depends on the head of the work queue.  One that is
\* accepted is queued; one that is refused for good is erased as well.
ResolveOrphan ==
    /\ task.op = "orphans"
    /\ \E o \in task.left :
        /\ AcceptToMemoryPool(o)
        /\ task' = [task EXCEPT
                      !.left = @ \ {o},
                      !.work = IF Accepts(o) THEN Append(@, o) ELSE @,
                      !.erase = IF Misses(o) THEN @ ELSE @ \cup {o}]
    /\ UNCHANGED <<chainVars, orphanVars, pblock>>

\* The next hash of the work queue or, after the last, the erasures.
NextWork ==
    /\ task.op = "orphans"
    /\ task.left = {}
    /\ IF Len(task.work) > 1
       THEN /\ task' = [task EXCEPT !.work = Tail(@),
                                    !.left = mapOrphanTransactionsByPrev[task.work[2]]]
            /\ UNCHANGED orphanVars
       ELSE EraseOrphanTxs(task.erase) /\ task' = NoTask
    /\ UNCHANGED <<chainVars, poolVars, pblock>>
-----------------------------------------------------------------------------
(* The wallet and RPC.                                                      *)

\* CommitTransaction and sendrawtransaction submit t alone;
\* AcceptWalletTransaction first submits the wallet's copies of what t spends.
AcceptWalletTransaction(t) ==
    /\ Idle
    /\ \E vtxPrev \in SUBSET (Vin[t] \ Generated) :
          task' = [op |-> "wallet", vtxPrev |-> vtxPrev, tx |-> t]
    /\ UNCHANGED <<chainVars, poolVars, orphanVars, pblock>>

AcceptPrev ==
    /\ task.op = "wallet"
    /\ \E p \in task.vtxPrev :
          AcceptToMemoryPool(p) /\ task' = [task EXCEPT !.vtxPrev = @ \ {p}]
    /\ UNCHANGED <<chainVars, orphanVars, pblock>>

AcceptOwn ==
    /\ task.op = "wallet"
    /\ task.vtxPrev = {}
    /\ AcceptToMemoryPool(task.tx)
    /\ task' = NoTask
    /\ UNCHANGED <<chainVars, orphanVars, pblock>>
-----------------------------------------------------------------------------
(* SetBestChain.                                                            *)

\* The places of the transactions of the disconnected blocks that are to go back
\* to the pool, and the order of the chain.
vResurrect(from, to) ==
    UNION { {b} \X {i \in DOMAIN Vtx[b] : Vtx[b][i] \notin Generated} :
            b \in {c \in ChainOf(from) \ ChainOf(to) : Height[c] > TotalBlocksEstimate} }
NoLater(x, y) == Height[x[1]] < Height[y[1]] \/ (x[1] = y[1] /\ x[2] <= y[2])

\* The transactions of the connected blocks.
vDelete(from, to) == UNION {Elements(Vtx[b]) : b \in ChainOf(to) \ ChainOf(from)}

\* The first block of the new chain with which it has more trust than the best.
IsIntermediate(b, new) ==
    /\ b \in ChainOf(new) \ {Genesis}
    /\ Trust[Prev[b]] <= Trust[pindexBest]
    /\ \A c \in ChainOf(new) : Height[c] > Height[b] => Trust[Prev[c]] > Trust[pindexBest]

\* SetBestChain of a block on top of the best one, all of SetBestChainInner.
ConnectTip(new) ==
    /\ Idle
    /\ new # Genesis /\ Prev[new] = hashBestChain
    /\ Trust[new] > Trust[pindexBest]
    /\ hashBestChain' = new
    /\ Remove(Elements(Vtx[new]))
    /\ pindexBest' = new
    /\ UNCHANGED <<orphanVars, task, pblock>>

\* Reorganize, to its commit.
Reorganize(new) ==
    /\ Idle
    /\ new # Genesis /\ Prev[new] # hashBestChain
    /\ Trust[new] > Trust[pindexBest]
    /\ \E goal \in Blocks :
        /\ IsIntermediate(goal, new)
        /\ hashBestChain' = goal
        /\ task' = [op |-> "resurrect", new |-> new,
                    vResurrect |-> vResurrect(pindexBest, goal),
                    vDelete |-> vDelete(pindexBest, goal)]
    /\ UNCHANGED <<pindexBest, poolVars, orphanVars, pblock>>

\* Mutant: the old branch is gone through from its tip down.
ResurrectNextDownwards ==
    /\ task.op = "resurrect"
    /\ \E x \in task.vResurrect :
        /\ \A y \in task.vResurrect : NoLater(y, x)
        /\ AcceptToMemoryPool(Vtx[x[1]][x[2]])
        /\ task' = [task EXCEPT !.vResurrect = @ \ {x}]
    /\ UNCHANGED <<chainVars, orphanVars, pblock>>

\* The next transaction of the old branch.  pindexBest is still its tip.
ResurrectNext ==
    /\ task.op = "resurrect"
    /\ \E x \in task.vResurrect :
        /\ \A y \in task.vResurrect : NoLater(x, y)
        /\ AcceptToMemoryPool(Vtx[x[1]][x[2]])
        /\ task' = [task EXCEPT !.vResurrect = @ \ {x}]
    /\ UNCHANGED <<chainVars, orphanVars, pblock>>

\* pindexBest moves once the new tip is reached.
Arrive(tip, new) ==
    IF tip = new
    THEN pindexBest' = new /\ task' = NoTask
    ELSE UNCHANGED pindexBest /\ task' = [op |-> "postponed", new |-> new]

\* The transactions of the new branch leave the pool.
DeleteRedundant ==
    /\ task.op = "resurrect"
    /\ task.vResurrect = {}
    /\ Remove(task.vDelete)
    /\ Arrive(hashBestChain, task.new)
    /\ UNCHANGED <<hashBestChain, orphanVars, pblock>>

\* Mutant: the transactions of the block stay in the pool.
ConnectPostponedKeeps ==
    /\ task.op = "postponed"
    /\ \E b \in ChainOf(task.new) \ {Genesis} :
        /\ Prev[b] = hashBestChain
        /\ hashBestChain' = b
        /\ Arrive(b, task.new)
    /\ UNCHANGED <<poolVars, orphanVars, pblock>>

\* SetBestChainInner of the next postponed block.
ConnectPostponed ==
    /\ task.op = "postponed"
    /\ \E b \in ChainOf(task.new) \ {Genesis} :
        /\ Prev[b] = hashBestChain
        /\ hashBestChain' = b
        /\ Remove(Elements(Vtx[b]))
        /\ Arrive(b, task.new)
    /\ UNCHANGED <<orphanVars, pblock>>
-----------------------------------------------------------------------------
(* CreateNewBlock.                                                          *)

\* The inputs of t that are transactions of the pool.
DependsOn(t) == {i \in Vin[t] : ~ContainsTx(i, hashBestChain)}

\* The pool is read: vecPriority gets what depends on the chain only, what
\* depends on the pool waits, and what lacks an input is left out.
CreateNewBlock ==
    /\ Idle
    /\ LET usable == {t \in mapTx : IsFinalTx(t, Height[pindexBest] + 1) /\ DependsOn(t) \subseteq mapTx}
       IN  task' = [op |-> "block", vtx |-> <<>>,
                    vecPriority |-> {t \in usable : DependsOn(t) = {}},
                    setDependsOn |-> [t \in Txs |-> IF t \in usable THEN DependsOn(t) ELSE {}]]
    /\ UNCHANGED <<chainVars, poolVars, orphanVars, pblock>>

\* Mutant: the spends of the block itself are not looked at.
ConnectsInBlockAlone(t, vtx) ==
    /\ \A i \in Vin[t] : i \in Elements(vtx) \/ ContainsTx(i, hashBestChain)
    /\ t \notin Invalid

\* FetchInputs and ConnectInputs of t after the transactions of vtx.
ConnectsInBlock(t, vtx) ==
    /\ \A i \in Vin[t] : i \in Elements(vtx) \/ ContainsTx(i, hashBestChain)
    /\ ConnectInputs(t, pindexBest, Elements(vtx))

\* Mutant: what depends on the new transaction goes on waiting.
AddWaiting(t) ==
    [task EXCEPT !.vtx = Append(@, t), !.vecPriority = @ \ {t}]

\* t joins the block, and what waited for nothing else enters the queue.
Add(t) ==
    LET waits == [u \in Txs |-> task.setDependsOn[u] \ {t}]
        ready == {u \in Txs : waits[u] = {} /\ task.setDependsOn[u] # {}}
    IN  [task EXCEPT !.vtx = Append(@, t),
                     !.vecPriority = (@ \ {t}) \cup ready,
                     !.setDependsOn = waits]

\* The next transaction by priority or fee, in any order, is added or skipped.
CollectTx ==
    /\ task.op = "block"
    /\ \E t \in task.vecPriority :
          task' = IF Len(task.vtx) < MaxBlockTxs /\ t \notin Skipped /\ ConnectsInBlock(t, task.vtx)
                  THEN Add(t)
                  ELSE [task EXCEPT !.vecPriority = @ \ {t}]
    /\ UNCHANGED <<chainVars, poolVars, orphanVars, pblock>>

FinishBlock ==
    /\ task.op = "block"
    /\ task.vecPriority = {}
    /\ pblock' = [prev |-> pindexBest, vtx |-> task.vtx]
    /\ task' = NoTask
    /\ UNCHANGED <<chainVars, poolVars, orphanVars>>
-----------------------------------------------------------------------------
\* A node that has just started on the genesis block.
Init ==
    /\ hashBestChain = Genesis
    /\ pindexBest = Genesis
    /\ mapTx = {}
    /\ mapNextTx = <<>>
    /\ mapOrphanTransactions = {}
    /\ mapOrphanTransactionsByPrev = [p \in Txs |-> {}]
    /\ task = NoTask
    /\ pblock = NoBlock

Next ==
    \/ \E t \in Txs : RecvTx(t)
    \/ ResolveOrphan
    \/ NextWork
    \/ \E t \in Txs : AcceptWalletTransaction(t)
    \/ AcceptPrev
    \/ AcceptOwn
    \/ \E b \in Blocks : ConnectTip(b)
    \/ \E b \in Blocks : Reorganize(b)
    \/ ResurrectNext
    \/ DeleteRedundant
    \/ ConnectPostponed
    \/ CreateNewBlock
    \/ CollectTx
    \/ FinishBlock

Spec == Init /\ [][Next]_vars
-----------------------------------------------------------------------------
(* Properties.                                                              *)

\* The operations that may be under way.
Tasks ==
    [op : {"none"}] \cup
    [op : {"orphans"}, work : Seq(Txs), left : SUBSET Txs, erase : SUBSET Txs,
     before : SUBSET Txs] \cup
    [op : {"wallet"}, vtxPrev : SUBSET Txs, tx : Txs] \cup
    [op : {"resurrect"}, new : Blocks, vResurrect : SUBSET (Blocks \X Nat), vDelete : SUBSET Txs] \cup
    [op : {"postponed"}, new : Blocks] \cup
    [op : {"block"}, vtx : Seq(Txs), vecPriority : SUBSET Txs, setDependsOn : [Txs -> SUBSET Txs]]

\* Types; pindexBest is the tip of the transaction index except while
\* SetBestChain runs, and the orphans are within their limit.
TypeOK ==
    /\ hashBestChain \in Blocks /\ pindexBest \in Blocks
    /\ task.op \notin {"resurrect", "postponed"} => pindexBest = hashBestChain
    /\ mapTx \subseteq Txs \ Generated
    /\ DOMAIN mapNextTx \subseteq Txs /\ mapNextTx \in [DOMAIN mapNextTx -> Txs]
    /\ mapOrphanTransactions \subseteq Txs \ Large
    /\ Cardinality(mapOrphanTransactions) <= MAX_ORPHAN_TRANSACTIONS
    /\ mapOrphanTransactionsByPrev \in [Txs -> SUBSET Txs]
    /\ task \in Tasks
    /\ task.op = "orphans" => task.work # <<>>
    /\ task.op = "resurrect" => \A x \in task.vResurrect : x[2] \in DOMAIN Vtx[x[1]]
    /\ pblock \in [prev : Blocks \cup {None}, vtx : Seq(Txs)]

\* mapNextTx is the inverse of the inputs of the pool's transactions: whatever
\* was accepted, resurrected, confirmed or deleted in whatever order, no two
\* transactions of the pool spend the same output, every spend is recorded, and
\* no entry points at a transaction that has left.
NextTxExact ==
    /\ DOMAIN mapNextTx = UNION {Vin[t] : t \in mapTx}
    /\ \A t \in mapTx : \A o \in Vin[t] : mapNextTx[o] = t

\* A transaction of the chain is not in the pool as well, except between the
\* commit of a reorganization and the deletions at its end.
PoolOutsideChain ==
    \A t \in mapTx : ContainsTx(t, hashBestChain) => task.op = "resurrect" /\ t \in task.vDelete

\* mapOrphanTransactionsByPrev leads to exactly the orphans that wait for a
\* parent, through random evictions and erasures in the middle of the handler.
OrphanIndexExact ==
    \A p \in Txs :
        mapOrphanTransactionsByPrev[p] = {o \in mapOrphanTransactions : p \in Vin[o]}

\* Both secondary indexes agree with what they index.
IndexesExact == NextTxExact /\ OrphanIndexExact

\* When the "tx" handler is done, no orphan is left that depends on a transaction
\* it has put into the pool and could be accepted itself: the work queue follows
\* chains of orphans and orphans with several parents to the end.  (An orphan whose
\* parent came into the pool by another way, through the wallet or from a
\* disconnected block, may wait although it could be accepted.)
OrphansResolved ==
    [][task.op = "orphans" /\ task'.op = "none"
       => \A o \in mapOrphanTransactions' : Vin[o] \cap (mapTx \ task.before) # {} => ~Accepts(o)]_vars

\* When a reorganization is done, no transaction of the old branch is lost that
\* the pool would take: parents have been resurrected before their children, and
\* the deletions have not made place for anything that was refused.
NothingLost ==
    [][task.op = "resurrect" /\ task'.op # "resurrect"
       => \A b \in ChainOf(pindexBest) \ ChainOf(hashBestChain) :
            Height[b] > TotalBlocksEstimate => \A t \in Elements(Vtx[b]) : ~Accepts(t)']_vars

\* The transactions vtx can be connected, in this order, in a block on b.
ConnectsTo(vtx, b) ==
    \A i \in DOMAIN vtx :
        LET earlier == {vtx[j] : j \in 1..(i - 1)}
        IN  /\ vtx[i] \notin earlier /\ ~ContainsTx(vtx[i], b)
            /\ \A p \in Vin[vtx[i]] :
                  /\ p \in earlier \/ ContainsTx(p, b)
                  /\ ~Immature(p, b) /\ ~IsSpent(p, b)
                  /\ \A u \in earlier : p \notin Vin[u]

\* Although the pool keeps transactions that conflict with the chain, lack an
\* input or are immature after a reorganization, the transactions CreateNewBlock
\* has collected can be connected on the block it builds on, in their order.
BlockConnects == pblock # NoBlock => ConnectsTo(pblock.vtx, pblock.prev)

\* A block that is not full has left out nothing that could be appended to it and is
\* not skipped:
\* every transaction whose parents made it into the block got its turn.
BlockComplete ==
    [][task.op = "block" /\ task'.op = "none" /\ Len(task.vtx) < MaxBlockTxs
       => \A t \in mapTx \ (Elements(task.vtx) \cup Skipped) :
            ~(IsFinalTx(t, Height[pindexBest] + 1) /\ ConnectsInBlock(t, task.vtx))]_vars
=============================================================================
