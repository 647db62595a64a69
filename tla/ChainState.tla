----------------------------- MODULE ChainState ------------------------------
(***************************************************************************)
(* The block index, the best chain and the transaction index: AcceptBlock,   *)
(* AddToBlockIndex, SetBestChain, Reorganize, ConnectBlock and               *)
(* DisconnectBlock (main.cpp), the synchronized checkpoints that may also     *)
(* move the best chain (checkpoints.cpp), and the database they are kept in   *)
(* (txdb-leveldb.cpp), across crashes and failed commits.                     *)
(*                                                                          *)
(* Everything here runs under cs_main, so the operations do not interleave.  *)
(* What makes them hard is that one call of SetBestChain is several database *)
(* transactions, each with the changes of several blocks, and that it may    *)
(* stop between any two of them.  The steps of this module are therefore:    *)
(* one block disconnected or connected in the pending batch, one commit, one *)
(* failure.                                                                  *)
(*                                                                          *)
(* A transaction has one output, so an entry of the transaction index         *)
(* (CTxIndex) is the block it is in and the transaction that spends it.       *)
(* What AcceptBlock and ConnectBlock check of a block by itself or against    *)
(* its ancestors' headers (targets, times, signatures, stake) is passed by    *)
(* every block of the tree; what depends on the transaction index is          *)
(* modelled.                                                                  *)
(***************************************************************************)
EXTENDS BlockTree

CONSTANTS Txs,         \* transactions
          Vtx,         \* CBlock::vtx: the transactions of a block
          Vin,         \* CTransaction::vin: the transactions whose output it spends
          Trust,       \* CBlockIndex::nChainTrust
          Signed,      \* the blocks the checkpoint master signs
          Mode,        \* CheckpointsMode
          Faults,      \* the faults that may happen: "crash", "commit"
          MaxFaults,   \* bound on their number
          None         \* NULL, or the hash 0

\* What holds of every tree of blocks: heights and trust fall towards the
\* genesis block, and a chain is linear and has no gap.
ASSUME ChainAssumption ==
    /\ \A b \in Blocks : \A a \in Ancestors[b] :
          /\ Height[a] < Height[b]
          /\ Trust[a] < Trust[b]
          /\ Ancestors[a] \subseteq Ancestors[b]
    /\ \A b \in Blocks : \A a, c \in ChainOf(b) : Height[a] <= Height[c] => a \in ChainOf(c)
    /\ \A b \in Blocks : \A a \in Ancestors[b] : \E c \in ChainOf(b) \ {Genesis} : Prev[c] = a
    /\ \A b \in Blocks : Genesis \in ChainOf(b)
    /\ None \notin Blocks /\ None \notin Txs
    /\ Vtx \in [Blocks -> SUBSET Txs]
    /\ Vin \in [Txs -> SUBSET Txs]
    /\ \A t \in Vtx[Genesis] : Vin[t] = {}
    /\ Trust \in [Blocks -> Nat]
    /\ Signed \subseteq Blocks
    /\ Mode \in {"STRICT", "ADVISORY", "PERMISSIVE"}
    /\ Faults \subseteq {"crash", "commit"}
    /\ MaxFaults \in Nat

\* A coinbase starts with the height of its block (AcceptBlock), so the same
\* coinbase is never in blocks of two heights; a transaction spends outputs of
\* earlier blocks.
ASSUME TransactionAssumption ==
    /\ \A a, b \in Blocks : \A t \in Vtx[a] \cap Vtx[b] : Vin[t] = {} => Height[a] = Height[b]
    /\ \A b \in Blocks : \A t, u \in Vtx[b] : t \notin Vin[u]

VARIABLES
    mapBlockIndex,          \* the indexed blocks
    pnext,                  \* CBlockIndex::pnext
    pindexBest,             \* the tip; hashBestChain is its hash
    hashSyncCheckpoint,
    hashPendingCheckpoint,
    dbIndex,                \* the "blockindex" records on disk,
    dbNext,                 \*   their hashNext,
    dbTx,                   \* the "tx" records,
    dbBest,                 \* "hashBestChain"
    dbSync,                 \* and "hashSyncCheckpoint"
    pc,                     \* where the operation under cs_main is
    task,                   \* the call of SetBestChain in progress
    batch,                  \* the database as CTxDB::activeBatch leaves it
    faults                  \* faults so far

memVars == <<mapBlockIndex, pnext, pindexBest>>
syncVars == <<hashSyncCheckpoint, hashPendingCheckpoint>>
dbVars == <<dbIndex, dbNext, dbTx, dbBest, dbSync>>
vars == <<memVars, syncVars, dbVars, pc, task, batch, faults>>

NoTask == [new |-> None, goal |-> None, at |-> None, base |-> None,
           later |-> FALSE, caller |-> "none"]
NoBatch == [tx |-> <<>>, next |-> <<>>]

Entry == [pos : Blocks, spent : Txs \cup {None}]
-----------------------------------------------------------------------------
(* The transaction index.                                                   *)

Spends(b) == UNION {Vin[t] : t \in Vtx[b]}

\* ConnectBlock's conditions: no transaction overwrites one with an unspent
\* output, and every output spent is there, unspent, and spent once.
CanConnect(tx, b) ==
    /\ \A t \in Vtx[b] \cap DOMAIN tx : tx[t].spent # None
    /\ \A i \in Spends(b) : i \in DOMAIN tx /\ tx[i].spent = None
    /\ \A t, u \in Vtx[b] : t # u => Vin[t] \cap Vin[u] = {}

\* UpdateTxIndex of everything in mapQueuedChanges.
Connected(tx, b) ==
    [t \in DOMAIN tx \cup Vtx[b] |->
        IF t \in Vtx[b] THEN [pos |-> b, spent |-> None]
        ELSE IF t \in Spends(b)
             THEN [pos |-> tx[t].pos, spent |-> CHOOSE u \in Vtx[b] : t \in Vin[u]]
             ELSE tx[t]]

\* Mutant: the spent outputs are not released.
DisconnectedStillSpent(tx, b) == [t \in DOMAIN tx \ Vtx[b] |-> tx[t]]

\* DisconnectInputs of the transactions of b: the outputs they spent are
\* unspent again, and their own records are erased.
Disconnected(tx, b) ==
    [t \in DOMAIN tx \ Vtx[b] |->
        IF t \in Spends(b) THEN [pos |-> tx[t].pos, spent |-> None] ELSE tx[t]]

CanDisconnect(tx, b) == Spends(b) \subseteq DOMAIN tx
-----------------------------------------------------------------------------
(* The block tree as the index holds it.                                    *)

IsParent(x, c) == c # Genesis /\ Prev[c] = x

IsInMainChain(b) == pnext[b] # None \/ b = pindexBest

\* Mutant: the links of the disconnected blocks stay.
RelinkedNoClear(next, from, to) ==
    LET connected == ChainOf(to) \ ChainOf(from)
    IN  [x \in Blocks |->
            IF \E c \in connected : IsParent(x, c) THEN CHOOSE c \in connected : IsParent(x, c)
            ELSE next[x]]

\* pprev->pnext of the blocks disconnected and connected on the way from one
\* tip to another.
Relinked(next, from, to) ==
    LET connected == ChainOf(to) \ ChainOf(from)
        disconnected == ChainOf(from) \ ChainOf(to)
    IN  [x \in Blocks |->
            IF \E c \in connected : IsParent(x, c) THEN CHOOSE c \in connected : IsParent(x, c)
            ELSE IF \E d \in disconnected : IsParent(x, d) THEN None
            ELSE next[x]]

\* The first block of the new chain with which it has more trust than the best.
IsIntermediate(b, new) ==
    /\ b \in ChainOf(new) \ {Genesis}
    /\ Trust[Prev[b]] <= Trust[pindexBest]
    /\ \A c \in ChainOf(new) : Height[c] > Height[b] => Trust[Prev[c]] > Trust[pindexBest]
-----------------------------------------------------------------------------
(* SetBestChain.                                                            *)

\* The operation under cs_main is over.
Idle == pc' = "idle" /\ task' = NoTask /\ batch' = NoBatch

\* What runs once SetBestChain has returned true, and with what block.
Return(caller, new) ==
    /\ pc' = IF caller = "block" THEN "accepted" ELSE "checkpoint"
    /\ task' = [NoTask EXCEPT !.new = new, !.caller = caller]
    /\ batch' = NoBatch

\* TxnBegin, for the blocks from base to goal.
BeginTxn(new, goal, base, later, caller, tx, next) ==
    /\ pc' = "switch"
    /\ task' = [new |-> new, goal |-> goal, at |-> base, base |-> base,
                later |-> later, caller |-> caller]
    /\ batch' = [tx |-> tx, next |-> next]

\* The call of SetBestChain(new).
SetBestChain(new, caller) ==
    \E goal \in Blocks :
        /\ IF new # Genesis /\ Prev[new] = pindexBest THEN goal = new ELSE IsIntermediate(goal, new)
        /\ BeginTxn(new, goal, pindexBest, FALSE, caller, dbTx, dbNext)

\* TxnAbort.  In the first transaction SetBestChain returns false.  Errors of
\* the transactions after it "are not fatal": the loop is left and pindexBest
\* becomes pindexNew all the same.
TxnAbort ==
    IF task.later
    THEN /\ pindexBest' = task.new
         /\ Return(task.caller, task.new)
         /\ UNCHANGED <<mapBlockIndex, pnext>>
    ELSE Idle /\ UNCHANGED memVars

\* Reorganize: the next block of the shorter branch.
DisconnectBlock ==
    /\ pc = "switch"
    /\ task.at \notin ChainOf(task.goal)
    /\ IF CanDisconnect(batch.tx, task.at)
       THEN /\ batch' = [tx |-> Disconnected(batch.tx, task.at),
                         next |-> [batch.next EXCEPT ![Prev[task.at]] = None]]
            /\ task' = [task EXCEPT !.at = Prev[task.at]]
            /\ UNCHANGED <<memVars, pc>>
       ELSE TxnAbort
    /\ UNCHANGED <<syncVars, dbVars, faults>>

\* Reorganize and SetBestChainInner: the next block of the longer branch.
ConnectBlock ==
    /\ pc = "switch"
    /\ \E b \in ChainOf(task.goal) :
        /\ IsParent(task.at, b)
        /\ IF CanConnect(batch.tx, b)
           THEN /\ batch' = [tx |-> Connected(batch.tx, b),
                             next |-> [batch.next EXCEPT ![b] = pnext[b], ![task.at] = b]]
                /\ task' = [task EXCEPT !.at = b]
                /\ UNCHANGED <<memVars, pc>>
           ELSE TxnAbort
    /\ UNCHANGED <<syncVars, dbVars, faults>>

\* Mutant: hashBestChain is not part of the transaction.
TxnCommitNoBest ==
    /\ pc = "switch"
    /\ task.at = task.goal
    /\ dbTx' = batch.tx
    /\ dbNext' = batch.next
    /\ pnext' = Relinked(pnext, task.base, task.goal)
    /\ IF task.goal = task.new
       THEN pindexBest' = task.new /\ Return(task.caller, task.new)
       ELSE /\ \E b \in ChainOf(task.new) :
                /\ IsParent(task.goal, b)
                /\ BeginTxn(task.new, b, task.goal, TRUE, task.caller, batch.tx, batch.next)
            /\ UNCHANGED pindexBest
    /\ UNCHANGED <<mapBlockIndex, syncVars, dbIndex, dbBest, dbSync, faults>>

\* WriteHashBestChain and TxnCommit, and then the index in memory.  The blocks
\* above goal are connected next, one transaction each.
TxnCommit ==
    /\ pc = "switch"
    /\ task.at = task.goal
    /\ dbTx' = batch.tx
    /\ dbNext' = batch.next
    /\ dbBest' = task.goal
    /\ pnext' = Relinked(pnext, task.base, task.goal)
    /\ IF task.goal = task.new
       THEN pindexBest' = task.new /\ Return(task.caller, task.new)
       ELSE /\ \E b \in ChainOf(task.new) :
                /\ IsParent(task.goal, b)
                /\ BeginTxn(task.new, b, task.goal, TRUE, task.caller, batch.tx, batch.next)
            /\ UNCHANGED pindexBest
    /\ UNCHANGED <<mapBlockIndex, syncVars, dbIndex, dbSync, faults>>

\* TxnCommit returns false: nothing is written and the batch is gone.
CommitFails ==
    /\ "commit" \in Faults /\ faults < MaxFaults
    /\ faults' = faults + 1
    /\ pc = "switch"
    /\ task.at = task.goal
    /\ TxnAbort
    /\ UNCHANGED <<syncVars, dbVars>>
-----------------------------------------------------------------------------
(* Synchronized checkpoints.                                                *)

\* Mutant: the branch is never walked.
CheckSyncHeightOnly(b) == Height[b] > Height[hashSyncCheckpoint]

\* Only a block above the checkpoint, on a branch that has the checkpoint.
\* Where both the checkpoint and the parent are in the main chain the branch
\* is not walked.
CheckSync(b) ==
    /\ Height[b] > Height[hashSyncCheckpoint]
    /\ \/ IsInMainChain(hashSyncCheckpoint) /\ IsInMainChain(Prev[b])
       \/ hashSyncCheckpoint \in ChainOf(Prev[b])

\* Mutant: any higher block will do.
ValidateSyncCheckpointHigher(c) == Height[c] > Height[hashSyncCheckpoint]

\* Only a descendant of the current checkpoint replaces it.
ValidateSyncCheckpoint(c) == hashSyncCheckpoint \in Ancestors[c]

\* A checkpoint that may be accepted first becomes part of the main chain.
EnterMainChain(c, caller) ==
    IF IsInMainChain(c) THEN Return(caller, c) ELSE SetBestChain(c, caller)

\* AcceptPendingSyncCheckpoint, the end of AcceptBlock.
AcceptPendingSyncCheckpoint ==
    /\ pc = "accepted"
    /\ IF hashPendingCheckpoint \notin mapBlockIndex
       THEN Idle /\ UNCHANGED hashPendingCheckpoint
       ELSE IF ValidateSyncCheckpoint(hashPendingCheckpoint)
            THEN EnterMainChain(hashPendingCheckpoint, "pending") /\ UNCHANGED hashPendingCheckpoint
            ELSE Idle /\ hashPendingCheckpoint' = None
    /\ UNCHANGED <<memVars, hashSyncCheckpoint, dbVars, faults>>

\* ProcessSyncCheckpoint: a signed checkpoint arrives.
ProcessSyncCheckpoint(c) ==
    /\ pc = "idle"
    /\ IF c \notin mapBlockIndex
       THEN hashPendingCheckpoint' = c /\ UNCHANGED <<pc, task, batch>>
       ELSE /\ ValidateSyncCheckpoint(c)
            /\ EnterMainChain(c, "message")
            /\ UNCHANGED hashPendingCheckpoint
    /\ UNCHANGED <<memVars, hashSyncCheckpoint, dbVars, faults>>

\* The end of both, with its own transaction.
WriteSyncCheckpoint ==
    /\ pc = "checkpoint"
    /\ dbSync' = task.new
    /\ hashSyncCheckpoint' = task.new
    /\ hashPendingCheckpoint' = None
    /\ Idle
    /\ UNCHANGED <<memVars, dbIndex, dbNext, dbTx, dbBest, faults>>

\* That transaction fails: the checkpoint is in the main chain and stays pending
\* if it was, and the old one is still the sync-checkpoint.
SyncCommitFails ==
    /\ "commit" \in Faults /\ faults < MaxFaults
    /\ faults' = faults + 1
    /\ pc = "checkpoint"
    /\ Idle
    /\ UNCHANGED <<memVars, syncVars, dbVars>>
-----------------------------------------------------------------------------
(* AcceptBlock, and the node's start.                                       *)

\* AcceptBlock and AddToBlockIndex, to the commit of the new index record.
AcceptBlock(b) ==
    /\ pc = "idle"
    /\ b \notin mapBlockIndex
    /\ Prev[b] \in mapBlockIndex
    /\ Mode = "STRICT" => CheckSync(b)
    /\ mapBlockIndex' = mapBlockIndex \cup {b}
    /\ dbIndex' = dbIndex \cup {b}
    /\ pc' = "indexed"
    /\ task' = [NoTask EXCEPT !.new = b, !.caller = "block"]
    /\ UNCHANGED <<pnext, pindexBest, syncVars, dbNext, dbTx, dbBest, dbSync, batch, faults>>

\* Mutant: the trust of the chains is not compared.
NewBestAlways ==
    /\ pc = "indexed"
    /\ SetBestChain(task.new, "block")
    /\ UNCHANGED <<memVars, syncVars, dbVars, faults>>

\* The rest of AddToBlockIndex: a chain with more trust becomes the best.
NewBest ==
    /\ pc = "indexed"
    /\ IF Trust[task.new] > Trust[pindexBest]
       THEN SetBestChain(task.new, "block")
       ELSE Return("block", task.new)
    /\ UNCHANGED <<memVars, syncVars, dbVars, faults>>

\* Mutant: the tip is recomputed from the index instead of read from disk.
CrashMostTrust ==
    /\ "crash" \in Faults /\ faults < MaxFaults
    /\ faults' = faults + 1
    /\ mapBlockIndex' = dbIndex
    /\ pnext' = dbNext
    /\ pindexBest' = CHOOSE b \in dbIndex : \A c \in dbIndex : Trust[c] <= Trust[b]
    /\ hashSyncCheckpoint' = dbSync
    /\ hashPendingCheckpoint' = None
    /\ Idle
    /\ UNCHANGED dbVars

\* The process dies and starts again: LoadBlockIndex reads the index back.
Crash ==
    /\ "crash" \in Faults /\ faults < MaxFaults
    /\ faults' = faults + 1
    /\ mapBlockIndex' = dbIndex
    /\ pnext' = dbNext
    /\ pindexBest' = dbBest
    /\ hashSyncCheckpoint' = dbSync
    /\ hashPendingCheckpoint' = None
    /\ Idle
    /\ UNCHANGED dbVars
-----------------------------------------------------------------------------
\* A node whose data directory holds the genesis block.
Init ==
    /\ mapBlockIndex = {Genesis} /\ dbIndex = {Genesis}
    /\ pnext = [b \in Blocks |-> None] /\ dbNext = [b \in Blocks |-> None]
    /\ pindexBest = Genesis /\ dbBest = Genesis
    /\ dbTx = [t \in Vtx[Genesis] |-> [pos |-> Genesis, spent |-> None]]
    /\ hashSyncCheckpoint = Genesis /\ dbSync = Genesis
    /\ hashPendingCheckpoint = None
    /\ pc = "idle" /\ task = NoTask /\ batch = NoBatch
    /\ faults = 0

Next ==
    \/ \E b \in Blocks \ {Genesis} : AcceptBlock(b)
    \/ NewBest
    \/ DisconnectBlock
    \/ ConnectBlock
    \/ TxnCommit
    \/ CommitFails
    \/ AcceptPendingSyncCheckpoint
    \/ \E c \in Signed : ProcessSyncCheckpoint(c)
    \/ WriteSyncCheckpoint
    \/ SyncCommitFails
    \/ Crash

Spec == Init /\ [][Next]_vars

\* A transaction for a postponed block fails, and pindexBest becomes pindexNew
\* although the chain on disk ends below it.
LateAbort == task.later /\ pindexBest' = task.new /\ dbBest' # task.new

\* The behaviours in which that does not happen.
NoLateAbort == Init /\ [][Next /\ ~LateAbort]_vars
-----------------------------------------------------------------------------
(* Properties.                                                              *)

IsIndex(tx) == DOMAIN tx \subseteq Txs /\ tx \in [DOMAIN tx -> Entry]
Links == [Blocks -> Blocks \cup {None}]

TaskType == [new : Blocks, goal : Blocks, at : Blocks, base : Blocks, later : BOOLEAN,
             caller : {"block", "pending", "message"}]

\* The index on disk is the one in memory, and the tip, the sync-checkpoint and
\* what SetBestChain works on are indexed blocks.
TypeOK ==
    /\ mapBlockIndex \subseteq Blocks /\ dbIndex = mapBlockIndex
    /\ \A b \in mapBlockIndex : ChainOf(b) \subseteq mapBlockIndex
    /\ pnext \in Links /\ dbNext \in Links
    /\ pindexBest \in mapBlockIndex /\ dbBest \in mapBlockIndex
    /\ IsIndex(dbTx)
    /\ hashSyncCheckpoint \in mapBlockIndex /\ dbSync = hashSyncCheckpoint
    /\ hashPendingCheckpoint \in Signed \cup {None}
    /\ pc \in {"idle", "indexed", "switch", "accepted", "checkpoint"}
    /\ pc = "switch" =>
          /\ task \in TaskType /\ task.new \in mapBlockIndex
          /\ task.goal \in ChainOf(task.new)
          /\ IsIndex(batch.tx) /\ batch.next \in Links
    /\ pc \in {"indexed", "accepted", "checkpoint"} => task.new \in mapBlockIndex
    /\ pc = "idle" => task = NoTask
    /\ pc # "switch" => batch = NoBatch
    /\ faults \in 0..MaxFaults

\* The transactions of the chain that ends in b are what the index tx holds:
\* each is in one block of it, where the index says, and an output is marked as
\* spent by the one transaction, of a later block, that spends it.
Matches(tx, b) ==
    /\ DOMAIN tx = UNION {Vtx[a] : a \in ChainOf(b)}
    /\ \A t \in DOMAIN tx : \A a \in ChainOf(b) : t \in Vtx[a] <=> a = tx[t].pos
    /\ \A u \in DOMAIN tx : \A t \in Vin[u] :
          t \in DOMAIN tx /\ tx[t].spent = u /\ Height[tx[t].pos] < Height[tx[u].pos]
    /\ \A t \in DOMAIN tx : tx[t].spent = None \/ (tx[t].spent \in DOMAIN tx /\ t \in Vin[tx[t].spent])

\* next leads up the chain that ends in b, and from nowhere else.
Follows(next, b) ==
    \A x \in Blocks : \A c \in Blocks :
        next[x] = c <=> c \in ChainOf(b) /\ IsParent(x, c)

\* Whatever was connected, disconnected, aborted or lost in a crash, the
\* transaction index on disk is that of the chain that ends in hashBestChain
\* on disk: no output of the chain is spent twice, none that it spends is
\* missing, and nothing of an abandoned branch is left.
TxIndexMatches == Matches(dbTx, dbBest)

\* pnext in memory and hashNext on disk both describe that chain.
NextMatches == Follows(dbNext, dbBest) /\ Follows(pnext, dbBest)

\* When no operation is under way the tip in memory is the tip on disk, so
\* what the node builds on is what it would find after a restart.
BestCommitted == pc \in {"idle", "indexed"} => pindexBest = dbBest

\* A chain that spends no output twice, and only outputs of its own.
Valid(b) ==
    /\ \A a \in ChainOf(b) : \A i \in Spends(a) : \E c \in Ancestors[a] : i \in Vtx[c]
    /\ \A a, c \in ChainOf(b) : \A t \in Vtx[a], u \in Vtx[c] :
          <<a, t>> # <<c, u>> => t # u /\ Vin[t] \cap Vin[u] = {}

\* As long as no checkpoint has interfered and nothing has failed, no valid chain
\* the node knows of has more trust than the one it is on.
MostTrust ==
    pc = "idle" /\ hashSyncCheckpoint = Genesis /\ hashPendingCheckpoint = None /\ faults = 0
    => /\ Valid(pindexBest)
       /\ \A b \in mapBlockIndex : Valid(b) => Trust[b] <= Trust[pindexBest]

\* In STRICT mode the main chain has the sync-checkpoint, before and after every
\* operation and every restart.
SyncInMainChain ==
    pc \in {"idle", "indexed"} /\ Mode = "STRICT" => hashSyncCheckpoint \in ChainOf(pindexBest)

\* A sync-checkpoint is replaced by a descendant only, restarts included.
SyncAdvances == [][(hashSyncCheckpoint \in ChainOf(hashSyncCheckpoint'))]_vars

\* The tip loses trust only to a checkpoint that enters the main chain; neither
\* a crash nor a failed commit is an exception.
TrustFallsToCheckpoint ==
    [][Trust[pindexBest'] < Trust[pindexBest] => task.caller \in {"pending", "message"}]_vars
=============================================================================
