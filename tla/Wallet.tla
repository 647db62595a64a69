------------------------------- MODULE Wallet --------------------------------
(***************************************************************************)
(* What a wallet (CWallet) knows of the chain: its transactions, the blocks *)
(* it takes them to be in, and the outputs it takes to be spent.            *)
(*                                                                          *)
(* A transaction has one output, which is named by it.  SetBestChain holds  *)
(* cs_main throughout and cs_wallet only within its calls of the wallet,    *)
(* which ConnectBlock and DisconnectBlock make before the database          *)
(* transaction they belong to is committed.  FixSpentCoins holds cs_wallet  *)
(* alone when the user interface calls it, so that it may run in between.   *)
(* All else is done under both locks and is one step.  A reorganization is  *)
(* one database transaction; blocks that SetBestChain postpones are         *)
(* connected by further steps.                                              *)
(***************************************************************************)
EXTENDS BlockTree, SequencesExt

CONSTANTS
    Txs,
    Vin,                \* the outputs a transaction spends
    Vtx,                \* CBlock::vtx
    Trust,              \* CBlockIndex::nChainTrust
    Mine,               \* pay to a key of the wallet
    Own,                \* may be made by the user of the wallet
    Coinbases,
    Stakes,             \* coinstakes
    Bad,                \* blocks that ConnectBlock refuses
    TxnFails,           \* whether TxnCommit may fail
    HashOrder,          \* mapWallet's order of the transactions
    None

\* What the blocks and the transactions are.
WalletAssumption ==
    /\ Vin \in [Txs -> SUBSET Txs]
    /\ Vtx \in [Blocks -> Seq(Txs)]
    /\ Trust \in [Blocks -> Nat]
    /\ Mine \cup Own \cup Coinbases \cup Stakes \subseteq Txs
    /\ TxnFails \in BOOLEAN
    /\ ToSet(HashOrder) = Txs
    /\ None \notin Blocks

VARIABLES
    best,               \* pindexBest
    under,              \* the SetBestChain under way, or None
    pool,               \* the memory pool
    wallet,             \* mapWallet, its members' hashBlock, vtxPrev and vfSpent
    flaws               \* what an abandoned connection, or a repair in the middle
                        \* of one, may have left wrong

wvars == <<best, under, pool, wallet, flaws>>

Generated == Coinbases \cup Stakes

\* What the index has when b is the best block.
TxIndex == [b \in Blocks |-> UNION {ToSet(Vtx[a]) : a \in ChainOf(b)}]
Spent == [b \in Blocks |-> UNION {Vin[t] : t \in TxIndex[b]}]
ContainsTx(t, b) == t \in TxIndex[b]
IsSpent(t, b) == t \in Spent[b]
-----------------------------------------------------------------------------
(* CWallet, on a wallet w.                                                  *)

\* The outputs of the wallet that t spends.
Debits(w, t) == Vin[t] \cap w.mapWallet \cap Mine
IsFromMe(w, t) == Debits(w, t) # {}

\* What t spends is marked, and with a block t's own outputs are unmarked.
WalletUpdateSpent(w, t, fBlock) ==
    [w EXCEPT !.vfSpent = (@ \cup Debits(w, t)) \ (IF fBlock THEN {t} ELSE {})]

AddToWallet(w, t, block) ==
    WalletUpdateSpent(
        [w EXCEPT !.mapWallet = @ \cup {t},
                  !.hashBlock[t] = IF block = None THEN @ ELSE block],
        t, block # None)

\* Mutant: only what pays to the wallet.
AddToWalletIfPayingMe(w, t, block, fUpdate) ==
    IF t \in w.mapWallet /\ ~fUpdate THEN w
    ELSE IF t \in w.mapWallet \cup Mine THEN AddToWallet(w, t, block)
    ELSE WalletUpdateSpent(w, t, FALSE)

AddToWalletIfInvolvingMe(w, t, block, fUpdate) ==
    IF t \in w.mapWallet /\ ~fUpdate THEN w
    ELSE IF t \in w.mapWallet \cup Mine \/ IsFromMe(w, t) THEN AddToWallet(w, t, block)
    ELSE WalletUpdateSpent(w, t, FALSE)

\* Mutant: nothing is given back.
DisableNothing(w, t) == w

\* A coinstake that is disconnected gives its inputs back.
DisableTransaction(w, t) ==
    IF t \in Stakes THEN [w EXCEPT !.vfSpent = @ \ Debits(w, t)] ELSE w

\* SyncWithWallets, for the transactions of a block.
Connected(w, b) == FoldLeft(LAMBDA v, t : AddToWalletIfInvolvingMe(v, t, b, TRUE), w, Vtx[b])
Disconnected(w, b) == FoldLeft(DisableTransaction, w, Vtx[b])

\* ScanForWalletTransactions, from the genesis block.
Upwards(S) == CHOOSE s \in Listings(S, Height) : TRUE
Scanned(w, fUpdate, tip) ==
    FoldLeft(LAMBDA v, b : FoldLeft(LAMBDA x, t : AddToWalletIfInvolvingMe(x, t, b, fUpdate), v, Vtx[b]),
             w, Upwards(ChainOf(tip)))
-----------------------------------------------------------------------------
(* The pool, with the wallet it tells of what it accepts: p has both.       *)

Accepts(p, t, tip) ==
    /\ t \notin Generated \cup p.pool
    /\ ~ContainsTx(t, tip)
    /\ \A i \in Vin[t] :
          /\ i \in p.pool \/ ContainsTx(i, tip)
          /\ ~IsSpent(i, tip)
          /\ \A u \in p.pool : i \notin Vin[u]

AcceptToMemoryPool(p, t, tip) ==
    IF Accepts(p, t, tip)
    THEN [pool |-> p.pool \cup {t}, wallet |-> AddToWalletIfInvolvingMe(p.wallet, t, None, TRUE)]
    ELSE p

InHashOrder(S) == SelectSeq(HashOrder, LAMBDA t : t \in S)

\* Supporting transactions go first.
AcceptWalletTransaction(p, t, tip) ==
    AcceptToMemoryPool(
        FoldLeft(LAMBDA q, i : AcceptToMemoryPool(q, i, tip), p, InHashOrder(DOMAIN p.wallet.vtxPrev[t])),
        t, tip)

\* The transactions of the wallet that are in no block go to the pool.
Resent(p, tip) ==
    FoldLeft(LAMBDA q, t : AcceptWalletTransaction(q, t, tip), p,
             InHashOrder({t \in p.wallet.mapWallet \ Generated : ~ContainsTx(t, tip)}))

Again(p, again) == [pool |-> p.pool, wallet |-> p.wallet, fRepeat |-> again]

\* Mutant: the index is not looked at.
ReacceptPassPoolOnly(p, tip) == Again(Resent(p, tip), FALSE)

\* One round of ReacceptWalletTransactions: an output the index has as spent is
\* marked, what is in no block goes to the pool, and if a spend was not known the
\* chain is scanned for it, and another round follows if that finds something.
ReacceptPass(p, tip) ==
    LET missing == {t \in p.wallet.mapWallet \cap Mine : IsSpent(t, tip)} \ p.wallet.vfSpent
        resent == Resent([p EXCEPT !.wallet.vfSpent = @ \cup missing], tip)
        scanned == Scanned(resent.wallet, FALSE, tip)
    IN  IF missing = {} THEN Again(resent, FALSE)
        ELSE Again([resent EXCEPT !.wallet = scanned], scanned.mapWallet # resent.wallet.mapWallet)

\* The second scan finds nothing that the first has not.
Reaccepted(p, tip) ==
    LET q == ReacceptPass(p, tip) IN IF q.fRepeat THEN ReacceptPass(q, tip) ELSE q
-----------------------------------------------------------------------------
(* SetBestChain.                                                            *)

Flaws == {"offered", "withheld", "unconfirmed"}

\* SetBestChain begins: the goal is on top of the best block, or has more trust than
\* it.  Blocks are disconnected from the best one down and others connected.
SetBestChain(goal) ==
    /\ under = None
    /\ goal # Genesis
    /\ \/ Prev[goal] = best /\ goal \notin Bad
       \/ /\ Prev[goal] # best
          /\ Trust[goal] > Trust[best] /\ Trust[Prev[goal]] <= Trust[best]
    /\ under' = [goal |-> goal,
                  todo |-> Reverse(Upwards(ChainOf(best) \ ChainOf(goal)))
                               \o Upwards(ChainOf(goal) \ ChainOf(best)),
                  committed |-> FALSE]
    /\ UNCHANGED <<best, pool, wallet, flaws>>

\* The next block, whose transactions SyncWithWallets tells the wallet of.
SyncBlock ==
    /\ under # None
    /\ under.todo # <<>>
    /\ LET b == Head(under.todo)
       IN  \/ b \in ChainOf(best) /\ wallet' = Disconnected(wallet, b)
           \/ b \notin ChainOf(best) \cup Bad /\ wallet' = Connected(wallet, b)
    /\ under' = [under EXCEPT !.todo = Tail(@)]
    /\ UNCHANGED <<best, pool, flaws>>

\* A block is refused, or the commit fails: the wallet keeps what it was told.
TxnAbort ==
    /\ under # None
    /\ ~under.committed
    /\ \/ under.todo = <<>> /\ TxnFails
       \/ under.todo # <<>> /\ Head(under.todo) \in Bad \ ChainOf(best)
    /\ under' = None
    /\ flaws' = Flaws
    /\ UNCHANGED <<best, pool, wallet>>

TxnCommit ==
    /\ under # None
    /\ under.todo = <<>> /\ ~under.committed
    /\ under' = [under EXCEPT !.committed = TRUE]
    /\ UNCHANGED <<best, pool, wallet, flaws>>

\* What is disconnected goes to the pool, what is connected leaves it, and the goal
\* is the best block.
NewBest ==
    /\ under # None
    /\ under.committed
    /\ LET old == Upwards(ChainOf(best) \ ChainOf(under.goal))
           new == ChainOf(under.goal) \ ChainOf(best)
           resurrected ==
               FoldLeft(LAMBDA p, t : AcceptToMemoryPool(p, t, under.goal),
                        [pool |-> pool, wallet |-> wallet],
                        FlattenSeq([i \in DOMAIN old |-> Vtx[old[i]]]))
       IN  /\ pool' = resurrected.pool \ UNION {ToSet(Vtx[b]) : b \in new}
           /\ wallet' = resurrected.wallet
    /\ best' = under.goal
    /\ under' = None
    /\ UNCHANGED flaws
-----------------------------------------------------------------------------
(* The user, peers and repairs.                                             *)

\* A transaction of somebody else is received.
Receive(t) ==
    /\ under = None
    /\ t \notin Own
    /\ Accepts([pool |-> pool, wallet |-> wallet], t, best)
    /\ LET p == AcceptToMemoryPool([pool |-> pool, wallet |-> wallet], t, best)
       IN  pool' = p.pool /\ wallet' = p.wallet
    /\ UNCHANGED <<best, under, flaws>>

InMainChain(t) == wallet.hashBlock[t] \in ChainOf(best)

\* The transactions t descends from, up to one in the chain, each with its block.
AddSupportingTransactions(t) ==
    LET unconfirmed == {i \in Vin[t] : ~ContainsTx(i, best)}
        vtxPrev == Vin[t] \cup UNION {DOMAIN wallet.vtxPrev[i] : i \in unconfirmed}
    IN  [i \in vtxPrev |-> IF ContainsTx(i, best)
                           THEN CHOOSE b \in ChainOf(best) : i \in ToSet(Vtx[b]) ELSE None]

\* An unconfirmed transaction is trusted if it is from the wallet and if all it was
\* made with are in the chain or are unconfirmed and from the wallet.
IsTrusted(t) ==
    LET vtxPrev == wallet.vtxPrev[t]
    IN  \/ InMainChain(t)
        \/ /\ t \in pool
           /\ IsFromMe(wallet, t)
           /\ Vin[t] \subseteq DOMAIN vtxPrev
           /\ \A i \in DOMAIN vtxPrev :
                 vtxPrev[i] \in ChainOf(best) \/ (i \in pool /\ IsFromMe(wallet, i))

\* Mutant: unconfirmed coins are taken whatever they depend on.
AvailableCoinsUntrusted == (wallet.mapWallet \cap Mine) \ wallet.vfSpent

AvailableCoins == {t \in wallet.mapWallet \cap Mine : IsTrusted(t) /\ t \notin wallet.vfSpent}

\* CreateTransaction and CommitTransaction, whose callers hold both locks.
Send(t) ==
    /\ under = None
    /\ t \in Own \ wallet.mapWallet
    /\ Vin[t] \subseteq AvailableCoins
    /\ LET w == AddToWallet([wallet EXCEPT !.vtxPrev[t] = AddSupportingTransactions(t)], t, None)
           p == [pool |-> pool, wallet |-> [w EXCEPT !.vfSpent = @ \cup Vin[t]]]
           q == AcceptToMemoryPool(p, t, best)
       IN  pool' = q.pool /\ wallet' = q.wallet
    /\ UNCHANGED <<best, under, flaws>>

\* The block the index has as the best one.
IndexTip == IF under # None /\ under.committed THEN under.goal ELSE best

\* The process ends, at any point, and is started again with what the index and
\* wallet.dat have, with or without -rescan.
Restart ==
    \E rescan \in BOOLEAN :
        /\ LET w == IF rescan THEN Scanned(wallet, TRUE, IndexTip) ELSE wallet
               p == Reaccepted([pool |-> {}, wallet |-> w], IndexTip)
           IN  pool' = p.pool /\ wallet' = p.wallet
        /\ flaws' = (IF under # None /\ ~under.committed THEN Flaws ELSE flaws)
                       \ ({"offered"} \cup IF rescan THEN {"unconfirmed"} ELSE {})
        /\ best' = IndexTip
        /\ under' = None

\* FixSpentCoins: what the index knows is put right, and a generated transaction
\* that is not in the chain is forgotten; chain has the blocks with a pnext, and
\* pindexBest.
Repaired(w, tip, chain) ==
    LET known == {t \in w.mapWallet \cap Mine : ContainsTx(t, tip) \/ t \in Generated}
        orphaned == {t \in w.mapWallet \cap Generated : w.hashBlock[t] \notin chain}
    IN  [w EXCEPT !.mapWallet = @ \ orphaned,
                  !.hashBlock = [t \in Txs |-> IF t \in orphaned THEN None ELSE @[t]],
                  !.vfSpent = ((@ \ known) \cup {t \in known : IsSpent(t, tip)}) \ orphaned]

FixSpentCoins ==
    /\ under = None
    /\ wallet' = Repaired(wallet, best, ChainOf(best))
    /\ flaws' = flaws \ {"offered", "withheld"}
    /\ UNCHANGED <<best, under, pool>>

\* The user interface calls it without cs_main, in the middle of SetBestChain: before
\* the commit, after it, or when pnext has been set and pindexBest has not.
RepairMeanwhile ==
    /\ under # None
    /\ \/ wallet' = Repaired(wallet, IndexTip, ChainOf(best))
       \/ /\ under.committed
          /\ wallet' = Repaired(wallet, IndexTip, ChainOf(Prev[under.goal]) \cup {best})
    /\ flaws' = Flaws
    /\ UNCHANGED <<best, under, pool>>
-----------------------------------------------------------------------------
Init ==
    /\ best = Genesis
    /\ under = None
    /\ pool = {}
    /\ wallet = [mapWallet |-> ToSet(Vtx[Genesis]) \cap Mine,
                 hashBlock |-> [t \in Txs |-> IF t \in ToSet(Vtx[Genesis]) \cap Mine THEN Genesis ELSE None],
                 vtxPrev |-> [t \in Txs |-> [i \in {} |-> None]],
                 vfSpent |-> {}]
    /\ flaws = {}

Next ==
    \/ \E b \in Blocks : SetBestChain(b)
    \/ SyncBlock
    \/ TxnAbort
    \/ TxnCommit
    \/ NewBest
    \/ \E t \in Txs : Receive(t)
    \/ \E t \in Txs : Send(t)
    \/ Restart
    \/ FixSpentCoins
    \/ RepairMeanwhile

Spec == Init /\ [][Next]_wvars
-----------------------------------------------------------------------------
(* Properties.                                                              *)

\* No output the chain has spent is offered for spending, through every sequence
\* of connections, reorganizations, crashes and rescans.  An abandoned reorganization
\* may offer a stake again, and so may FixSpentCoins in the middle of a connection,
\* when it unmarks what the index does not have as spent yet; the next start, or the
\* next FixSpentCoins, puts that right.
ChainSpendsMarked ==
    under = None /\ "offered" \notin flaws =>
        \A c \in wallet.mapWallet \cap Mine : IsSpent(c, best) => c \in wallet.vfSpent

\* "wallets need to refund inputs when disconnecting coinstake" (SyncWithWallets):
\* an output is withheld only for a transaction that still spends it, be it in the
\* chain or an ordinary one of the wallet.  (FixSpentCoins in the middle of a
\* reorganization marks again what the disconnected stake gave back.)
StakesRefunded ==
    under = None /\ "withheld" \notin flaws =>
        \A c \in wallet.vfSpent : \E t \in Txs :
            /\ c \in Vin[t]
            /\ ContainsTx(t, best) \/ (t \in wallet.mapWallet \ Stakes)

\* "make sure all wallets know about the given transaction" (SyncWithWallets): the
\* wallet has every transaction of the chain that pays to it or spends from it, and
\* takes it to be confirmed, in whatever block a reorganization has moved it to.
\* (FixSpentCoins forgets a coinstake of the chain if an abandoned reorganization
\* has left it with another block, and one of a block that is being connected, whose
\* block is not pindexBest yet; a rescan brings it back.)
Recorded ==
    under = None /\ "unconfirmed" \notin flaws => \A b \in ChainOf(best) : \A t \in ToSet(Vtx[b]) :
        t \in Mine \/ IsFromMe(wallet, t) => t \in wallet.mapWallet /\ InMainChain(t)

\* "This must not fail. The transaction has already been signed and recorded."
\* (CommitTransaction): the pool takes a transaction made of the coins offered, for
\* they are in the chain or the pool and nothing in the chain spends them.  It may
\* refuse one if another payment of the wallet waits in the pool: when its parent is
\* confirmed before it, or by FixSpentCoins, the coin it spends is offered again.
CommitAccepted ==
    under = None /\ flaws \cap {"offered", "unconfirmed"} = {} =>
        \A t \in Own \ wallet.mapWallet : Vin[t] \subseteq AvailableCoins =>
            \/ Accepts([pool |-> pool, wallet |-> wallet], t, best)
            \/ \E u \in pool \cap wallet.mapWallet : Vin[u] \cap Vin[t] # {}
=============================================================================
