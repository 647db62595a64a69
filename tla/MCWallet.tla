------------------------------ MODULE MCWallet -------------------------------
(* Instances of Wallet: a1 - a2 and b1 - b2 - b3 from the shared block g,   *)
(* b1 - d2, of more trust, and b2 - z3, which may be refused.  The wallet's *)
(* transactions and its key pool share no state, and a behaviour is one of  *)
(* the former or one of the latter.                                         *)
EXTENDS KeyPool, TLC
CONSTANTS Blocks, Genesis, Prev, Height, Ancestors, Txs, Vin, Vtx, Trust, Mine, Own, Coinbases, Stakes,
    Bad, TxnFails, HashOrder, None
VARIABLES part, best, under, pool, wallet, flaws

W == INSTANCE Wallet
ASSUME MCWalletAssumption == W!WalletAssumption
coins == <<best, under, pool, wallet, flaws>>

Parent == [a1 |-> "g", a2 |-> "a1", b1 |-> "g", b2 |-> "b1", b3 |-> "b2", d2 |-> "b1", z3 |-> "b2"]
HeightOf == [g |-> 0, a1 |-> 1, a2 |-> 2, b1 |-> 1, b2 |-> 2, b3 |-> 3, d2 |-> 2, z3 |-> 3]
MCPrev == [b \in Blocks \ {"g"} |-> Parent[b]]
MCHeight == [b \in Blocks |-> HeightOf[b]]
MCTrust == [b \in Blocks |-> IF b = "d2" THEN 3 ELSE HeightOf[b]]
MCAncestors == LET anc[b \in Blocks] == IF b = "g" THEN {} ELSE {MCPrev[b]} \cup anc[MCPrev[b]]
               IN anc

\* g stands for what all branches share, with the coins c and e of the wallet and f of
\* another.  s stakes c.  x is a payment from the wallet; y and y2 spend its change, y2
\* also s.  i comes from outside and o, which a copy of the wallet has made, spends it.
MCTxs == {"c", "e", "f", "s", "x", "y", "y2", "i", "o"}
MCVin == [c |-> {}, e |-> {}, f |-> {}, s |-> {"c"}, x |-> {"e"}, y |-> {"x"}, y2 |-> {"x", "s"},
          i |-> {"f"}, o |-> {"i"}]
Contents == [g |-> <<"c", "e", "f">>, a1 |-> <<"s">>, a2 |-> <<"i", "o">>,
             b1 |-> <<"i">>, b2 |-> <<"s", "x">>, b3 |-> <<"y", "o">>, d2 |-> <<"x">>, z3 |-> <<"x">>]
MCVtx == [b \in Blocks |-> Contents[b]]
MCHashOrder == <<"y", "o", "x", "s", "i", "c", "e", "f", "y2">>
MCSymmetry == Permutations(Clients)

WalletsInit == part \in {"coins", "keys"} /\ W!Init /\ KeyPoolInit
WalletsNext ==
    \/ part = "coins" /\ W!Next /\ UNCHANGED <<part, kvars>>
    \/ part = "keys" /\ KeyPoolNext /\ UNCHANGED <<part, coins>>
WalletsSpec == WalletsInit /\ [][WalletsNext]_<<part, coins, kvars>>

\* Wallet!ChainSpendsMarked: no output the chain has spent is offered, through every
\* sequence of connections, reorganizations and rescans.
ChainSpendsMarked == W!ChainSpendsMarked

\* Wallet!StakesRefunded: a coinstake that SyncWithWallets disconnects gives its
\* inputs back.
StakesRefunded == W!StakesRefunded

\* Wallet!Recorded: the wallet has every transaction of the chain that involves it,
\* in the block it is in.
Recorded == W!Recorded

\* Wallet!CommitAccepted: the pool takes what CommitTransaction has recorded, unless
\* another payment of the wallet waits there.
CommitAccepted == W!CommitAccepted
=============================================================================
