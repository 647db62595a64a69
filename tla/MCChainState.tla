---------------------------- MODULE MCChainState -----------------------------
(* Small instances of ChainState: a branch a1 - a2 - a3, a branch            *)
(* b1 - b2 - b3 - b4 from the genesis block g, and a branch c2 - c3 - c4     *)
(* from a1.                                                                  *)
EXTENDS ChainState

Parent == [a1 |-> "g", a2 |-> "a1", a3 |-> "a2",
           b1 |-> "g", b2 |-> "b1", b3 |-> "b2", b4 |-> "b3",
           c2 |-> "a1", c3 |-> "c2", c4 |-> "c3"]
HeightOf == [g |-> 0, a1 |-> 1, a2 |-> 2, a3 |-> 3, b1 |-> 1, b2 |-> 2, b3 |-> 3, b4 |-> 4,
             c2 |-> 2, c3 |-> 3, c4 |-> 4]
Pick(f, S) == [b \in S |-> f[b]]
MCPrev == Pick(Parent, Blocks \ {"g"})
MCHeight == Pick(HeightOf, Blocks)
MCAncestors == LET anc[b \in Blocks] == IF b = "g" THEN {} ELSE {MCPrev[b]} \cup anc[MCPrev[b]]
               IN anc

\* Coinbases c0 of the genesis block and k1 of the blocks of height 1; x and y
\* spend c0, z spends k1.
MCTxs == {"c0", "k1", "x", "y", "z"}
MCVin == [t \in MCTxs |-> IF t \in {"x", "y"} THEN {"c0"} ELSE IF t = "z" THEN {"k1"} ELSE {}]

\* Every block can be connected; x and z are in all three branches.
ValidTxs == [g |-> {"c0"}, a1 |-> {"k1", "x"}, a2 |-> {"z"}, a3 |-> {},
             b1 |-> {"k1"}, b2 |-> {"x", "z"}, b3 |-> {}, b4 |-> {},
             c2 |-> {}, c3 |-> {"z"}, c4 |-> {}]
\* b3 spends c0, which b2 has spent; c4 has a transaction that c3 has.
DoubleSpend == [ValidTxs EXCEPT !.b3 = {"y"}, !.c4 = {"z"}]
MCDoubleSpend == Pick(DoubleSpend, Blocks)

\* Trust by height; and a block a1 that outweighs the second branch.
MCTrust == MCHeight
Outweighs == [HeightOf EXCEPT !.a1 = 5, !.a2 = 6, !.a3 = 7, !.c2 = 6, !.c3 = 7, !.c4 = 8]
MCOutweighs == Pick(Outweighs, Blocks)
=============================================================================
