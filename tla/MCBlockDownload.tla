--------------------------- MODULE MCBlockDownload ---------------------------
(* Small instances of BlockDownload: a main chain a1 - a2 - a3 and a fork    *)
(* b1 - b2 from the genesis block g, which is shorter and has more trust.    *)
(* Timeouts keep the code's order:                                           *)
(* BLOCK_STALL < BLOCK_DOWNLOAD < SYNC_PEER_STALL.                           *)
EXTENDS BlockDownload

MCParent == [a1 |-> "g", a2 |-> "a1", a3 |-> "a2", b1 |-> "g", b2 |-> "b1"]
MCHeightOf == [g |-> 0, a1 |-> 1, a2 |-> 2, a3 |-> 3, b1 |-> 1, b2 |-> 2]
MCTrustOf == [g |-> 0, a1 |-> 1, a2 |-> 2, a3 |-> 3, b1 |-> 4, b2 |-> 5]
MCOrder == [g |-> 0, a1 |-> 4, a2 |-> 2, a3 |-> 5, b1 |-> 3, b2 |-> 1]
Pick(f, S) == [b \in S |-> f[b]]

ChainBlocks == {"g", "a1", "a2", "a3"}
ForkBlocks == {"g", "a1", "a2", "a3", "b1"}
MCPrev == Pick(MCParent, Blocks \ {"g"})
MCTrust == Pick(MCTrustOf, Blocks)
MCHeight == Pick(MCHeightOf, Blocks)
MCHashOrder == Pick(MCOrder, Blocks)
MCAncestors == LET anc[b \in Blocks] == IF b = "g" THEN {} ELSE {MCPrev[b]} \cup anc[MCPrev[b]]
               IN anc

ForkChains == [p \in Peers |-> IF p = 1 THEN {"g", "a1", "a2", "a3"} ELSE {"g", "b1", "b2"} \cap Blocks]
SameChain == [p \in Peers |-> Blocks]
=============================================================================
