------------------------------ MODULE MCMempool ------------------------------
(* Small instances of Mempool: a branch a1 - a2, and two longer ones from    *)
(* the genesis block g, b1 - b2 - b3 and from b1 also d2 - d3 - d4.          *)
EXTENDS Mempool

Parent == [a1 |-> "g", a2 |-> "a1", b1 |-> "g", b2 |-> "b1", b3 |-> "b2",
           d2 |-> "b1", d3 |-> "d2", d4 |-> "d3"]
HeightOf == [g |-> 0, a1 |-> 1, a2 |-> 2, b1 |-> 1, b2 |-> 2, b3 |-> 3, d2 |-> 2, d3 |-> 3, d4 |-> 4]
MCPrev == [b \in Blocks \ {"g"} |-> Parent[b]]
MCHeight == [b \in Blocks |-> HeightOf[b]]
MCAncestors == LET anc[b \in Blocks] == IF b = "g" THEN {} ELSE {MCPrev[b]} \cup anc[MCPrev[b]]
               IN anc

\* c and e are coinbases of the genesis block, k of a1.  x and y spend c; z spends
\* x, and w both z and e; v spends k.  u spends x with a wrong signature,
\* and l, which also spends x, is large.
MCTxs == {"c", "e", "k", "x", "y", "z", "w", "v", "u", "l"}
Inputs == [c |-> {}, e |-> {}, k |-> {}, x |-> {"c"}, y |-> {"c"}, z |-> {"x"},
           w |-> {"z", "e"}, v |-> {"k"}, u |-> {"x"}, l |-> {"x"}]
MCVin == [t \in MCTxs |-> Inputs[t]]
Contents == [g |-> <<"c", "e">>, a1 |-> <<"k", "x">>, a2 |-> <<"z">>,
             b1 |-> <<>>, b2 |-> <<"x">>, b3 |-> <<>>,
             d2 |-> <<>>, d3 |-> <<>>, d4 |-> <<"y">>]
MCVtx == [b \in Blocks |-> Contents[b]]
MCLock == [t \in MCTxs |-> IF t = "w" THEN 1 ELSE 0]
=============================================================================
