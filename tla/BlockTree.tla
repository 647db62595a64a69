------------------------------ MODULE BlockTree ------------------------------
(***************************************************************************)
(* The blocks a node may ever meet, as the tree the block index            *)
(* (mapBlockIndex, CBlockIndex::pprev) arranges them in.  A block stands    *)
(* for its hash; hashes do not collide.  The tree is a constant: what a     *)
(* node knows of it is the state of the modules that extend this one.       *)
(*                                                                          *)
(* Ancestors is a constant with a defining equation, and not a recursive    *)
(* definition, so that proofs may use the equation; the model-checking      *)
(* modules give it the recursive definition.                                *)
(***************************************************************************)
EXTENDS Integers, FiniteSets

CONSTANTS Blocks,      \* the hashes of all blocks
          Genesis,     \* hashGenesisBlock
          Prev,        \* CBlock::hashPrevBlock, for every block but Genesis
          Height,      \* CBlockIndex::nHeight
          Ancestors    \* the blocks reached through pprev, the block excluded

ASSUME TreeAssumption ==
    /\ IsFiniteSet(Blocks)
    /\ Genesis \in Blocks
    /\ Prev \in [Blocks \ {Genesis} -> Blocks]
    /\ Height \in [Blocks -> Nat]
    /\ Height[Genesis] = 0
    /\ \A b \in Blocks \ {Genesis} : Height[b] = Height[Prev[b]] + 1
    /\ Ancestors \in [Blocks -> SUBSET Blocks]
    /\ Ancestors[Genesis] = {}
    /\ \A b \in Blocks \ {Genesis} : Ancestors[b] = {Prev[b]} \cup Ancestors[Prev[b]]

\* The chain that ends in b: b and every block below it.
ChainOf(b) == Ancestors[b] \cup {b}

\* The sequences that list the set S, each element once, in the order of key.
Listings(S, key) ==
    { s \in [1..Cardinality(S) -> S] :
        /\ {s[i] : i \in DOMAIN s} = S
        /\ \A i, j \in DOMAIN s : i < j => key[s[i]] < key[s[j]] }
=============================================================================
