----------------------------- MODULE OrphanBuffer -----------------------------
(***************************************************************************)
(* Blocks that arrive before their parents (main.cpp): ProcessBlock buffers   *)
(* them in mapOrphanBlocks, bounded by LimitOrphanBlocks, and connects them   *)
(* once their parent is in the index, in batches of ProcessBufferedBlocks     *)
(* that may end early and that DrainBufferedBlocks continues, once in every   *)
(* pass of the message handler.                                               *)
(*                                                                          *)
(* Every action is one call under cs_main.  Chain trust is the height (see    *)
(* ChainState for SetBestChain).  Siblings in the buffer are taken in any     *)
(* order; the code takes them in the order of arrival.  No checkpoint is      *)
(* pending, and blocks pass CheckBlock and the checks against block flooding. *)
(***************************************************************************)
EXTENDS BlockTree

CONSTANTS
    Stakes,                  \* outputs staked, with their times
    GetProofOfStake,         \* the stake of a block; None for proof-of-work
    Flaky,                   \* blocks AcceptBlock may refuse for a check left out here
    MAX_ORPHAN_BLOCKS,
    MAX_ORPHANDRAIN_BLOCKS,
    None

VARIABLES mapBlockIndex, hashBestChain, setStakeSeen,
          mapOrphanBlocks,       \* with mapOrphanBlocksByPrev, which holds the same blocks
          setStakeSeenOrphan

vars == <<mapBlockIndex, hashBestChain, setStakeSeen, mapOrphanBlocks, setStakeSeenOrphan>>

\* The order of the blocks of a chain, the genesis block, which has no stake, and the
\* limit.
OrphanAssumption ==
    /\ \A b \in Blocks :
          /\ \A a \in Ancestors[b] : Height[a] < Height[b] /\ Ancestors[a] \subseteq Ancestors[b]
          /\ \A a, c \in ChainOf(b) : Height[a] <= Height[c] => a \in ChainOf(c)
    /\ GetProofOfStake[Genesis] = None
    /\ MAX_ORPHAN_BLOCKS \in Nat

StakesOf(S) == {GetProofOfStake[b] : b \in S} \ {None}

\* mapOrphanBlocksByPrev.count(b)
HasOrphanChild(b) == \E o \in mapOrphanBlocks : Prev[o] = b

\* A stake already in seen is allowed to a block some orphan waits for.
DuplicateStake(b, seen) == GetProofOfStake[b] \in seen /\ ~HasOrphanChild(b)
-----------------------------------------------------------------------------
\* The buffered blocks that are connected to start through buffered blocks.
Attached(start) ==
    {o \in mapOrphanBlocks :
        start \in Ancestors[o] /\ Ancestors[o] \ ChainOf(start) \subseteq mapOrphanBlocks}

\* The batch done may end here: nothing is left, it is full, or at least one
\* block was taken and the time is over.
MayEnd(todo, done) ==
    /\ todo # {} => done # {}
    /\ Cardinality(done) <= MAX_ORPHANDRAIN_BLOCKS

\* A batch of the blocks todo, level by level, after the blocks new were accepted: it
\* takes the blocks done from the buffer.  A block that AcceptBlock refuses leaves the
\* buffer like the others, but nothing above it is tried; if it failed in
\* AddToBlockIndex it is in the index all the same.
Batch(todo, new, done, refused, failed) ==
    LET added  == new \cup (done \ refused)
        higher == {b \in added : Height[b] > Height[hashBestChain]}
    IN  /\ MayEnd(todo, done)
        /\ \A o \in done : Ancestors[o] \cap todo \subseteq done \ refused
        /\ \A o \in done, c \in todo :
              Height[c] < Height[o] /\ Ancestors[c] \cap refused = {} => c \in done
        /\ mapBlockIndex' = mapBlockIndex \cup added \cup failed
        /\ setStakeSeen' = setStakeSeen \cup StakesOf(added \cup failed)
        /\ mapOrphanBlocks' = mapOrphanBlocks \ done
        /\ setStakeSeenOrphan' = setStakeSeenOrphan \ StakesOf(done)
        /\ IF higher = {} THEN UNCHANGED hashBestChain
           ELSE hashBestChain' \in {b \in higher : \A c \in higher : Height[c] <= Height[b]}

\* The buffered blocks above start, after the blocks new were accepted.
ProcessBufferedBlocks(start, new) ==
    \E done \in SUBSET Attached(start) :
    \E refused \in SUBSET (Flaky \cap done) :
    \E failed \in SUBSET refused : Batch(Attached(start), new, done, refused, failed)

\* Mutant: the batch starts at the genesis block.
DrainFromGenesis ==
    /\ mapOrphanBlocks # {}
    /\ ProcessBufferedBlocks(Genesis, {})

\* Once in every pass of the message handler.
DrainBufferedBlocks ==
    /\ mapOrphanBlocks # {}
    /\ ProcessBufferedBlocks(hashBestChain, {})

\* The blocks evicted to make room, chosen at random; one, since one was added.
LimitOrphanBlocks(all) ==
    IF Cardinality(all) > MAX_ORPHAN_BLOCKS THEN {{e} : e \in all} ELSE {{}}

\* Mutant: the stake of an evicted block stays behind.
BufferBlockKeepsStake(b) ==
    /\ Prev[b] \notin mapBlockIndex
    /\ ~DuplicateStake(b, setStakeSeenOrphan)
    /\ \E evicted \in LimitOrphanBlocks(mapOrphanBlocks \cup {b}) :
         mapOrphanBlocks' = (mapOrphanBlocks \cup {b}) \ evicted
    /\ setStakeSeenOrphan' = setStakeSeenOrphan \cup StakesOf({b})
    /\ UNCHANGED <<mapBlockIndex, hashBestChain, setStakeSeen>>

\* The parent is not in the index.
BufferBlock(b) ==
    /\ Prev[b] \notin mapBlockIndex
    /\ ~DuplicateStake(b, setStakeSeenOrphan)
    /\ \E evicted \in LimitOrphanBlocks(mapOrphanBlocks \cup {b}) :
         /\ mapOrphanBlocks' = (mapOrphanBlocks \cup {b}) \ evicted
         /\ setStakeSeenOrphan' = (setStakeSeenOrphan \cup StakesOf({b})) \ StakesOf(evicted)
    /\ UNCHANGED <<mapBlockIndex, hashBestChain, setStakeSeen>>

\* AcceptBlock fails; in AddToBlockIndex, if the block stays in the index.
RefuseBlock(b) ==
    /\ Prev[b] \in mapBlockIndex
    /\ b \in Flaky
    /\ mapBlockIndex' = mapBlockIndex \cup {b}
    /\ setStakeSeen' = setStakeSeen \cup StakesOf({b})
    /\ UNCHANGED <<hashBestChain, mapOrphanBlocks, setStakeSeenOrphan>>

\* A block arrives that is neither indexed nor buffered.  Where ProcessBlock
\* refuses it before any change of state there is no step.
ProcessBlock(b) ==
    /\ b \notin mapBlockIndex \cup mapOrphanBlocks
    /\ ~DuplicateStake(b, setStakeSeen)
    /\ \/ BufferBlock(b)
       \/ RefuseBlock(b)
       \/ Prev[b] \in mapBlockIndex /\ ProcessBufferedBlocks(b, {b})

Init ==
    /\ mapBlockIndex = {Genesis}
    /\ hashBestChain = Genesis
    /\ setStakeSeen = {}
    /\ mapOrphanBlocks = {}
    /\ setStakeSeenOrphan = {}

Next ==
    \/ \E b \in Blocks \ {Genesis} : ProcessBlock(b)
    \/ DrainBufferedBlocks

Spec == Init /\ [][Next]_vars

\* The handler loop goes on, and peers go on sending what the node does not have.
FairSpec ==
    /\ Spec
    /\ WF_vars(DrainBufferedBlocks)
    /\ \A b \in Blocks \ {Genesis} : WF_vars(ProcessBlock(b))
-----------------------------------------------------------------------------
\* The index is a tree, the buffer is bounded and disjoint from it, and the stakes
\* seen are those of the blocks held, through evictions, refusals and batches cut
\* short: a stake left behind would refuse honest blocks as duplicates.
BufferExact ==
    /\ mapBlockIndex \subseteq Blocks /\ hashBestChain \in mapBlockIndex
    /\ \A b \in mapBlockIndex : Ancestors[b] \subseteq mapBlockIndex
    /\ mapOrphanBlocks \subseteq Blocks \ mapBlockIndex
    /\ setStakeSeen = StakesOf(mapBlockIndex)
    /\ setStakeSeenOrphan \subseteq StakesOf(mapOrphanBlocks)
    /\ Cardinality(mapOrphanBlocks) <= MAX_ORPHAN_BLOCKS

\* Buffered blocks that are connected to the best block through buffered blocks do
\* not stay so, although batches are cut short, blocks are evicted and AcceptBlock
\* refuses some: again and again DrainBufferedBlocks has taken all of them, or the
\* best chain has moved elsewhere.
ConnectedAboveBest == []<>(Attached(hashBestChain) = {})
=============================================================================
