-------------------------------- MODULE MCSync --------------------------------
(***************************************************************************)
(* Blocks get to the chain: a behaviour is either a download of the chain  *)
(* a1 - a2 - a3 or the connection of buffered blocks, of a chain           *)
(* a1 - ... - a5, a branch b1 - b2 - b3 from the genesis block, and a      *)
(* block d3 on a2.                                                         *)
(***************************************************************************)
EXTENDS MCBlockDownload
CONSTANTS OrphanBlocks, FlakyOrphans, ORPHAN_BLOCKS, MAX_ORPHANDRAIN_BLOCKS
VARIABLES part, index, best, seen, orphans, seenOrphan

OrphanParent == [a1 |-> "g", a2 |-> "a1", a3 |-> "a2", a4 |-> "a3", a5 |-> "a4",
                 b1 |-> "g", b2 |-> "b1", b3 |-> "b2", d3 |-> "a2"]
OrphanHeight == [g |-> 0, a1 |-> 1, a2 |-> 2, a3 |-> 3, a4 |-> 4, a5 |-> 5,
                 b1 |-> 1, b2 |-> 2, b3 |-> 3, d3 |-> 3]
OrphanAncestors == LET anc[b \in OrphanBlocks] ==
                           IF b = "g" THEN {} ELSE {OrphanParent[b]} \cup anc[OrphanParent[b]]
                   IN anc
\* b2, a2 and d3 are three blocks made with one stake, a4 and b3 two with another.
StakeOf == [b \in OrphanBlocks |-> CASE b \in {"a2", "b2", "d3"} -> "s"
                                     [] b \in {"a4", "b3"} -> "t"
                                     [] OTHER -> None]

O == INSTANCE OrphanBuffer WITH
         Blocks <- OrphanBlocks, Prev <- OrphanParent, Height <- OrphanHeight,
         Ancestors <- OrphanAncestors, Stakes <- {"s", "t"}, GetProofOfStake <- StakeOf,
         Flaky <- FlakyOrphans, MAX_ORPHAN_BLOCKS <- ORPHAN_BLOCKS,
         mapBlockIndex <- index, hashBestChain <- best, setStakeSeen <- seen,
         mapOrphanBlocks <- orphans, setStakeSeenOrphan <- seenOrphan
ASSUME SyncAssumption == O!TreeAssumption /\ O!OrphanAssumption
buffer == <<index, best, seen, orphans, seenOrphan>>

Download(A) == part = "download" /\ A /\ UNCHANGED <<part, buffer>>
Buffer(A) == part = "buffer" /\ A /\ UNCHANGED <<part, vars>>
all == <<part, vars, buffer>>

SyncInit == part \in {"download", "buffer"} /\ Init /\ O!Init
SyncNext == Download(PromptNext) \/ Buffer(O!Next)

\* The fairness of PromptSpec and of OrphanBuffer!FairSpec, each where its part runs.
SyncSpec ==
    /\ SyncInit
    /\ [][SyncNext]_all
    /\ WF_all(Download(NextPass))
    /\ \A p \in Prompt : SF_all(Download(\E q \in Peers : q <= p /\ Connect(q)))
    /\ \A p \in Peers : WF_all(Download(SendMessages(p) /\ (p \in Prompt => Answered(p))))
    /\ \A p \in Prompt : WF_all(Download(RecvHeaders(p) \/ \E h \in Blocks : RecvBlock(p, h)))
    /\ WF_all(Buffer(O!DrainBufferedBlocks))
    /\ \A b \in OrphanBlocks \ {Genesis} : WF_all(Buffer(O!ProcessBlock(b)))

\* BlockDownload!Downloaded: a prompt peer's chain is downloaded, whatever the silent
\* peers were asked for.
DownloadEnds == part = "download" => Downloaded

\* OrphanBuffer!BufferExact: through evictions, refusals and batches cut short the
\* buffer and the stakes seen stay in step with the block index.
BufferExact == O!BufferExact

\* OrphanBuffer!ConnectedAboveBest: DrainBufferedBlocks comes back for the blocks a
\* batch has left behind above the best block.
ConnectedAboveBest == O!ConnectedAboveBest
=============================================================================
