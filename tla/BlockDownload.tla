---------------------------- MODULE BlockDownload ----------------------------
(***************************************************************************)
(* The headers-first, multi-peer block download of main.cpp: the "headers", *)
(* "block" and "inv" handlers of ProcessMessage, the scheduler part of      *)
(* SendMessages, and the top of ThreadMessageHandler2's loop (net.cpp) that  *)
(* starts the sync and rotates a stalled sync peer.                          *)
(*                                                                          *)
(* All of it runs under cs_main on the message-handler thread, so every      *)
(* handler is one action.  A pass of that thread's loop takes the peers in   *)
(* the order of vNodes; in its turn a peer's messages are processed and then *)
(* SendMessages is called for it.  A clock reading is kept as an age, in     *)
(* ticks, that saturates just past the largest timeout it is compared with;  *)
(* ages grow at the top of the loop.                                         *)
(*                                                                          *)
(* ProcessBlock is reduced to what the scheduler sees of it (OrphanBuffer    *)
(* has it in full): a block is a duplicate, is refused, is buffered, or      *)
(* connects together with a batch of the buffered blocks above it.  The      *)
(* chain with the most trust is the best one, and it need not be the         *)
(* longest: the tip may fall in height.  (A synchronized checkpoint, which   *)
(* may lower the tip too, is in ChainState.)  SnapFetching() is false.       *)
(***************************************************************************)
EXTENDS BlockTree, Sequences

CONSTANTS
    Trust,          \* CBlockIndex::nChainTrust
    Peers,          \* NodeIds, which are also the order of vNodes
    None,           \* no peer, no block
    PeerChain,      \* the active chain of each peer, as a set of blocks
    Prompt,         \* the peers the liveness specification takes to answer
    Announced,      \* the blocks peers announce by inv
    HashOrder,      \* a block's place in the order of uint256, for std::map iteration
    Flaky,          \* blocks AcceptBlock may refuse on state this module leaves out
    MAX_BLOCKS_IN_FLIGHT_PER_PEER,
    BLOCK_DOWNLOAD_WINDOW,
    BLOCK_DOWNLOAD_TIMEOUT,
    BLOCK_STALL_TIMEOUT,
    SYNC_HEADERS_RETRY,
    SYNC_PEER_STALL_TIMEOUT,
    HEIGHT_PRUNE_INTERVAL,   \* the 30 s between two prunes of g_mapBlockHeight
    MAX_HEADERS,             \* the 2000 headers of one getheaders reply
    HEADERS_LOOKAHEAD,       \* the 1000 blocks of progress before the next getheaders
    MAX_ORPHAN_BLOCKS,
    TotalBlocksEstimate      \* Checkpoints::GetTotalBlocksEstimate()

ASSUME DownloadAssumption ==
    /\ Trust \in [Blocks -> Nat]
    /\ Peers \subseteq Nat \ {0}
    /\ None \notin Peers /\ None \notin Blocks
    /\ PeerChain \in [Peers -> SUBSET Blocks]
    /\ Prompt \subseteq Peers
    /\ Announced \subseteq Blocks
    /\ HashOrder \in [Blocks -> Nat]
    /\ \A b, c \in Blocks : HashOrder[b] = HashOrder[c] => b = c
    /\ Flaky \subseteq Blocks
    /\ MAX_BLOCKS_IN_FLIGHT_PER_PEER \in Nat \ {0}
    /\ BLOCK_DOWNLOAD_WINDOW \in Nat \ {0}
    /\ BLOCK_STALL_TIMEOUT \in Nat
    /\ BLOCK_DOWNLOAD_TIMEOUT \in Nat
    /\ BLOCK_STALL_TIMEOUT <= BLOCK_DOWNLOAD_TIMEOUT
    /\ SYNC_HEADERS_RETRY \in Nat
    /\ SYNC_PEER_STALL_TIMEOUT \in Nat
    /\ HEIGHT_PRUNE_INTERVAL \in Nat
    /\ MAX_HEADERS \in Nat \ {0}
    /\ HEADERS_LOOKAHEAD \in Nat
    /\ MAX_ORPHAN_BLOCKS \in Nat
    /\ TotalBlocksEstimate \in Nat

VARIABLES
    g_vBlocksToDownload,         \* the queue
    g_setBlocksQueuedOrInFlight, \* the blocks the headers and inv handlers leave alone
    g_mapBlocksInFlight,         \* block -> [peer, age of the request]
    g_mapBlockHeight,            \* the blocks whose height is recorded
    mapBlockIndex, mapOrphanBlocks, pindexBest,
    highest,                     \* history: the greatest height of a tip so far
    connected,                   \* vNodes
    fresh,                       \* NodeIds not yet given to a connection
    pnodeSync, fStartSync,       \* sync peer; the peers flagged to start the sync
    watch,                       \* the stall watchdog's statics
    g_mapPeerLastBlockTime,      \* peer -> age of its last delivery
    g_nLastHeadersRequestHeight,
    pindexLastGetHeadersBegin,   \* per peer, the filter of PushGetHeaders
    mapAskFor,                   \* per peer, blocks to request by the inv path
    nLastStarveHeaders, nLastHeightPrune,   \* statics of SendMessages, as ages
    getdata,                     \* per peer, blocks requested and not yet answered
    getheaders,                  \* per peer, the tips of the locators of unanswered requests
    turn                         \* the peer the handler loop is at; 0 at the top of the loop

queueVars == <<g_vBlocksToDownload, g_setBlocksQueuedOrInFlight, g_mapBlocksInFlight,
               g_mapBlockHeight>>
chainVars == <<mapBlockIndex, mapOrphanBlocks, pindexBest, highest>>
syncVars  == <<connected, fresh, pnodeSync, fStartSync, watch>>
reqVars   == <<g_nLastHeadersRequestHeight, pindexLastGetHeadersBegin, getheaders>>
timerVars == <<nLastStarveHeaders, nLastHeightPrune>>
vars == <<queueVars, chainVars, syncVars, reqVars, timerVars,
          g_mapPeerLastBlockTime, mapAskFor, getdata, turn>>

MaxReqAge   == 2 * BLOCK_DOWNLOAD_TIMEOUT + 1
MaxQuietAge == BLOCK_STALL_TIMEOUT + 1
Older(age, max) == IF age < max THEN age + 1 ELSE max

Higher(m, n) == IF m < n THEN n ELSE m

Have     == mapBlockIndex \cup mapOrphanBlocks            \* AlreadyHave, MSG_BLOCK
InFlight == DOMAIN g_mapBlocksInFlight
Queued   == {g_vBlocksToDownload[i] : i \in DOMAIN g_vBlocksToDownload}
TipHeight == Height[pindexBest]

\* The height clause; the clause on a tip less than 10 s old is left out.
IsInitialBlockDownload(tip) == Height[tip] < TotalBlocksEstimate

TypeOK ==
    /\ g_vBlocksToDownload \in Seq(Blocks)
    /\ g_setBlocksQueuedOrInFlight \subseteq Blocks
    /\ InFlight \subseteq Blocks
    /\ g_mapBlocksInFlight \in [InFlight -> [peer : Peers, age : 0..MaxReqAge]]
    /\ g_mapBlockHeight \subseteq Blocks
    /\ mapBlockIndex \subseteq Blocks
    /\ mapOrphanBlocks \subseteq Blocks
    /\ pindexBest \in mapBlockIndex
    /\ highest \in Nat
    /\ connected \subseteq Peers
    /\ fresh \subseteq Peers
    /\ pnodeSync \in Peers \cup {None}
    /\ fStartSync \subseteq Peers
    /\ watch \in [height : Nat \cup {-1}, peer : Peers \cup {None},
                  age : 0..(SYNC_PEER_STALL_TIMEOUT + 1)]
    /\ g_mapPeerLastBlockTime \in [Peers -> 0..MaxQuietAge]
    /\ g_nLastHeadersRequestHeight \in Nat \cup {-1}
    /\ pindexLastGetHeadersBegin \in [Peers -> Blocks \cup {None}]
    /\ mapAskFor \in [Peers -> SUBSET Blocks]
    /\ nLastStarveHeaders \in 0..SYNC_HEADERS_RETRY
    /\ nLastHeightPrune \in 0..HEIGHT_PRUNE_INTERVAL
    /\ getdata \in [Peers -> SUBSET Blocks]
    /\ getheaders \in [Peers -> SUBSET Blocks]
    /\ turn \in Peers \cup {0}
-----------------------------------------------------------------------------
Init ==
    /\ g_vBlocksToDownload = <<>>
    /\ g_setBlocksQueuedOrInFlight = {}
    /\ g_mapBlocksInFlight = [h \in {} |-> None]
    /\ g_mapBlockHeight = {}
    /\ mapBlockIndex = {Genesis}
    /\ mapOrphanBlocks = {}
    /\ pindexBest = Genesis
    /\ highest = 0
    /\ connected = {}
    /\ fresh = Peers
    /\ pnodeSync = None
    /\ fStartSync = {}
    /\ watch = [height |-> -1, peer |-> None, age |-> 0]
    /\ g_mapPeerLastBlockTime = [p \in Peers |-> MaxQuietAge]   \* no entry: not active
    /\ g_nLastHeadersRequestHeight = -1
    /\ pindexLastGetHeadersBegin = [p \in Peers |-> None]
    /\ mapAskFor = [p \in Peers |-> {}]
    /\ nLastStarveHeaders = SYNC_HEADERS_RETRY                  \* statics start at time 0
    /\ nLastHeightPrune = HEIGHT_PRUNE_INTERVAL
    /\ getdata = [p \in Peers |-> {}]
    /\ getheaders = [p \in Peers |-> {}]
    /\ turn = 0

\* Who is next after p (0 at the top of the loop) in a pass over the peers.
Following(p, peers) ==
    LET later == {q \in peers : q > p}
    IN  IF later = {} THEN {0} ELSE {q \in later : \A r \in later : q <= r}
-----------------------------------------------------------------------------
(* Requests for headers.                                                    *)

\* CNode::PushGetHeaders, with hashEnd = 0 in every call.
PushGetHeaders(p, tip, fForce) ==
    IF fForce \/ pindexLastGetHeadersBegin[p] # tip
    THEN /\ pindexLastGetHeadersBegin' = [pindexLastGetHeadersBegin EXCEPT ![p] = tip]
         /\ getheaders' = [getheaders EXCEPT ![p] = @ \cup {tip}]
    ELSE UNCHANGED <<pindexLastGetHeadersBegin, getheaders>>

\* A peer's answer: the blocks of its chain above the last one the locator
\* shares with it, at most MAX_HEADERS of them.
HeadersReply(p, tip) ==
    LET above == PeerChain[p] \ ChainOf(tip)
    IN  {b \in above : Cardinality({c \in above : Height[c] < Height[b]}) < MAX_HEADERS}

\* The headers that connect to the block index or to the batch itself and
\* that the node neither has nor tracks.
NewHeaders(batch) ==
    {h \in batch \ {Genesis} : Prev[h] \in mapBlockIndex \cup batch}
        \ (Have \cup g_setBlocksQueuedOrInFlight)

\* ProcessMessage, "headers".
RecvHeaders(p) ==
    /\ turn = p
    /\ \E tip \in getheaders[p] :
         /\ getheaders' = [getheaders EXCEPT ![p] = @ \ {tip}]
         /\ LET new == NewHeaders(HeadersReply(p, tip)) IN
            \E s \in Listings(new, Height) :
              /\ g_vBlocksToDownload' = g_vBlocksToDownload \o s
              /\ g_setBlocksQueuedOrInFlight' = g_setBlocksQueuedOrInFlight \cup new
              /\ g_mapBlockHeight' = g_mapBlockHeight \cup new
    /\ UNCHANGED <<g_mapBlocksInFlight, chainVars, syncVars, timerVars,
                   g_nLastHeadersRequestHeight, pindexLastGetHeadersBegin,
                   g_mapPeerLastBlockTime, mapAskFor, getdata, turn>>

\* ProcessMessage, "inv" of a block the node neither has nor tracks: AskFor.
\* An inv also answers the getblocks that this handler and ProcessBlock send
\* for an orphan; peers send it unasked as well.
RecvInv(p, h) ==
    /\ turn = p
    /\ h \in (PeerChain[p] \cap Announced) \ (Have \cup g_setBlocksQueuedOrInFlight)
    /\ mapAskFor' = [mapAskFor EXCEPT ![p] = @ \cup {h}]
    /\ UNCHANGED <<queueVars, chainVars, syncVars, reqVars, timerVars,
                   g_mapPeerLastBlockTime, getdata, turn>>
-----------------------------------------------------------------------------
(* The arrival of a block.                                                  *)

\* ProcessBlock returns false: a duplicate, or a block that is refused.  One
\* that fails in AddToBlockIndex stays in the block index.
RefuseBlock(h) ==
    /\ h \in Have \cup Flaky
    /\ mapBlockIndex' \in {mapBlockIndex} \cup
            (IF h \notin Have /\ Prev[h] \in mapBlockIndex
             THEN {mapBlockIndex \cup {h}} ELSE {})
    /\ UNCHANGED <<mapOrphanBlocks, pindexBest, highest>>

\* Its parent is unknown: mapOrphanBlocks, bounded by LimitOrphanBlocks.
BufferBlock(h) ==
    /\ h \notin Have
    /\ Prev[h] \notin mapBlockIndex
    /\ LET all == mapOrphanBlocks \cup {h} IN
       \E e \in all : mapOrphanBlocks' = IF Cardinality(all) > MAX_ORPHAN_BLOCKS
                                         THEN all \ {e} ELSE all
    /\ UNCHANGED <<mapBlockIndex, pindexBest, highest>>

\* Once the initial download is over, the block below the buffered ones under h is
\* asked for directly.
AskForWanted(p, h) ==
    LET missing == Ancestors[h] \ mapOrphanBlocks'
        WantedByOrphan == {a \in missing : \A c \in missing : Height[c] <= Height[a]}
    IN  mapAskFor' = IF IsInitialBlockDownload(pindexBest) THEN mapAskFor
                     ELSE [mapAskFor EXCEPT ![p] = @ \cup WantedByOrphan]

\* Buffered blocks above start are accepted, in the order of their heights, until
\* the batch is full or its time is over, but at least one if there is one.  A
\* block that AcceptBlock refuses leaves the buffer too (and stays in the index
\* if it failed in AddToBlockIndex); what is above it is left alone.  The blocks
\* new have been accepted just before.
ProcessBufferedBlocks(start, new) ==
    LET above == {o \in mapOrphanBlocks :
                    start \in Ancestors[o] /\ Ancestors[o] \ ChainOf(start) \subseteq mapOrphanBlocks}
    IN \E done \in SUBSET above :
       \E refused \in SUBSET (Flaky \cap done) :
       \E failed \in SUBSET refused :
         LET added  == new \cup (done \ refused)
             better == {b \in added : Trust[b] > Trust[pindexBest]}
         IN /\ above # {} => done # {}
            /\ \A o \in done : Ancestors[o] \cap above \subseteq done \ refused
            /\ \A o \in done, c \in above :
                  Height[c] < Height[o] /\ Ancestors[c] \cap refused = {} => c \in done
            /\ mapBlockIndex' = mapBlockIndex \cup added \cup failed
            /\ mapOrphanBlocks' = mapOrphanBlocks \ done
            /\ IF better = {} THEN UNCHANGED pindexBest
               ELSE pindexBest' \in {b \in better : \A c \in better : Trust[c] <= Trust[b]}
            /\ highest' = Higher(highest, Height[pindexBest'])

\* It connects, and so do buffered blocks above it.
AcceptBlock(h) ==
    /\ h \notin Have
    /\ Prev[h] \in mapBlockIndex
    /\ ProcessBufferedBlocks(h, {h})

\* Mutant: a refused block is dropped.
RetryRefusedNever(h) == <<>>

\* A tracked block that ProcessBlock refused goes back to the front.
RetryRefused(h) == IF h \in g_setBlocksQueuedOrInFlight THEN <<h>> ELSE <<>>

\* ProcessMessage, "block": a peer answers a getdata with a block of its chain.
RecvBlock(p, h) ==
    /\ turn = p
    /\ h \in (getdata[p] \cap PeerChain[p]) \ {Genesis}
    /\ getdata' = [getdata EXCEPT ![p] = @ \ {h}]
    /\ g_mapPeerLastBlockTime' = [g_mapPeerLastBlockTime EXCEPT ![p] = 0]
    /\ g_mapBlocksInFlight' = [b \in InFlight \ {h} |-> g_mapBlocksInFlight[b]]
    /\ \/ /\ \/ BufferBlock(h) /\ AskForWanted(p, h)
             \/ AcceptBlock(h) /\ UNCHANGED mapAskFor
          /\ g_setBlocksQueuedOrInFlight' = g_setBlocksQueuedOrInFlight \ {h}
          /\ UNCHANGED g_vBlocksToDownload
       \/ /\ RefuseBlock(h)
          /\ g_vBlocksToDownload' = RetryRefused(h) \o g_vBlocksToDownload
          /\ UNCHANGED <<g_setBlocksQueuedOrInFlight, mapAskFor>>
    /\ IF /\ IsInitialBlockDownload(pindexBest')
          /\ Height[pindexBest'] >= g_nLastHeadersRequestHeight + HEADERS_LOOKAHEAD
       THEN /\ g_nLastHeadersRequestHeight' = Height[pindexBest']
            /\ PushGetHeaders(p, pindexBest', FALSE)
       ELSE UNCHANGED reqVars
    /\ UNCHANGED <<g_mapBlockHeight, syncVars, timerVars, turn>>
-----------------------------------------------------------------------------
(* The scheduler: one call of SendMessages for the peer p.                  *)

\* The requests that go back to the queue: wildly overdue, or overdue with
\* an owner that has gone quiet.
Overdue ==
    {h \in InFlight :
        LET req == g_mapBlocksInFlight[h]
            fPeerActive == g_mapPeerLastBlockTime[req.peer] <= BLOCK_STALL_TIMEOUT
        IN \/ req.age > 2 * BLOCK_DOWNLOAD_TIMEOUT
           \/ req.age > BLOCK_DOWNLOAD_TIMEOUT /\ ~fPeerActive}

\* push_front in map order: the greatest hash ends up first.
RequeueOrder == [b \in Blocks |-> 0 - HashOrder[b]]

OwnedBy(p, flight) == {h \in DOMAIN flight : flight[h].peer = p}

\* Of the first i entries of the queue, those that are requested when popped.
Fetched(q, i, flight) == {q[j] : j \in 1..i} \ (Have \cup DOMAIN flight)

\* Mutant: membership ends with the pop.
FoundAll(q, i) == {q[j] : j \in 1..i}

\* ... those that it turns out to have,
Found(q, i) == {q[j] : j \in 1..i} \cap Have

\* ... and what is left of the queue.
LeftInQueue(q, i) == SubSeq(q, i + 1, Len(q))

\* Mutants: one request too many; no height window.
LoopEndsLate(p, q, i, flight) ==
    \/ i = Len(q)
    \/ Cardinality(OwnedBy(p, flight)) + Cardinality(Fetched(q, i, flight))
          > MAX_BLOCKS_IN_FLIGHT_PER_PEER
\* The assignment loop ends after i pops.
LoopEnds(p, q, i, flight) ==
    \/ i = Len(q)
    \/ Cardinality(OwnedBy(p, flight)) + Cardinality(Fetched(q, i, flight))
          >= MAX_BLOCKS_IN_FLIGHT_PER_PEER
    \/ /\ i < Len(q)
       /\ q[i + 1] \in g_mapBlockHeight
       /\ Height[q[i + 1]] > TipHeight + BLOCK_DOWNLOAD_WINDOW

\* Mutant: no stall-breaker.
WedgeNone(p, flight, heights) == {}

\* The stall-breaker's choice: the lowest of the requests stuck on other
\* peers (the first in map order of equals), if it is near the tip.
Wedge(p, flight, heights) ==
    LET stuck == {h \in DOMAIN flight : flight[h].peer # p /\ flight[h].age > BLOCK_STALL_TIMEOUT}
        nH(h) == IF h \in heights THEN Height[h] ELSE 0
    IN  {h \in stuck \ Have :
            /\ \A g \in stuck : \/ nH(h) < nH(g)
                                \/ nH(h) = nH(g) /\ HashOrder[h] <= HashOrder[g]
            /\ nH(h) <= TipHeight + MAX_BLOCKS_IN_FLIGHT_PER_PEER}

\* After k pops from the queue q, with the requests in flight left after the
\* re-queueing.
Schedule(p, q, k, flight) ==
    LET fetch   == Fetched(q, k, flight)
        found   == Found(q, k)
        heights == g_mapBlockHeight \ found
        nInFlight == Cardinality(OwnedBy(p, flight)) + Cardinality(fetch)
        wedge   == IF nInFlight < MAX_BLOCKS_IN_FLIGHT_PER_PEER
                   THEN Wedge(p, flight, heights) ELSE {}
        asked   == fetch \cup wedge
    IN  /\ g_vBlocksToDownload' = LeftInQueue(q, k)
        /\ g_setBlocksQueuedOrInFlight' = g_setBlocksQueuedOrInFlight \ found
        /\ g_mapBlocksInFlight' = [h \in DOMAIN flight \cup fetch |->
                                     IF h \in asked THEN [peer |-> p, age |-> 0] ELSE flight[h]]
        /\ getdata' = [getdata EXCEPT ![p] = @ \cup asked \cup (mapAskFor[p] \ Have)]
        /\ mapAskFor' = [mapAskFor EXCEPT ![p] = {}]
        /\ IF nLastHeightPrune = HEIGHT_PRUNE_INTERVAL
           THEN /\ g_mapBlockHeight' = {h \in heights : Height[h] > TipHeight}
                /\ nLastHeightPrune' = 0
           ELSE /\ g_mapBlockHeight' = heights
                /\ UNCHANGED nLastHeightPrune

\* The starvation watchdog sees an empty pipeline, and may ask again.
Starved ==
    /\ IsInitialBlockDownload(pindexBest)
    /\ g_vBlocksToDownload' = <<>>
    /\ DOMAIN g_mapBlocksInFlight' = {}
    /\ nLastStarveHeaders = SYNC_HEADERS_RETRY

SendMessages(p) ==
    /\ turn = p
    /\ LET flight == [h \in InFlight \ Overdue |-> g_mapBlocksInFlight[h]] IN
       \E s \in Listings(Overdue, RequeueOrder) :
         LET q == s \o g_vBlocksToDownload IN
         \E k \in 0..Len(q) :
           /\ LoopEnds(p, q, k, flight)
           /\ \A j \in 0..(k - 1) : ~LoopEnds(p, q, j, flight)
           /\ Schedule(p, q, k, flight)
    /\ IF p \in fStartSync \/ Starved
       THEN /\ g_nLastHeadersRequestHeight' = TipHeight
            /\ PushGetHeaders(p, pindexBest, TRUE)
       ELSE UNCHANGED reqVars
    /\ nLastStarveHeaders' = IF Starved THEN 0 ELSE nLastStarveHeaders
    /\ fStartSync' = fStartSync \ {p}
    /\ turn' \in Following(p, connected)
    /\ UNCHANGED <<chainVars, connected, fresh, pnodeSync, watch, g_mapPeerLastBlockTime>>
-----------------------------------------------------------------------------
(* The handler loop of ThreadMessageHandler2, and connections.              *)

\* The node forgets a peer; what is in flight on it is left to the timeouts.
Forget(gone) ==
    /\ connected' = connected \ gone
    /\ getdata' = [p \in Peers |-> IF p \in gone THEN {} ELSE getdata[p]]
    /\ getheaders' = [p \in Peers |-> IF p \in gone THEN {} ELSE getheaders[p]]
    /\ mapAskFor' = [p \in Peers |-> IF p \in gone THEN {} ELSE mapAskFor[p]]

\* A TRY_LOCK fails: the pass goes on to the next peer.
Skip(p) ==
    /\ turn = p
    /\ turn' \in Following(p, connected)
    /\ UNCHANGED <<queueVars, chainVars, syncVars, reqVars, timerVars,
                   g_mapPeerLastBlockTime, mapAskFor, getdata>>

\* A peer completes the handshake; the loop sees it in its next pass.
Connect(p) ==
    /\ turn = 0
    /\ p \in fresh
    /\ \A q \in fresh : p <= q
    /\ connected' = connected \cup {p}
    /\ fresh' = fresh \ {p}
    /\ UNCHANGED <<queueVars, chainVars, pnodeSync, fStartSync, watch, reqVars, timerVars,
                   g_mapPeerLastBlockTime, mapAskFor, getdata, turn>>

Disconnect(p) ==
    /\ p \in connected
    /\ Forget({p})
    /\ pnodeSync' = IF pnodeSync = p THEN None ELSE pnodeSync
    /\ fStartSync' = fStartSync \ {p}
    /\ IF turn = p THEN turn' \in Following(p, connected) ELSE UNCHANGED turn
    /\ UNCHANGED <<queueVars, chainVars, fresh, watch, timerVars, g_nLastHeadersRequestHeight,
                   pindexLastGetHeadersBegin, g_mapPeerLastBlockTime>>

\* The end of a pass, DrainBufferedBlocks, and the top of the loop: StartSync
\* picks a sync peer if there is none, and the watchdog drops the one under
\* which the tip has stood still for too long.  Time passes.
NextPass ==
    /\ turn = 0
    /\ ProcessBufferedBlocks(pindexBest, {})
    /\ \E sync \in IF pnodeSync # None \/ connected = {} THEN {pnodeSync} ELSE connected :
         LET fHaveSyncNode == pnodeSync # None
             nBestHeight == Height[pindexBest']
             moved == nBestHeight # watch.height \/ sync # watch.peer
             stalled == /\ ~moved
                        /\ fHaveSyncNode
                        /\ IsInitialBlockDownload(pindexBest')
                        /\ watch.age > SYNC_PEER_STALL_TIMEOUT
         IN /\ watch' = IF moved
                        THEN [height |-> nBestHeight, peer |-> sync, age |-> 0]
                        ELSE IF stalled
                        THEN [watch EXCEPT !.peer = None, !.age = 0]
                        ELSE [watch EXCEPT !.age = Older(@, SYNC_PEER_STALL_TIMEOUT + 1)]
            /\ Forget(IF stalled THEN {sync} ELSE {})
            /\ turn' \in Following(0, connected')
            /\ pnodeSync' = IF stalled THEN None ELSE sync
            /\ fStartSync' = IF fHaveSyncNode \/ sync = None THEN fStartSync ELSE fStartSync \cup {sync}
    /\ g_mapBlocksInFlight' = [h \in InFlight |->
            [g_mapBlocksInFlight[h] EXCEPT !.age = Older(@, MaxReqAge)]]
    /\ g_mapPeerLastBlockTime' = [p \in Peers |-> Older(g_mapPeerLastBlockTime[p], MaxQuietAge)]
    /\ nLastStarveHeaders' = Older(nLastStarveHeaders, SYNC_HEADERS_RETRY)
    /\ nLastHeightPrune' = Older(nLastHeightPrune, HEIGHT_PRUNE_INTERVAL)
    /\ UNCHANGED <<g_vBlocksToDownload, g_setBlocksQueuedOrInFlight, g_mapBlockHeight,
                   fresh, g_nLastHeadersRequestHeight, pindexLastGetHeadersBegin>>

Next ==
    \/ NextPass
    \/ \E p \in Peers :
         \/ Connect(p)
         \/ RecvHeaders(p)
         \/ SendMessages(p)
         \/ Skip(p)
         \/ Disconnect(p)
         \/ \E h \in Blocks : RecvInv(p, h) \/ RecvBlock(p, h)

Spec == Init /\ [][Next]_vars

\* The scheduling the code guarantees (the handler loop goes on, and services
\* every connected peer) and peers that answer what they are asked: the
\* prompt ones, before their next turn ends.  They do not leave of their own
\* accord, and the locks are free.
Answered(p) == getheaders[p] = {} /\ getdata[p] \cap PeerChain[p] = {}

PromptNext ==
    \/ NextPass
    \/ \E p \in Peers :
         \/ Connect(p)
         \/ SendMessages(p) /\ (p \in Prompt => Answered(p))
         \/ RecvHeaders(p)
         \/ p \notin Prompt /\ Disconnect(p)
         \/ \E h \in Blocks : RecvBlock(p, h)

PromptSpec ==
    /\ Init
    /\ [][PromptNext]_vars
    /\ WF_vars(NextPass)
    /\ \A p \in Prompt : SF_vars(\E q \in Peers : q <= p /\ Connect(q))
    /\ \A p \in Peers : WF_vars(SendMessages(p) /\ (p \in Prompt => Answered(p)))
    /\ \A p \in Prompt : WF_vars(RecvHeaders(p) \/ \E h \in Blocks : RecvBlock(p, h))
-----------------------------------------------------------------------------
(* What the download promises.                                              *)

\* A block the headers and inv handlers leave alone because it is tracked is
\* queued or in flight: it is never lost between the two, whichever way a
\* timeout, a refusal, a late delivery or a disconnection moved it.
TrackedNotLost == g_setBlocksQueuedOrInFlight \subseteq Queued \cup InFlight

\* No peer ever owes more blocks than its window, although requests come to
\* it from the queue and, by the stall-breaker, from other peers.
PerPeerWindow == \A p \in Peers :
    Cardinality(OwnedBy(p, g_mapBlocksInFlight)) <= MAX_BLOCKS_IN_FLIGHT_PER_PEER

\* No block is requested by the scheduler more than BLOCK_DOWNLOAD_WINDOW above
\* the highest tip the node has had.  The current tip would be too much to ask:
\* the requests outlive a reorganisation to a lower chain with more trust.
HeightWindow == \A h \in InFlight : Height[h] <= highest + BLOCK_DOWNLOAD_WINDOW

\* Why HeightWindow is kept: a queued block whose height is not recorded any
\* more (it was pruned, or erased with another copy of the entry), and which
\* is requested unchecked, is already inside that window.
QueueHeights == \A h \in Queued :
    h \in g_mapBlockHeight \/ Height[h] <= highest + BLOCK_DOWNLOAD_WINDOW

\* Both windows are kept.
WithinWindows == PerPeerWindow /\ HeightWindow

\* Tracking of a block ends only when the node has the block, unless the
\* orphan buffer overflowed and may have evicted it.
TrackedUntilHeld == [][\A h \in g_setBlocksQueuedOrInFlight \ g_setBlocksQueuedOrInFlight' :
                          h \in Have' \/ Cardinality(mapOrphanBlocks') = MAX_ORPHAN_BLOCKS]_vars

\* Every block on a prompt peer's chain is downloaded, whatever silent peers
\* were asked for and however often the sync peer is rotated.
Downloaded == <>(\A p \in Prompt : PeerChain[p] \subseteq mapBlockIndex)
=============================================================================
