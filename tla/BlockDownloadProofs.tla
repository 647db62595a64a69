------------------------- MODULE BlockDownloadProofs -------------------------
(* Machine-checked proofs about BlockDownload and OrphanBuffer, for every    *)
(* block tree, every set of peers and every value of the timeouts, windows   *)
(* and limits: the inductive invariant, the facts about sequences, finite    *)
(* sets and the download loop that its proof rests on, that each action      *)
(* keeps it, and the theorems; at the end, the orphan buffer.                *)
EXTENDS BlockDownload, FiniteSetTheorems, TLAPS

\* The prover a leaf is given to unless it names one.
USE ZenonT(10)

\* The elements of a sequence.
RangeOf(s) == {s[i] : i \in DOMAIN s}

\* The tip has never been higher than the history says.
TipSeen == TipHeight <= highest

\* The inductive invariant.
IInv ==
    /\ TypeOK
    /\ TrackedNotLost
    /\ PerPeerWindow
    /\ HeightWindow
    /\ QueueHeights
    /\ TipSeen
-----------------------------------------------------------------------------
(* Sequences.                                                               *)

\* A listing of a set of blocks is a sequence with exactly those elements.
LEMMA ListingSeq ==
    ASSUME NEW S \in SUBSET Blocks, NEW key, NEW s \in Listings(S, key)
    PROVE  s \in Seq(Blocks) /\ RangeOf(s) = S
<1>1. Cardinality(S) \in Nat
  BY TreeAssumption, FS_Subset, FS_CardinalityType
<1>2. s \in [1..Cardinality(S) -> Blocks] /\ {s[i] : i \in DOMAIN s} = S
  BY DEF Listings
<1> QED BY SMTT(20), <1>1, <1>2 DEF RangeOf

\* Concatenation unites the elements.
LEMMA ConcatRange ==
    ASSUME NEW s \in Seq(Blocks), NEW t \in Seq(Blocks)
    PROVE  s \o t \in Seq(Blocks) /\ RangeOf(s \o t) = RangeOf(s) \cup RangeOf(t)
<1>0. DOMAIN s = 1..Len(s) /\ DOMAIN t = 1..Len(t)
  BY SMTT(20)
<1>1. s \o t \in Seq(Blocks) /\ Len(s \o t) = Len(s) + Len(t)
  BY SMTT(20)
<1>2. \A i \in 1..Len(s) : (s \o t)[i] = s[i]
  BY SMTT(20)
<1>3. \A i \in 1..Len(t) : (s \o t)[Len(s) + i] = t[i]
  BY SMTT(20)
<1>4. RangeOf(s \o t) \subseteq RangeOf(s) \cup RangeOf(t)
  <2> SUFFICES ASSUME NEW i \in 1..(Len(s) + Len(t))
               PROVE  (s \o t)[i] \in RangeOf(s) \cup RangeOf(t)
    BY SMTT(20), <1>1 DEF RangeOf
  <2>1. CASE i <= Len(s)
    BY SMTT(20), <2>1, <1>2 DEF RangeOf
  <2>2. CASE i > Len(s)
    <3>1. i - Len(s) \in 1..Len(t) /\ Len(s) + (i - Len(s)) = i
      BY SMTT(20), <2>2
    <3> QED BY SMTT(20), <3>1, <1>3 DEF RangeOf
  <2> QED BY SMTT(20), <2>1, <2>2
<1>5. RangeOf(s) \subseteq RangeOf(s \o t)
  BY SMTT(20), <1>1, <1>2 DEF RangeOf
<1>6. RangeOf(t) \subseteq RangeOf(s \o t)
  <2> SUFFICES ASSUME NEW i \in 1..Len(t) PROVE t[i] \in RangeOf(s \o t)
    BY <1>0 DEF RangeOf
  <2>1. Len(s) + i \in 1..Len(s \o t)
    BY SMTT(20), <1>1
  <2> QED BY SMTT(20), <2>1, <1>1, <1>3 DEF RangeOf
<1> QED BY <1>1, <1>4, <1>5, <1>6

\* What the assignment loop leaves in the queue: a suffix; an element of the
\* queue was popped or is still there.
LEMMA LeftInQueueRange ==
    ASSUME NEW q \in Seq(Blocks), NEW k \in 0..Len(q)
    PROVE  /\ LeftInQueue(q, k) \in Seq(Blocks)
           /\ RangeOf(LeftInQueue(q, k)) \subseteq RangeOf(q)
           /\ RangeOf(q) \subseteq {q[j] : j \in 1..k} \cup RangeOf(LeftInQueue(q, k))
<1> DEFINE r == LeftInQueue(q, k)
<1>1. r \in Seq(Blocks) /\ Len(r) = Len(q) - k /\ \A i \in 1..Len(r) : r[i] = q[k + i]
  BY SMTT(20) DEF LeftInQueue
<1>2. RangeOf(r) \subseteq RangeOf(q)
  <2> SUFFICES ASSUME NEW i \in 1..Len(r) PROVE r[i] \in RangeOf(q)
    BY SMTT(20), <1>1 DEF RangeOf
  <2>1. k + i \in 1..Len(q)
    BY SMTT(20), <1>1
  <2> QED BY SMTT(20), <1>1, <2>1 DEF RangeOf
<1>3. RangeOf(q) \subseteq {q[j] : j \in 1..k} \cup RangeOf(r)
  <2> SUFFICES ASSUME NEW i \in 1..Len(q), i > k PROVE q[i] \in RangeOf(r)
    BY SMTT(20) DEF RangeOf
  <2>1. i - k \in 1..Len(r) /\ k + (i - k) = i
    BY SMTT(20), <1>1
  <2>2. r[i - k] = q[i]
    BY <2>1, <1>1
  <2> QED BY SMTT(20), <1>1, <2>1, <2>2 DEF RangeOf
<1> QED BY <1>1, <1>2, <1>3
-----------------------------------------------------------------------------
(* The assignment loop and the stall-breaker of SendMessages.               *)

\* Blocks are finitely many, so every set of them has a cardinality.
LEMMA BlockSetFinite ==
    ASSUME NEW S \in SUBSET Blocks
    PROVE  IsFiniteSet(S) /\ Cardinality(S) \in Nat
BY TreeAssumption, FS_Subset, FS_CardinalityType

\* A subset is not larger.
LEMMA BlockSubset ==
    ASSUME NEW T \in SUBSET Blocks, NEW S \in SUBSET T
    PROVE  Cardinality(S) <= Cardinality(T)
BY BlockSetFinite, FS_Subset

\* A union is not larger than its parts together.
LEMMA BlockUnion ==
    ASSUME NEW S \in SUBSET Blocks, NEW T \in SUBSET Blocks
    PROVE  Cardinality(S \cup T) <= Cardinality(S) + Cardinality(T)
<1>1. IsFiniteSet(S) /\ IsFiniteSet(T) /\ S \cap T \in SUBSET Blocks
  BY BlockSetFinite
<1>2. Cardinality(S \cup T) = Cardinality(S) + Cardinality(T) - Cardinality(S \cap T)
  BY <1>1, FS_Union
<1> QED BY SMTT(20), <1>1, <1>2, BlockSetFinite

\* Adding one element adds at most one.
LEMMA BlockPlusOne ==
    ASSUME NEW S \in SUBSET Blocks, NEW x \in Blocks
    PROVE  Cardinality(S \cup {x}) <= Cardinality(S) + 1
<1>1. Cardinality({x}) = 1
  BY FS_Singleton
<1>2. {x} \in SUBSET Blocks
  OBVIOUS
<1> QED BY <1>1, <1>2, BlockUnion

\* The loop assigns no more than the peer's window has left.
LEMMA LoopWithinWindow ==
    ASSUME NEW p, NEW q \in Seq(Blocks), NEW flight, DOMAIN flight \subseteq Blocks,
           NEW k \in 0..Len(q),
           \A j \in 0..(k - 1) : ~LoopEnds(p, q, j, flight),
           Cardinality(OwnedBy(p, flight)) <= MAX_BLOCKS_IN_FLIGHT_PER_PEER
    PROVE  Cardinality(OwnedBy(p, flight)) + Cardinality(Fetched(q, k, flight))
             <= MAX_BLOCKS_IN_FLIGHT_PER_PEER
<1> DEFINE n == Cardinality(OwnedBy(p, flight))
           F(i) == Fetched(q, i, flight)
<1>1. n \in Nat
  BY BlockSetFinite DEF OwnedBy
<1>2. \A i \in 0..Len(q) : F(i) \in SUBSET Blocks
  BY SMTT(20) DEF Fetched
<1>3. CASE k = 0
  <2>1. F(0) = {}
    BY SMTT(20) DEF Fetched
  <2>2. Cardinality(F(0)) = 0
    BY ZenonT(30), <2>1, FS_EmptySet
  <2> QED BY SMTT(20), <1>1, <1>3, <2>2
<1>4. CASE k > 0
  <2>1. k - 1 \in 0..(k - 1) /\ k - 1 \in 0..Len(q) /\ k \in 1..Len(q)
    BY SMTT(20), <1>4
  <2>2. ~(n + Cardinality(F(k - 1)) >= MAX_BLOCKS_IN_FLIGHT_PER_PEER)
    BY <2>1 DEF LoopEnds
  <2>3. F(k) \subseteq F(k - 1) \cup {q[k]}
    BY SMTT(20), <2>1 DEF Fetched
  <2>4. q[k] \in Blocks
    BY SMTT(20), <2>1
  <2>5. Cardinality(F(k - 1) \cup {q[k]}) <= Cardinality(F(k - 1)) + 1
    BY <1>2, <2>1, <2>4, BlockPlusOne
  <2>6. F(k - 1) \cup {q[k]} \in SUBSET Blocks
    BY <1>2, <2>1, <2>4
  <2>7. Cardinality(F(k)) <= Cardinality(F(k - 1) \cup {q[k]})
    BY <2>3, <2>6, BlockSubset
  <2>8. /\ Cardinality(F(k)) \in Nat
        /\ Cardinality(F(k - 1)) \in Nat
        /\ Cardinality(F(k - 1) \cup {q[k]}) \in Nat
    BY <1>2, <2>1, <2>6, BlockSetFinite
  <2> HIDE DEF n, F
  <2>9. n + Cardinality(F(k)) <= MAX_BLOCKS_IN_FLIGHT_PER_PEER
    BY SMTT(20), <1>1, <2>2, <2>5, <2>7, <2>8, DownloadAssumption
  <2> QED BY <2>9 DEF n, F
<1> QED BY SMTT(20), <1>3, <1>4

\* A popped block whose height is recorded is inside the height window.
LEMMA PoppedInWindow ==
    ASSUME NEW p, NEW q \in Seq(Blocks), NEW flight, NEW k \in 0..Len(q),
           \A j \in 0..(k - 1) : ~LoopEnds(p, q, j, flight),
           NEW i \in 1..k, q[i] \in g_mapBlockHeight, TipHeight \in Nat
    PROVE  Height[q[i]] <= TipHeight + BLOCK_DOWNLOAD_WINDOW
<1>1. i - 1 \in 0..(k - 1) /\ i - 1 < Len(q) /\ (i - 1) + 1 = i
  BY SMTT(20)
<1>2. ~LoopEnds(p, q, i - 1, flight)
  BY <1>1
<1>3. ~(Height[q[i]] > TipHeight + BLOCK_DOWNLOAD_WINDOW)
  BY <1>1, <1>2 DEF LoopEnds
<1>4. Height[q[i]] \in Nat
  BY SMTT(20), TreeAssumption
<1> QED BY SMTT(20), <1>3, <1>4, DownloadAssumption

\* The stall-breaker takes over at most one request.
LEMMA WedgeSingle ==
    ASSUME NEW p, NEW flight, DOMAIN flight \subseteq Blocks, NEW heights,
           NEW g \in Wedge(p, flight, heights), NEW h \in Wedge(p, flight, heights)
    PROVE  g = h
<1> DEFINE nH(b) == IF b \in heights THEN Height[b] ELSE 0
<1>1. g \in Blocks /\ h \in Blocks
  BY DEF Wedge
<1>2. nH(g) \in Nat /\ nH(h) \in Nat
  BY <1>1, TreeAssumption
<1>3. /\ nH(g) < nH(h) \/ (nH(g) = nH(h) /\ HashOrder[g] <= HashOrder[h])
      /\ nH(h) < nH(g) \/ (nH(h) = nH(g) /\ HashOrder[h] <= HashOrder[g])
  BY DEF Wedge
<1>4. HashOrder[g] \in Nat /\ HashOrder[h] \in Nat
  BY <1>1, DownloadAssumption
<1> HIDE DEF nH
<1>5. HashOrder[g] = HashOrder[h]
  BY SMTT(20), <1>2, <1>3, <1>4
<1> QED BY <1>1, <1>5, DownloadAssumption
-----------------------------------------------------------------------------
(* One lemma per action: the invariant is preserved.                        *)

\* The invariant without the type of variables outside the queue.
Core == TrackedNotLost /\ PerPeerWindow /\ HeightWindow /\ QueueHeights /\ TipSeen

\* Core depends on the queue variables and the tip only.
LEMMA CoreUnchanged ==
    ASSUME Core, UNCHANGED <<queueVars, pindexBest, highest>>
    PROVE  Core'
BY DEF Core, TrackedNotLost, PerPeerWindow, HeightWindow, QueueHeights, TipSeen, queueVars,
       Queued, InFlight, TipHeight, OwnedBy

\* An age that grows stays within its bound.
LEMMA OlderBound ==
    ASSUME NEW max \in Nat, NEW age \in 0..max
    PROVE  Older(age, max) \in 0..max
BY SMTT(20) DEF Older

\* The next peer in a pass is a peer, or the pass ends.
LEMMA FollowingType ==
    ASSUME NEW p, NEW S \in SUBSET Peers, NEW t \in Following(p, S)
    PROVE  t \in Peers \cup {0}
BY DEF Following

\* A peer's requests after a round: what was left to it, what was fetched, and
\* at most one wedge block, taken only when the window has room.
LEMMA RoundWithinWindow ==
    ASSUME NEW left \in SUBSET Blocks, NEW fetch \in SUBSET Blocks, NEW wedge \in SUBSET Blocks,
           NEW now \in SUBSET (left \cup fetch \cup wedge),
           Cardinality(left) + Cardinality(fetch) <= MAX_BLOCKS_IN_FLIGHT_PER_PEER,
           \/ wedge = {}
           \/ /\ Cardinality(left) + Cardinality(fetch) < MAX_BLOCKS_IN_FLIGHT_PER_PEER
              /\ \A x, y \in wedge : x = y
    PROVE  Cardinality(now) <= MAX_BLOCKS_IN_FLIGHT_PER_PEER
<1>1. /\ left \cup fetch \in SUBSET Blocks
      /\ now \in SUBSET Blocks
  OBVIOUS
<1>2. /\ Cardinality(left) \in Nat /\ Cardinality(fetch) \in Nat
      /\ Cardinality(left \cup fetch) \in Nat /\ Cardinality(now) \in Nat
  BY <1>1, BlockSetFinite
<1>3. Cardinality(left \cup fetch) <= Cardinality(left) + Cardinality(fetch)
  BY Zenon, BlockUnion
<1>4. CASE wedge = {}
  <2>1. now \in SUBSET (left \cup fetch)
    BY <1>4
  <2>2. Cardinality(now) <= Cardinality(left \cup fetch)
    BY <1>1, <2>1, BlockSubset
  <2> QED BY SMTT(20), <1>2, <1>3, <2>2, DownloadAssumption
<1>5. CASE wedge # {}
  <2>1. PICK x \in wedge : wedge = {x}
    BY <1>5
  <2>2. now \in SUBSET ((left \cup fetch) \cup {x}) /\ x \in Blocks
    BY <2>1
  <2>3. (left \cup fetch) \cup {x} \in SUBSET Blocks
    BY <1>1, <2>2
  <2>4. Cardinality((left \cup fetch) \cup {x}) \in Nat
    BY <2>3, BlockSetFinite
  <2>5. Cardinality((left \cup fetch) \cup {x}) <= Cardinality(left \cup fetch) + 1
    BY <1>1, <2>2, BlockPlusOne
  <2>6. Cardinality(now) <= Cardinality((left \cup fetch) \cup {x})
    BY <2>2, <2>3, BlockSubset
  <2>7. Cardinality(left) + Cardinality(fetch) < MAX_BLOCKS_IN_FLIGHT_PER_PEER
    BY <1>5
  <2> QED BY SMTT(20), <1>2, <1>3, <2>4, <2>5, <2>6, <2>7, DownloadAssumption
<1> QED BY <1>4, <1>5

\* The scheduler's work on the queue q, when the requests in flight are left.
LEMMA ScheduleStep ==
    ASSUME IInv, NEW p \in Peers, NEW flight, NEW q \in Seq(Blocks), NEW k \in 0..Len(q),
           DOMAIN flight \subseteq InFlight,
           \A h \in DOMAIN flight : flight[h] = g_mapBlocksInFlight[h],
           RangeOf(q) = (InFlight \ DOMAIN flight) \cup Queued,
           \A j \in 0..(k - 1) : ~LoopEnds(p, q, j, flight),
           Schedule(p, q, k, flight),
           UNCHANGED <<pindexBest, highest>>
    PROVE  /\ Core'
           /\ g_vBlocksToDownload' \in Seq(Blocks)
           /\ g_mapBlocksInFlight' \in [InFlight' -> [peer : Peers, age : 0..MaxReqAge]]
           /\ getdata' \in [Peers -> SUBSET Blocks]
           /\ mapAskFor' \in [Peers -> SUBSET Blocks]
           /\ g_mapBlockHeight' \subseteq Blocks
           /\ g_setBlocksQueuedOrInFlight' \subseteq Blocks
           /\ InFlight' \subseteq Blocks
           /\ nLastHeightPrune' \in {0, nLastHeightPrune}
<1>0. TypeOK
  BY DEF IInv
<1> DEFINE popped  == {q[j] : j \in 1..k}
           fetch   == Fetched(q, k, flight)
           found   == Found(q, k)
           heights == g_mapBlockHeight \ found
           n       == Cardinality(OwnedBy(p, flight)) + Cardinality(fetch)
           wedge   == IF n < MAX_BLOCKS_IN_FLIGHT_PER_PEER THEN Wedge(p, flight, heights) ELSE {}
           asked   == fetch \cup wedge
           rest    == LeftInQueue(q, k)
<1>1. DOMAIN flight \subseteq Blocks /\ InFlight \subseteq Blocks
  BY <1>0 DEF TypeOK
<1>4. \A h \in DOMAIN flight : flight[h] \in [peer : Peers, age : 0..MaxReqAge]
  BY <1>0 DEF TypeOK
<1>5. /\ g_vBlocksToDownload' = rest
      /\ g_setBlocksQueuedOrInFlight' = g_setBlocksQueuedOrInFlight \ found
      /\ g_mapBlocksInFlight' = [h \in DOMAIN flight \cup fetch |->
                                   IF h \in asked THEN [peer |-> p, age |-> 0] ELSE flight[h]]
      /\ getdata' = [getdata EXCEPT ![p] = @ \cup asked \cup (mapAskFor[p] \ Have)]
      /\ mapAskFor' = [mapAskFor EXCEPT ![p] = {}]
      /\ \/ /\ g_mapBlockHeight' = {h \in heights : Height[h] > TipHeight}
            /\ nLastHeightPrune' = 0
         \/ g_mapBlockHeight' = heights /\ UNCHANGED nLastHeightPrune
  BY Zenon DEF Schedule
<1>6. /\ TipHeight' = TipHeight /\ TipHeight \in Nat
      /\ highest' = highest /\ highest \in Nat
      /\ TipHeight <= highest
  BY <1>0, TreeAssumption DEF TipHeight, TypeOK, IInv, TipSeen
<1> HIDE DEF rest
<1>7. /\ rest \in Seq(Blocks)
      /\ RangeOf(rest) \subseteq RangeOf(q)
      /\ RangeOf(q) \subseteq popped \cup RangeOf(rest)
      /\ Queued' = RangeOf(rest)
  <2>1. Queued' = RangeOf(rest)
    BY <1>5 DEF Queued, RangeOf
  <2>2. /\ rest \in Seq(Blocks)
        /\ RangeOf(rest) \subseteq RangeOf(q)
        /\ RangeOf(q) \subseteq popped \cup RangeOf(rest)
    BY ZenonT(30), LeftInQueueRange DEF rest
  <2> QED BY ZenonT(30), <2>1, <2>2
<1>8. /\ fetch = popped \ (Have \cup DOMAIN flight)
      /\ found = popped \cap Have
      /\ popped \subseteq RangeOf(q)
      /\ popped \subseteq Blocks
  <2>1. DOMAIN q = 1..Len(q) /\ \A j \in 1..k : j \in 1..Len(q) /\ q[j] \in Blocks
    BY SMTT(20)
  <2>2. popped \subseteq RangeOf(q) /\ popped \subseteq Blocks
    BY <2>1 DEF RangeOf
  <2> QED BY <2>2 DEF Fetched, Found
<1>9. wedge \subseteq DOMAIN flight /\ wedge \subseteq Blocks
  BY <1>1 DEF Wedge
<1> HIDE DEF popped, fetch, found, wedge
<1>10. /\ InFlight' = DOMAIN flight \cup fetch
       /\ \A h \in InFlight' : g_mapBlocksInFlight'[h] =
              IF h \in asked THEN [peer |-> p, age |-> 0] ELSE flight[h]
  BY <1>5 DEF InFlight
\* The height window.
<1>11. \A h \in RangeOf(q) : h \in g_mapBlockHeight \/ Height[h] <= highest + BLOCK_DOWNLOAD_WINDOW
  BY DEF IInv, HeightWindow, QueueHeights
<1>12. \A h \in popped : Height[h] <= highest + BLOCK_DOWNLOAD_WINDOW
  <2> SUFFICES ASSUME NEW j \in 1..k
               PROVE  Height[q[j]] <= highest + BLOCK_DOWNLOAD_WINDOW
    BY DEF popped
  <2>1. CASE q[j] \in g_mapBlockHeight
    <3>1. Height[q[j]] <= TipHeight + BLOCK_DOWNLOAD_WINDOW
      BY ZenonT(30), <1>6, <2>1, PoppedInWindow
    <3>2. Height[q[j]] \in Nat
      BY <1>8, TreeAssumption DEF popped
    <3>3. BLOCK_DOWNLOAD_WINDOW \in Nat
      BY DownloadAssumption
    <3> QED BY SMTT(20), <1>6, <3>1, <3>2, <3>3
  <2>2. CASE q[j] \notin g_mapBlockHeight
    BY <1>8, <1>11, <2>2 DEF popped
  <2> QED BY <2>1, <2>2
<1>13. HeightWindow'
  BY <1>4, <1>6, <1>8, <1>10, <1>12 DEF IInv, HeightWindow
<1>14. QueueHeights'
  <2> SUFFICES ASSUME NEW h \in RangeOf(q), h \notin g_mapBlockHeight'
               PROVE  Height[h] <= highest + BLOCK_DOWNLOAD_WINDOW
    BY <1>6, <1>7 DEF QueueHeights
  <2>1. CASE h \notin g_mapBlockHeight
    BY <1>11, <2>1
  <2>2. CASE h \in found
    BY <1>8, <1>12, <2>2
  <2>3. CASE h \in heights /\ ~(Height[h] > TipHeight)
    <3>1. Height[h] \in Nat
      <4>1. h \in Blocks
        BY SMTT(20) DEF RangeOf
      <4> QED BY <4>1, TreeAssumption
    <3> QED BY SMTT(20), <1>6, <2>3, <3>1, DownloadAssumption
  <2> QED BY <1>5, <2>1, <2>2, <2>3
<1>15. TrackedNotLost'
  <2> SUFFICES ASSUME NEW h \in g_setBlocksQueuedOrInFlight, h \notin found
               PROVE  h \in RangeOf(rest) \cup DOMAIN flight \cup fetch
    BY <1>5, <1>7, <1>10 DEF TrackedNotLost
  <2>1. h \in RangeOf(q) \cup DOMAIN flight
    BY DEF IInv, TrackedNotLost
  <2> QED BY <1>7, <1>8, <2>1
\* The window of each peer.
<1>16. PerPeerWindow'
  <2> SUFFICES ASSUME NEW r \in Peers
               PROVE  Cardinality(OwnedBy(r, g_mapBlocksInFlight'))
                        <= MAX_BLOCKS_IN_FLIGHT_PER_PEER
    BY DEF PerPeerWindow
  <2> DEFINE old  == OwnedBy(r, g_mapBlocksInFlight)
             left == OwnedBy(r, flight)
             now  == OwnedBy(r, g_mapBlocksInFlight')
  <2>1. old \in SUBSET Blocks /\ left \in SUBSET old
    BY <1>1 DEF OwnedBy, InFlight
  <2>2. Cardinality(old) \in Nat /\ Cardinality(left) \in Nat /\ left \in SUBSET Blocks
    BY <2>1, BlockSetFinite
  <2>3. Cardinality(left) <= MAX_BLOCKS_IN_FLIGHT_PER_PEER
    <3>1. Cardinality(left) <= Cardinality(old)
      BY <2>1, BlockSubset
    <3>2. Cardinality(old) <= MAX_BLOCKS_IN_FLIGHT_PER_PEER
      BY DEF IInv, PerPeerWindow
    <3> QED BY SMTT(20), <2>2, <3>1, <3>2, DownloadAssumption
  <2>4. CASE r # p
    <3>1. now \in SUBSET left
      <4> SUFFICES ASSUME NEW h \in InFlight', g_mapBlocksInFlight'[h].peer = r
                   PROVE  h \in DOMAIN flight /\ flight[h].peer = r
        BY DEF OwnedBy, InFlight
      <4>1. h \notin asked
        BY SMTT(20), <1>10, <2>4
      <4> QED BY <1>10, <4>1
    <3>2. Cardinality(now) <= Cardinality(left) /\ Cardinality(now) \in Nat
      BY <2>2, <3>1, BlockSubset, BlockSetFinite
    <3> QED BY SMTT(20), <2>2, <2>3, <3>2, DownloadAssumption
  <2>5. CASE r = p
    <3>1. now \in SUBSET (left \cup fetch \cup wedge)
      BY <1>10, <2>5 DEF OwnedBy, InFlight
    <3>2. fetch \in SUBSET Blocks /\ wedge \in SUBSET Blocks
      BY <1>8, <1>9
    <3>3. Cardinality(left) + Cardinality(fetch) <= MAX_BLOCKS_IN_FLIGHT_PER_PEER
      BY <1>1, <2>3, <2>5, LoopWithinWindow DEF fetch
    <3>4. \/ wedge = {}
          \/ /\ Cardinality(left) + Cardinality(fetch) < MAX_BLOCKS_IN_FLIGHT_PER_PEER
             /\ \A x, y \in wedge : x = y
      <4> SUFFICES ASSUME wedge # {}
                   PROVE  /\ Cardinality(left) + Cardinality(fetch) < MAX_BLOCKS_IN_FLIGHT_PER_PEER
                          /\ \A x, y \in wedge : x = y
        BY ZenonT(30)
      <4>1. /\ wedge = Wedge(p, flight, heights)
            /\ Cardinality(left) + Cardinality(fetch) < MAX_BLOCKS_IN_FLIGHT_PER_PEER
        BY <2>5 DEF wedge
      <4>2. \A x, y \in Wedge(p, flight, heights) : x = y
        BY ZenonT(30), <1>1, WedgeSingle
      <4> QED BY ZenonT(30), <4>1, <4>2
    <3> QED BY ZenonT(30), <2>2, <3>1, <3>2, <3>3, <3>4, RoundWithinWindow
  <2> QED BY <2>4, <2>5
\* Types.
<1>17. g_mapBlocksInFlight' \in [InFlight' -> [peer : Peers, age : 0..MaxReqAge]]
  <2>1. 0 \in 0..MaxReqAge
    BY SMTT(20), DownloadAssumption DEF MaxReqAge
  <2>2. \A h \in DOMAIN flight \cup fetch :
           (IF h \in asked THEN [peer |-> p, age |-> 0] ELSE flight[h])
             \in [peer : Peers, age : 0..MaxReqAge]
    BY <1>4, <2>1
  <2> QED BY <1>5, <1>10, <2>2
<1>18. /\ getdata' \in [Peers -> SUBSET Blocks]
       /\ mapAskFor' \in [Peers -> SUBSET Blocks]
       /\ g_mapBlockHeight' \subseteq Blocks
       /\ g_setBlocksQueuedOrInFlight' \subseteq Blocks
       /\ InFlight' \subseteq Blocks
  <2>1. asked \subseteq Blocks
    BY <1>8, <1>9
  <2>2. getdata' \in [Peers -> SUBSET Blocks] /\ mapAskFor' \in [Peers -> SUBSET Blocks]
    BY <1>0, <1>5, <2>1 DEF TypeOK
  <2>3. g_mapBlockHeight' \subseteq Blocks /\ g_setBlocksQueuedOrInFlight' \subseteq Blocks
    BY <1>0, <1>5 DEF TypeOK
  <2>4. InFlight' \subseteq Blocks
    <3>1. fetch \subseteq Blocks
      BY ZenonT(30), <1>8
    <3>2. InFlight' = DOMAIN flight \cup fetch
      BY ZenonT(30), <1>10
    <3> QED BY ZenonT(30), <1>1, <3>1, <3>2
  <2> QED BY ZenonT(30), <2>2, <2>3, <2>4
<1>19. nLastHeightPrune' \in {0, nLastHeightPrune}
  BY ZenonT(30), <1>5
<1>20. g_vBlocksToDownload' \in Seq(Blocks)
  BY ZenonT(30), <1>5, <1>7
<1>21. TipSeen'
  BY <1>6 DEF TipSeen
<1> QED BY <1>13, <1>14, <1>15, <1>16, <1>17, <1>18, <1>19, <1>20, <1>21 DEF Core
-----------------------------------------------------------------------------
\* The invariant holds before the first peer connects.
LEMMA InitStep == Init => IInv
<1> SUFFICES ASSUME Init PROVE IInv
  OBVIOUS
<1>1. InFlight = {} /\ Queued = {}
  BY SMTT(20) DEF Init, InFlight, Queued
<1>2. TypeOK
  BY SMTT(20), <1>1, TreeAssumption, DownloadAssumption DEF Init, TypeOK, MaxReqAge, MaxQuietAge, InFlight
<1>3. TrackedNotLost
  BY DEF Init, TrackedNotLost
<1>4. PerPeerWindow
  <2>1. \A p \in Peers : OwnedBy(p, g_mapBlocksInFlight) = {}
    BY <1>1 DEF OwnedBy, InFlight
  <2>2. Cardinality({}) = 0
    BY FS_EmptySet
  <2>3. 0 <= MAX_BLOCKS_IN_FLIGHT_PER_PEER
    BY SMTT(20), DownloadAssumption
  <2> QED BY <2>1, <2>2, <2>3 DEF PerPeerWindow
<1>5. HeightWindow /\ QueueHeights
  BY <1>1 DEF HeightWindow, QueueHeights
<1>6. TipSeen
  BY SMTT(20), TreeAssumption DEF Init, TipSeen, TipHeight
<1> QED BY <1>2, <1>3, <1>4, <1>5, <1>6 DEF IInv

\* A new connection touches neither the queue nor the chain.
LEMMA ConnectStep ==
    ASSUME IInv, NEW p \in Peers, Connect(p)
    PROVE  IInv'
<1>1. TypeOK'
  BY DEF IInv, TypeOK, Connect, queueVars, chainVars, reqVars, timerVars, InFlight
<1>2. Core'
  BY CoreUnchanged DEF IInv, Core, Connect, chainVars
<1> QED BY <1>1, <1>2 DEF IInv, Core

\* A peer passed over by the message loop leaves the queue alone.
LEMMA SkipStep ==
    ASSUME IInv, NEW p \in Peers, Skip(p)
    PROVE  IInv'
<1>1. turn' \in Peers \cup {0}
  BY FollowingType DEF IInv, TypeOK, Skip
<1>2. TypeOK'
  BY <1>1 DEF IInv, TypeOK, Skip, queueVars, chainVars, syncVars, reqVars, timerVars, InFlight
<1>3. Core'
  BY CoreUnchanged DEF IInv, Core, Skip, chainVars
<1> QED BY <1>2, <1>3 DEF IInv, Core

\* An announced block goes to mapAskFor, outside the scheduler.
LEMMA RecvInvStep ==
    ASSUME IInv, NEW p \in Peers, NEW h \in Blocks, RecvInv(p, h)
    PROVE  IInv'
<1>1. TypeOK'
  BY DEF IInv, TypeOK, RecvInv, queueVars, chainVars, syncVars, reqVars, timerVars, InFlight
<1>2. Core'
  BY CoreUnchanged DEF IInv, Core, RecvInv, chainVars
<1> QED BY <1>1, <1>2 DEF IInv, Core

\* Forgetting peers keeps the types of what is kept per peer.
LEMMA ForgetType ==
    ASSUME TypeOK, NEW gone, Forget(gone)
    PROVE  /\ connected' \in SUBSET Peers
           /\ getdata' \in [Peers -> SUBSET Blocks]
           /\ getheaders' \in [Peers -> SUBSET Blocks]
           /\ mapAskFor' \in [Peers -> SUBSET Blocks]
BY DEF TypeOK, Forget

\* Losing a peer keeps its requests in flight until they are overdue.
LEMMA DisconnectStep ==
    ASSUME IInv, NEW p \in Peers, Disconnect(p)
    PROVE  IInv'
<1>0. TypeOK
  BY DEF IInv
<1>1. turn' \in Peers \cup {0}
  BY <1>0, FollowingType DEF TypeOK, Disconnect
<1>2. /\ connected' \in SUBSET Peers
      /\ getdata' \in [Peers -> SUBSET Blocks]
      /\ getheaders' \in [Peers -> SUBSET Blocks]
      /\ mapAskFor' \in [Peers -> SUBSET Blocks]
  BY <1>0, ForgetType DEF Disconnect
<1>3. TypeOK'
  BY <1>0, <1>1, <1>2 DEF TypeOK, Disconnect, queueVars, chainVars, timerVars, InFlight
<1>4. Core'
  BY CoreUnchanged DEF IInv, Core, Disconnect, chainVars
<1> QED BY <1>3, <1>4 DEF IInv, Core

\* Connecting a batch of buffered blocks keeps the types of the chain's state, and
\* the tip it ends with is counted.
LEMMA BufferedStep ==
    ASSUME TypeOK, NEW start, NEW new \in SUBSET Blocks, ProcessBufferedBlocks(start, new)
    PROVE  /\ mapBlockIndex' \subseteq Blocks
           /\ mapOrphanBlocks' \subseteq Blocks
           /\ pindexBest' \in mapBlockIndex'
           /\ TipHeight' \in Nat
           /\ highest' \in Nat
           /\ highest' >= highest
           /\ highest' >= TipHeight'
<1> DEFINE above == {o \in mapOrphanBlocks :
                       start \in Ancestors[o] /\ Ancestors[o] \ ChainOf(start) \subseteq mapOrphanBlocks}
<1>1. PICK done \in SUBSET above :
       \E refused \in SUBSET (Flaky \cap done) :
       \E failed \in SUBSET refused :
         LET added  == new \cup (done \ refused)
             better == {b \in added : Trust[b] > Trust[pindexBest]}
         IN /\ above # {} => done # {}
            /\ \A o \in done : Ancestors[o] \cap above \subseteq done \ refused
            /\ \A o \in done, c \in above :
                  Height[c] < Height[o] /\ Ancestors[c] \cap refused = {} => c \in done
            /\ mapBlockIndex' = mapBlockIndex \cup added \cup failed
            /\ mapOrphanBlocks' = mapOrphanBlocks \ done
            /\ IF better = {} THEN UNCHANGED pindexBest
               ELSE pindexBest' \in {b \in better : \A c \in better : Trust[c] <= Trust[b]}
            /\ highest' = Higher(highest, Height[pindexBest'])
  BY Zenon DEF ProcessBufferedBlocks
<1>a. PICK refused \in SUBSET (Flaky \cap done) :
       \E failed \in SUBSET refused :
         LET added  == new \cup (done \ refused)
             better == {b \in added : Trust[b] > Trust[pindexBest]}
         IN /\ above # {} => done # {}
            /\ \A o \in done : Ancestors[o] \cap above \subseteq done \ refused
            /\ \A o \in done, c \in above :
                  Height[c] < Height[o] /\ Ancestors[c] \cap refused = {} => c \in done
            /\ mapBlockIndex' = mapBlockIndex \cup added \cup failed
            /\ mapOrphanBlocks' = mapOrphanBlocks \ done
            /\ IF better = {} THEN UNCHANGED pindexBest
               ELSE pindexBest' \in {b \in better : \A c \in better : Trust[c] <= Trust[b]}
            /\ highest' = Higher(highest, Height[pindexBest'])
  BY <1>1, Zenon
<1>b. PICK failed \in SUBSET refused :
         LET added  == new \cup (done \ refused)
             better == {b \in added : Trust[b] > Trust[pindexBest]}
         IN /\ above # {} => done # {}
            /\ \A o \in done : Ancestors[o] \cap above \subseteq done \ refused
            /\ \A o \in done, c \in above :
                  Height[c] < Height[o] /\ Ancestors[c] \cap refused = {} => c \in done
            /\ mapBlockIndex' = mapBlockIndex \cup added \cup failed
            /\ mapOrphanBlocks' = mapOrphanBlocks \ done
            /\ IF better = {} THEN UNCHANGED pindexBest
               ELSE pindexBest' \in {b \in better : \A c \in better : Trust[c] <= Trust[b]}
            /\ highest' = Higher(highest, Height[pindexBest'])
  BY <1>a, Zenon
<1>c. done \subseteq mapOrphanBlocks
  OBVIOUS
<1> HIDE DEF above
<1> DEFINE added  == new \cup (done \ refused)
           better == {b \in added : Trust[b] > Trust[pindexBest]}
<1>2. added \subseteq Blocks /\ failed \subseteq Blocks
  BY <1>c DEF TypeOK
<1>3. /\ mapBlockIndex' = mapBlockIndex \cup added \cup failed
      /\ mapOrphanBlocks' \subseteq mapOrphanBlocks
  BY <1>b
<1>4. pindexBest' = pindexBest \/ pindexBest' \in added
  BY <1>b
<1>5. highest' = Higher(highest, Height[pindexBest'])
  BY <1>b
<1> HIDE DEF added
<1>6. pindexBest' \in mapBlockIndex' /\ mapBlockIndex' \subseteq Blocks
  BY <1>2, <1>3, <1>4 DEF TypeOK
<1>7. TipHeight' = Height[pindexBest'] /\ Height[pindexBest'] \in Nat
  BY <1>6, TreeAssumption DEF TipHeight
<1>8. highest \in Nat
  BY DEF TypeOK
<1>9. highest' \in Nat /\ highest' >= highest /\ highest' >= TipHeight'
  BY SMTT(20), <1>5, <1>7, <1>8 DEF Higher
<1> QED BY <1>3, <1>6, <1>7, <1>9 DEF TypeOK

\* The end of a pass and the start of the next keep the invariant.
LEMMA NextPassStep ==
    ASSUME IInv, NextPass
    PROVE  IInv'
<1>0. TypeOK
  BY DEF IInv
<1> PICK sync \in (IF pnodeSync # None \/ connected = {} THEN {pnodeSync} ELSE connected) :
           LET fHaveSyncNode == pnodeSync # None
               nBestHeight == Height[pindexBest']
               moved == nBestHeight # watch.height \/ sync # watch.peer
               stalled == /\ ~moved
                          /\ fHaveSyncNode
                          /\ IsInitialBlockDownload(pindexBest')
                          /\ watch.age > SYNC_PEER_STALL_TIMEOUT
           IN /\ watch' = IF moved
                          THEN [height |-> nBestHeight, peer |-> sync, age |-> 0]
                          ELSE IF stalled
                          THEN [watch EXCEPT !.peer = None, !.age = 0]
                          ELSE [watch EXCEPT !.age = Older(@, SYNC_PEER_STALL_TIMEOUT + 1)]
              /\ Forget(IF stalled THEN {sync} ELSE {})
              /\ turn' \in Following(0, connected')
              /\ pnodeSync' = IF stalled THEN None ELSE sync
              /\ fStartSync' = IF fHaveSyncNode \/ sync = None THEN fStartSync
                               ELSE fStartSync \cup {sync}
  BY ZenonT(30) DEF NextPass
<1>a. /\ mapBlockIndex' \subseteq Blocks
      /\ mapOrphanBlocks' \subseteq Blocks
      /\ pindexBest' \in mapBlockIndex'
      /\ TipHeight' \in Nat
      /\ highest' \in Nat
      /\ highest' >= highest
      /\ highest' >= TipHeight'
  BY <1>0, BufferedStep DEF NextPass
<1>1. sync \in Peers \cup {None} /\ (sync # None => sync \in Peers)
  BY <1>0 DEF TypeOK
<1>2. /\ connected' \in SUBSET Peers
      /\ getdata' \in [Peers -> SUBSET Blocks]
      /\ getheaders' \in [Peers -> SUBSET Blocks]
      /\ mapAskFor' \in [Peers -> SUBSET Blocks]
  BY <1>0, ForgetType
<1>3. turn' \in Peers \cup {0}
  BY <1>2, FollowingType
<1>4. pnodeSync' \in Peers \cup {None} /\ fStartSync' \subseteq Peers
  BY <1>0, <1>1 DEF TypeOK
<1>5. watch' \in [height : Nat \cup {-1}, peer : Peers \cup {None},
                  age : 0..(SYNC_PEER_STALL_TIMEOUT + 1)]
  <2>1. Height[pindexBest'] \in Nat
    BY <1>a, TreeAssumption
  <2>0. watch \in [height : Nat \cup {-1}, peer : Peers \cup {None},
                  age : 0..(SYNC_PEER_STALL_TIMEOUT + 1)]
    BY <1>0 DEF TypeOK
  <2>2. SYNC_PEER_STALL_TIMEOUT + 1 \in Nat /\ watch.age \in 0..(SYNC_PEER_STALL_TIMEOUT + 1)
    <3>1. SYNC_PEER_STALL_TIMEOUT + 1 \in Nat
      BY SMTT(20), DownloadAssumption
    <3>2. watch.age \in 0..(SYNC_PEER_STALL_TIMEOUT + 1)
      BY <2>0
    <3> QED BY <3>1, <3>2
  <2>7. 0 \in 0..(SYNC_PEER_STALL_TIMEOUT + 1)
    BY SMTT(20), <2>2
  <2>3. Older(watch.age, SYNC_PEER_STALL_TIMEOUT + 1) \in 0..(SYNC_PEER_STALL_TIMEOUT + 1)
    BY <2>2, OlderBound
  <2>4. [height |-> Height[pindexBest'], peer |-> sync, age |-> 0] \in
          [height : Nat \cup {-1}, peer : Peers \cup {None}, age : 0..(SYNC_PEER_STALL_TIMEOUT + 1)]
    BY SMTT(20), <1>1, <2>1, <2>2
  <2>5. [watch EXCEPT !.peer = None, !.age = 0] \in
          [height : Nat \cup {-1}, peer : Peers \cup {None}, age : 0..(SYNC_PEER_STALL_TIMEOUT + 1)]
    BY ZenonT(30), <2>0, <2>7
  <2>6. [watch EXCEPT !.age = Older(watch.age, SYNC_PEER_STALL_TIMEOUT + 1)] \in
          [height : Nat \cup {-1}, peer : Peers \cup {None}, age : 0..(SYNC_PEER_STALL_TIMEOUT + 1)]
    BY <2>0, <2>3
  <2> QED BY <2>4, <2>5, <2>6
<1>6. /\ InFlight' = InFlight
      /\ g_mapBlocksInFlight' \in [InFlight -> [peer : Peers, age : 0..MaxReqAge]]
      /\ \A h \in InFlight : g_mapBlocksInFlight'[h].peer = g_mapBlocksInFlight[h].peer
  <2>1. MaxReqAge \in Nat
    BY SMTT(20), DownloadAssumption DEF MaxReqAge
  <2>2. \A h \in InFlight : Older(g_mapBlocksInFlight[h].age, MaxReqAge) \in 0..MaxReqAge
    BY <1>0, <2>1, OlderBound DEF TypeOK
  <2>3. g_mapBlocksInFlight' = [h \in InFlight |->
            [g_mapBlocksInFlight[h] EXCEPT !.age = Older(@, MaxReqAge)]]
    BY DEF NextPass
  <2> QED BY ZenonT(30), <1>0, <2>2, <2>3 DEF TypeOK, InFlight
<1>7. /\ g_mapPeerLastBlockTime' \in [Peers -> 0..MaxQuietAge]
      /\ nLastStarveHeaders' \in 0..SYNC_HEADERS_RETRY
      /\ nLastHeightPrune' \in 0..HEIGHT_PRUNE_INTERVAL
  <2>1. MaxQuietAge \in Nat
    BY SMTT(20), DownloadAssumption DEF MaxQuietAge
  <2> QED BY ZenonT(30), <1>0, <2>1, OlderBound, DownloadAssumption DEF TypeOK, NextPass
<1>8. TypeOK'
  BY ZenonT(30), <1>0, <1>a, <1>2, <1>3, <1>4, <1>5, <1>6, <1>7 DEF TypeOK, NextPass
<1>9. Core'
  <2>1. \A p \in Peers : OwnedBy(p, g_mapBlocksInFlight)' = OwnedBy(p, g_mapBlocksInFlight)
    BY <1>6 DEF OwnedBy, InFlight
  <2>2. PerPeerWindow'
    BY <2>1 DEF IInv, PerPeerWindow
  <2>3. /\ Queued' = Queued
        /\ UNCHANGED <<g_setBlocksQueuedOrInFlight, g_mapBlockHeight>>
    BY DEF NextPass, Queued
  <2>4. TrackedNotLost'
    BY <1>6, <2>3 DEF IInv, TrackedNotLost
  <2>a. \A b \in Blocks : Height[b] <= highest + BLOCK_DOWNLOAD_WINDOW
                           => Height[b] <= highest' + BLOCK_DOWNLOAD_WINDOW
    <3>1. highest \in Nat
      BY <1>0 DEF TypeOK
    <3>2. \A b \in Blocks : Height[b] \in Nat
      BY TreeAssumption
    <3> QED BY SMTT(20), <1>a, <3>1, <3>2, DownloadAssumption
  <2>b. InFlight \subseteq Blocks /\ Queued \subseteq Blocks
    BY SMTT(20), <1>0 DEF TypeOK, InFlight, Queued
  <2>5. HeightWindow' /\ QueueHeights'
    BY <1>6, <2>a, <2>b, <2>3 DEF IInv, HeightWindow, QueueHeights
  <2>6. TipSeen'
    BY SMTT(20), <1>a DEF TipSeen
  <2> QED BY <2>2, <2>4, <2>5, <2>6 DEF Core
<1> QED BY <1>8, <1>9 DEF IInv, Core

\* The "headers" handler queues and tracks the same new blocks.
LEMMA RecvHeadersStep ==
    ASSUME IInv, NEW p \in Peers, RecvHeaders(p)
    PROVE  IInv'
<1>0. TypeOK
  BY DEF IInv
<1> PICK tip \in getheaders[p] :
      /\ getheaders' = [getheaders EXCEPT ![p] = @ \ {tip}]
      /\ LET new == NewHeaders(HeadersReply(p, tip)) IN
         \E s \in Listings(new, Height) :
           /\ g_vBlocksToDownload' = g_vBlocksToDownload \o s
           /\ g_setBlocksQueuedOrInFlight' = g_setBlocksQueuedOrInFlight \cup new
           /\ g_mapBlockHeight' = g_mapBlockHeight \cup new
  BY ZenonT(30) DEF RecvHeaders
<1> DEFINE new == NewHeaders(HeadersReply(p, tip))
<1> PICK s \in Listings(new, Height) :
           /\ g_vBlocksToDownload' = g_vBlocksToDownload \o s
           /\ g_setBlocksQueuedOrInFlight' = g_setBlocksQueuedOrInFlight \cup new
           /\ g_mapBlockHeight' = g_mapBlockHeight \cup new
  OBVIOUS
<1>1. new \in SUBSET Blocks
  BY ZenonT(30), DownloadAssumption DEF NewHeaders, HeadersReply
<1> HIDE DEF new
<1>2. s \in Seq(Blocks) /\ RangeOf(s) = new
  BY <1>1, ListingSeq
<1>3. g_vBlocksToDownload' \in Seq(Blocks) /\ Queued' = Queued \cup new
  <2>1. g_vBlocksToDownload \in Seq(Blocks)
    BY <1>0 DEF TypeOK
  <2>2. /\ g_vBlocksToDownload \o s \in Seq(Blocks)
        /\ RangeOf(g_vBlocksToDownload \o s) = RangeOf(g_vBlocksToDownload) \cup RangeOf(s)
    BY <2>1, <1>2, ConcatRange
  <2> QED BY ZenonT(30), <1>2, <2>2 DEF Queued, RangeOf
<1>4. TypeOK'
  BY ZenonT(30), <1>0, <1>1, <1>3 DEF TypeOK, RecvHeaders, chainVars, syncVars, timerVars, InFlight
<1>5. /\ InFlight' = InFlight /\ TipHeight' = TipHeight /\ highest' = highest
      /\ g_mapBlocksInFlight' = g_mapBlocksInFlight
  BY DEF RecvHeaders, InFlight, TipHeight, chainVars
<1>6. TrackedNotLost'
  BY <1>3, <1>5 DEF IInv, TrackedNotLost
<1>7. PerPeerWindow' /\ HeightWindow'
  BY <1>5 DEF IInv, PerPeerWindow, HeightWindow, OwnedBy
<1>8. QueueHeights'
  BY ZenonT(30), <1>3, <1>5 DEF IInv, QueueHeights
<1>9. TipSeen'
  BY <1>5 DEF IInv, TipSeen
<1> QED BY <1>4, <1>6, <1>7, <1>8, <1>9 DEF IInv

\* What ProcessBlock does to the chain: types are kept and the tip is counted.
LEMMA ProcessBlockStep ==
    ASSUME TypeOK, TipSeen, NEW h \in Blocks \ {Genesis},
           BufferBlock(h) \/ AcceptBlock(h) \/ RefuseBlock(h)
    PROVE  /\ mapBlockIndex' \subseteq Blocks
           /\ mapOrphanBlocks' \subseteq Blocks
           /\ pindexBest' \in mapBlockIndex'
           /\ TipHeight' \in Nat
           /\ highest' \in Nat
           /\ highest' >= highest
           /\ highest' >= TipHeight'
<1>0. TipHeight \in Nat /\ highest \in Nat
  BY TreeAssumption DEF TypeOK, TipHeight
<1>1. CASE BufferBlock(h)
  <2>1. mapBlockIndex' = mapBlockIndex /\ pindexBest' = pindexBest /\ highest' = highest
    BY <1>1 DEF BufferBlock
  <2>2. mapOrphanBlocks' \subseteq mapOrphanBlocks \cup {h}
    BY <1>1 DEF BufferBlock
  <2> QED BY SMTT(20), <1>0, <2>1, <2>2 DEF TypeOK, TipHeight, TipSeen
<1>2. CASE RefuseBlock(h)
  <2>1. /\ pindexBest' = pindexBest /\ mapOrphanBlocks' = mapOrphanBlocks /\ highest' = highest
        /\ mapBlockIndex \subseteq mapBlockIndex'
        /\ mapBlockIndex' \subseteq mapBlockIndex \cup {h}
    BY <1>2 DEF RefuseBlock
  <2> QED BY SMTT(20), <1>0, <2>1 DEF TypeOK, TipHeight, TipSeen
<1>3. CASE AcceptBlock(h)
  <2>1. ProcessBufferedBlocks(h, {h}) /\ {h} \in SUBSET Blocks
    BY <1>3 DEF AcceptBlock
  <2> QED BY <2>1, BufferedStep
<1> QED BY <1>1, <1>2, <1>3

\* PushGetHeaders keeps the types of what it sets.
LEMMA PushGetHeadersType ==
    ASSUME TypeOK, NEW p \in Peers, NEW tip \in Blocks, NEW fForce, PushGetHeaders(p, tip, fForce)
    PROVE  /\ pindexLastGetHeadersBegin' \in [Peers -> Blocks \cup {None}]
           /\ getheaders' \in [Peers -> SUBSET Blocks]
<1>1. CASE UNCHANGED <<pindexLastGetHeadersBegin, getheaders>>
  BY <1>1 DEF TypeOK
<1>2. CASE /\ pindexLastGetHeadersBegin' = [pindexLastGetHeadersBegin EXCEPT ![p] = tip]
           /\ getheaders' = [getheaders EXCEPT ![p] = @ \cup {tip}]
  BY <1>2 DEF TypeOK
<1> QED BY <1>1, <1>2 DEF PushGetHeaders

\* The "block" handler: the entry leaves the flight table, the tip may move.
LEMMA RecvBlockStep ==
    ASSUME IInv, NEW p \in Peers, NEW h \in Blocks, RecvBlock(p, h)
    PROVE  IInv'
<1>0. TypeOK /\ TipSeen /\ h # Genesis
  BY ZenonT(30) DEF IInv, RecvBlock
<1>1. /\ mapBlockIndex' \subseteq Blocks
      /\ mapOrphanBlocks' \subseteq Blocks
      /\ pindexBest' \in mapBlockIndex'
      /\ TipHeight' \in Nat
      /\ highest' \in Nat
      /\ highest' >= highest
      /\ highest' >= TipHeight'
  BY ZenonT(30), <1>0, ProcessBlockStep DEF RecvBlock
<1>2. highest \in Nat
  BY <1>0 DEF TypeOK
<1>3. /\ InFlight' = InFlight \ {h}
      /\ \A b \in InFlight' : g_mapBlocksInFlight'[b] = g_mapBlocksInFlight[b]
      /\ g_mapBlocksInFlight' \in [InFlight' -> [peer : Peers, age : 0..MaxReqAge]]
  BY <1>0 DEF RecvBlock, InFlight, TypeOK
<1>4. /\ g_setBlocksQueuedOrInFlight' \subseteq g_setBlocksQueuedOrInFlight
      /\ g_vBlocksToDownload' \in Seq(Blocks)
      /\ \/ /\ h \notin g_setBlocksQueuedOrInFlight'
            /\ Queued' = Queued
         \/ /\ h \in g_setBlocksQueuedOrInFlight
            /\ Queued' = Queued \cup {h}
  <2>1. g_vBlocksToDownload \in Seq(Blocks)
    BY <1>0 DEF TypeOK
  <2>2. CASE /\ g_setBlocksQueuedOrInFlight' = g_setBlocksQueuedOrInFlight \ {h}
             /\ UNCHANGED g_vBlocksToDownload
    BY <2>1, <2>2 DEF Queued
  <2>3. CASE /\ g_vBlocksToDownload' = RetryRefused(h) \o g_vBlocksToDownload
             /\ UNCHANGED g_setBlocksQueuedOrInFlight
    <3>1. RetryRefused(h) \in Seq(Blocks)
      BY SMTT(20) DEF RetryRefused
    <3>2. RangeOf(RetryRefused(h)) = IF h \in g_setBlocksQueuedOrInFlight THEN {h} ELSE {}
      BY SMTT(20) DEF RetryRefused, RangeOf
    <3>3. /\ g_vBlocksToDownload' \in Seq(Blocks)
          /\ RangeOf(g_vBlocksToDownload') = RangeOf(RetryRefused(h)) \cup RangeOf(g_vBlocksToDownload)
      BY <2>1, <2>3, <3>1, ConcatRange
    <3>4. Queued' = RangeOf(RetryRefused(h)) \cup Queued
      BY ZenonT(30), <3>3 DEF Queued, RangeOf
    <3> QED BY <2>3, <3>2, <3>3, <3>4
  <2> QED BY ZenonT(30), <2>2, <2>3 DEF RecvBlock
<1>5. /\ g_nLastHeadersRequestHeight' \in Nat \cup {-1}
      /\ pindexLastGetHeadersBegin' \in [Peers -> Blocks \cup {None}]
      /\ getheaders' \in [Peers -> SUBSET Blocks]
  <2>1. Height[pindexBest'] \in Nat /\ pindexBest' \in Blocks
    BY <1>1, TreeAssumption
  <2>2. CASE UNCHANGED reqVars
    BY <1>0, <2>2 DEF TypeOK, reqVars
  <2>3. CASE /\ g_nLastHeadersRequestHeight' = Height[pindexBest']
             /\ PushGetHeaders(p, pindexBest', FALSE)
    BY ZenonT(30), <1>0, <2>1, <2>3, PushGetHeadersType
  <2> QED BY ZenonT(30), <2>2, <2>3 DEF RecvBlock
<1>6. getdata' \in [Peers -> SUBSET Blocks] /\ g_mapPeerLastBlockTime' \in [Peers -> 0..MaxQuietAge]
  <2>1. 0 \in 0..MaxQuietAge
    BY SMTT(20), DownloadAssumption DEF MaxQuietAge
  <2> QED BY ZenonT(30), <1>0, <2>1 DEF TypeOK, RecvBlock
<1>a. mapAskFor' \in [Peers -> SUBSET Blocks]
  <2>1. CASE AskForWanted(p, h)
    <3> DEFINE missing == Ancestors[h] \ mapOrphanBlocks'
               wanted == {a \in missing : \A c \in missing : Height[c] <= Height[a]}
    <3>1. wanted \in SUBSET Blocks
      BY TreeAssumption
    <3>2. mapAskFor' = mapAskFor \/ mapAskFor' = [mapAskFor EXCEPT ![p] = @ \cup wanted]
      BY <2>1 DEF AskForWanted
    <3> HIDE DEF wanted
    <3>3. mapAskFor \in [Peers -> SUBSET Blocks]
      BY <1>0 DEF TypeOK
    <3> QED BY SMTT(20), <3>1, <3>2, <3>3
  <2>2. CASE UNCHANGED mapAskFor
    BY <1>0, <2>2 DEF TypeOK
  <2> QED BY ZenonT(30), <2>1, <2>2 DEF RecvBlock
<1>7. TypeOK'
  BY ZenonT(30), <1>0, <1>a, <1>1, <1>3, <1>4, <1>5, <1>6 DEF TypeOK, RecvBlock, syncVars, timerVars
<1>8. TrackedNotLost'
  BY <1>3, <1>4 DEF IInv, TrackedNotLost
<1>9. PerPeerWindow'
  <2> SUFFICES ASSUME NEW r \in Peers
               PROVE  Cardinality(OwnedBy(r, g_mapBlocksInFlight'))
                        <= MAX_BLOCKS_IN_FLIGHT_PER_PEER
    BY DEF PerPeerWindow
  <2>1. /\ OwnedBy(r, g_mapBlocksInFlight') \subseteq OwnedBy(r, g_mapBlocksInFlight)
        /\ OwnedBy(r, g_mapBlocksInFlight) \subseteq Blocks
    BY <1>0, <1>3 DEF OwnedBy, InFlight, TypeOK
  <2>2. Cardinality(OwnedBy(r, g_mapBlocksInFlight')) <= Cardinality(OwnedBy(r, g_mapBlocksInFlight))
    BY <2>1, BlockSubset
  <2>3. /\ Cardinality(OwnedBy(r, g_mapBlocksInFlight')) \in Nat
        /\ Cardinality(OwnedBy(r, g_mapBlocksInFlight)) \in Nat
    BY <2>1, BlockSetFinite
  <2>4. Cardinality(OwnedBy(r, g_mapBlocksInFlight)) <= MAX_BLOCKS_IN_FLIGHT_PER_PEER
    BY DEF IInv, PerPeerWindow
  <2> QED BY SMTT(20), <2>2, <2>3, <2>4, DownloadAssumption
<1>10. \A b \in Blocks : Height[b] <= highest + BLOCK_DOWNLOAD_WINDOW
                           => Height[b] <= highest' + BLOCK_DOWNLOAD_WINDOW
  BY SMTT(20), <1>1, <1>2, TreeAssumption, DownloadAssumption
<1>11. HeightWindow'
  BY <1>0, <1>3, <1>10 DEF IInv, HeightWindow, TypeOK
<1>12. QueueHeights'
  <2> SUFFICES ASSUME NEW b \in Queued'
               PROVE  b \in g_mapBlockHeight \/ Height[b] <= highest' + BLOCK_DOWNLOAD_WINDOW
    BY ZenonT(30) DEF QueueHeights, RecvBlock
  <2>1. b \in Queued \/ b \in InFlight
    BY <1>4 DEF IInv, TrackedNotLost
  <2>2. b \in Blocks
    BY SMTT(20), <1>0, <1>4, <2>1 DEF TypeOK, Queued
  <2> QED BY <1>10, <2>1, <2>2 DEF IInv, QueueHeights, HeightWindow
<1>13. TipSeen'
  BY SMTT(20), <1>1 DEF TipSeen
<1> QED BY <1>7, <1>8, <1>9, <1>11, <1>12, <1>13 DEF IInv

\* SendMessages: what is overdue is put back, then the scheduler works on the queue.
LEMMA SendMessagesStep ==
    ASSUME IInv, NEW p \in Peers, SendMessages(p)
    PROVE  IInv'
<1>0. TypeOK
  BY DEF IInv
<1> DEFINE flight == [h \in InFlight \ Overdue |-> g_mapBlocksInFlight[h]]
<1>1. PICK s \in Listings(Overdue, RequeueOrder) : \E k \in 0..Len(s \o g_vBlocksToDownload) :
           /\ \A j \in 0..(k - 1) : ~LoopEnds(p, s \o g_vBlocksToDownload, j, flight)
           /\ Schedule(p, s \o g_vBlocksToDownload, k, flight)
  BY Zenon DEF SendMessages
<1>2. Overdue \in SUBSET InFlight /\ InFlight \subseteq Blocks
  BY <1>0 DEF Overdue, TypeOK
<1>3. s \in Seq(Blocks) /\ RangeOf(s) = Overdue
  BY <1>2, ListingSeq
<1> DEFINE q == s \o g_vBlocksToDownload
<1>4. q \in Seq(Blocks) /\ RangeOf(q) = Overdue \cup Queued
  <2>1. g_vBlocksToDownload \in Seq(Blocks)
    BY <1>0 DEF TypeOK
  <2>2. q \in Seq(Blocks) /\ RangeOf(q) = RangeOf(s) \cup RangeOf(g_vBlocksToDownload)
    BY <1>3, <2>1, ConcatRange
  <2> QED BY ZenonT(30), <1>3, <2>2 DEF Queued, RangeOf
<1>5. /\ DOMAIN flight = InFlight \ Overdue
      /\ \A h \in DOMAIN flight : flight[h] = g_mapBlocksInFlight[h]
  OBVIOUS
<1>6. PICK k \in 0..Len(q) : /\ \A j \in 0..(k - 1) : ~LoopEnds(p, q, j, flight)
                             /\ Schedule(p, q, k, flight)
  BY ZenonT(30), <1>1
<1>7. UNCHANGED chainVars
  BY DEF SendMessages
<1> HIDE DEF q, flight
<1>8. RangeOf(q) = (InFlight \ DOMAIN flight) \cup Queued /\ DOMAIN flight \subseteq InFlight
  BY <1>2, <1>4, <1>5
<1>9. UNCHANGED <<pindexBest, highest>>
  BY <1>7 DEF chainVars
<1>10. /\ Core'
       /\ g_vBlocksToDownload' \in Seq(Blocks)
       /\ g_mapBlocksInFlight' \in [InFlight' -> [peer : Peers, age : 0..MaxReqAge]]
       /\ getdata' \in [Peers -> SUBSET Blocks]
       /\ mapAskFor' \in [Peers -> SUBSET Blocks]
       /\ g_mapBlockHeight' \subseteq Blocks
       /\ g_setBlocksQueuedOrInFlight' \subseteq Blocks
       /\ InFlight' \subseteq Blocks
       /\ nLastHeightPrune' \in {0, nLastHeightPrune}
  BY <1>4, <1>5, <1>6, <1>8, <1>9, ScheduleStep, Zenon
<1>11. nLastHeightPrune' \in 0..HEIGHT_PRUNE_INTERVAL /\ nLastStarveHeaders' \in 0..SYNC_HEADERS_RETRY
  <2>1. 0 \in 0..HEIGHT_PRUNE_INTERVAL /\ 0 \in 0..SYNC_HEADERS_RETRY
    BY SMTT(20), DownloadAssumption
  <2>2. nLastStarveHeaders' \in {0, nLastStarveHeaders}
    BY Zenon DEF SendMessages
  <2>3. nLastHeightPrune \in 0..HEIGHT_PRUNE_INTERVAL /\ nLastStarveHeaders \in 0..SYNC_HEADERS_RETRY
    BY <1>0 DEF TypeOK
  <2> QED BY <1>10, <2>1, <2>2, <2>3
<1>12. /\ g_nLastHeadersRequestHeight' \in Nat \cup {-1}
       /\ pindexLastGetHeadersBegin' \in [Peers -> Blocks \cup {None}]
       /\ getheaders' \in [Peers -> SUBSET Blocks]
  <2>1. CASE UNCHANGED reqVars
    BY <1>0, <2>1 DEF TypeOK, reqVars
  <2>2. CASE g_nLastHeadersRequestHeight' = TipHeight /\ PushGetHeaders(p, pindexBest, TRUE)
    <3>1. pindexBest \in Blocks /\ TipHeight \in Nat
      BY <1>0, TreeAssumption DEF TypeOK, TipHeight
    <3>2. /\ pindexLastGetHeadersBegin' \in [Peers -> Blocks \cup {None}]
          /\ getheaders' \in [Peers -> SUBSET Blocks]
      BY <1>0, <2>2, <3>1, PushGetHeadersType, Zenon
    <3> QED BY <2>2, <3>1, <3>2
  <2> QED BY <2>1, <2>2, Zenon DEF SendMessages
<1>13. turn' \in Peers \cup {0} /\ fStartSync' \subseteq Peers
  <2>1. turn' \in Following(p, connected) /\ fStartSync' = fStartSync \ {p}
    BY Zenon DEF SendMessages
  <2> QED BY ZenonT(30), <1>0, <2>1, FollowingType DEF TypeOK
<1>14. UNCHANGED <<connected, fresh, pnodeSync, watch, g_mapPeerLastBlockTime>>
  BY DEF SendMessages
<1>15. TypeOK'
  BY <1>0, <1>7, <1>10, <1>11, <1>12, <1>13, <1>14, Zenon DEF TypeOK, chainVars
<1> QED BY <1>10, <1>15 DEF IInv, Core
-----------------------------------------------------------------------------
\* The invariant is inductive.
LEMMA IInvInductive == IInv /\ [Next]_vars => IInv'
<1> SUFFICES ASSUME IInv, [Next]_vars PROVE IInv'
  OBVIOUS
<1>1. CASE NextPass
  BY <1>1, NextPassStep
<1>2. ASSUME NEW p \in Peers, Connect(p) PROVE IInv'
  BY <1>2, ConnectStep
<1>3. ASSUME NEW p \in Peers, RecvHeaders(p) PROVE IInv'
  BY <1>3, RecvHeadersStep
<1>4. ASSUME NEW p \in Peers, SendMessages(p) PROVE IInv'
  BY <1>4, SendMessagesStep
<1>5. ASSUME NEW p \in Peers, Skip(p) PROVE IInv'
  BY <1>5, SkipStep
<1>6. ASSUME NEW p \in Peers, Disconnect(p) PROVE IInv'
  BY <1>6, DisconnectStep
<1>7. ASSUME NEW p \in Peers, NEW h \in Blocks, RecvInv(p, h) PROVE IInv'
  BY <1>7, RecvInvStep
<1>8. ASSUME NEW p \in Peers, NEW h \in Blocks, RecvBlock(p, h) PROVE IInv'
  BY <1>8, RecvBlockStep
<1>9. CASE UNCHANGED vars
  <2>1. UNCHANGED <<queueVars, chainVars, syncVars, reqVars, timerVars,
                    g_mapPeerLastBlockTime, mapAskFor, getdata, turn>>
    BY <1>9 DEF vars
  <2>2. TypeOK'
    BY <2>1 DEF IInv, TypeOK, queueVars, chainVars, syncVars, reqVars, timerVars, InFlight
  <2>3. Core'
    BY <2>1, CoreUnchanged DEF IInv, Core, chainVars
  <2> QED BY <2>2, <2>3 DEF IInv, Core
<1> QED BY <1>1, <1>2, <1>3, <1>4, <1>5, <1>6, <1>7, <1>8, <1>9 DEF Next

\* The inductive invariant holds in every reachable state.
THEOREM Invariance == Spec => []IInv
<1>1. Init => IInv
  BY InitStep
<1>2. IInv /\ [Next]_vars => IInv'
  BY IInvInductive
<1> QED BY <1>1, <1>2, PTL DEF Spec

\* Type correctness of the download state.
THEOREM TypeCorrect == Spec => []TypeOK
<1>1. IInv => TypeOK
  BY DEF IInv
<1> QED BY <1>1, Invariance, PTL

\* The headers and "inv" handlers never leave alone a block that the scheduler
\* lost: a member of g_setBlocksQueuedOrInFlight is queued or in flight.
THEOREM TrackedNeverLost == Spec => []TrackedNotLost
<1>1. IInv => TrackedNotLost
  BY DEF IInv
<1> QED BY <1>1, Invariance, PTL

\* No peer ever has more than MAX_BLOCKS_IN_FLIGHT_PER_PEER requests in flight, and
\* no block in flight is more than BLOCK_DOWNLOAD_WINDOW above the highest tip the node
\* has had, whatever chain of more trust it has reorganised to since.
THEOREM WindowsKept == Spec => []WithinWindows
<1>1. IInv => WithinWindows
  BY DEF IInv, WithinWindows
<1> QED BY <1>1, Invariance, PTL

-----------------------------------------------------------------------------
(* How the tracking of a block ends.                                        *)

\* LimitOrphanBlocks keeps the buffer within its limit.
BufferBounded == Cardinality(mapOrphanBlocks) <= MAX_ORPHAN_BLOCKS

\* What TrackedUntilHeld says of one step.
ReleasedIsHeld ==
    \A h \in g_setBlocksQueuedOrInFlight \ g_setBlocksQueuedOrInFlight' :
        h \in Have' \/ Cardinality(mapOrphanBlocks') = MAX_ORPHAN_BLOCKS

\* A buffer that only loses blocks stays within its limit.
LEMMA BufferShrinks ==
    ASSUME IInv, BufferBounded, mapOrphanBlocks' \subseteq mapOrphanBlocks
    PROVE  BufferBounded'
<1>1. IsFiniteSet(mapOrphanBlocks)
  BY TreeAssumption, FS_Subset DEF IInv, TypeOK
<1>2. IsFiniteSet(mapOrphanBlocks') /\ Cardinality(mapOrphanBlocks') <= Cardinality(mapOrphanBlocks)
  BY <1>1, FS_Subset
<1>3. /\ Cardinality(mapOrphanBlocks) \in Nat /\ Cardinality(mapOrphanBlocks') \in Nat
      /\ MAX_ORPHAN_BLOCKS \in Nat
  BY <1>1, <1>2, FS_CardinalityType, DownloadAssumption
<1> QED BY SMTT(20), <1>2, <1>3 DEF BufferBounded

\* A block put into the buffer is in it afterwards, or the buffer is full.
LEMMA BufferTakes ==
    ASSUME IInv, BufferBounded, NEW h \in Blocks, BufferBlock(h)
    PROVE  /\ BufferBounded'
           /\ h \in mapOrphanBlocks' \/ Cardinality(mapOrphanBlocks') = MAX_ORPHAN_BLOCKS
<1> DEFINE all == mapOrphanBlocks \cup {h}
<1>1. IsFiniteSet(mapOrphanBlocks) /\ h \notin mapOrphanBlocks
  BY TreeAssumption, FS_Subset DEF IInv, TypeOK, BufferBlock, Have
<1>2. IsFiniteSet(all) /\ Cardinality(all) = Cardinality(mapOrphanBlocks) + 1
  BY <1>1, FS_AddElement
<1>3. /\ Cardinality(mapOrphanBlocks) \in Nat /\ Cardinality(all) \in Nat
      /\ MAX_ORPHAN_BLOCKS \in Nat
  BY <1>1, <1>2, FS_CardinalityType, DownloadAssumption
<1>4. PICK e \in all : mapOrphanBlocks' = IF Cardinality(all) > MAX_ORPHAN_BLOCKS
                                          THEN all \ {e} ELSE all
  BY DEF BufferBlock
<1>5. CASE Cardinality(all) > MAX_ORPHAN_BLOCKS
  <2>1. mapOrphanBlocks' = all \ {e}
    BY <1>4, <1>5
  <2>2. Cardinality(all \ {e}) = Cardinality(all) - 1
    BY <1>2, <1>4, FS_RemoveElement
  <2>3. Cardinality(mapOrphanBlocks') = MAX_ORPHAN_BLOCKS
    BY SMTT(20), <1>2, <1>3, <1>5, <2>1, <2>2 DEF BufferBounded
  <2> QED BY SMTT(20), <1>3, <2>3 DEF BufferBounded
<1>6. CASE ~(Cardinality(all) > MAX_ORPHAN_BLOCKS)
  <2>1. mapOrphanBlocks' = all
    BY <1>4, <1>6
  <2> QED BY SMTT(20), <1>3, <1>6, <2>1 DEF BufferBounded
<1> QED BY <1>5, <1>6

\* A step that lets go of no block and leaves the buffer alone.
LEMMA NothingReleased ==
    ASSUME BufferBounded, g_setBlocksQueuedOrInFlight \subseteq g_setBlocksQueuedOrInFlight',
           UNCHANGED mapOrphanBlocks
    PROVE  BufferBounded' /\ ReleasedIsHeld
BY DEF BufferBounded, ReleasedIsHeld

\* The scheduler lets go only of what it finds it has.
LEMMA SendReleases ==
    ASSUME BufferBounded, NEW p \in Peers, SendMessages(p)
    PROVE  BufferBounded' /\ ReleasedIsHeld
<1>1. UNCHANGED <<mapBlockIndex, mapOrphanBlocks>>
  BY DEF SendMessages, chainVars
<1>2. PICK q, k : g_setBlocksQueuedOrInFlight' = g_setBlocksQueuedOrInFlight \ Found(q, k)
  BY ZenonT(30) DEF SendMessages, Schedule
<1>3. Found(q, k) \subseteq Have'
  BY <1>1 DEF Found, Have
<1> QED BY <1>1, <1>2, <1>3 DEF BufferBounded, ReleasedIsHeld

\* A delivered block is let go of when it is accepted or buffered.
LEMMA RecvReleases ==
    ASSUME IInv, BufferBounded, NEW p \in Peers, NEW h \in Blocks, RecvBlock(p, h)
    PROVE  BufferBounded' /\ ReleasedIsHeld
<1>1. CASE BufferBlock(h) /\ g_setBlocksQueuedOrInFlight' = g_setBlocksQueuedOrInFlight \ {h}
  BY <1>1, BufferTakes DEF ReleasedIsHeld, Have
<1>2. CASE AcceptBlock(h) /\ g_setBlocksQueuedOrInFlight' = g_setBlocksQueuedOrInFlight \ {h}
  <2>1. h \in mapBlockIndex' /\ mapOrphanBlocks' \subseteq mapOrphanBlocks
    BY ZenonT(30), <1>2 DEF AcceptBlock, ProcessBufferedBlocks
  <2> QED BY <1>2, <2>1, BufferShrinks DEF ReleasedIsHeld, Have
<1>3. CASE RefuseBlock(h) /\ UNCHANGED g_setBlocksQueuedOrInFlight
  BY <1>3, NothingReleased DEF RefuseBlock
<1> QED BY ZenonT(30), <1>1, <1>2, <1>3 DEF RecvBlock

\* Every step.
LEMMA ReleaseStep ==
    ASSUME IInv, BufferBounded, [Next]_vars
    PROVE  BufferBounded' /\ ReleasedIsHeld
<1>1. CASE NextPass
  <2>1. mapOrphanBlocks' \subseteq mapOrphanBlocks /\ UNCHANGED g_setBlocksQueuedOrInFlight
    BY <1>1 DEF NextPass, ProcessBufferedBlocks
  <2> QED BY <2>1, BufferShrinks DEF ReleasedIsHeld
<1>2. ASSUME NEW p \in Peers, Connect(p) \/ Skip(p) \/ Disconnect(p)
      PROVE  BufferBounded' /\ ReleasedIsHeld
  BY <1>2, NothingReleased DEF Connect, Skip, Disconnect, queueVars, chainVars
<1>3. ASSUME NEW p \in Peers, RecvHeaders(p)
      PROVE  BufferBounded' /\ ReleasedIsHeld
  BY <1>3, NothingReleased DEF RecvHeaders, chainVars
<1>4. ASSUME NEW p \in Peers, NEW h \in Blocks, RecvInv(p, h)
      PROVE  BufferBounded' /\ ReleasedIsHeld
  BY <1>4, NothingReleased DEF RecvInv, queueVars, chainVars
<1>5. ASSUME NEW p \in Peers, SendMessages(p)
      PROVE  BufferBounded' /\ ReleasedIsHeld
  BY <1>5, SendReleases
<1>6. ASSUME NEW p \in Peers, NEW h \in Blocks, RecvBlock(p, h)
      PROVE  BufferBounded' /\ ReleasedIsHeld
  BY <1>6, RecvReleases
<1>7. CASE UNCHANGED vars
  BY <1>7, NothingReleased DEF vars, queueVars, chainVars
<1> QED BY <1>1, <1>2, <1>3, <1>4, <1>5, <1>6, <1>7 DEF Next

\* The node stops tracking a block only when it has it, as a block of the index or of
\* the orphan buffer, unless that buffer is at its limit and may have evicted it.
THEOREM TrackedUntilTheEnd == Spec => TrackedUntilHeld
<1>1. Init => BufferBounded
  <2>1. Cardinality({}) = 0 /\ MAX_ORPHAN_BLOCKS \in Nat
    BY FS_EmptySet, DownloadAssumption
  <2> QED BY SMTT(20), <2>1 DEF Init, BufferBounded
<1>2. IInv /\ BufferBounded /\ [Next]_vars => BufferBounded' /\ ReleasedIsHeld
  BY ReleaseStep
<1>3. ReleasedIsHeld => [\A h \in g_setBlocksQueuedOrInFlight \ g_setBlocksQueuedOrInFlight' :
            h \in Have' \/ Cardinality(mapOrphanBlocks') = MAX_ORPHAN_BLOCKS]_vars
  BY DEF ReleasedIsHeld
<1> QED BY <1>1, <1>2, <1>3, Invariance, PTL DEF Spec, TrackedUntilHeld
-----------------------------------------------------------------------------
(* The buffer of orphans (OrphanBuffer), which has the index and the buffer  *)
(* of BlockDownload and the stakes seen in them: they stay in step, for any  *)
(* tree of blocks and any limits.                                            *)
CONSTANTS Stakes, GetProofOfStake, MAX_ORPHANDRAIN_BLOCKS
VARIABLES hashBestChain, setStakeSeen, setStakeSeenOrphan

O == INSTANCE OrphanBuffer

\* The instance has its own copy of FiniteSets.
LEMMA OrphanCardinality == \A S : O!Cardinality(S) = Cardinality(S)
BY DEF O!Cardinality, Cardinality, O!IsFiniteSet, IsFiniteSet

\* Where a block hangs whose parent is in the index.
LEMMA ParentIndexed ==
    ASSUME O!BufferExact, NEW b \in Blocks \ {Genesis}, Prev[b] \in mapBlockIndex
    PROVE  Ancestors[b] \subseteq mapBlockIndex
BY SMTT(20), TreeAssumption DEF O!BufferExact

\* A set that gains an element at most and stays within the limit, or exceeds it by
\* the one that is evicted.
LEMMA OrphanEvicted ==
    ASSUME O!OrphanAssumption, O!BufferExact, NEW b \in Blocks,
           NEW evicted \in O!LimitOrphanBlocks(mapOrphanBlocks \cup {b})
    PROVE  /\ evicted \subseteq mapOrphanBlocks \cup {b}
           /\ Cardinality((mapOrphanBlocks \cup {b}) \ evicted) <= MAX_ORPHAN_BLOCKS
<1> DEFINE all == mapOrphanBlocks \cup {b}
<1>1. IsFiniteSet(mapOrphanBlocks)
  BY TreeAssumption, FS_Subset DEF O!BufferExact
<1>2. /\ IsFiniteSet(all) /\ Cardinality(all) \in Nat /\ Cardinality(mapOrphanBlocks) \in Nat
      /\ Cardinality(all) <= Cardinality(mapOrphanBlocks) + 1
  <2>1. IsFiniteSet(all) /\ Cardinality(all) = IF b \in mapOrphanBlocks THEN Cardinality(mapOrphanBlocks)
                                               ELSE Cardinality(mapOrphanBlocks) + 1
    BY <1>1, FS_AddElement
  <2>2. Cardinality(mapOrphanBlocks) \in Nat
    BY <1>1, FS_CardinalityType
  <2> HIDE DEF all
  <2> QED BY SMTT(20), <2>1, <2>2
<1>3. CASE Cardinality(all) > MAX_ORPHAN_BLOCKS
  <2>1. PICK e \in all : evicted = {e}
    BY <1>3, OrphanCardinality DEF O!LimitOrphanBlocks
  <2>2. Cardinality(all \ {e}) = Cardinality(all) - 1
    BY <1>2, <2>1, FS_RemoveElement
  <2>3. Cardinality(mapOrphanBlocks) <= MAX_ORPHAN_BLOCKS /\ MAX_ORPHAN_BLOCKS \in Nat
    BY OrphanCardinality DEF O!BufferExact, O!OrphanAssumption
  <2> HIDE DEF all
  <2> QED BY SMTT(20), <1>2, <2>1, <2>2, <2>3 DEF all
<1>4. CASE ~(Cardinality(all) > MAX_ORPHAN_BLOCKS)
  <2>1. evicted = {} /\ all \ {} = all
    BY <1>4, OrphanCardinality DEF O!LimitOrphanBlocks
  <2>2. MAX_ORPHAN_BLOCKS \in Nat
    BY DEF O!OrphanAssumption
  <2> HIDE DEF all
  <2> QED BY SMTT(20), <1>2, <1>4, <2>1, <2>2 DEF all
<1> QED BY <1>3, <1>4

LEMMA BufferBlockStep ==
    ASSUME O!OrphanAssumption, O!BufferExact, NEW b \in Blocks \ {Genesis},
           b \notin mapBlockIndex \cup mapOrphanBlocks, O!BufferBlock(b)
    PROVE  O!BufferExact'
<1>1. PICK evicted \in O!LimitOrphanBlocks(mapOrphanBlocks \cup {b}) :
         /\ mapOrphanBlocks' = (mapOrphanBlocks \cup {b}) \ evicted
         /\ setStakeSeenOrphan' = (setStakeSeenOrphan \cup O!StakesOf({b})) \ O!StakesOf(evicted)
  BY DEF O!BufferBlock
<1>2. UNCHANGED <<mapBlockIndex, hashBestChain, setStakeSeen>>
  BY DEF O!BufferBlock
<1>3. mapOrphanBlocks' \subseteq Blocks \ mapBlockIndex'
  BY <1>1, <1>2 DEF O!BufferExact
<1>4. setStakeSeenOrphan' \subseteq O!StakesOf(mapOrphanBlocks')
  BY <1>1 DEF O!BufferExact, O!StakesOf
<1>5. Cardinality(mapOrphanBlocks') <= MAX_ORPHAN_BLOCKS
  BY <1>1, OrphanEvicted
<1> QED BY <1>2, <1>3, <1>4, <1>5, OrphanCardinality DEF O!BufferExact

LEMMA RefuseBlockStep ==
    ASSUME O!BufferExact, NEW b \in Blocks \ {Genesis},
           b \notin mapBlockIndex \cup mapOrphanBlocks, O!RefuseBlock(b)
    PROVE  O!BufferExact'
<1>1. /\ mapBlockIndex' = mapBlockIndex \cup {b}
      /\ setStakeSeen' = setStakeSeen \cup O!StakesOf({b})
      /\ UNCHANGED <<hashBestChain, mapOrphanBlocks, setStakeSeenOrphan>>
      /\ Prev[b] \in mapBlockIndex
  BY DEF O!RefuseBlock
<1>2. \A c \in mapBlockIndex' : Ancestors[c] \subseteq mapBlockIndex'
  BY <1>1, ParentIndexed DEF O!BufferExact
<1>3. setStakeSeen' = O!StakesOf(mapBlockIndex')
  BY <1>1 DEF O!BufferExact, O!StakesOf
<1> QED BY <1>1, <1>2, <1>3, ZenonT(60) DEF O!BufferExact

\* A batch above start takes the blocks in the order of the chain: with a block that is
\* tried, everything below it is in the index, or is accepted before it.
LEMMA BatchStep ==
    ASSUME O!OrphanAssumption, O!BufferExact, NEW start \in Blocks, NEW new \in SUBSET Blocks,
           O!ChainOf(start) \subseteq mapBlockIndex \cup new,
           \A b \in new : Ancestors[b] \subseteq mapBlockIndex,
           new \cap mapOrphanBlocks = {},
           O!ProcessBufferedBlocks(start, new)
    PROVE  O!BufferExact'
<1> DEFINE todo == O!Attached(start)
<1>1. PICK done \in SUBSET todo : \E refused \in SUBSET (Flaky \cap done) :
         \E failed \in SUBSET refused : O!Batch(todo, new, done, refused, failed)
  BY DEF O!ProcessBufferedBlocks
<1>2. PICK refused \in SUBSET (Flaky \cap done) :
         \E failed \in SUBSET refused : O!Batch(todo, new, done, refused, failed)
  BY <1>1
<1>3. PICK failed \in SUBSET refused : O!Batch(todo, new, done, refused, failed)
  BY <1>2
<1>4. LET added == new \cup (done \ refused)
      IN  /\ done \subseteq todo /\ refused \subseteq done /\ failed \subseteq refused
          /\ \A o \in done : Ancestors[o] \cap todo \subseteq done \ refused
          /\ mapBlockIndex' = mapBlockIndex \cup added \cup failed
          /\ setStakeSeen' = setStakeSeen \cup O!StakesOf(added \cup failed)
          /\ mapOrphanBlocks' = mapOrphanBlocks \ done
          /\ setStakeSeenOrphan' = setStakeSeenOrphan \ O!StakesOf(done)
          /\ hashBestChain' \in added \cup {hashBestChain}
  BY <1>3 DEF O!Batch
<1> DEFINE added == new \cup (done \ refused)
<1>5. done \subseteq todo /\ todo \subseteq mapOrphanBlocks /\ mapOrphanBlocks \subseteq Blocks \ mapBlockIndex
      /\ mapBlockIndex \subseteq Blocks
  BY <1>4 DEF O!Attached, O!BufferExact
<1>6. hashBestChain' \in mapBlockIndex'
  <2>1. hashBestChain' = hashBestChain \/ hashBestChain' \in added
    BY <1>4
  <2> QED BY <1>4, <2>1 DEF O!BufferExact
<1>7. ASSUME NEW o \in done PROVE Ancestors[o] \subseteq mapBlockIndex'
  <2> SUFFICES ASSUME NEW a \in Ancestors[o], a \notin O!ChainOf(start)
               PROVE  a \in added
    <3>1. mapBlockIndex' = mapBlockIndex \cup added \cup failed /\ new \subseteq added
      BY <1>4
    <3> HIDE DEF added
    <3> QED BY <3>1
  <2>1. o \in Blocks /\ a \in Blocks /\ a \in O!ChainOf(o) /\ start \in O!ChainOf(o)
    <3>1. o \in Blocks /\ start \in Ancestors[o]
      BY <1>5 DEF O!Attached
    <3>2. Ancestors[o] \subseteq Blocks
      BY <3>1, TreeAssumption
    <3> QED BY <3>1, <3>2 DEF O!ChainOf
  <2>2. Height[start] \in Nat /\ Height[a] \in Nat
    BY <2>1, TreeAssumption
  <2>3. start \in O!ChainOf(a)
    BY SMTT(20), <2>1, <2>2 DEF O!OrphanAssumption
  <2>4. start \in Ancestors[a]
    BY <2>3 DEF O!ChainOf
  <2>5. Ancestors[a] \subseteq Ancestors[o]
    BY <2>1 DEF O!OrphanAssumption
  <2>6. a \in todo
    <3>1. Ancestors[o] \ O!ChainOf(start) \subseteq mapOrphanBlocks
      BY <1>5 DEF O!Attached
    <3> QED BY <2>4, <2>5, <3>1 DEF O!Attached
  <2> QED BY <1>4, <2>6
<1>8. \A b \in mapBlockIndex' : Ancestors[b] \subseteq mapBlockIndex'
  <2>1. \A b \in mapBlockIndex : Ancestors[b] \subseteq mapBlockIndex
    BY DEF O!BufferExact
  <2>2. mapBlockIndex \subseteq mapBlockIndex' /\ mapBlockIndex' \subseteq mapBlockIndex \cup new \cup done
    BY <1>4
  <2> QED BY <1>7, <2>1, <2>2
<1>9. mapOrphanBlocks' \subseteq Blocks \ mapBlockIndex' /\ mapBlockIndex' \subseteq Blocks
  BY <1>4, <1>5
<1>10. setStakeSeen' = O!StakesOf(mapBlockIndex')
  BY <1>4 DEF O!BufferExact, O!StakesOf
<1>11. setStakeSeenOrphan' \subseteq O!StakesOf(mapOrphanBlocks')
  BY SMTT(20), <1>4 DEF O!BufferExact, O!StakesOf
<1>12. Cardinality(mapOrphanBlocks') <= MAX_ORPHAN_BLOCKS
  <2>1. IsFiniteSet(mapOrphanBlocks) /\ mapOrphanBlocks' \subseteq mapOrphanBlocks
    BY <1>4, <1>5, TreeAssumption, FS_Subset
  <2>2. /\ Cardinality(mapOrphanBlocks') \in Nat /\ Cardinality(mapOrphanBlocks) \in Nat
        /\ Cardinality(mapOrphanBlocks') <= Cardinality(mapOrphanBlocks)
    BY <2>1, FS_Subset, FS_CardinalityType
  <2> QED BY SMTT(20), <2>2, OrphanCardinality DEF O!BufferExact, O!OrphanAssumption
<1> QED BY <1>6, <1>8, <1>9, <1>10, <1>11, <1>12, OrphanCardinality DEF O!BufferExact

\* BufferExact is inductive as it stands.
LEMMA OrphanNextStep ==
    ASSUME O!OrphanAssumption, O!BufferExact, [O!Next]_O!vars
    PROVE  O!BufferExact'
<1>1. CASE O!DrainBufferedBlocks
  <2>1. hashBestChain \in Blocks /\ O!ChainOf(hashBestChain) \subseteq mapBlockIndex
    BY DEF O!BufferExact, O!ChainOf
  <2> QED BY <1>1, <2>1, BatchStep DEF O!DrainBufferedBlocks
<1>2. ASSUME NEW b \in Blocks \ {Genesis}, O!ProcessBlock(b)
      PROVE  O!BufferExact'
  <2>1. b \notin mapBlockIndex \cup mapOrphanBlocks
    BY <1>2 DEF O!ProcessBlock
  <2>2. CASE O!BufferBlock(b)
    BY <2>1, <2>2, BufferBlockStep
  <2>3. CASE O!RefuseBlock(b)
    BY <2>1, <2>3, RefuseBlockStep
  <2>4. CASE Prev[b] \in mapBlockIndex /\ O!ProcessBufferedBlocks(b, {b})
    <3>1. Ancestors[b] \subseteq mapBlockIndex
      BY <2>4, ParentIndexed
    <3> QED BY <2>1, <2>4, <3>1, BatchStep DEF O!ChainOf
  <2> QED BY <1>2, <2>2, <2>3, <2>4 DEF O!ProcessBlock
<1>3. CASE UNCHANGED O!vars
  BY <1>3 DEF O!vars, O!BufferExact, O!StakesOf
<1> QED BY <1>1, <1>2, <1>3 DEF O!Next

\* Through evictions, refused blocks and batches cut short the index stays a tree, the
\* buffer disjoint from it and within its limit, and no stake seen outlives its block.
THEOREM BufferInStep == ASSUME O!OrphanAssumption PROVE O!Spec => []O!BufferExact
<1>1. O!Init => O!BufferExact
  <2>1. Cardinality({}) = 0 /\ MAX_ORPHAN_BLOCKS \in Nat
    BY FS_EmptySet DEF O!OrphanAssumption
  <2>2. ASSUME O!Init PROVE setStakeSeen = O!StakesOf(mapBlockIndex)
    BY <2>2 DEF O!Init, O!StakesOf, O!OrphanAssumption
  <2>3. ASSUME O!Init PROVE setStakeSeenOrphan \subseteq O!StakesOf(mapOrphanBlocks)
    BY <2>3 DEF O!Init
  <2>4. Genesis \in Blocks /\ Ancestors[Genesis] = {}
    BY TreeAssumption
  <2> QED BY SMTT(20), <2>1, <2>2, <2>3, <2>4, OrphanCardinality DEF O!Init, O!BufferExact
<1>2. O!BufferExact /\ [O!Next]_O!vars => O!BufferExact'
  BY OrphanNextStep
<1> QED BY <1>1, <1>2, PTL DEF O!Spec
=============================================================================
