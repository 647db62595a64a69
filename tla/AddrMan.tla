------------------------------- MODULE AddrMan -------------------------------
(***************************************************************************)
(* The address manager (CAddrMan) and its file, peers.dat.                  *)
(*                                                                          *)
(* Every public operation runs under cs and is one step.  Clocks and        *)
(* statistics are left out: which entry of a bucket is terrible, oldest or  *)
(* least recently tried, and whether a known address brings news, is a free *)
(* choice.  Positions in vRandom count from 1.                              *)
(*                                                                          *)
(* The file is not kept as state: the tables a restart loads from a file of *)
(* any age are those a restart right after that dump would have loaded.     *)
(***************************************************************************)
EXTENDS Integers, Sequences, FiniteSets

CONSTANTS
    Services,           \* addresses with a port
    Ip,                 \* the CNetAddr of a service, the key of mapAddr
    Sources,            \* who tells of an address
    NewBuckets,
    TriedBuckets,
    NewBucketOf,        \* GetNewBucket, for each CNetAddr and source
    TriedBucketOf,      \* GetTriedBucket, for each service
    ADDRMAN_NEW_BUCKET_SIZE,
    ADDRMAN_TRIED_BUCKET_SIZE,
    ADDRMAN_NEW_BUCKETS_PER_ADDRESS,
    ADDRMAN_GETADDR_MAX_PCT,
    MaxIds              \* bound on nIdCount

Ips == {Ip[s] : s \in Services}

\* The tables of buckets and their sizes.
AddrManAssumption ==
    /\ NewBucketOf \in [Ips -> [Sources -> NewBuckets]]
    /\ TriedBucketOf \in [Services -> TriedBuckets]
    /\ IsFiniteSet(NewBuckets) /\ IsFiniteSet(TriedBuckets)
    /\ ADDRMAN_NEW_BUCKET_SIZE \in Nat \ {0}
    /\ ADDRMAN_TRIED_BUCKET_SIZE \in Nat \ {0}
    /\ ADDRMAN_NEW_BUCKETS_PER_ADDRESS \in Nat \ {0}
    /\ ADDRMAN_GETADDR_MAX_PCT \in 0..100
    /\ MaxIds \in Nat

VARIABLE
    am                  \* the members of CAddrMan

Empty == [nIdCount |-> 0, mapInfo |-> <<>>, mapAddr |-> <<>>, vRandom |-> <<>>,
          nTried |-> 0, vvTried |-> [b \in TriedBuckets |-> <<>>],
          nNew |-> 0, vvNew |-> [b \in NewBuckets |-> {}]]

Without(f, x) == [y \in DOMAIN f \ {x} |-> f[y]]
With(f, x, v) == [y \in DOMAIN f \cup {x} |-> IF y = x THEN v ELSE f[y]]
-----------------------------------------------------------------------------
(* Entries.                                                                 *)

Known(m, addr) == Ip[addr] \in DOMAIN m.mapAddr
Find(m, addr) == m.mapAddr[Ip[addr]]

GetNewBucket(info, source) == NewBucketOf[Ip[info.addr]][source]
GetTriedBucket(info) == TriedBucketOf[info.addr]

CAddrInfo(addr, source) ==
    [addr |-> addr, source |-> source, nRefCount |-> 0, fInTried |-> FALSE,
     nRandomPos |-> 0, succeeded |-> FALSE]

Create(m, addr, source) ==
    LET nId == m.nIdCount
        info == [CAddrInfo(addr, source) EXCEPT !.nRandomPos = Len(m.vRandom) + 1]
    IN  [m EXCEPT !.nIdCount = nId + 1,
                  !.mapInfo = With(@, nId, info),
                  !.mapAddr = With(@, Ip[addr], nId),
                  !.vRandom = Append(@, nId)]

\* Mutant: nRandomPos of one of the two stays.
SwapRandomHalf(m, i, j) ==
    IF i = j THEN m
    ELSE [m EXCEPT !.mapInfo[m.vRandom[i]].nRandomPos = j,
                   !.vRandom = [@ EXCEPT ![i] = m.vRandom[j], ![j] = m.vRandom[i]]]

SwapRandom(m, i, j) ==
    IF i = j THEN m
    ELSE [m EXCEPT !.mapInfo[m.vRandom[i]].nRandomPos = j,
                   !.mapInfo[m.vRandom[j]].nRandomPos = i,
                   !.vRandom = [@ EXCEPT ![i] = m.vRandom[j], ![j] = m.vRandom[i]]]

\* An entry that is in no bucket any more.
Delete(m, n) ==
    LET s == SwapRandom(m, m.mapInfo[n].nRandomPos, Len(m.vRandom))
    IN  [s EXCEPT !.vRandom = SubSeq(@, 1, Len(@) - 1),
                  !.mapAddr = Without(@, Ip[m.mapInfo[n].addr]),
                  !.mapInfo = Without(@, n),
                  !.nNew = @ - 1]

\* n, which is terrible or the oldest of a few, leaves the bucket.
ShrinkNew(m, nUBucket, n) ==
    LET u == [m EXCEPT !.mapInfo[n].nRefCount = @ - 1,
                       !.vvNew[nUBucket] = @ \ {n}]
    IN  IF u.mapInfo[n].nRefCount = 0 THEN Delete(u, n) ELSE u

\* What n's entry into a bucket may lead to.
IntoBucket(m, n, b) ==
    LET r == [m EXCEPT !.mapInfo[n].nRefCount = @ + 1]
        shrunk == IF Cardinality(m.vvNew[b]) = ADDRMAN_NEW_BUCKET_SIZE
                  THEN {ShrinkNew(r, b, v) : v \in m.vvNew[b]}
                  ELSE {r}
    IN  IF n \in m.vvNew[b] THEN {m} ELSE {[s EXCEPT !.vvNew[b] = @ \cup {n}] : s \in shrunk}

Buckets(m, n) == {b \in DOMAIN m.vvNew : n \in m.vvNew[b]}

\* MakeTried, to the point where the new buckets are left.
LeaveNew(m, n) ==
    [m EXCEPT !.mapInfo[n].nRefCount = @ - Cardinality(Buckets(m, n)),
              !.vvNew = [b \in DOMAIN @ |-> @[b] \ {n}],
              !.nNew = @ - 1]

\* The tried entry at nPos goes back to a new bucket: its own, or the one the
\* entry that takes its place came from.
Evict(m, nKBucket, nPos, nOrigin) ==
    LET old == m.vvTried[nKBucket][nPos]
        own == GetNewBucket(m.mapInfo[old], m.mapInfo[old].source)
        into == IF Cardinality(m.vvNew[own]) < ADDRMAN_NEW_BUCKET_SIZE THEN own ELSE nOrigin
    IN  [m EXCEPT !.mapInfo[old].fInTried = FALSE,
                  !.mapInfo[old].nRefCount = 1,
                  !.vvNew[into] = @ \cup {old},
                  !.nNew = @ + 1]

\* What MakeTried may lead to: SelectTried's shuffle decides on the
\* position; the order inside a tried bucket is read by nothing else.
MakeTried(m, n, nOrigin) ==
    LET s == LeaveNew(m, n)
        k == GetTriedBucket(m.mapInfo[n])
    IN  IF Len(s.vvTried[k]) < ADDRMAN_TRIED_BUCKET_SIZE
        THEN {[s EXCEPT !.vvTried[k] = Append(@, n), !.nTried = @ + 1, !.mapInfo[n].fInTried = TRUE]}
        ELSE {[Evict(s, k, nPos, nOrigin) EXCEPT !.vvTried[k][nPos] = n, !.mapInfo[n].fInTried = TRUE] :
              nPos \in DOMAIN s.vvTried[k]}
-----------------------------------------------------------------------------
(* peers.dat.                                                               *)

\* The ids of S in their order.
Ordered(S) == [i \in 1..Cardinality(S) |-> CHOOSE n \in S : Cardinality({k \in S : k < n}) = i - 1]

\* What is written of an entry.
Record(info) == [addr |-> info.addr, source |-> info.source, succeeded |-> info.succeeded]

\* Mutant: an entry is counted before its index is taken.
IndexOfNext(m, n) == Cardinality({k \in DOMAIN m.mapInfo : m.mapInfo[k].nRefCount # 0 /\ k <= n})

\* mapUnkIds: the number of new entries before n.
IndexOf(m, n) == Cardinality({k \in DOMAIN m.mapInfo : m.mapInfo[k].nRefCount # 0 /\ k < n})

Serialized(m) ==
    LET news == Ordered({n \in DOMAIN m.mapInfo : m.mapInfo[n].nRefCount # 0})
        trieds == Ordered({n \in DOMAIN m.mapInfo : m.mapInfo[n].fInTried})
    IN  [new |-> [i \in 1..m.nNew |-> Record(m.mapInfo[news[i]])],
         tried |-> [i \in 1..m.nTried |-> Record(m.mapInfo[trieds[i]])],
         vvNew |-> [b \in NewBuckets |-> {IndexOf(m, n) : n \in m.vvNew[b]}]]

\* The entries of a sequence for whose tried bucket there is place.
Placed(s) ==
    SelectSeq(s, LAMBDA e : \E i \in DOMAIN s :
        /\ s[i] = e
        /\ Cardinality({j \in 1..(i - 1) : TriedBucketOf[s[j].addr] = TriedBucketOf[e.addr]})
              < ADDRMAN_TRIED_BUCKET_SIZE)

\* The new entries get the ids from 0, the tried ones those that follow.
Unserialized(file) ==
    LET tried == Placed(file.tried)
        nNew == Len(file.new)
        all == file.new \o tried
        refs(n) == {b \in NewBuckets : n \in file.vvNew[b]}
        Loaded(n) == [addr |-> all[n + 1].addr, source |-> all[n + 1].source,
                      succeeded |-> all[n + 1].succeeded,
                      nRandomPos |-> n + 1,
                      fInTried |-> n >= nNew,
                      nRefCount |-> IF n < nNew THEN Cardinality(refs(n)) ELSE 0]
        inBucket(k) == {n \in nNew..(Len(all) - 1) : TriedBucketOf[all[n + 1].addr] = k}
    IN  [nIdCount |-> Len(all),
         mapInfo |-> [n \in 0..(Len(all) - 1) |-> Loaded(n)],
         mapAddr |-> [a \in {Ip[all[i].addr] : i \in DOMAIN all} |->
                         (CHOOSE i \in DOMAIN all : Ip[all[i].addr] = a) - 1],
         vRandom |-> [i \in DOMAIN all |-> i - 1],
         nTried |-> Len(tried),
         vvTried |-> [k \in TriedBuckets |-> Ordered(inBucket(k))],
         nNew |-> nNew,
         vvNew |-> file.vvNew]
-----------------------------------------------------------------------------
(* Operations.                                                              *)

\* Add_ of an address nobody told of before.
AddUnknown(addr, source) ==
    /\ ~Known(am, addr)
    /\ am.nIdCount < MaxIds
    /\ LET m == [Create(am, addr, source) EXCEPT !.nNew = @ + 1]
       IN  am' \in IntoBucket(m, am.nIdCount, NewBucketOf[Ip[addr]][source])

\* Add_ of a known address that brings news and is lucky.
AddKnown(addr, source) ==
    /\ Known(am, addr)
    /\ LET n == Find(am, addr)
       IN  /\ ~am.mapInfo[n].fInTried
           /\ am.mapInfo[n].nRefCount # ADDRMAN_NEW_BUCKETS_PER_ADDRESS
           /\ am' \in IntoBucket(am, n, NewBucketOf[Ip[addr]][source])

\* Good_, for the exact service.
Good(addr) ==
    /\ Known(am, addr)
    /\ LET n == Find(am, addr)
           m == [am EXCEPT !.mapInfo[n].succeeded = TRUE]
       IN  /\ am.mapInfo[n].addr = addr
           /\ IF am.mapInfo[n].fInTried
              THEN am' = m
              ELSE \E b \in Buckets(am, n) : am' \in MakeTried(m, n, b)

\* GetAddr_ shuffles the front of vRandom.
GetAddr ==
    LET nNodes == (ADDRMAN_GETADDR_MAX_PCT * Len(am.vRandom)) \div 100
    IN  \E nRndPos \in [1..nNodes -> DOMAIN am.vRandom] :
            LET shuffled[n \in 0..nNodes] ==
                    IF n = 0 THEN am ELSE SwapRandom(shuffled[n - 1], n, nRndPos[n])
            IN  /\ \A n \in 1..nNodes : nRndPos[n] >= n
                /\ am' = shuffled[nNodes]
    
\* DumpAddresses, and CAddrDB::Read when the process has ended and is started.  A
\* file that cannot be read leaves the tables as Init has them.
Restart == am' = Unserialized(Serialized(am))

Init == am = Empty

Next ==
    \/ \E addr \in Services, source \in Sources : AddUnknown(addr, source) \/ AddKnown(addr, source)
    \/ \E addr \in Services : Good(addr)
    \/ GetAddr
    \/ Restart

Spec == Init /\ [][Next]_am
-----------------------------------------------------------------------------
(* Properties.                                                              *)

Trieds(m) == {n \in DOMAIN m.mapInfo : m.mapInfo[n].fInTried}
News(m) == DOMAIN m.mapInfo \ Trieds(m)

\* What CAddrMan::Check_ requires: the tables, the counters, the reference counts,
\* the index by address and the random order describe the same entries.
Check(m) ==
    /\ Len(m.vRandom) = m.nTried + m.nNew
    /\ m.nTried = Cardinality(Trieds(m))
    /\ m.nNew = Cardinality(News(m))
    /\ \A n \in Trieds(m) : m.mapInfo[n].succeeded /\ m.mapInfo[n].nRefCount = 0
    /\ \A n \in News(m) : m.mapInfo[n].nRefCount # 0 /\ m.mapInfo[n].nRefCount = Cardinality(Buckets(m, n))
    /\ \A n \in DOMAIN m.mapInfo :
          /\ Known(m, m.mapInfo[n].addr) /\ Find(m, m.mapInfo[n].addr) = n
          /\ m.mapInfo[n].nRandomPos \in DOMAIN m.vRandom /\ m.vRandom[m.mapInfo[n].nRandomPos] = n
    /\ \A b \in NewBuckets : m.vvNew[b] \subseteq News(m)
    /\ \A n \in Trieds(m) : \E k \in TriedBuckets, i \in 1..ADDRMAN_TRIED_BUCKET_SIZE :
          {<<l, j>> \in TriedBuckets \X (1..ADDRMAN_TRIED_BUCKET_SIZE) :
              j \in DOMAIN m.vvTried[l] /\ m.vvTried[l][j] = n} = {<<k, i>>}
    /\ \A k \in TriedBuckets : \A i \in DOMAIN m.vvTried[k] : m.vvTried[k][i] \in Trieds(m)

\* Through any sequence of additions, evictions, deletions and reloads, Check_
\* finds nothing between operations, and no bucket is over its size: a full new
\* bucket is shrunk before an entry joins it, and there is "certainly place" where
\* MakeTried puts one.
Consistent ==
    /\ Check(am)
    /\ \A k \in TriedBuckets : Len(am.vvTried[k]) <= ADDRMAN_TRIED_BUCKET_SIZE
    /\ \A b \in NewBuckets : Cardinality(am.vvNew[b]) <= ADDRMAN_NEW_BUCKET_SIZE

Addresses(m, S) == {m.mapInfo[n].addr : n \in S}
PlacesOf(m, a) == {b \in NewBuckets : \E n \in m.vvNew[b] : m.mapInfo[n].addr = a}

\* Ids, vRandom and mapAddr are not in peers.dat, and yet the tables it is loaded
\* into are consistent and have every address where it was.
RoundTrip ==
    LET m == Unserialized(Serialized(am))
    IN  /\ Check(m)
        /\ Addresses(m, Trieds(m)) = Addresses(am, Trieds(am))
        /\ Addresses(m, News(m)) = Addresses(am, News(am))
        /\ \A a \in Services : PlacesOf(m, a) = PlacesOf(am, a)
=============================================================================
