------------------------------ MODULE CrashProofs ------------------------------
(* Proofs about the two components that change several files of the data      *)
(* directory in steps a crash can fall between: KeyPool (a key is used once,  *)
(* survives, and is encrypted with all the others or not at all) and Snapshot *)
(* (what a start of the node loads as an applied snapshot, and what becomes   *)
(* of a chain that failed the verification).  They share no state.            *)
EXTENDS KeyPool, Snapshot, FiniteSetTheorems, WellFoundedInduction, TLAPS

\* The prover a leaf is given to unless it names one.
USE ZenonT(10)

-----------------------------------------------------------------------------
(* The key pool.                                                             *)

Holds == [Clients -> [nIndex : Nat, vchPubKey : Nat]]

\* Records are a function from indexes to keys.
IsPool(p) == p = [i \in DOMAIN p |-> p[i]]

\* The records p of the pool in a file with the keys K, the set S of the indexes to
\* be given out, g keys generated, r if the index of a reserved key was written
\* again, the reservations h, the keys k used, and m if an earlier copy was merged
\* into the file.  A record is of a key that is in the file.  Unless a copy was
\* merged, it is in no other record, not used, and reserved under this index only.
\* Unless an index was written again, every index to be given out has its record,
\* and so has every index reserved.
Sound(p, K, S, g, r, h, k, m) ==
    /\ IsPool(p) /\ g \in Nat /\ K \subseteq 1..g /\ k \subseteq 1..g /\ h \in Holds /\ r \in BOOLEAN
    /\ \E b \in Nat : DOMAIN p \subseteq 1..b /\ S \subseteq 1..b /\ \A c \in Clients : h[c].nIndex \in 0..b
    /\ \A i \in DOMAIN p : p[i] \in K
    /\ \A c \in Clients : h[c].vchPubKey \in 0..g /\ (h[c].vchPubKey # 0 => h[c].nIndex # 0)
    /\ ~m => /\ \A i \in DOMAIN p : p[i] \notin k
             /\ \A i, j \in DOMAIN p : p[i] = p[j] => i = j
             /\ \A c \in Clients : \A i \in DOMAIN p : p[i] = h[c].vchPubKey => i = h[c].nIndex
    /\ ~m /\ ~r => /\ S \subseteq DOMAIN p
                   /\ \A c \in Clients :
                         h[c].nIndex # 0 => /\ h[c].nIndex \in DOMAIN p \ S
                                            /\ p[h[c].nIndex] = h[c].vchPubKey
                   /\ \A c, d \in Clients : c # d /\ h[c].nIndex # 0 => h[c].nIndex # h[d].nIndex

\* The records p with n more, from the index nEnd on, of the keys from g + 1 on.
Added(p, g, nEnd, n) ==
    LET indexes == nEnd..(nEnd + n - 1)
    IN  [i \in DOMAIN p \cup indexes |-> IF i \in indexes THEN g + 1 + (i - nEnd) ELSE p[i]]

\* t says whether one of the indexes of these is reserved, or some index was before.
Rewritten(t, r, h, nEnd, n) ==
    t \in BOOLEAN /\ (~t => ~r /\ \A c \in Clients : h[c].nIndex \notin nEnd..(nEnd + n - 1))

\* What is left of records when the one at i goes.
Without(p, i) == [j \in DOMAIN p \ {i} |-> p[j]]

File(e, a, b, m, p) == [exists |-> e, key |-> a, ckey |-> b, mkey |-> m, pool |-> p]

Memory(r, k, S, f, l) ==
    [running |-> r, keys |-> k, setKeyPool |-> S, fUseCrypto |-> f, locked |-> l]

\* A state of the file and of memory that differs from the present one in keys, pool
\* and reservations only.
Extends(s) ==
    /\ s = [dat |-> s.dat, mem |-> s.mem, generated |-> s.generated, reused |-> s.reused]
    /\ s.dat = File(dat.exists, s.dat.key, s.dat.ckey, dat.mkey, s.dat.pool)
    /\ s.mem = Memory(mem.running, s.mem.keys, s.mem.setKeyPool, mem.fUseCrypto, mem.locked)
    /\ s.mem.keys \subseteq KeysIn(s.dat)
    /\ ~merged => /\ s.mem.keys = KeysIn(s.dat)
                  /\ IF dat.mkey THEN s.dat.key = {} ELSE s.dat.ckey = {}
    /\ KeysIn(dat) \subseteq KeysIn(s.dat) /\ generated <= s.generated
    /\ Sound(s.dat.pool, KeysIn(s.dat), s.mem.setKeyPool, s.generated, s.reused, held, kept, merged)

\* The file that has the wallet: its copy, while it is to be renamed.
Current == IF dat.exists THEN dat ELSE rewrite

Shapes ==
    /\ dat = File(dat.exists, dat.key, dat.ckey, dat.mkey, dat.pool)
    /\ rewrite = File(rewrite.exists, rewrite.key, rewrite.ckey, rewrite.mkey, rewrite.pool)
    /\ mem = Memory(mem.running, mem.keys, mem.setKeyPool, mem.fUseCrypto, mem.locked)
    /\ dat.exists \in BOOLEAN /\ dat.mkey \in BOOLEAN
    /\ rewrite.exists \in BOOLEAN /\ rewrite.mkey \in BOOLEAN
    /\ mem.running \in BOOLEAN /\ mem.fUseCrypto \in BOOLEAN
    /\ merged \in BOOLEAN /\ stranded \in BOOLEAN
    /\ encrypting \in {"no", "keys", "committed", "erased", "flushed", "copied", "removed"}

\* How far EncryptWallet and CDB::Rewrite are, what the files have and what memory has
\* go together.
Control ==
    /\ ~mem.running => /\ mem.setKeyPool = {} /\ held = [c \in Clients |-> Nobody]
                       /\ encrypting = "no" /\ reused = FALSE
    /\ ~dat.exists => dat = NoFile
    /\ ~rewrite.exists => rewrite = NoFile
    /\ encrypting \notin {"no", "removed"} => dat.exists
    /\ encrypting = "removed" => ~dat.exists
    /\ encrypting = "copied" => KeysIn(dat) \subseteq KeysIn(rewrite) /\ (~merged => rewrite = dat)
    /\ mem.keys \subseteq KeysIn(Current)
    /\ ~merged /\ mem.running => /\ mem.keys = KeysIn(Current)
                                 /\ encrypting # "keys" => mem.fUseCrypto = Current.mkey
                                 /\ encrypting = "keys" => mem.fUseCrypto /\ ~dat.mkey

\* A record of a pool is of a key in the same file.
Complete(file, g) ==
    /\ IsPool(file.pool) /\ KeysIn(file) \subseteq 1..g
    /\ \E b \in Nat : DOMAIN file.pool \subseteq 1..b
    /\ \A i \in DOMAIN file.pool : file.pool[i] \in KeysIn(file)

\* The inductive invariant.
KeysInv ==
    /\ Shapes /\ Control /\ WhollyEncrypted /\ KeysDurable
    /\ Complete(rewrite, generated)
    /\ Sound(Current.pool, KeysIn(Current), mem.setKeyPool, generated, reused, held, kept, merged)
-----------------------------------------------------------------------------
(* The least and the greatest index of a pool.                               *)

LEMMA LeastNat ==
    ASSUME NEW S \in SUBSET Nat, S # {}
    PROVE  \E x \in S : \A y \in S : x <= y
<1>1. PICK x \in S : \A y \in S : ~(<<y, x>> \in OpToRel(<, Nat))
  BY WFMin, NatLessThanWellFounded
<1>2. \A y \in S : ~(y < x)
  BY <1>1 DEF OpToRel
<1> QED BY SMTT(20), <1>2

LEMMA MinOf ==
    ASSUME NEW S \in SUBSET Nat, S # {}
    PROVE  Min(S) \in S
BY LeastNat DEF Min

LEMMA MaxOf ==
    ASSUME NEW b \in Nat, NEW S \in SUBSET (1..b), S # {}
    PROVE  Max(S) \in S
<1> DEFINE U == {u \in Nat : \A y \in S : y <= u}
<1>1. U \in SUBSET Nat /\ b \in U
  BY SMTT(20)
<1>2. PICK u \in U : \A v \in U : u <= v
  BY <1>1, LeastNat
<1>3. u \in S
  <2> SUFFICES ASSUME u \notin S PROVE FALSE
    OBVIOUS
  <2>1. PICK y \in S : y \in 1..b
    OBVIOUS
  <2>2. u - 1 \in Nat /\ \A z \in S : z <= u - 1
    BY SMTT(20), <2>1
  <2> QED BY SMTT(20), <1>2, <2>2
<1>4. \E x \in S : \A y \in S : x >= y
  BY <1>3
<1> QED BY <1>4 DEF Max

LEMMA PoolSize ==
    ASSUME NEW b \in Nat, NEW S \in SUBSET (1..b)
    PROVE  IsFiniteSet(S) /\ Cardinality(S) \in Nat
<1>1. IsFiniteSet(1..b)
  BY SMTT(20), FS_Interval
<1> QED BY <1>1, FS_Subset, FS_CardinalityType
-----------------------------------------------------------------------------
(* What the operations do to records, indexes, reservations and keys.        *)

LEMMA AddSound ==
    ASSUME NEW p, NEW K, NEW S, NEW g, NEW r, NEW h, NEW k, NEW m, Sound(p, K, S, g, r, h, k, m),
           NEW nEnd \in Nat \ {0}, NEW n \in Nat, NEW t, Rewritten(t, r, h, nEnd, n)
    PROVE  Sound(Added(p, g, nEnd, n), K \cup ((g + 1)..(g + n)), S \cup (nEnd..(nEnd + n - 1)),
                 g + n, t, h, k, m)
<1>0. PICK keys, indexes, q :
        /\ keys = (g + 1)..(g + n) /\ indexes = nEnd..(nEnd + n - 1)
        /\ q = [i \in DOMAIN p \cup indexes |-> IF i \in indexes THEN g + 1 + (i - nEnd) ELSE p[i]]
  OBVIOUS
<1> USE DEF Sound, Rewritten
<1>1. g + n \in Nat /\ K \cup keys \subseteq 1..(g + n) /\ k \subseteq 1..(g + n)
  BY SMTT(20), <1>0
<1>2. DOMAIN q = DOMAIN p \cup indexes
  BY <1>0
<1>3. \A i \in indexes : q[i] = g + 1 + (i - nEnd) /\ q[i] \in keys
  BY SMTT(20), <1>0
<1>4. \A i \in DOMAIN p \ indexes : q[i] = p[i] /\ q[i] \in K
  BY <1>0, <1>2
<1>5. \A x \in keys : x \notin K /\ x \notin 0..g /\ x \notin k
  BY SMTT(20), <1>0
<1>6. \E b \in Nat : DOMAIN q \subseteq 1..b /\ S \cup indexes \subseteq 1..b
                     /\ \A c \in Clients : h[c].nIndex \in 0..b
  <2>1. PICK b \in Nat : DOMAIN p \subseteq 1..b /\ S \subseteq 1..b /\ \A c \in Clients : h[c].nIndex \in 0..b
    BY <1>0
  <2>2. b + nEnd + n \in Nat /\ indexes \subseteq 1..(b + nEnd + n) /\ 1..b \subseteq 1..(b + nEnd + n)
        /\ 0..b \subseteq 0..(b + nEnd + n)
    BY SMTT(20), <1>0
  <2> QED BY <1>0, <1>2, <2>1, <2>2
<1>7. \A i \in DOMAIN q : q[i] \in K \cup keys
  BY <1>0, <1>2, <1>3, <1>4
<1>8. ASSUME ~m
      PROVE  /\ \A i \in DOMAIN q : q[i] \notin k
             /\ \A i, j \in DOMAIN q : q[i] = q[j] => i = j
             /\ \A c \in Clients : \A i \in DOMAIN q : q[i] = h[c].vchPubKey => i = h[c].nIndex
  <2>1. \A i \in DOMAIN q : q[i] \notin k
    BY <1>0, <1>2, <1>3, <1>4, <1>5, <1>8
  <2>2. ASSUME NEW i \in DOMAIN q, NEW j \in DOMAIN q, q[i] = q[j] PROVE i = j
    <3>1. CASE i \in indexes /\ j \in indexes
      <4>1. i \in Int /\ j \in Int /\ g + 1 + (i - nEnd) = g + 1 + (j - nEnd)
        BY SMTT(20), <1>0, <1>3, <2>2, <3>1
      <4> QED BY SMTT(20), <1>0, <4>1
    <3>2. CASE i \notin indexes /\ j \notin indexes
      BY <1>0, <1>2, <1>4, <1>8, <2>2, <3>2
    <3>3. CASE (i \in indexes) # (j \in indexes)
      BY SMTT(20), <1>0, <1>2, <1>3, <1>4, <1>5, <2>2, <3>3
    <3> QED BY <1>0, <3>1, <3>2, <3>3
  <2>3. ASSUME NEW c \in Clients, NEW i \in DOMAIN q, q[i] = h[c].vchPubKey PROVE i = h[c].nIndex
    <3>1. h[c].vchPubKey \in 0..g
      BY <1>0
    <3>2. i \in DOMAIN p \ indexes
      BY <1>2, <1>3, <1>5, <2>3, <3>1
    <3> QED BY <1>0, <1>4, <1>8, <2>3, <3>2
  <2> QED BY <2>1, <2>2, <2>3
<1>9. \A c \in Clients : h[c].vchPubKey \in 0..(g + n) /\ (h[c].vchPubKey # 0 => h[c].nIndex # 0)
  BY SMTT(20), <1>0
<1>10. ASSUME ~m, ~t
       PROVE  /\ S \cup indexes \subseteq DOMAIN q
              /\ \A c \in Clients :
                   h[c].nIndex # 0 => /\ h[c].nIndex \in DOMAIN q \ (S \cup indexes)
                                      /\ q[h[c].nIndex] = h[c].vchPubKey
              /\ \A c, d \in Clients : c # d /\ h[c].nIndex # 0 => h[c].nIndex # h[d].nIndex
  BY <1>0, <1>2, <1>4, <1>10
<1>11. IsPool(q)
  BY SMTT(20), <1>0 DEF IsPool
<1>12. Sound(q, K \cup keys, S \cup indexes, g + n, t, h, k, m)
  BY <1>1, <1>6, <1>7, <1>8, <1>9, <1>10, <1>11
<1> HIDE DEF Sound, Rewritten
<1> QED BY Zenon, <1>0, <1>12 DEF Added

LEMMA IndexIsNat ==
    ASSUME NEW b \in Nat, NEW i \in 1..b
    PROVE  i \in Nat \ {0} /\ i \in 0..b
BY SMTT(20)

LEMMA KeyIsNat ==
    ASSUME NEW g \in Nat, NEW K, K \subseteq 1..g, NEW x \in K \cup {0}
    PROVE  x \in Nat /\ x \in 0..g
BY SMTT(20)

\* ReserveKeyFromKeyPool for a client.
LEMMA ReserveSound ==
    ASSUME NEW p, NEW K, NEW S, NEW g, NEW r, NEW h, NEW k, NEW m, Sound(p, K, S, g, r, h, k, m),
           NEW c \in Clients, h[c].nIndex = 0, NEW i \in S, NEW x,
           x = 0 \/ (i \in DOMAIN p /\ x = p[i]), ~m /\ i \in DOMAIN p => x = p[i]
    PROVE  Sound(p, K, S \ {i}, g, r, [h EXCEPT ![c] = [nIndex |-> i, vchPubKey |-> x]], k, m)
<1> USE DEF Sound
<1>1. PICK l : l = [h EXCEPT ![c] = [nIndex |-> i, vchPubKey |-> x]]
  OBVIOUS
<1>2. i \in Nat \ {0} /\ x \in 0..g /\ x \in Nat
  <2>1. PICK b \in Nat : S \subseteq 1..b
    OBVIOUS
  <2>2. i \in Nat \ {0}
    BY <2>1, IndexIsNat
  <2>3. x \in K \cup {0}
    BY SMTT(20)
  <2>4. K \subseteq 1..g /\ g \in Nat
    OBVIOUS
  <2>5. x \in Nat /\ x \in 0..g
    BY ZenonT(10), <2>3, <2>4, KeyIsNat
  <2> QED BY Zenon, <2>2, <2>5
<1>3. l \in Holds
  BY <1>1, <1>2 DEF Holds
<1>4. l[c].nIndex = i /\ l[c].vchPubKey = x /\ \A d \in Clients \ {c} : l[d] = h[d]
  BY SMTT(20), <1>1 DEF Holds
<1>5. \E b \in Nat : DOMAIN p \subseteq 1..b /\ S \ {i} \subseteq 1..b /\ \A d \in Clients : l[d].nIndex \in 0..b
  <2>1. PICK b \in Nat : DOMAIN p \subseteq 1..b /\ S \subseteq 1..b /\ \A d \in Clients : h[d].nIndex \in 0..b
    OBVIOUS
  <2>2. i \in 0..b
    BY <2>1, IndexIsNat
  <2>3. \A d \in Clients : l[d].nIndex \in 0..b
    BY <1>4, <2>1, <2>2
  <2> QED BY <2>1, <2>3
<1>6. \A d \in Clients : l[d].vchPubKey \in 0..g /\ (l[d].vchPubKey # 0 => l[d].nIndex # 0)
  BY SMTT(20), <1>2, <1>4
<1>7. ASSUME ~m
      PROVE  \A d \in Clients : \A j \in DOMAIN p : p[j] = l[d].vchPubKey => j = l[d].nIndex
  <2>1. 0 \notin K
    BY SMTT(20)
  <2>2. /\ \A j \in DOMAIN p : p[j] \in K
        /\ \A j, n \in DOMAIN p : p[j] = p[n] => j = n
        /\ \A d \in Clients : \A j \in DOMAIN p : p[j] = h[d].vchPubKey => j = h[d].nIndex
    BY <1>7
  <2> HIDE DEF Sound
  <2>3. \A j \in DOMAIN p : p[j] = x => j = i
    BY <2>1, <2>2
  <2> QED BY <1>4, <2>2, <2>3
<1>8. ASSUME ~m, ~r
      PROVE  /\ S \ {i} \subseteq DOMAIN p
             /\ \A d \in Clients : l[d].nIndex # 0 => /\ l[d].nIndex \in DOMAIN p \ (S \ {i})
                                                      /\ p[l[d].nIndex] = l[d].vchPubKey
             /\ \A d, e \in Clients : d # e /\ l[d].nIndex # 0 => l[d].nIndex # l[e].nIndex
  <2>1. i \in DOMAIN p /\ p[i] = x
    BY <1>8
  <2>2. \A d \in Clients : h[d].nIndex # i
    BY SMTT(20), <1>2, <1>8
  <2> QED BY SMTT(20), <1>2, <1>4, <1>8, <2>1, <2>2
<1>9. /\ IsPool(p) /\ g \in Nat /\ K \subseteq 1..g /\ k \subseteq 1..g /\ r \in BOOLEAN
      /\ \A j \in DOMAIN p : p[j] \in K
  OBVIOUS
<1>10. ~m => /\ \A j \in DOMAIN p : p[j] \notin k
             /\ \A j, n \in DOMAIN p : p[j] = p[n] => j = n
  OBVIOUS
<1> HIDE DEF Sound
<1>11. Sound(p, K, S \ {i}, g, r, l, k, m)
  BY <1>3, <1>5, <1>6, <1>7, <1>8, <1>9, <1>10 DEF Sound
<1> QED BY <1>1, <1>11

\* A client's reservation ends; its key may be used, and its index given out again.
LEMMA EndSound ==
    ASSUME NEW p, NEW K, NEW S, NEW g, NEW r, NEW h, NEW k, NEW m, Sound(p, K, S, g, r, h, k, m),
           NEW c \in Clients, h[c].nIndex # 0,
           NEW l, l = [h EXCEPT ![c] = Nobody]
    PROVE  /\ Sound(p, K, S \cup {h[c].nIndex}, g, r, l, k, m)
           /\ h[c].vchPubKey # 0 =>
                 Sound(Without(p, h[c].nIndex), K, S, g, r, l, k \cup {h[c].vchPubKey}, m)
<1> USE DEF Sound
<1>1. PICK i, x : i = h[c].nIndex /\ x = h[c].vchPubKey
  OBVIOUS
<1>2. i \in Nat \ {0} /\ x \in 0..g
  BY <1>1 DEF Holds
<1>3. l \in Holds
  BY DEF Holds, Nobody
<1>4. l[c].nIndex = 0 /\ l[c].vchPubKey = 0 /\ \A d \in Clients \ {c} : l[d] = h[d]
  BY SMTT(20) DEF Holds, Nobody
<1>5. PICK b \in Nat : /\ DOMAIN p \subseteq 1..b /\ S \cup {i} \subseteq 1..b
                       /\ \A d \in Clients : l[d].nIndex \in 0..b
  <2>1. PICK b \in Nat : DOMAIN p \subseteq 1..b /\ S \subseteq 1..b /\ \A d \in Clients : h[d].nIndex \in 0..b
    OBVIOUS
  <2>2. i \in 1..b /\ \A d \in Clients : l[d].nIndex \in 0..b
    BY SMTT(20), <1>1, <1>2, <1>4, <2>1
  <2> QED BY SMTT(20), <2>1, <2>2
<1>6. \A d \in Clients : l[d].vchPubKey \in 0..g /\ (l[d].vchPubKey # 0 => l[d].nIndex # 0)
  BY SMTT(20), <1>4
<1>7. ~m => \A d \in Clients : \A j \in DOMAIN p : p[j] = l[d].vchPubKey => j = l[d].nIndex
  <2>1. 0 \notin K
    BY SMTT(20)
  <2>2. /\ \A j \in DOMAIN p : p[j] \in K
        /\ ~m => \A d \in Clients : \A j \in DOMAIN p : p[j] = h[d].vchPubKey => j = h[d].nIndex
    OBVIOUS
  <2> HIDE DEF Sound
  <2> QED BY <1>4, <2>1, <2>2
<1>8. ~m /\ ~r =>
         \A d \in Clients : /\ l[d].nIndex # 0 => /\ l[d].nIndex \in (DOMAIN p \ S) \ {i}
                                                  /\ p[l[d].nIndex] = l[d].vchPubKey
                             /\ \A e \in Clients : d # e /\ l[d].nIndex # 0 => l[d].nIndex # l[e].nIndex
  BY SMTT(20), <1>1, <1>2, <1>4
<1>9. ~m /\ ~r => i \in DOMAIN p \ S
  BY <1>1
<1>10. Sound(p, K, S \cup {i}, g, r, l, k, m)
  BY SMTT(20), <1>3, <1>5, <1>6, <1>7, <1>8, <1>9
<1>11. ASSUME x # 0 PROVE Sound(Without(p, i), K, S, g, r, l, k \cup {x}, m)
  <2>1. PICK q : q = Without(p, i)
    OBVIOUS
  <2>2. IsPool(q) /\ DOMAIN q = DOMAIN p \ {i} /\ \A j \in DOMAIN q : q[j] = p[j]
    <3> HIDE DEF Sound
    <3> QED BY SMTT(20), <2>1 DEF Without, IsPool
  <2>3. /\ \A j \in DOMAIN q : q[j] \in K
        /\ ~m => \A j \in DOMAIN q : q[j] \notin k \cup {x}
    BY <1>1, <2>2
  <2>4. k \cup {x} \subseteq 1..g
    BY SMTT(20), <1>2, <1>11
  <2>5. ~m => \A j, n \in DOMAIN q : q[j] = q[n] => j = n
    BY <2>2
  <2>6. ~m => \A d \in Clients : \A j \in DOMAIN q : q[j] = l[d].vchPubKey => j = l[d].nIndex
    BY <1>7, <2>2
  <2>7. \E a \in Nat : DOMAIN q \subseteq 1..a /\ S \subseteq 1..a /\ \A d \in Clients : l[d].nIndex \in 0..a
    BY <1>5, <2>2
  <2>8. ASSUME ~m, ~r
        PROVE  /\ S \subseteq DOMAIN q
               /\ \A d \in Clients : l[d].nIndex # 0 => /\ l[d].nIndex \in DOMAIN q \ S
                                                        /\ q[l[d].nIndex] = l[d].vchPubKey
               /\ \A d, e \in Clients : d # e /\ l[d].nIndex # 0 => l[d].nIndex # l[e].nIndex
    BY SMTT(20), <1>8, <1>9, <2>2, <2>8
  <2> QED BY <1>3, <1>6, <2>1, <2>2, <2>3, <2>4, <2>5, <2>6, <2>7, <2>8
<1> HIDE DEF Sound
<1> QED BY <1>1, <1>10, <1>11

\* An index is given out and its record goes, and the key is used or forgotten.
LEMMA DropSound ==
    ASSUME NEW p, NEW K, NEW S, NEW g, NEW r, NEW h, NEW k, NEW m, Sound(p, K, S, g, r, h, k, m),
           NEW i \in S, NEW used, used \subseteq {p[j] : j \in {i} \cap DOMAIN p}
    PROVE  Sound(Without(p, i), K, S \ {i}, g, r, h, k \cup used, m)
<1> USE DEF Sound
<1>1. PICK q : q = Without(p, i)
  OBVIOUS
<1>2. IsPool(q) /\ DOMAIN q = DOMAIN p \ {i} /\ \A j \in DOMAIN q : q[j] = p[j]
  <2> HIDE DEF Sound
  <2> QED BY SMTT(20), <1>1 DEF Without, IsPool
<1>3. /\ k \cup used \subseteq 1..g /\ \A j \in DOMAIN q : q[j] \in K
      /\ ~m => \A j \in DOMAIN q : q[j] \notin k \cup used
  <2>1. \A x \in used : i \in DOMAIN p /\ x = p[i]
    BY SMTT(20)
  <2>2. \A j \in DOMAIN q : /\ j \in DOMAIN p /\ j # i /\ q[j] = p[j]
                            /\ ~m /\ i \in DOMAIN p => p[j] # p[i]
    BY <1>2
  <2>3. /\ k \subseteq 1..g /\ K \subseteq 1..g /\ \A j \in DOMAIN p : p[j] \in K
        /\ ~m => \A j \in DOMAIN p : p[j] \notin k
    OBVIOUS
  <2> HIDE DEF Sound
  <2> QED BY <2>1, <2>2, <2>3
<1>4. ~m => \A j, n \in DOMAIN q : q[j] = q[n] => j = n
  BY <1>2
<1>5. ~m => \A d \in Clients : \A j \in DOMAIN q : q[j] = h[d].vchPubKey => j = h[d].nIndex
  BY <1>2
<1>6. \E b \in Nat : DOMAIN q \subseteq 1..b /\ S \ {i} \subseteq 1..b /\ \A d \in Clients : h[d].nIndex \in 0..b
  BY <1>2
<1>7. ASSUME ~m, ~r
      PROVE  /\ S \ {i} \subseteq DOMAIN q
             /\ \A d \in Clients : h[d].nIndex # 0 => /\ h[d].nIndex \in DOMAIN q \ (S \ {i})
                                                      /\ q[h[d].nIndex] = h[d].vchPubKey
             /\ \A d, e \in Clients : d # e /\ h[d].nIndex # 0 => h[d].nIndex # h[e].nIndex
  BY SMTT(20), <1>2, <1>7
<1> QED BY <1>1, <1>2, <1>3, <1>4, <1>5, <1>6, <1>7

\* The process dies, and is started again.
LEMMA NobodyHolds ==
    LET l == [c \in Clients |-> Nobody]
    IN  l \in Holds /\ \A c \in Clients : l[c].nIndex = 0 /\ l[c].vchPubKey = 0
BY DEF Holds, Nobody

LEMMA LostSound ==
    ASSUME NEW p, NEW K, NEW S, NEW g, NEW r, NEW h, NEW k, NEW m, Sound(p, K, S, g, r, h, k, m),
           NEW l, l = [c \in Clients |-> Nobody], NEW T, T \subseteq DOMAIN p
    PROVE  Sound(p, K, T, g, FALSE, l, k, m)
<1>1. l \in Holds /\ \A c \in Clients : l[c].nIndex = 0 /\ l[c].vchPubKey = 0
  BY NobodyHolds
<1>2. 0 \notin K /\ 0 \in 0..g
  BY SMTT(20) DEF Sound
<1>3. \E b \in Nat : DOMAIN p \subseteq 1..b /\ T \subseteq 1..b /\ \A d \in Clients : l[d].nIndex \in 0..b
  BY SMTT(20), <1>1 DEF Sound
<1>4. /\ IsPool(p) /\ g \in Nat /\ K \subseteq 1..g /\ k \subseteq 1..g /\ \A i \in DOMAIN p : p[i] \in K
      /\ ~m => /\ \A i \in DOMAIN p : p[i] \notin k
               /\ \A i, j \in DOMAIN p : p[i] = p[j] => i = j
  BY DEF Sound
<1>5. ~m => \A c \in Clients : \A i \in DOMAIN p : p[i] = l[c].vchPubKey => i = l[c].nIndex
  BY <1>1, <1>2, <1>4
<1> QED BY <1>1, <1>2, <1>3, <1>4, <1>5 DEF Sound

\* The file is created anew.
LEMMA EmptySound ==
    ASSUME NEW p, NEW K, NEW S, NEW g, NEW r, NEW h, NEW k, NEW m, Sound(p, K, S, g, r, h, k, m),
           NEW l, l = [c \in Clients |-> Nobody], NEW q, IsPool(q), DOMAIN q = {}
    PROVE  Sound(q, {}, {}, g, FALSE, l, k, m)
<1>1. l \in Holds /\ \A c \in Clients : l[c].nIndex = 0 /\ l[c].vchPubKey = 0
  BY NobodyHolds
<1>2. 0 \in 0..g /\ g \in Nat /\ k \subseteq 1..g
  BY SMTT(20) DEF Sound
<1> QED BY SMTT(20), <1>1, <1>2 DEF Sound

\* An earlier copy is merged into the file.
LEMMA MergedSound ==
    ASSUME NEW p, NEW K, NEW S, NEW g, NEW r, NEW h, NEW k, NEW m, Sound(p, K, S, g, r, h, k, m),
           NEW q, IsPool(q), NEW L, NEW a \in Nat, DOMAIN q \subseteq 1..a, L \subseteq 1..g,
           \A i \in DOMAIN q : q[i] \in L
    PROVE  Sound(q, L, S, g, r, h, k, TRUE)
<1>1. PICK b \in Nat : DOMAIN p \subseteq 1..b /\ S \subseteq 1..b /\ \A c \in Clients : h[c].nIndex \in 0..b
  BY DEF Sound
<1>2. /\ a + b \in Nat /\ 1..a \subseteq 1..(a + b) /\ 1..b \subseteq 1..(a + b)
      /\ 0..b \subseteq 0..(a + b)
  BY SMTT(20)
<1>3. /\ DOMAIN q \subseteq 1..(a + b) /\ S \subseteq 1..(a + b)
      /\ \A c \in Clients : h[c].nIndex \in 0..(a + b)
  BY <1>1, <1>2
<1> QED BY <1>2, <1>3 DEF Sound
-----------------------------------------------------------------------------
(* TopUpKeyPool and its callers.                                             *)

\* While the file is there, it is the one that has the wallet.
LEMMA CurrentFile ==
    ASSUME KeysInv, dat.exists
    PROVE  /\ Sound(dat.pool, KeysIn(dat), mem.setKeyPool, generated, reused, held, kept, merged)
           /\ mem.keys \subseteq KeysIn(dat)
           /\ ~merged /\ mem.running => mem.keys = KeysIn(dat)
           /\ ~merged /\ mem.running /\ encrypting # "keys" => mem.fUseCrypto = dat.mkey
BY ZenonT(30) DEF KeysInv, Control, Current

\* No key is lost when the file gets keys and nothing else that has some is given out.
LEMMA KeysStay ==
    ASSUME KeysInv, dat.exists, dat'.exists, KeysIn(dat) \subseteq KeysIn(dat'),
           Given' \subseteq Given \cup KeysIn(dat'), UNCHANGED <<rewrite, stranded>>
    PROVE  KeysDurable'
<1>1. Given \subseteq KeysIn(dat) \cup KeysIn(rewrite) /\ (~stranded => Given \subseteq KeysIn(dat))
  BY ZenonT(30) DEF KeysInv, KeysDurable
<1>2. PICK g, g1, d, d1, w : g = Given /\ g1 = Given' /\ d = KeysIn(dat) /\ d1 = KeysIn(dat') /\ w = KeysIn(rewrite)
  OBVIOUS
<1>3. g1 \subseteq d1 \cup w /\ (~stranded => g1 \subseteq d1)
  BY Zenon, <1>1, <1>2
<1>4. KeysIn(rewrite)' = w
  BY <1>2
<1> QED BY ZenonT(30), <1>2, <1>3, <1>4 DEF KeysDurable

LEMMA CompleteLater ==
    ASSUME NEW f, NEW g \in Nat, NEW h \in Nat, g <= h, Complete(f, g) PROVE Complete(f, h)
<1>1. 1..g \subseteq 1..h
  BY SMTT(20)
<1> QED BY <1>1 DEF Complete

LEMMA StateExtends ==
    ASSUME KeysInv, dat.exists, mem.running
    PROVE  Extends(State)
<1>1. State.dat = dat /\ State.mem = mem /\ State.generated = generated /\ State.reused = reused
  BY DEF State
<1>2. State = [dat |-> State.dat, mem |-> State.mem, generated |-> State.generated, reused |-> State.reused]
  BY DEF State
<1>3. dat = File(dat.exists, dat.key, dat.ckey, dat.mkey, dat.pool)
      /\ mem = Memory(mem.running, mem.keys, mem.setKeyPool, mem.fUseCrypto, mem.locked)
  BY DEF KeysInv, Shapes
<1>4. /\ Sound(dat.pool, KeysIn(dat), mem.setKeyPool, generated, reused, held, kept, merged)
      /\ mem.keys \subseteq KeysIn(dat) /\ (~merged => mem.keys = KeysIn(dat))
  BY CurrentFile
<1>5. ~merged => IF dat.mkey THEN dat.key = {} ELSE dat.ckey = {}
  BY DEF KeysInv, WhollyEncrypted
<1>6. generated <= generated
  BY SMTT(20), <1>4 DEF Sound
<1> QED BY ZenonT(30), <1>1, <1>2, <1>3, <1>4, <1>5, <1>6 DEF Extends

\* New keys and records: AddPoolKeys on the present state.
LEMMA AddExtends ==
    ASSUME KeysInv, dat.exists, mem.running, encrypting # "keys", NEW nEnd \in Nat \ {0}, NEW n \in Nat
    PROVE  Extends(AddPoolKeys(State, nEnd, n))
<1>1. PICK keys, indexes, q, t, s :
        /\ keys = (generated + 1)..(generated + n) /\ indexes = nEnd..(nEnd + n - 1)
        /\ q = Added(dat.pool, generated, nEnd, n)
        /\ t = (reused \/ indexes \cap Reserved # {})
        /\ s = AddPoolKeys(State, nEnd, n)
  BY ZenonT(30)
<1>2. PICK key, ckey :
        /\ key = IF mem.fUseCrypto THEN dat.key ELSE dat.key \cup keys
        /\ ckey = IF mem.fUseCrypto THEN dat.ckey \cup keys ELSE dat.ckey
  BY ZenonT(30)
<1>3. s = [dat |-> [dat EXCEPT !.key = key, !.ckey = ckey, !.pool = q],
           mem |-> [mem EXCEPT !.keys = mem.keys \cup keys, !.setKeyPool = mem.setKeyPool \cup indexes],
           generated |-> generated + n, reused |-> t]
  BY ZenonT(30), <1>1, <1>2 DEF AddPoolKeys, State, Added
<1>4. /\ [dat EXCEPT !.key = key, !.ckey = ckey, !.pool = q]
            = File(dat.exists, key, ckey, dat.mkey, q)
      /\ [mem EXCEPT !.keys = mem.keys \cup keys, !.setKeyPool = mem.setKeyPool \cup indexes]
            = Memory(mem.running, mem.keys \cup keys, mem.setKeyPool \cup indexes, mem.fUseCrypto, mem.locked)
  <2>1. PICK e, a, b, m, p :
          /\ e = dat.exists /\ a = dat.key /\ b = dat.ckey /\ m = dat.mkey /\ p = dat.pool
          /\ dat = File(e, a, b, m, p)
    BY ZenonT(30) DEF KeysInv, Shapes
  <2>2. [dat EXCEPT !.key = key, !.ckey = ckey, !.pool = q]
            = File(e, key, ckey, m, q)
    <3>1. dat = File(e, a, b, m, p)
      BY <2>1
    <3>2. [dat EXCEPT !.key = key] = File(e, key, b, m, p)
      <4>1. PICK c : c = dat
        OBVIOUS
      <4>2. c = File(e, a, b, m, p)
        BY Zenon, <3>1, <4>1
      <4>3. [c EXCEPT !.key = key] = File(e, key, b, m, p)
        BY SMTT(20), <4>2 DEF File
      <4> QED BY Zenon, <4>1, <4>3
    <3>3. PICK d : d = [dat EXCEPT !.key = key]
      OBVIOUS
    <3>4. d = File(e, key, b, m, p)
      BY Zenon, <3>2, <3>3
    <3>5. [d EXCEPT !.ckey = ckey] = File(e, key, ckey, m, p)
      BY SMTT(20), <3>4 DEF File
    <3>6. PICK d2 : d2 = [d EXCEPT !.ckey = ckey]
      OBVIOUS
    <3>7. d2 = File(e, key, ckey, m, p)
      BY Zenon, <3>5, <3>6
    <3>8. [d2 EXCEPT !.pool = q] = File(e, key, ckey, m, q)
      BY SMTT(20), <3>7 DEF File
    <3> QED BY Zenon, <3>3, <3>6, <3>8
  <2>3. PICK w, k, S, f, l :
          /\ w = mem.running /\ k = mem.keys /\ S = mem.setKeyPool /\ f = mem.fUseCrypto /\ l = mem.locked
          /\ mem = Memory(w, k, S, f, l)
    BY ZenonT(30) DEF KeysInv, Shapes
  <2>4. PICK x, T : x = mem.keys \cup keys /\ T = mem.setKeyPool \cup indexes
    OBVIOUS
  <2>5. [mem EXCEPT !.keys = x, !.setKeyPool = T]
          = Memory(w, x, T, f, l)
    <3>1. PICK c : c = mem
      OBVIOUS
    <3>2. c = Memory(w, k, S, f, l)
      BY Zenon, <2>3, <3>1
    <3>3. [c EXCEPT !.keys = x] = Memory(w, x, S, f, l)
      BY SMTT(20), <3>2 DEF Memory
    <3>4. PICK d : d = [c EXCEPT !.keys = x]
      OBVIOUS
    <3>5. d = Memory(w, x, S, f, l)
      BY Zenon, <3>3, <3>4
    <3>6. [d EXCEPT !.setKeyPool = T] = Memory(w, x, T, f, l)
      BY SMTT(20), <3>5 DEF Memory
    <3> QED BY Zenon, <3>1, <3>4, <3>6
  <2> QED BY ZenonT(30), <2>1, <2>2, <2>3, <2>4, <2>5
<1>5. /\ s.dat.exists = dat.exists /\ s.dat.key = key /\ s.dat.ckey = ckey /\ s.dat.mkey = dat.mkey
      /\ s.dat.pool = q /\ s.mem.keys = mem.keys \cup keys
      /\ s.mem.setKeyPool = mem.setKeyPool \cup indexes
      /\ s.generated = generated + n /\ s.reused = t
      /\ s.dat = File(dat.exists, key, ckey, dat.mkey, q)
      /\ s.mem = Memory(mem.running, mem.keys \cup keys, mem.setKeyPool \cup indexes, mem.fUseCrypto, mem.locked)
  <2>1. s.dat = File(dat.exists, key, ckey, dat.mkey, q) /\ s.generated = generated + n /\ s.reused = t
    BY ZenonT(30), <1>3, <1>4
  <2>2. s.mem = Memory(mem.running, mem.keys \cup keys, mem.setKeyPool \cup indexes, mem.fUseCrypto,
                       mem.locked)
    BY ZenonT(30), <1>3, <1>4
  <2>3. /\ s.dat.exists = dat.exists /\ s.dat.key = key /\ s.dat.ckey = ckey /\ s.dat.mkey = dat.mkey
        /\ s.dat.pool = q
    <3>1. PICK d, e, m : d = s.dat /\ e = dat.exists /\ m = dat.mkey
      OBVIOUS
    <3>2. d = File(e, key, ckey, m, q)
      BY <2>1, <3>1
    <3>3. d.exists = e /\ d.key = key /\ d.ckey = ckey /\ d.mkey = m /\ d.pool = q
      BY SMTT(20), <3>2 DEF File
    <3> QED BY ZenonT(20), <3>1, <3>3
  <2>4. s.mem.keys = mem.keys \cup keys /\ s.mem.setKeyPool = mem.setKeyPool \cup indexes
    <3>1. PICK w, x, T : w = s.mem /\ x = mem.keys \cup keys /\ T = mem.setKeyPool \cup indexes
      OBVIOUS
    <3>2. PICK a, f, l : w = Memory(a, x, T, f, l)
      BY ZenonT(20), <2>2, <3>1
    <3>3. w.keys = x /\ w.setKeyPool = T
      BY SMTT(20), <3>2 DEF Memory
    <3> QED BY ZenonT(20), <3>1, <3>3
  <2> QED BY <2>1, <2>2, <2>3, <2>4
<1>6. s = [dat |-> s.dat, mem |-> s.mem, generated |-> s.generated, reused |-> s.reused]
  BY ZenonT(30), <1>3
<1>7. key \cup ckey = KeysIn(dat) \cup keys
  BY <1>2 DEF KeysIn
<1>8. KeysIn(s.dat) = KeysIn(dat) \cup keys
  BY <1>5, <1>7 DEF KeysIn
<1>9. /\ mem.keys \cup keys \subseteq KeysIn(dat) \cup keys
      /\ ~merged => /\ mem.keys \cup keys = KeysIn(dat) \cup keys
                    /\ IF dat.mkey THEN key = {} ELSE ckey = {}
  <2>1. ~merged => /\ mem.keys = KeysIn(dat) /\ mem.fUseCrypto = dat.mkey
                   /\ IF dat.mkey THEN dat.key = {} ELSE dat.ckey = {}
    BY CurrentFile DEF KeysInv, WhollyEncrypted
  <2>2. mem.keys \subseteq KeysIn(dat)
    BY CurrentFile
  <2> QED BY <1>2, <2>1, <2>2
<1>10. Sound(q, KeysIn(dat) \cup keys, mem.setKeyPool \cup indexes, generated + n, t, held, kept, merged)
  <2>1. Sound(dat.pool, KeysIn(dat), mem.setKeyPool, generated, reused, held, kept, merged)
    BY CurrentFile
  <2>2. t \in BOOLEAN /\ (~t => ~reused /\ \A c \in Clients : held[c].nIndex \notin indexes)
    <3>1. 0 \notin indexes
      BY SMTT(20), <1>1
    <3>2. reused \in BOOLEAN
      BY <2>1 DEF Sound
    <3> QED BY <1>1, <3>1, <3>2 DEF Reserved
  <2>3. PICK K, S, p, h : K = KeysIn(dat) /\ S = mem.setKeyPool /\ p = dat.pool /\ h = held
    OBVIOUS
  <2>4. Sound(p, K, S, generated, reused, h, kept, merged)
    BY ZenonT(20), <2>1, <2>3
  <2>5. Rewritten(t, reused, h, nEnd, n)
    BY ZenonT(20), <1>1, <2>2, <2>3 DEF Rewritten
  <2>6. Sound(Added(p, generated, nEnd, n), K \cup ((generated + 1)..(generated + n)),
              S \cup (nEnd..(nEnd + n - 1)), generated + n, t, h, kept, merged)
    BY ZenonT(30), <2>4, <2>5, AddSound
  <2> QED BY ZenonT(20), <1>1, <2>3, <2>6
<1>11. generated <= generated + n
  <2>1. generated \in Nat
    BY CurrentFile DEF Sound
  <2> QED BY SMTT(20), <2>1
<1>12. KeysIn(dat) \subseteq KeysIn(s.dat)
  BY <1>8
<1> QED BY ZenonT(30), <1>1, <1>5, <1>6, <1>8, <1>9, <1>10, <1>11, <1>12 DEF Extends

LEMMA ToppedUpExtends ==
    ASSUME KeysInv, Idle, Opens, NEW n \in Nat
    PROVE  Extends(ToppedUp(State, n))
<1>1. dat.exists /\ mem.running /\ encrypting = "no" /\ State.mem.setKeyPool = mem.setKeyPool
  BY DEF Idle, Opens, State
<1>2. PICK b \in Nat : mem.setKeyPool \in SUBSET (1..b)
  BY <1>1, CurrentFile DEF Sound
<1>3. PICK size : size = Cardinality(mem.setKeyPool) /\ size \in Nat
  BY <1>2, PoolSize
<1>4. NextIndex(State) \in Nat \ {0}
  <2>1. CASE mem.setKeyPool = {}
    BY SMTT(20), <1>1, <2>1 DEF NextIndex
  <2>2. CASE mem.setKeyPool # {}
    <3>1. Max(mem.setKeyPool) \in 1..b
      BY <1>2, <2>2, MaxOf
    <3> QED BY SMTT(20), <1>1, <2>2, <3>1 DEF NextIndex
  <2> QED BY <2>1, <2>2
<1>5. CASE ToppedUp(State, n) = State
  BY <1>1, <1>5, StateExtends
<1>6. CASE ToppedUp(State, n) # State
  <2>1. ~(size > n) /\ ToppedUp(State, n) = AddPoolKeys(State, NextIndex(State), n + 1 - size)
    BY ZenonT(30), <1>1, <1>3, <1>6 DEF ToppedUp
  <2>2. n + 1 - size \in Nat
    BY SMTT(20), <1>3, <2>1
  <2> QED BY ZenonT(30), <1>1, <1>4, <2>1, <2>2, AddExtends
<1> QED BY <1>5, <1>6

\* A step that ends in such a state with other records, indexes and reservations.
LEMMA Rebuilt ==
    ASSUME KeysInv, dat.exists, mem.running, encrypting \notin {"copied", "removed"},
           NEW s, Extends(s), NEW q, NEW T,
           dat' = [s.dat EXCEPT !.pool = q], mem' = [s.mem EXCEPT !.setKeyPool = T],
           generated' = s.generated, reused' = s.reused, UNCHANGED <<rewrite, encrypting, history>>,
           Given' \subseteq Given \cup KeysIn(s.dat),
           Sound(q, KeysIn(s.dat), T, s.generated, s.reused, held', kept', merged)
    PROVE  KeysInv'
<1>1. PICK e, key, ckey, m, p :
        /\ e = dat.exists /\ key = s.dat.key /\ ckey = s.dat.ckey /\ m = dat.mkey /\ p = s.dat.pool
        /\ s.dat = File(e, key, ckey, m, p)
  BY ZenonT(30) DEF Extends
<1>2. PICK w, keys, S, f, l :
        /\ w = mem.running /\ keys = s.mem.keys /\ S = s.mem.setKeyPool /\ f = mem.fUseCrypto
        /\ l = mem.locked
        /\ s.mem = Memory(w, keys, S, f, l)
  BY ZenonT(30) DEF Extends
<1>3. dat' = File(e, key, ckey, m, q) /\ mem' = Memory(w, keys, T, f, l)
  <2>1. dat' = File(e, key, ckey, m, q)
    <3>1. PICK d : d = s.dat
      OBVIOUS
    <3>2. d = File(e, key, ckey, m, p) /\ dat' = [d EXCEPT !.pool = q]
      BY <1>1, <3>1
    <3> QED BY SMTT(20), <3>2 DEF File
  <2>2. mem' = Memory(w, keys, T, f, l)
    <3>1. PICK d : d = s.mem
      OBVIOUS
    <3>2. d = Memory(w, keys, S, f, l) /\ mem' = [d EXCEPT !.setKeyPool = T]
      BY <1>2, <3>1
    <3> QED BY SMTT(20), <3>2 DEF Memory
  <2> QED BY Zenon, <2>1, <2>2
<1>4. /\ dat'.exists = e /\ dat'.key = key /\ dat'.ckey = ckey /\ dat'.mkey = m /\ dat'.pool = q
      /\ mem'.running = w /\ mem'.keys = keys /\ mem'.setKeyPool = T /\ mem'.fUseCrypto = f
      /\ mem'.locked = l
  <2>1. PICK d, n : d = dat' /\ n = mem'
    OBVIOUS
  <2>2. d = File(e, key, ckey, m, q) /\ n = Memory(w, keys, T, f, l)
    BY <1>3, <2>1
  <2>3. d.exists = e /\ d.key = key /\ d.ckey = ckey /\ d.mkey = m /\ d.pool = q
    BY SMTT(20), <2>2 DEF File
  <2>4. n.running = w /\ n.keys = keys /\ n.setKeyPool = T /\ n.fUseCrypto = f /\ n.locked = l
    BY SMTT(20), <2>2 DEF Memory
  <2> QED BY Zenon, <2>1, <2>3, <2>4
<1>5. Shapes'
  <2>1. /\ dat' = File(dat'.exists, dat'.key, dat'.ckey, dat'.mkey, dat'.pool)
        /\ mem' = Memory(mem'.running, mem'.keys, mem'.setKeyPool, mem'.fUseCrypto, mem'.locked)
    BY Zenon, <1>3, <1>4
  <2>2. /\ e \in BOOLEAN /\ m \in BOOLEAN /\ w \in BOOLEAN /\ f \in BOOLEAN
        /\ merged' \in BOOLEAN /\ stranded' \in BOOLEAN
        /\ encrypting' \in {"no", "keys", "committed", "erased", "flushed", "copied", "removed"}
    BY ZenonT(20), <1>1, <1>2 DEF KeysInv, Shapes, history
  <2>3. /\ rewrite' = File(rewrite'.exists, rewrite'.key, rewrite'.ckey, rewrite'.mkey, rewrite'.pool)
        /\ rewrite'.exists \in BOOLEAN /\ rewrite'.mkey \in BOOLEAN
    BY ZenonT(20) DEF KeysInv, Shapes
  <2>4. dat'.exists \in BOOLEAN /\ dat'.mkey \in BOOLEAN /\ mem'.running \in BOOLEAN /\ mem'.fUseCrypto \in BOOLEAN
    BY Zenon, <1>4, <2>2
  <2> QED BY Zenon, <2>1, <2>2, <2>3, <2>4 DEF Shapes
<1>6. /\ KeysIn(dat') = key \cup ckey /\ KeysIn(s.dat) = key \cup ckey
      /\ keys \subseteq key \cup ckey /\ (~merged => keys = key \cup ckey)
  <2>1. s.mem.keys \subseteq KeysIn(s.dat) /\ (~merged => s.mem.keys = KeysIn(s.dat))
    BY Zenon DEF Extends
  <2>2. KeysIn(s.dat) = key \cup ckey
    BY Zenon, <1>1 DEF KeysIn
  <2>3. KeysIn(dat') = key \cup ckey
    BY Zenon, <1>4 DEF KeysIn
  <2> QED BY Zenon, <1>2, <2>1, <2>2, <2>3
<1>7. e /\ w /\ Current' = dat' /\ merged' = merged /\ stranded' = stranded
  BY ZenonT(20), <1>1, <1>2, <1>4 DEF Current, history
<1>8. Control'
  <2>1. /\ ~merged /\ encrypting # "keys" => f = m
        /\ ~merged /\ encrypting = "keys" => f /\ ~m
    BY ZenonT(20), <1>1, <1>2, CurrentFile DEF KeysInv, Control
  <2>2. ~rewrite.exists => rewrite = NoFile
    BY DEF KeysInv, Control
  <2>3. dat'.exists /\ mem'.running /\ encrypting' \notin {"copied", "removed"}
    BY <1>4, <1>7
  <2>4. mem'.keys \subseteq KeysIn(Current')
    BY ZenonT(20), <1>4, <1>6, <1>7
  <2>5. ~merged' => /\ mem'.keys = KeysIn(Current')
                    /\ encrypting' # "keys" => mem'.fUseCrypto = (Current').mkey
                    /\ encrypting' = "keys" => mem'.fUseCrypto /\ ~dat'.mkey
    BY ZenonT(20), <1>4, <1>6, <1>7, <2>1
  <2> QED BY ZenonT(20), <2>2, <2>3, <2>4, <2>5 DEF Control, KeysIn
<1>9. WhollyEncrypted'
  <2>1. ~merged => IF m THEN key = {} ELSE ckey = {}
    BY ZenonT(20), <1>1 DEF Extends
  <2>2. ~merged => IF rewrite.mkey THEN rewrite.key = {} ELSE rewrite.ckey = {}
    BY ZenonT(20) DEF KeysInv, WhollyEncrypted
  <2> QED BY Zenon, <1>4, <1>7, <2>1, <2>2 DEF WhollyEncrypted
<1>10. KeysDurable'
  <2>1. KeysIn(dat) \subseteq KeysIn(dat') /\ Given' \subseteq Given \cup KeysIn(dat')
    BY ZenonT(20), <1>6 DEF Extends
  <2>2. dat'.exists
    BY <1>4, <1>7
  <2> QED BY <1>7, <2>1, <2>2, KeysStay
<1>11. Complete(rewrite', generated')
  <2>1. generated \in Nat /\ s.generated \in Nat /\ generated <= s.generated
    BY ZenonT(20), CurrentFile DEF Extends, Sound
  <2>2. Complete(rewrite, generated)
    BY DEF KeysInv
  <2> QED BY <2>1, <2>2, CompleteLater
<1>12. Sound((Current').pool, KeysIn(Current'), mem'.setKeyPool, generated', reused', held', kept', merged')
  BY ZenonT(30), <1>4, <1>6, <1>7
<1>13. Complete(rewrite, generated)' /\ KeysIn(Current)' = KeysIn(Current')
  BY <1>11 DEF Complete, KeysIn
<1> QED BY <1>5, <1>8, <1>9, <1>10, <1>12, <1>13 DEF KeysInv

LEMMA TopUpStep ==
    ASSUME KeysInv, TopUpKeyPool PROVE KeysInv'
<1>1. PICK n \in 1..Target : Becomes(ToppedUp(State, n))
  BY DEF TopUpKeyPool
<1>2. PICK s : s = ToppedUp(State, n)
  OBVIOUS
<1>3. Idle /\ Opens /\ n \in Nat /\ UNCHANGED <<rewrite, held, encrypting, kept, history>>
  BY SMTT(20), KeyPoolAssumption DEF TopUpKeyPool
<1>4. Extends(s)
  BY <1>2, <1>3, ToppedUpExtends
<1>5. /\ dat' = [s.dat EXCEPT !.pool = s.dat.pool] /\ mem' = [s.mem EXCEPT !.setKeyPool = s.mem.setKeyPool]
      /\ generated' = s.generated /\ reused' = s.reused
  BY ZenonT(30), <1>1, <1>2, <1>4 DEF Becomes, Extends, File, Memory
<1>6. Sound(s.dat.pool, KeysIn(s.dat), s.mem.setKeyPool, s.generated, s.reused, held', kept', merged)
  BY <1>3, <1>4 DEF Extends, File, Memory
<1>7. Given' = Given
  BY <1>3 DEF Given
<1> QED BY ZenonT(30), <1>3, <1>4, <1>5, <1>6, <1>7, Rebuilt DEF Idle, Opens

\* The index a caller of ReserveKeyFromKeyPool is given.
LEMMA FirstIndex ==
    ASSUME NEW s, Extends(s), s.mem.setKeyPool # {}
    PROVE  Min(s.mem.setKeyPool) \in s.mem.setKeyPool
<1>1. s.mem.setKeyPool \in SUBSET Nat
  BY SMTT(20) DEF Extends, Sound, File, Memory
<1> QED BY <1>1, MinOf

\* A client has another key, or none.
LEMMA GivenTo ==
    ASSUME held \in Holds, NEW c \in Clients, NEW i, NEW x, NEW K, x \in K \cup {0}, kept' = kept,
           held' = [held EXCEPT ![c] = [nIndex |-> i, vchPubKey |-> x]]
    PROVE  Given' \subseteq Given \cup K
<1>1. \A d \in Clients : held'[d].vchPubKey \in {held[d].vchPubKey, x}
  BY SMTT(20) DEF Holds
<1> QED BY <1>1 DEF Given

LEMMA GetReservedKeyStep ==
    ASSUME KeysInv, NEW c \in Clients, GetReservedKey(c) PROVE KeysInv'
<1>1. PICK s, i, x :
        /\ s = ToppedUp(State, Target) /\ i = Min(s.mem.setKeyPool)
        /\ x = IF i \in DOMAIN s.dat.pool /\ s.dat.pool[i] \in s.mem.keys THEN s.dat.pool[i] ELSE 0
  OBVIOUS
<1>2. /\ Idle /\ Opens /\ held[c].nIndex = 0 /\ s.mem.setKeyPool # {}
      /\ Becomes([s EXCEPT !.mem.setKeyPool = @ \ {i}])
      /\ held' = [held EXCEPT ![c] = [nIndex |-> i, vchPubKey |-> x]]
      /\ UNCHANGED <<rewrite, encrypting, kept, history>>
  BY ZenonT(30), <1>1 DEF GetReservedKey
<1>3. Extends(s)
  BY <1>1, <1>2, ToppedUpExtends, KeyPoolAssumption
<1>4. i \in s.mem.setKeyPool
  BY <1>1, <1>2, <1>3, FirstIndex
<1>5. /\ dat' = [s.dat EXCEPT !.pool = s.dat.pool]
      /\ mem' = [s.mem EXCEPT !.setKeyPool = s.mem.setKeyPool \ {i}]
      /\ generated' = s.generated /\ reused' = s.reused
  BY ZenonT(30), <1>2, <1>3 DEF Becomes, Extends, File, Memory
<1>6. PICK p, K, S, g, r : /\ p = s.dat.pool /\ K = KeysIn(s.dat) /\ S = s.mem.setKeyPool
                           /\ g = s.generated /\ r = s.reused
  OBVIOUS
<1>7. Sound(p, K, S, g, r, held, kept, merged) /\ (~merged => K = s.mem.keys)
  BY ZenonT(30), <1>3, <1>6 DEF Extends, File, Memory
<1>8. /\ x = 0 \/ (i \in DOMAIN p /\ x = p[i])
      /\ ~merged /\ i \in DOMAIN p => x = p[i]
  <2>1. \A j \in DOMAIN p : p[j] \in K
    BY <1>7 DEF Sound
  <2>2. PICK k : k = s.mem.keys
    OBVIOUS
  <2>3. x = IF i \in DOMAIN p /\ p[i] \in k THEN p[i] ELSE 0
    BY <1>1, <1>6, <2>2
  <2>4. ~merged => k = K
    BY <1>7, <2>2
  <2>5. \A j \in DOMAIN p : ~merged => p[j] \in k
    BY <2>1, <2>4
  <2> QED BY SMTT(20), <2>3, <2>5
<1>9. Sound(p, K, S \ {i}, g, r, held', kept', merged)
  <2>1. i \in S
    BY <1>4, <1>6
  <2> QED BY ZenonT(30), <1>2, <1>7, <1>8, <2>1, ReserveSound
<1>10. Given' \subseteq Given \cup K
  <2>1. x \in K \cup {0} /\ held \in Holds
    BY SMTT(20), <1>7, <1>8 DEF Sound
  <2> QED BY <1>2, <2>1, GivenTo
<1> QED BY ZenonT(30), <1>2, <1>3, <1>5, <1>6, <1>9, <1>10, Rebuilt DEF Idle, Opens

LEMMA GetKeyFromPoolStep ==
    ASSUME KeysInv, GetKeyFromPool PROVE KeysInv'
<1>1. PICK s, i : s = ToppedUp(State, Target) /\ i = Min(s.mem.setKeyPool)
  OBVIOUS
<1>2. /\ Idle /\ Opens /\ s.mem.setKeyPool # {}
      /\ Becomes([s EXCEPT !.mem.setKeyPool = @ \ {i}, !.dat.pool = [j \in DOMAIN @ \ {i} |-> @[j]]])
      /\ kept' = kept \cup {s.dat.pool[j] : j \in {i} \cap DOMAIN s.dat.pool}
      /\ UNCHANGED <<rewrite, held, encrypting, history>>
  BY ZenonT(30), <1>1 DEF GetKeyFromPool
<1>3. Extends(s)
  BY <1>1, <1>2, ToppedUpExtends, KeyPoolAssumption
<1>4. i \in s.mem.setKeyPool
  BY <1>1, <1>2, <1>3, FirstIndex
<1>5. /\ dat' = [s.dat EXCEPT !.pool = Without(s.dat.pool, i)]
      /\ mem' = [s.mem EXCEPT !.setKeyPool = s.mem.setKeyPool \ {i}]
      /\ generated' = s.generated /\ reused' = s.reused
  BY ZenonT(30), <1>2, <1>3 DEF Becomes, Extends, Without, File, Memory
<1>6. PICK p, K, S, g, r : /\ p = s.dat.pool /\ K = KeysIn(s.dat) /\ S = s.mem.setKeyPool
                           /\ g = s.generated /\ r = s.reused
  OBVIOUS
<1>7. Sound(p, K, S, g, r, held, kept, merged) /\ i \in S
  BY ZenonT(30), <1>3, <1>4, <1>6 DEF Extends, File, Memory
<1>8. Sound(Without(p, i), K, S \ {i}, g, r, held', kept', merged)
  BY ZenonT(30), <1>2, <1>6, <1>7, DropSound
<1>9. Given' \subseteq Given \cup K
  <2>1. \A j \in DOMAIN p : p[j] \in K
    BY <1>7 DEF Sound
  <2>2. kept' \subseteq kept \cup K
    BY <1>2, <1>6, <2>1
  <2> QED BY <1>2, <2>2 DEF Given
<1> QED BY ZenonT(30), <1>2, <1>3, <1>5, <1>6, <1>8, <1>9, Rebuilt DEF Idle, Opens
-----------------------------------------------------------------------------
(* CReserveKey, and the pool during EncryptWallet.                           *)

\* The present state, with other records and indexes.
LEMMA PoolChanged ==
    ASSUME KeysInv, dat.exists, mem.running, encrypting \notin {"copied", "removed"}, NEW q, NEW T,
           dat' = [dat EXCEPT !.pool = q], mem' = [mem EXCEPT !.setKeyPool = T],
           UNCHANGED <<generated, reused, rewrite, encrypting, history>>, Given' \subseteq Given,
           Sound(q, KeysIn(dat), T, generated, reused, held', kept', merged)
    PROVE  KeysInv'
<1>1. State.dat = dat /\ State.mem = mem /\ State.generated = generated /\ State.reused = reused
  BY DEF State
<1>2. Extends(State)
  BY StateExtends
<1>3. Given' \subseteq Given \cup KeysIn(State.dat)
  OBVIOUS
<1> QED BY ZenonT(30), <1>1, <1>2, <1>3, Rebuilt

LEMMA SameFields ==
    ASSUME KeysInv
    PROVE  dat = [dat EXCEPT !.pool = dat.pool] /\ mem = [mem EXCEPT !.setKeyPool = mem.setKeyPool]
BY ZenonT(30) DEF KeysInv, Shapes, File, Memory

LEMMA KeepKeyStep ==
    ASSUME KeysInv, NEW c \in Clients, KeepKey(c) PROVE KeysInv'
<1>1. PICK i, x : i = held[c].nIndex /\ x = held[c].vchPubKey
  OBVIOUS
<1>2. /\ mem.running /\ dat.exists /\ encrypting # "copied" /\ x # 0
      /\ dat' = [dat EXCEPT !.pool = Without(dat.pool, i)]
      /\ kept' = kept \cup {x} /\ held' = [held EXCEPT ![c] = Nobody]
      /\ UNCHANGED <<rewrite, mem, encrypting, generated, reused, history>>
  BY ZenonT(30), <1>1 DEF KeepKey, Opens, Without
<1>3. Sound(dat.pool, KeysIn(dat), mem.setKeyPool, generated, reused, held, kept, merged) /\ i # 0
  BY <1>1, <1>2, CurrentFile DEF Sound
<1>4. Sound(Without(dat.pool, i), KeysIn(dat), mem.setKeyPool, generated, reused, held', kept', merged)
  BY ZenonT(30), <1>1, <1>2, <1>3, EndSound
<1>5. mem' = [mem EXCEPT !.setKeyPool = mem.setKeyPool]
  BY ZenonT(30), <1>2, SameFields
<1>6. Given' \subseteq Given
  <2>1. \A d \in Clients : held'[d].vchPubKey \in {held[d].vchPubKey, 0}
    BY SMTT(20), <1>2, <1>3 DEF Sound, Holds, Nobody
  <2> QED BY <1>1, <1>2, <2>1 DEF Given
<1>7. encrypting \notin {"copied", "removed"}
  BY <1>2 DEF KeysInv, Control
<1> QED BY ZenonT(30), <1>2, <1>4, <1>5, <1>6, <1>7, PoolChanged

\* Steps that leave the files as they are.
LEMMA FilesSame ==
    ASSUME KeysInv, UNCHANGED <<dat, rewrite, generated, merged, stranded>>, Given' \subseteq Given,
           mem' = Memory(mem'.running, mem'.keys, mem'.setKeyPool, mem'.fUseCrypto, mem'.locked),
           mem'.running \in BOOLEAN, mem'.fUseCrypto \in BOOLEAN,
           encrypting' \in {"no", "keys", "committed", "erased", "flushed", "copied", "removed"},
           Control',
           Sound(Current.pool, KeysIn(Current), mem'.setKeyPool, generated, reused', held', kept', merged)
    PROVE  KeysInv'
<1>1. Shapes'
  BY ZenonT(30) DEF KeysInv, Shapes
<1>2. WhollyEncrypted'
  BY ZenonT(30) DEF KeysInv, WhollyEncrypted
<1>3. KeysDurable'
  <2>1. PICK g, g1 : g = Given /\ g1 = Given'
    OBVIOUS
  <2>2. g \subseteq KeysIn(dat) \cup KeysIn(rewrite) /\ (~stranded => g \subseteq KeysIn(IF dat.exists THEN dat ELSE rewrite))
    BY ZenonT(30), <2>1 DEF KeysInv, KeysDurable
  <2>3. g1 \subseteq KeysIn(dat) \cup KeysIn(rewrite) /\ (~stranded => g1 \subseteq KeysIn(IF dat.exists THEN dat ELSE rewrite))
    BY ZenonT(30), <2>1, <2>2
  <2> QED BY ZenonT(30), <2>1, <2>3 DEF KeysDurable, KeysIn
<1>4. Complete(rewrite, generated)'
  BY ZenonT(30) DEF KeysInv, Complete, KeysIn
<1>5. Current' = Current
  BY DEF Current
<1>6. Sound(Current.pool, KeysIn(Current), mem.setKeyPool, generated, reused, held, kept, merged)'
  BY ZenonT(30), <1>5 DEF KeysIn
<1> QED BY <1>1, <1>2, <1>3, <1>4, <1>6 DEF KeysInv

LEMMA CurrentSound ==
    ASSUME KeysInv
    PROVE  Sound(Current.pool, KeysIn(Current), mem.setKeyPool, generated, reused, held, kept, merged)
BY DEF KeysInv

LEMMA ErasePoolStep ==
    ASSUME KeysInv, ErasePool PROVE KeysInv'
<1>1. /\ mem.running /\ encrypting = "committed" /\ dat.exists
      /\ UNCHANGED <<rewrite, held, generated, kept, reused, history>>
  BY DEF ErasePool, KeysInv, Control
<1>2. CASE encrypting' = "erased" /\ UNCHANGED <<dat, mem>>
  <2>1. Control' /\ Given' = Given /\ UNCHANGED <<merged, stranded>>
    BY ZenonT(30), <1>1, <1>2 DEF KeysInv, Control, Current, KeysIn, Given, history
  <2>2. /\ mem' = Memory(mem'.running, mem'.keys, mem'.setKeyPool, mem'.fUseCrypto, mem'.locked)
        /\ mem'.running \in BOOLEAN /\ mem'.fUseCrypto \in BOOLEAN
    BY <1>2 DEF KeysInv, Shapes
  <2>3. Sound(Current.pool, KeysIn(Current), mem'.setKeyPool, generated, reused', held', kept', merged)
    BY ZenonT(30), <1>1, <1>2, CurrentSound
  <2> QED BY ZenonT(30), <1>1, <1>2, <2>1, <2>2, <2>3, FilesSame
<1>3. CASE mem.setKeyPool # {}
  <2>1. PICK i : i = Min(mem.setKeyPool)
    OBVIOUS
  <2>2. /\ dat' = [dat EXCEPT !.pool = Without(dat.pool, i)]
        /\ mem' = [mem EXCEPT !.setKeyPool = mem.setKeyPool \ {i}]
        /\ UNCHANGED encrypting
    BY ZenonT(30), <1>3, <2>1 DEF ErasePool, Without
  <2>3. Sound(dat.pool, KeysIn(dat), mem.setKeyPool, generated, reused, held, kept, merged)
    BY <1>1, CurrentFile
  <2>4. mem.setKeyPool \in SUBSET Nat
    BY SMTT(20), <2>3 DEF Sound
  <2>5. i \in mem.setKeyPool
    BY <1>3, <2>1, <2>4, MinOf
  <2>6. Sound(Without(dat.pool, i), KeysIn(dat), mem.setKeyPool \ {i}, generated, reused, held, kept \cup {}, merged)
    BY ZenonT(30), <2>3, <2>5, DropSound
  <2>7. Sound(Without(dat.pool, i), KeysIn(dat), mem.setKeyPool \ {i}, generated, reused, held', kept', merged)
    <3>1. kept \cup {} = kept
      OBVIOUS
    <3> QED BY ZenonT(30), <1>1, <2>6, <3>1
  <2>8. Given' \subseteq Given
    BY <1>1 DEF Given
  <2> QED BY ZenonT(30), <1>1, <2>2, <2>7, <2>8, PoolChanged
<1> QED BY <1>2, <1>3 DEF ErasePool

LEMMA WritePoolStep ==
    ASSUME KeysInv, WritePool PROVE KeysInv'
<1>1. /\ mem.running /\ encrypting = "erased" /\ dat.exists
      /\ UNCHANGED <<rewrite, held, kept, history>>
  BY DEF WritePool, KeysInv, Control
<1>2. PICK b \in Nat : mem.setKeyPool \in SUBSET (1..b)
  BY <1>1, CurrentFile DEF Sound
<1>3. Cardinality(mem.setKeyPool) + 1 \in Nat \ {0}
  <2>1. PICK n \in Nat : n = Cardinality(mem.setKeyPool)
    BY <1>2, PoolSize
  <2>2. n + 1 \in Nat \ {0}
    BY SMTT(20)
  <2> QED BY <2>1, <2>2
<1>4. PICK s : s = AddPoolKeys(State, Cardinality(mem.setKeyPool) + 1, 1)
  OBVIOUS
<1>5. CASE /\ mem' = [mem EXCEPT !.locked = TRUE] /\ encrypting' = "flushed"
           /\ UNCHANGED <<dat, generated, reused>>
  <2>1. mem' = [running |-> mem.running, keys |-> mem.keys, setKeyPool |-> mem.setKeyPool,
                fUseCrypto |-> mem.fUseCrypto, locked |-> TRUE]
    BY ZenonT(30), <1>5 DEF KeysInv, Shapes, File, Memory
  <2>2. /\ mem'.running = mem.running /\ mem'.keys = mem.keys /\ mem'.setKeyPool = mem.setKeyPool
        /\ mem'.fUseCrypto = mem.fUseCrypto
        /\ mem' = Memory(mem'.running, mem'.keys, mem'.setKeyPool, mem'.fUseCrypto, mem'.locked)
    BY ZenonT(30), <2>1 DEF Memory
  <2>3. Control' /\ Given' = Given /\ UNCHANGED <<merged, stranded>>
    <3>1. Given' = Given /\ UNCHANGED <<merged, stranded>> /\ Current' = Current
      BY <1>1, <1>5 DEF Given, history, Current
    <3>2. /\ mem.keys \subseteq KeysIn(Current) /\ (~rewrite.exists => rewrite = NoFile)
          /\ ~merged => mem.keys = KeysIn(Current) /\ mem.fUseCrypto = Current.mkey
      BY <1>1 DEF KeysInv, Control
    <3> QED BY ZenonT(30), <1>1, <1>5, <2>2, <3>1, <3>2 DEF Control, KeysIn
  <2>4. mem.running \in BOOLEAN /\ mem.fUseCrypto \in BOOLEAN
    BY DEF KeysInv, Shapes
  <2>5. Sound(Current.pool, KeysIn(Current), mem'.setKeyPool, generated, reused', held', kept', merged)
    BY ZenonT(30), <1>1, <1>5, <2>2, CurrentSound
  <2> QED BY ZenonT(30), <1>1, <1>5, <2>2, <2>3, <2>4, <2>5, FilesSame
<1>6. CASE Becomes(s) /\ UNCHANGED encrypting
  <2>1. Extends(s)
    BY ZenonT(30), <1>1, <1>3, <1>4, AddExtends
  <2>2. /\ dat' = [s.dat EXCEPT !.pool = s.dat.pool] /\ mem' = [s.mem EXCEPT !.setKeyPool = s.mem.setKeyPool]
        /\ generated' = s.generated /\ reused' = s.reused
    BY ZenonT(30), <1>6, <2>1 DEF Becomes, Extends, File, Memory
  <2>3. Sound(s.dat.pool, KeysIn(s.dat), s.mem.setKeyPool, s.generated, s.reused, held', kept', merged)
    BY <1>1, <2>1 DEF Extends, File, Memory
  <2>4. Given' \subseteq Given \cup KeysIn(s.dat)
    BY <1>1 DEF Given
  <2> QED BY ZenonT(30), <1>1, <1>6, <2>1, <2>2, <2>3, <2>4, Rebuilt
<1> QED BY ZenonT(30), <1>4, <1>5, <1>6 DEF WritePool
-----------------------------------------------------------------------------
(* Locking, EncryptWallet's writes, CDB::Rewrite, the end of the process and *)
(* its start.                                                                *)

\* The record of memory after a write of some fields.
LEMMA MemWritten ==
    ASSUME KeysInv, NEW T, NEW u, NEW l, mem' = [mem EXCEPT !.setKeyPool = T, !.fUseCrypto = u, !.locked = l]
    PROVE  /\ mem'.running = mem.running /\ mem'.keys = mem.keys /\ mem'.setKeyPool = T
           /\ mem'.fUseCrypto = u
           /\ mem' = Memory(mem'.running, mem'.keys, mem'.setKeyPool, mem'.fUseCrypto, mem'.locked)
<1>1. mem' = [running |-> mem.running, keys |-> mem.keys, setKeyPool |-> T,
              fUseCrypto |-> u, locked |-> l]
  BY ZenonT(30) DEF KeysInv, Shapes, File, Memory
<1> QED BY ZenonT(30), <1>1 DEF Memory

LEMMA ReturnKeyStep ==
    ASSUME KeysInv, NEW c \in Clients, ReturnKey(c) PROVE KeysInv'
<1>1. PICK T : T = mem.setKeyPool \cup {held[c].nIndex}
  OBVIOUS
<1>2. /\ mem.running /\ encrypting = "no" /\ held[c].nIndex # 0
      /\ mem' = [mem EXCEPT !.setKeyPool = T]
      /\ held' = [held EXCEPT ![c] = Nobody]
      /\ UNCHANGED <<dat, rewrite, encrypting, generated, kept, reused, merged, stranded>>
  BY ZenonT(30), <1>1 DEF ReturnKey, Idle, history
<1>3. Sound(Current.pool, KeysIn(Current), T, generated, reused, held', kept, merged)
  BY ZenonT(30), <1>1, <1>2, CurrentSound, EndSound
<1>4. Given' \subseteq Given
  <2>1. held \in Holds
    BY CurrentSound DEF Sound
  <2>2. \A d \in Clients : held'[d].vchPubKey \in {held[d].vchPubKey, 0}
    BY SMTT(20), <1>2, <2>1 DEF Holds, Nobody
  <2> QED BY <1>2, <2>2 DEF Given
<1>5. mem' = [mem EXCEPT !.setKeyPool = T, !.fUseCrypto = mem.fUseCrypto, !.locked = mem.locked]
  BY ZenonT(30), <1>2 DEF KeysInv, Shapes, Memory
<1>6. /\ mem'.running = mem.running /\ mem'.keys = mem.keys /\ mem'.setKeyPool = T
      /\ mem'.fUseCrypto = mem.fUseCrypto
      /\ mem' = Memory(mem'.running, mem'.keys, mem'.setKeyPool, mem'.fUseCrypto, mem'.locked)
  BY ZenonT(30), <1>5, MemWritten
<1>7. Control'
  BY ZenonT(30), <1>2, <1>6 DEF KeysInv, Control, Current, KeysIn
<1>8. /\ mem.running \in BOOLEAN /\ mem.fUseCrypto \in BOOLEAN
      /\ encrypting \in {"no", "keys", "committed", "erased", "flushed", "copied", "removed"}
  BY DEF KeysInv, Shapes
<1> QED BY ZenonT(30), <1>2, <1>3, <1>4, <1>6, <1>7, <1>8, FilesSame

LEMMA LockStep ==
    ASSUME KeysInv, Lock \/ Unlock \/ EncryptKeys PROVE KeysInv'
<1>1. /\ mem.running /\ encrypting = "no"
      /\ UNCHANGED <<dat, rewrite, held, generated, kept, reused, merged, stranded>>
  BY DEF Lock, Unlock, EncryptKeys, Idle, history
<1> DEFINE Set(u, l) ==
        /\ u \in BOOLEAN
        /\ mem' = [mem EXCEPT !.setKeyPool = mem.setKeyPool, !.fUseCrypto = u, !.locked = l]
        /\ \/ encrypting' = "no" /\ u = mem.fUseCrypto
           \/ encrypting' = "keys" /\ u = TRUE /\ ~mem.fUseCrypto /\ dat.exists
<1>0. \E u, l : Set(u, l)
  <2>1. mem = Memory(mem.running, mem.keys, mem.setKeyPool, mem.fUseCrypto, mem.locked) /\ mem.fUseCrypto \in BOOLEAN
    BY DEF KeysInv, Shapes
  <2>2. CASE Lock \/ Unlock
    <3>1. PICK l : mem' = [mem EXCEPT !.locked = l]
      BY <2>2 DEF Lock, Unlock
    <3>2. mem' = [mem EXCEPT !.setKeyPool = mem.setKeyPool, !.fUseCrypto = mem.fUseCrypto, !.locked = l]
      BY ZenonT(30), <2>1, <3>1 DEF Memory
    <3>3. encrypting' = "no"
      BY <1>1, <2>2 DEF Lock, Unlock
    <3>4. Set(mem.fUseCrypto, l)
      BY <2>1, <3>2, <3>3
    <3> HIDE DEF Set
    <3> QED BY <3>4
  <2>3. CASE EncryptKeys
    <3>1. mem' = [mem EXCEPT !.setKeyPool = mem.setKeyPool, !.fUseCrypto = TRUE, !.locked = mem.locked]
      BY ZenonT(30), <2>1, <2>3 DEF EncryptKeys, Memory
    <3>2. Set(TRUE, mem.locked)
      BY <2>3, <3>1 DEF EncryptKeys, IsCrypted, Opens
    <3> HIDE DEF Set
    <3> QED BY <3>2
  <2> HIDE DEF Set
  <2> QED BY <2>2, <2>3
<1>2. PICK u, l : Set(u, l)
  <2> HIDE DEF Set
  <2> QED BY <1>0
<1>3. /\ mem'.running = mem.running /\ mem'.keys = mem.keys /\ mem'.setKeyPool = mem.setKeyPool
      /\ mem'.fUseCrypto = u
      /\ mem' = Memory(mem'.running, mem'.keys, mem'.setKeyPool, mem'.fUseCrypto, mem'.locked)
  BY ZenonT(30), <1>2, MemWritten
<1>4. Control'
  <2>1. /\ mem.keys \subseteq KeysIn(Current)
        /\ ~merged => mem.keys = KeysIn(Current) /\ mem.fUseCrypto = Current.mkey
    BY <1>1 DEF KeysInv, Control
  <2>2. (~dat.exists => dat = NoFile) /\ (~rewrite.exists => rewrite = NoFile)
    BY DEF KeysInv, Control
  <2>3. Current' = Current /\ (dat.exists => Current = dat)
    BY <1>1 DEF Current
  <2> QED BY ZenonT(30), <1>1, <1>2, <1>3, <2>1, <2>2, <2>3 DEF Control, KeysIn
<1>5. Given' = Given
  BY <1>1 DEF Given
<1>6. mem.running \in BOOLEAN
  BY DEF KeysInv, Shapes
<1>7. encrypting' \in {"no", "keys", "committed", "erased", "flushed", "copied", "removed"}
  BY <1>2
<1>8. Sound(Current.pool, KeysIn(Current), mem'.setKeyPool, generated, reused', held', kept', merged)
  BY ZenonT(30), <1>1, <1>3, CurrentSound
<1> QED BY ZenonT(30), <1>1, <1>2, <1>3, <1>4, <1>5, <1>6, <1>7, <1>8, FilesSame

\* Commit: the file has the keys it had.
LEMMA CommitStep ==
    ASSUME KeysInv, Commit PROVE KeysInv'
<1>1. /\ mem.running /\ encrypting = "keys" /\ encrypting' = "committed" /\ dat.exists
      /\ UNCHANGED <<rewrite, mem, held, generated, kept, reused, merged, stranded>>
  BY DEF Commit, KeysInv, Control, history
<1>2. PICK e, a, b, m, p, k :
        /\ e = dat.exists /\ a = dat.key /\ b = dat.ckey /\ m = dat.mkey /\ p = dat.pool /\ k = mem.keys
        /\ dat = File(e, a, b, m, p)
  BY ZenonT(30) DEF KeysInv, Shapes
<1>3. dat' = File(e, a \ k, b \cup k, TRUE, p)
  BY ZenonT(30), <1>2 DEF Commit, File
<1>4. /\ dat'.exists = e /\ dat'.key = a \ k /\ dat'.ckey = b \cup k /\ dat'.mkey = TRUE /\ dat'.pool = p
      /\ dat' = File(dat'.exists, dat'.key, dat'.ckey, dat'.mkey, dat'.pool)
  BY ZenonT(30), <1>3 DEF File
<1>5. KeysIn(dat) = a \cup b /\ KeysIn(dat') = a \cup b /\ k \subseteq a \cup b /\ (~merged => k = a \cup b)
  <2>1. KeysIn(dat) = a \cup b /\ k \subseteq KeysIn(dat) /\ (~merged => k = KeysIn(dat))
    BY <1>1, <1>2, CurrentFile DEF KeysIn
  <2>2. KeysIn(dat') = (a \ k) \cup (b \cup k)
    BY <1>4 DEF KeysIn
  <2> QED BY <2>1, <2>2
<1>6. Shapes'
  BY ZenonT(30), <1>1, <1>2, <1>4 DEF KeysInv, Shapes
<1>7. Current' = dat'
  BY <1>1, <1>2, <1>4 DEF Current
<1>8. Control'
  <2>1. (~rewrite.exists => rewrite = NoFile) /\ (~merged => mem.fUseCrypto = TRUE)
    BY <1>1 DEF KeysInv, Control, Shapes
  <2>2. mem.keys \subseteq KeysIn(dat') /\ (~merged => mem.keys = KeysIn(dat'))
    BY <1>2, <1>5
  <2> QED BY ZenonT(30), <1>1, <1>2, <1>4, <1>7, <2>1, <2>2 DEF Control, KeysIn
<1>9. WhollyEncrypted'
  <2>1. ~merged => IF rewrite.mkey THEN rewrite.key = {} ELSE rewrite.ckey = {}
    BY DEF KeysInv, WhollyEncrypted
  <2>2. ~merged => a \ k = {}
    BY <1>5
  <2> QED BY <1>1, <1>4, <2>1, <2>2 DEF WhollyEncrypted
<1>10. KeysDurable'
  <2>1. Given' = Given /\ dat'.exists /\ KeysIn(dat) \subseteq KeysIn(dat')
    BY <1>1, <1>2, <1>4, <1>5 DEF Given
  <2> QED BY <1>1, <2>1, KeysStay
<1>11. Complete(rewrite, generated)'
  BY ZenonT(30), <1>1 DEF KeysInv, Complete, KeysIn
<1>12. Sound(p, a \cup b, mem.setKeyPool, generated, reused, held, kept, merged)
  BY <1>1, <1>2, <1>5, CurrentFile
<1>13. Sound(Current.pool, KeysIn(Current), mem.setKeyPool, generated, reused, held, kept, merged)'
  <2>1. KeysIn(Current)' = KeysIn(dat') /\ Current.pool' = p
    BY <1>4, <1>7 DEF KeysIn
  <2> QED BY ZenonT(30), <1>1, <1>5, <1>12, <2>1
<1> QED BY <1>6, <1>8, <1>9, <1>10, <1>11, <1>13 DEF KeysInv

\* Another file, or none, after a step of CDB::Rewrite.
LEMMA NoFileFields ==
    /\ NoFile.exists = FALSE /\ NoFile.key = {} /\ NoFile.ckey = {} /\ NoFile.mkey = FALSE
    /\ DOMAIN NoFile.pool = {} /\ KeysIn(NoFile) = {} /\ IsPool(NoFile.pool)
    /\ NoFile = File(NoFile.exists, NoFile.key, NoFile.ckey, NoFile.mkey, NoFile.pool)
BY SMTT(20) DEF NoFile, File, KeysIn, IsPool

LEMMA NoFileComplete == ASSUME NEW g PROVE Complete(NoFile, g)
<1>1. DOMAIN NoFile.pool \subseteq 1..0 /\ 0 \in Nat
  BY SMTT(20), NoFileFields
<1> QED BY <1>1, NoFileFields DEF Complete

\* The pool of a copy to which the records of the file are added.
MergedPool(p, q) == [i \in DOMAIN p \cup DOMAIN q |-> IF i \in DOMAIN p THEN p[i] ELSE q[i]]

LEMMA CopyStep ==
    ASSUME KeysInv, Copy PROVE KeysInv'
<1>1. /\ mem.running /\ dat.exists /\ encrypting' = "copied" /\ encrypting \in {"no", "flushed"}
      /\ merged' = (merged \/ rewrite.exists)
      /\ UNCHANGED <<dat, mem, held, generated, kept, reused, stranded>>
  BY DEF Copy, Opens, Idle
<1>2. PICK a, b, m, p, c, d, n, q :
        /\ a = rewrite.key /\ b = rewrite.ckey /\ m = rewrite.mkey /\ p = rewrite.pool
        /\ c = dat.key /\ d = dat.ckey /\ n = dat.mkey /\ q = dat.pool
        /\ dat = File(TRUE, c, d, n, q)
  BY ZenonT(30), <1>1 DEF KeysInv, Shapes
<1>3. rewrite' = File(TRUE, a \cup c, b \cup d, m \/ n, MergedPool(p, q))
  BY ZenonT(30), <1>2 DEF Copy, File, MergedPool
<1>4. /\ rewrite'.exists = TRUE /\ rewrite'.key = a \cup c /\ rewrite'.ckey = b \cup d
      /\ rewrite'.mkey = (m \/ n) /\ rewrite'.pool = MergedPool(p, q)
      /\ rewrite' = File(rewrite'.exists, rewrite'.key, rewrite'.ckey, rewrite'.mkey, rewrite'.pool)
  BY ZenonT(30), <1>3 DEF File
<1>5. /\ KeysIn(dat) = c \cup d /\ KeysIn(rewrite) = a \cup b
      /\ KeysIn(rewrite') = (a \cup b) \cup (c \cup d)
  <2>1. KeysIn(rewrite') = (a \cup c) \cup (b \cup d)
    BY <1>4 DEF KeysIn
  <2> QED BY <1>2, <2>1 DEF KeysIn
<1>6. m \in BOOLEAN /\ n \in BOOLEAN /\ rewrite.exists \in BOOLEAN /\ merged \in BOOLEAN
  BY <1>2 DEF KeysInv, Shapes
<1>7. ASSUME ~merged' PROVE rewrite' = dat
  <2>1. rewrite = NoFile
    BY <1>1, <1>7 DEF KeysInv, Control
  <2>2. a = {} /\ b = {} /\ m = FALSE /\ DOMAIN p = {}
    BY <1>2, <2>1, NoFileFields
  <2>3. IsPool(q)
    BY <1>1, <1>2, CurrentFile DEF Sound
  <2>4. MergedPool(p, q) = q
    BY SMTT(20), <2>2, <2>3 DEF MergedPool, IsPool
  <2>5. a \cup c = c /\ b \cup d = d /\ (m \/ n) = n
    BY <1>6, <2>2
  <2> QED BY <1>2, <1>3, <2>4, <2>5
<1>8. Shapes'
  BY ZenonT(30), <1>1, <1>4, <1>6 DEF KeysInv, Shapes
<1>9. Current' = dat /\ Current = dat
  BY <1>1 DEF Current
<1>10. Control'
  <2>1. KeysIn(dat) \subseteq KeysIn(rewrite')
    BY <1>5
  <2>2. mem.keys \subseteq KeysIn(dat)
    BY <1>1, CurrentFile
  <2>3. ~merged' => mem.keys = KeysIn(dat) /\ mem.fUseCrypto = dat.mkey
    BY <1>1, CurrentFile
  <2> QED BY ZenonT(30), <1>1, <1>4, <1>7, <1>9, <2>1, <2>2, <2>3 DEF Control, KeysIn
<1>11. WhollyEncrypted'
  <2>1. ~merged' => IF dat.mkey THEN dat.key = {} ELSE dat.ckey = {}
    BY <1>1 DEF KeysInv, WhollyEncrypted
  <2> QED BY <1>1, <1>7, <2>1 DEF WhollyEncrypted
<1>12. KeysDurable'
  <2>1. Given \subseteq KeysIn(dat) \cup KeysIn(rewrite) /\ (~stranded => Given \subseteq KeysIn(dat))
    BY ZenonT(30), <1>1 DEF KeysInv, KeysDurable
  <2>2. PICK g : g = Given /\ g = Given'
    BY <1>1 DEF Given
  <2>3. g \subseteq KeysIn(dat) \cup KeysIn(rewrite') /\ (~stranded => g \subseteq KeysIn(dat))
    BY <1>5, <2>1, <2>2
  <2>4. KeysIn(dat)' = KeysIn(dat) /\ KeysIn(rewrite)' = KeysIn(rewrite')
    BY <1>1 DEF KeysIn
  <2> QED BY ZenonT(30), <1>1, <2>2, <2>3, <2>4 DEF KeysDurable
<1>13. Sound(q, c \cup d, mem.setKeyPool, generated, reused, held, kept, merged)
  BY ZenonT(30), <1>1, <1>2, <1>5, CurrentFile
<1>14. Complete(rewrite, generated)'
  <2>1. /\ a \cup b \subseteq 1..generated /\ \A i \in DOMAIN p : p[i] \in a \cup b
        /\ \E x \in Nat : DOMAIN p \subseteq 1..x
    BY <1>2, <1>5 DEF KeysInv, Complete
  <2>2. /\ c \cup d \subseteq 1..generated /\ \A i \in DOMAIN q : q[i] \in c \cup d
        /\ \E x \in Nat : DOMAIN q \subseteq 1..x
    BY <1>13 DEF Sound
  <2>3. PICK z : z = MergedPool(p, q)
    OBVIOUS
  <2>4. IsPool(z) /\ DOMAIN z = DOMAIN p \cup DOMAIN q /\ \A i \in DOMAIN z : z[i] \in (a \cup b) \cup (c \cup d)
    BY <2>1, <2>2, <2>3 DEF MergedPool, IsPool
  <2>5. \E x \in Nat : DOMAIN z \subseteq 1..x
    <3>1. PICK x \in Nat, y \in Nat : DOMAIN p \subseteq 1..x /\ DOMAIN q \subseteq 1..y
      BY <2>1, <2>2
    <3>2. x + y \in Nat /\ 1..x \subseteq 1..(x + y) /\ 1..y \subseteq 1..(x + y)
      BY SMTT(20)
    <3> QED BY <2>4, <3>1, <3>2
  <2>6. rewrite'.pool = z /\ KeysIn(rewrite') = (a \cup b) \cup (c \cup d)
        /\ KeysIn(rewrite') \subseteq 1..generated
    BY <1>4, <1>5, <2>1, <2>2, <2>3
  <2>7. Complete(rewrite', generated)
    BY ZenonT(30), <2>4, <2>5, <2>6 DEF Complete
  <2> QED BY <1>1, <2>7 DEF Complete, KeysIn
<1>15. Sound(q, c \cup d, mem.setKeyPool, generated, reused, held, kept, merged')
  <2>1. PICK x \in Nat : DOMAIN q \subseteq 1..x
    BY <1>13 DEF Sound
  <2>2. IsPool(q) /\ c \cup d \subseteq 1..generated /\ \A i \in DOMAIN q : q[i] \in c \cup d
    BY <1>13 DEF Sound
  <2>3. Sound(q, c \cup d, mem.setKeyPool, generated, reused, held, kept, TRUE)
    BY ZenonT(30), <1>13, <2>1, <2>2, MergedSound
  <2>4. merged' = TRUE \/ merged' = merged
    BY <1>1, <1>6
  <2> QED BY <1>13, <2>3, <2>4
<1>16. Sound(Current.pool, KeysIn(Current), mem.setKeyPool, generated, reused, held, kept, merged)'
  <2>1. KeysIn(Current)' = c \cup d /\ Current.pool' = q
    BY <1>2, <1>5, <1>9 DEF KeysIn
  <2> QED BY ZenonT(30), <1>1, <1>15, <2>1
<1> QED BY <1>8, <1>10, <1>11, <1>12, <1>14, <1>16 DEF KeysInv

\* The copy has what the file had.
LEMMA RemoveStep ==
    ASSUME KeysInv, Remove PROVE KeysInv'
<1>1. /\ mem.running /\ encrypting = "copied" /\ encrypting' = "removed" /\ dat.exists /\ dat' = NoFile
      /\ KeysIn(dat) \subseteq KeysIn(rewrite) /\ (~merged => rewrite = dat)
      /\ UNCHANGED <<rewrite, mem, held, generated, kept, reused, merged, stranded>>
  BY DEF Remove, KeysInv, Control, history
<1>2. /\ dat'.exists = FALSE /\ dat'.key = {} /\ dat'.ckey = {} /\ dat'.mkey = FALSE /\ KeysIn(dat') = {}
      /\ dat' = File(dat'.exists, dat'.key, dat'.ckey, dat'.mkey, dat'.pool)
  BY ZenonT(30), <1>1, NoFileFields
<1>3. Shapes'
  BY ZenonT(30), <1>1, <1>2 DEF KeysInv, Shapes
<1>4. Current' = rewrite /\ Current = dat
  BY <1>1, <1>2 DEF Current
<1>5. Control'
  <2>1. ~rewrite.exists => rewrite = NoFile
    BY DEF KeysInv, Control
  <2>2. mem.keys \subseteq KeysIn(rewrite)
    BY <1>1, CurrentFile
  <2>3. ~merged => mem.keys = KeysIn(rewrite) /\ mem.fUseCrypto = rewrite.mkey
    BY <1>1, CurrentFile
  <2> QED BY ZenonT(30), <1>1, <1>2, <1>4, <2>1, <2>2, <2>3 DEF Control, KeysIn
<1>6. WhollyEncrypted'
  BY ZenonT(30), <1>1, <1>2 DEF KeysInv, WhollyEncrypted
<1>7. KeysDurable'
  <2>1. Given \subseteq KeysIn(dat) \cup KeysIn(rewrite)
    BY ZenonT(30) DEF KeysInv, KeysDurable
  <2>2. PICK g : g = Given /\ g = Given'
    BY <1>1 DEF Given
  <2>3. g \subseteq KeysIn(rewrite)
    BY <1>1, <2>1, <2>2
  <2>4. KeysIn(rewrite)' = KeysIn(rewrite)
    BY <1>1 DEF KeysIn
  <2> QED BY ZenonT(30), <1>1, <1>2, <2>2, <2>3, <2>4 DEF KeysDurable
<1>8. Complete(rewrite, generated)'
  BY ZenonT(30), <1>1 DEF KeysInv, Complete, KeysIn
<1>9. Sound(rewrite.pool, KeysIn(rewrite), mem.setKeyPool, generated, reused, held, kept, merged)
  <2>1. Sound(dat.pool, KeysIn(dat), mem.setKeyPool, generated, reused, held, kept, merged)
    BY <1>1, CurrentFile
  <2>2. CASE ~merged
    BY <1>1, <2>1, <2>2
  <2>3. CASE merged
    <3>1. PICK q, L : q = rewrite.pool /\ L = KeysIn(rewrite)
      OBVIOUS
    <3>2. IsPool(q) /\ L \subseteq 1..generated /\ \A i \in DOMAIN q : q[i] \in L
      BY <3>1 DEF KeysInv, Complete
    <3>3. PICK b \in Nat : DOMAIN q \subseteq 1..b
      BY <3>1 DEF KeysInv, Complete
    <3>4. Sound(q, L, mem.setKeyPool, generated, reused, held, kept, TRUE)
      BY ZenonT(30), <2>1, <3>2, <3>3, MergedSound
    <3>5. merged = TRUE
      BY <2>3 DEF KeysInv, Shapes
    <3> QED BY <3>1, <3>4, <3>5
  <2> QED BY <2>2, <2>3
<1>10. Sound(Current.pool, KeysIn(Current), mem.setKeyPool, generated, reused, held, kept, merged)'
  <2>1. KeysIn(Current)' = KeysIn(rewrite) /\ Current.pool' = rewrite.pool
    BY <1>4 DEF KeysIn
  <2> QED BY ZenonT(30), <1>1, <1>9, <2>1
<1> QED BY <1>3, <1>5, <1>6, <1>7, <1>8, <1>10 DEF KeysInv

LEMMA RenameStep ==
    ASSUME KeysInv, Rename PROVE KeysInv'
<1>1. /\ mem.running /\ encrypting = "removed" /\ encrypting' = "no" /\ ~dat.exists /\ dat = NoFile
      /\ dat' = rewrite /\ rewrite' = NoFile
      /\ UNCHANGED <<mem, held, generated, kept, reused, merged, stranded>>
  BY DEF Rename, KeysInv, Control, history
<1>2. /\ rewrite'.exists = FALSE /\ rewrite'.key = {} /\ rewrite'.ckey = {} /\ rewrite'.mkey = FALSE
      /\ KeysIn(rewrite') = {}
      /\ rewrite' = File(rewrite'.exists, rewrite'.key, rewrite'.ckey, rewrite'.mkey, rewrite'.pool)
  BY ZenonT(30), <1>1, NoFileFields
<1>3. Shapes'
  BY ZenonT(30), <1>1, <1>2 DEF KeysInv, Shapes
<1>4. Current = rewrite /\ Current' = rewrite /\ (~rewrite.exists => rewrite = NoFile)
  BY <1>1 DEF Current, KeysInv, Control
<1>5. Control'
  <2>1. mem.keys \subseteq KeysIn(rewrite)
    BY <1>4 DEF KeysInv, Control
  <2>2. ~merged => mem.keys = KeysIn(rewrite) /\ mem.fUseCrypto = rewrite.mkey
    BY <1>1, <1>4 DEF KeysInv, Control
  <2> QED BY ZenonT(30), <1>1, <1>2, <1>4, <2>1, <2>2 DEF Control, KeysIn
<1>6. WhollyEncrypted'
  BY ZenonT(30), <1>1, <1>2 DEF KeysInv, WhollyEncrypted
<1>7. KeysDurable'
  <2>1. PICK g : g = Given /\ g = Given'
    BY <1>1 DEF Given
  <2>2. g \subseteq KeysIn(rewrite)
    <3>1. g \subseteq KeysIn(dat) \cup KeysIn(rewrite) /\ KeysIn(dat) = {}
      BY ZenonT(30), <1>1, <2>1, NoFileFields DEF KeysInv, KeysDurable
    <3> QED BY <3>1
  <2>3. KeysIn(dat)' = KeysIn(rewrite) /\ KeysIn(IF dat.exists THEN dat ELSE rewrite)' = KeysIn(rewrite)
    BY <1>1, <1>4 DEF KeysIn
  <2> QED BY ZenonT(30), <2>1, <2>2, <2>3 DEF KeysDurable
<1>8. Complete(rewrite, generated)'
  <2>1. Complete(NoFile, generated)
    BY NoFileComplete
  <2> QED BY ZenonT(30), <1>1, <2>1 DEF Complete, KeysIn
<1>9. Sound(Current.pool, KeysIn(Current), mem.setKeyPool, generated, reused, held, kept, merged)'
  <2>1. KeysIn(Current)' = KeysIn(Current) /\ Current.pool' = Current.pool
    BY <1>4 DEF KeysIn
  <2> QED BY ZenonT(30), <1>1, <2>1, CurrentSound
<1> QED BY <1>3, <1>5, <1>6, <1>7, <1>8, <1>9 DEF KeysInv

LEMMA RewriteFailsStep ==
    ASSUME KeysInv, RewriteFails PROVE KeysInv'
<1>1. /\ mem.running /\ encrypting \in {"copied", "removed"} /\ encrypting' = "no"
      /\ UNCHANGED <<dat, rewrite, mem, held, generated, kept, reused, merged, stranded>>
  BY DEF RewriteFails, history
<1>2. Control'
  BY ZenonT(30), <1>1 DEF KeysInv, Control, Current, KeysIn
<1>3. /\ mem' = Memory(mem'.running, mem'.keys, mem'.setKeyPool, mem'.fUseCrypto, mem'.locked)
      /\ mem'.running \in BOOLEAN /\ mem'.fUseCrypto \in BOOLEAN
  BY <1>1 DEF KeysInv, Shapes
<1>4. Given' = Given
  BY <1>1 DEF Given
<1>5. Sound(Current.pool, KeysIn(Current), mem'.setKeyPool, generated, reused', held', kept', merged)
  BY ZenonT(30), <1>1, CurrentSound
<1> QED BY ZenonT(30), <1>1, <1>2, <1>3, <1>4, <1>5, FilesSame

LEMMA NothingHeld ==
    ASSUME held' = [c \in Clients |-> Nobody], kept' = kept PROVE Given' \subseteq Given
BY ZenonT(30) DEF Given, Nobody

LEMMA WalletCrashStep ==
    ASSUME KeysInv, WalletCrash PROVE KeysInv'
<1>1. /\ mem.running /\ held' = [c \in Clients |-> Nobody] /\ encrypting' = "no" /\ reused' = FALSE
      /\ UNCHANGED <<dat, rewrite, generated, kept, merged, stranded>>
  BY DEF WalletCrash, history
<1>2. mem' = [running |-> FALSE, keys |-> {}, setKeyPool |-> {}, fUseCrypto |-> mem.fUseCrypto,
              locked |-> mem.locked]
  BY ZenonT(30) DEF WalletCrash, KeysInv, Shapes, File, Memory
<1>3. /\ mem'.running = FALSE /\ mem'.keys = {} /\ mem'.setKeyPool = {} /\ mem'.fUseCrypto = mem.fUseCrypto
      /\ mem' = Memory(mem'.running, mem'.keys, mem'.setKeyPool, mem'.fUseCrypto, mem'.locked)
  BY ZenonT(30), <1>2 DEF Memory
<1>4. Control'
  BY ZenonT(30), <1>1, <1>3 DEF KeysInv, Control, Current
<1>5. mem.fUseCrypto \in BOOLEAN
  BY DEF KeysInv, Shapes
<1>6. Sound(Current.pool, KeysIn(Current), {}, generated, FALSE, held', kept, merged)
  <2>1. {} \subseteq DOMAIN Current.pool
    OBVIOUS
  <2> QED BY ZenonT(30), <1>1, <2>1, CurrentSound, LostSound
<1>7. Given' \subseteq Given
  BY <1>1, NothingHeld
<1> QED BY ZenonT(30), <1>1, <1>3, <1>4, <1>5, <1>6, <1>7, FilesSame

\* A file that is not there is created, without a key.
LEMMA LoadWalletStep ==
    ASSUME KeysInv, LoadWallet PROVE KeysInv'
<1>1. /\ ~mem.running /\ held = [c \in Clients |-> Nobody] /\ encrypting = "no" /\ reused = FALSE
      /\ stranded' = (stranded \/ ~dat.exists)
      /\ UNCHANGED <<rewrite, held, encrypting, generated, kept, reused, merged>>
  BY DEF LoadWallet, KeysInv, Control
<1>2. PICK e, a, b, m, p :
        /\ e = dat.exists /\ a = dat.key /\ b = dat.ckey /\ m = dat.mkey /\ p = dat.pool
        /\ dat = File(e, a, b, m, p) /\ e \in BOOLEAN /\ m \in BOOLEAN
  BY ZenonT(30) DEF KeysInv, Shapes
<1>3. dat' = File(TRUE, a, b, m, p)
  BY ZenonT(30), <1>2 DEF LoadWallet, File
<1>4. /\ dat'.exists = TRUE /\ dat'.key = a /\ dat'.ckey = b /\ dat'.mkey = m /\ dat'.pool = p
      /\ dat' = File(dat'.exists, dat'.key, dat'.ckey, dat'.mkey, dat'.pool)
      /\ KeysIn(dat') = a \cup b /\ KeysIn(dat) = a \cup b
  BY ZenonT(30), <1>2, <1>3 DEF File, KeysIn
<1>5. mem' = [running |-> TRUE, keys |-> a \cup b, setKeyPool |-> DOMAIN p, fUseCrypto |-> m, locked |-> m]
  BY ZenonT(30), <1>2 DEF LoadWallet, KeysIn
<1>6. /\ mem'.running = TRUE /\ mem'.keys = a \cup b /\ mem'.setKeyPool = DOMAIN p /\ mem'.fUseCrypto = m
      /\ mem' = Memory(mem'.running, mem'.keys, mem'.setKeyPool, mem'.fUseCrypto, mem'.locked)
  BY ZenonT(30), <1>5 DEF Memory
<1>7. Shapes'
  <2>1. stranded' \in BOOLEAN
    BY <1>1, <1>2 DEF KeysInv, Shapes
  <2> QED BY ZenonT(30), <1>1, <1>2, <1>4, <1>6, <2>1 DEF KeysInv, Shapes
<1>8. Current' = dat'
  BY <1>4 DEF Current
<1>9. Control'
  <2>1. ~rewrite.exists => rewrite = NoFile
    BY DEF KeysInv, Control
  <2> QED BY ZenonT(30), <1>1, <1>4, <1>6, <1>8, <2>1 DEF Control, KeysIn
<1>10. WhollyEncrypted'
  BY ZenonT(30), <1>1, <1>2, <1>4 DEF KeysInv, WhollyEncrypted
<1>11. KeysDurable'
  <2>1. PICK g : g = Given /\ g = Given'
    BY <1>1 DEF Given
  <2>2. g \subseteq (a \cup b) \cup KeysIn(rewrite) /\ (~stranded /\ e => g \subseteq a \cup b)
    BY ZenonT(30), <1>2, <1>4, <2>1 DEF KeysInv, KeysDurable
  <2>3. KeysIn(rewrite)' = KeysIn(rewrite) /\ KeysIn(dat)' = a \cup b
        /\ KeysIn(IF dat.exists THEN dat ELSE rewrite)' = a \cup b
    BY <1>1, <1>4 DEF KeysIn
  <2> QED BY ZenonT(30), <1>1, <1>2, <2>1, <2>2, <2>3 DEF KeysDurable
<1>12. Complete(rewrite, generated)'
  BY ZenonT(30), <1>1 DEF KeysInv, Complete, KeysIn
<1>13. Sound(p, a \cup b, DOMAIN p, generated, FALSE, held, kept, merged)
  <2>1. CASE e
    <3>1. Sound(p, a \cup b, mem.setKeyPool, generated, reused, held, kept, merged)
      BY <1>2, <1>4, <2>1, CurrentFile
    <3> QED BY ZenonT(30), <1>1, <3>1, LostSound
  <2>2. CASE ~e
    <3>1. dat = NoFile
      BY <1>2, <2>2 DEF KeysInv, Control
    <3>2. a \cup b = {} /\ DOMAIN p = {} /\ IsPool(p)
      BY <1>2, <3>1, NoFileFields
    <3>3. Sound(p, {}, {}, generated, FALSE, held, kept, merged)
      BY ZenonT(30), <1>1, <3>2, CurrentSound, EmptySound
    <3> QED BY <3>2, <3>3
  <2> QED BY <2>1, <2>2
<1>14. Sound(Current.pool, KeysIn(Current), mem.setKeyPool, generated, reused, held, kept, merged)'
  <2>1. KeysIn(Current)' = a \cup b /\ Current.pool' = p
    BY <1>4, <1>8 DEF KeysIn
  <2> QED BY ZenonT(30), <1>1, <1>6, <1>13, <2>1
<1> QED BY <1>7, <1>9, <1>10, <1>11, <1>12, <1>14 DEF KeysInv
-----------------------------------------------------------------------------
(* The theorems.                                                             *)

LEMMA KeyPoolInitOK == KeyPoolInit => KeysInv
<1> SUFFICES ASSUME KeyPoolInit PROVE KeysInv
  OBVIOUS
<1>1. dat = File(TRUE, {}, {}, FALSE, [i \in {} |-> 0]) /\ rewrite = NoFile
  BY ZenonT(30) DEF KeyPoolInit, NoFile, File
<1>2. /\ dat.exists = TRUE /\ dat.key = {} /\ dat.ckey = {} /\ dat.mkey = FALSE
      /\ dat.pool = [i \in {} |-> 0]
      /\ dat = File(dat.exists, dat.key, dat.ckey, dat.mkey, dat.pool)
  BY ZenonT(30), <1>1 DEF File
<1>3. /\ mem.running = TRUE /\ mem.keys = {} /\ mem.setKeyPool = {} /\ mem.fUseCrypto = FALSE
      /\ mem = Memory(mem.running, mem.keys, mem.setKeyPool, mem.fUseCrypto, mem.locked)
  BY ZenonT(30) DEF KeyPoolInit, Memory
<1>4. KeysIn(dat) = {} /\ DOMAIN dat.pool = {} /\ IsPool(dat.pool) /\ Current = dat
  BY <1>2 DEF KeysIn, Current, IsPool
<1>5. held \in Holds /\ \A c \in Clients : held[c].nIndex = 0 /\ held[c].vchPubKey = 0
  BY NobodyHolds DEF KeyPoolInit
<1>6. /\ rewrite.exists = FALSE /\ rewrite.key = {} /\ rewrite.ckey = {} /\ rewrite.mkey = FALSE
      /\ rewrite = File(rewrite.exists, rewrite.key, rewrite.ckey, rewrite.mkey, rewrite.pool)
  BY ZenonT(30), <1>1, NoFileFields
<1>7. Shapes /\ WhollyEncrypted
  BY ZenonT(30), <1>2, <1>3, <1>6 DEF KeyPoolInit, Shapes, WhollyEncrypted
<1>8. Control
  BY ZenonT(30), <1>1, <1>2, <1>3, <1>4 DEF KeyPoolInit, Control
<1>9. KeysDurable
  <2>1. Given = {}
    BY <1>5 DEF Given, KeyPoolInit
  <2> QED BY <2>1 DEF KeysDurable
<1>10. Complete(rewrite, generated)
  BY <1>1, NoFileComplete
<1>11. PICK p : p = dat.pool /\ DOMAIN p = {} /\ IsPool(p)
  BY <1>4
<1>12. Sound(p, {}, {}, 0, FALSE, held, {}, FALSE)
  BY SMTT(20), <1>5, <1>11 DEF Sound
<1>13. Sound(Current.pool, KeysIn(Current), mem.setKeyPool, generated, reused, held, kept, merged)
  BY ZenonT(30), <1>3, <1>4, <1>11, <1>12 DEF KeyPoolInit
<1> QED BY <1>7, <1>8, <1>9, <1>10, <1>13 DEF KeysInv

LEMMA KeyPoolNextOK == KeysInv /\ [KeyPoolNext]_kvars => KeysInv'
<1> SUFFICES ASSUME KeysInv, [KeyPoolNext]_kvars PROVE KeysInv'
  OBVIOUS
<1>1. CASE UNCHANGED kvars
  <2>1. UNCHANGED <<dat, rewrite, mem, held, encrypting, generated, kept, reused, merged, stranded>>
    BY <1>1 DEF kvars, history
  <2>2. Control' /\ Given' = Given
    BY ZenonT(30), <2>1 DEF KeysInv, Control, Current, KeysIn, Given
  <2>3. /\ mem' = Memory(mem'.running, mem'.keys, mem'.setKeyPool, mem'.fUseCrypto, mem'.locked)
        /\ mem'.running \in BOOLEAN /\ mem'.fUseCrypto \in BOOLEAN
        /\ encrypting' \in {"no", "keys", "committed", "erased", "flushed", "copied", "removed"}
    BY ZenonT(30), <2>1 DEF KeysInv, Shapes
  <2>4. Sound(Current.pool, KeysIn(Current), mem'.setKeyPool, generated, reused', held', kept', merged)
    BY ZenonT(30), <2>1, CurrentSound
  <2> QED BY ZenonT(30), <2>1, <2>2, <2>3, <2>4, FilesSame
<1> QED BY <1>1, TopUpStep, GetReservedKeyStep, KeepKeyStep, ReturnKeyStep, GetKeyFromPoolStep, LockStep,
           CommitStep, ErasePoolStep, WritePoolStep, CopyStep, RemoveStep, RenameStep, RewriteFailsStep,
           WalletCrashStep, LoadWalletStep DEF KeyPoolNext

THEOREM KeysInvariance == KeyPoolSpec => []KeysInv
BY KeyPoolInitOK, KeyPoolNextOK, PTL DEF KeyPoolSpec

\* For any number of CReserveKeys and any size of the pool, until CDB::Rewrite copies
\* into a copy left by an earlier one: a key that KeepKey or GetKeyFromPool took is in
\* no record, also after a crash; and until TopUpKeyPool (on an empty pool) or
\* NewKeyPool writes the index of a reserved key again, no two clients have the same
\* key, and no index of setKeyPool lacks a record of a known key.
THEOREM KeysUsedOnce == KeyPoolSpec => []UsedOnce
<1>1. KeysInv => UsedOnce
  <2> SUFFICES ASSUME KeysInv, ~merged PROVE UsedOnce
    BY DEF UsedOnce
  <2>1. PICK p, K : p = Current.pool /\ K = KeysIn(Current)
    OBVIOUS
  <2>2. Sound(p, K, mem.setKeyPool, generated, reused, held, kept, merged)
    BY ZenonT(30), <2>1 DEF KeysInv
  <2>3. mem.running => mem.keys = K
    BY <2>1 DEF KeysInv, Control
  <2>4. ~mem.running => mem.setKeyPool = {}
    BY DEF KeysInv, Control
  <2>5. ~reused => \A i \in mem.setKeyPool : i \in DOMAIN p /\ p[i] \in mem.keys
    <3>1. \A i \in DOMAIN p : p[i] \in K
      BY <2>2 DEF Sound
    <3>2. ~reused => mem.setKeyPool \subseteq DOMAIN p
      BY <2>2 DEF Sound
    <3> QED BY <2>3, <2>4, <3>1, <3>2
  <2>6. \A i \in DOMAIN dat.pool : dat.pool[i] \notin kept
    <3>1. CASE dat.exists
      BY <2>1, <2>2, <3>1 DEF Current, Sound
    <3>2. CASE ~dat.exists
      BY <3>2, NoFileFields DEF KeysInv, Control
    <3> QED BY <3>1, <3>2
  <2>7. ASSUME ~reused, NEW c \in Clients, NEW d \in Clients, c # d, held[c].vchPubKey # 0,
               held[c].vchPubKey = held[d].vchPubKey
        PROVE  FALSE
    <3>1. held[c].nIndex # 0 /\ held[d].nIndex # 0
      BY <2>2, <2>7 DEF Sound
    <3>2. /\ held[c].nIndex \in DOMAIN p /\ p[held[c].nIndex] = held[c].vchPubKey
          /\ held[d].nIndex \in DOMAIN p /\ p[held[d].nIndex] = held[d].vchPubKey
      BY <2>2, <2>7, <3>1 DEF Sound
    <3>3. held[c].nIndex = held[d].nIndex
      BY <2>2, <2>7, <3>2 DEF Sound
    <3> QED BY <2>2, <2>7, <3>1, <3>3 DEF Sound
  <2>8. Opens => p = dat.pool
    BY <2>1 DEF Opens, Current
  <2> QED BY <2>5, <2>6, <2>7, <2>8 DEF UsedOnce
<1> QED BY <1>1, KeysInvariance, PTL

\* Whatever write of EncryptWallet or of CDB::Rewrite the process dies after, and
\* whichever of them fails, the keys that were given out are in wallet.dat or in
\* wallet.dat.rewrite; and as long as no start has found wallet.dat missing, they are in
\* wallet.dat, or, while there is none, all in the copy.
THEOREM KeysSurvive == KeyPoolSpec => []KeysDurable
<1>1. KeysInv => KeysDurable
  BY DEF KeysInv
<1> QED BY <1>1, KeysInvariance, PTL

\* EncryptWallet leaves wallet.dat, and every copy of it, wholly plain or wholly
\* encrypted, wherever it dies and whatever keys are added afterwards, until
\* CDB::Rewrite copies into a copy left by an earlier one.
THEOREM EncryptedAsAWhole == KeyPoolSpec => []WhollyEncrypted
<1>1. KeysInv => WhollyEncrypted
  BY DEF KeysInv
<1> QED BY <1>1, KeysInvariance, PTL
-----------------------------------------------------------------------------
(* The snapshot.                                                             *)

IsDirectory(files) == files = [f \in FileSet |-> files[f]]

\* The manifests a node writes: of its own chain, or the one a peer has sent.
Manifests ==
    {[chain |-> "own", version |-> 0]} \cup
        {[chain |-> ChainAt[p], version |-> v] : p \in Peers, v \in 0..MaxGrow}

Fetches ==
    [fWanted : BOOLEAN, nPeer : Peers \cup {None}, manifest : Manifests \cup {None},
     nCurFile : Nat, nCurOffset : Nat, setAsked : SUBSET Peers,
     nWantStart : Nat, nLastProgress : Nat, nUnasked : Nat]

Types ==
    /\ IsDirectory(data) /\ IsDirectory(stage)
    /\ manifest \in Manifests \cup {None}
    /\ g_snap \in Fetches

\* The files of the manifest are in data up to the one to rename next, the others
\* are staged.
Renamed ==
    /\ manifest \in Manifests
    /\ cur \in 1..(Len(Files) + 1)
    /\ \A i \in DOMAIN Files :
          /\ i < cur => data[Files[i]] = Expected(manifest, Files[i])
          /\ i >= cur => stage[Files[i]] = Expected(manifest, Files[i])

\* What holds at each point of the start: the staged files are checked before the
\* old chain goes, and renamed one by one after it; an index that is loaded is whole.
Phases ==
    /\ g_fSnapshotApplied => pc \in {"load", "verify", "run"}
    /\ pc = "replace" => manifest \in Manifests /\ Intact(stage, manifest)
    /\ pc = "rename" => Renamed
    /\ pc = "verify" => Whole(data)
    /\ AppliedWhole

\* A chain that failed the verification is there, with its marker, until the start
\* of the node has wiped it.
Marked ==
    bad /\ ~diskFailed => rejected /\ data # NoFiles /\ pc \in {"down", "wipe"}

\* The inductive invariant.
IInv == Types /\ Phases /\ Marked
-----------------------------------------------------------------------------
(* Files.                                                                    *)

LEMMA FilesType == Files \in Seq(STRING) /\ DOMAIN Files = 1..Len(Files) /\ Len(Files) \in Nat
BY SMTT(20), SnapshotAssumption

LEMMA Directories == IsDirectory(NoFiles) /\ IsDirectory(OwnFiles)
BY DEF IsDirectory, NoFiles, OwnFiles

LEMMA FileWritten ==
    ASSUME NEW files, IsDirectory(files), NEW f, NEW x
    PROVE  IsDirectory([files EXCEPT ![f] = x])
BY DEF IsDirectory

\* Files that have the hashes of a manifest are whole, and there are some.
LEMMA IntactWhole ==
    ASSUME NEW files, IsDirectory(files), NEW m \in Manifests, Intact(files, m)
    PROVE  Whole(files)
<1>1. CASE m = [chain |-> "own", version |-> 0]
  <2>1. \A f \in FileSet : files[f] = Own
    BY <1>1 DEF Intact, Expected
  <2>2. files = OwnFiles
    BY <2>1 DEF IsDirectory, OwnFiles
  <2> QED BY <2>2 DEF Whole
<1>2. CASE m # [chain |-> "own", version |-> 0]
  <2>1. PICK p \in Peers, v \in 0..MaxGrow : m = [chain |-> ChainAt[p], version |-> v]
    BY SMTT(20), <1>2 DEF Manifests
  <2> QED BY <2>1 DEF Whole
<1> QED BY <1>1, <1>2

LEMMA WholeIsSome ==
    ASSUME NEW files, Whole(files)
    PROVE  files # NoFiles
<1>1. PICK f \in FileSet : TRUE
  <2>1. Len(Files) # 0
    BY SMTT(20), SnapshotAssumption
  <2>2. 1 \in DOMAIN Files
    BY SMTT(20), <2>1, FilesType
  <2> QED BY <2>2 DEF FileSet
<1>2. NoFiles[f] = None /\ OwnFiles[f] = Own
  BY DEF NoFiles, OwnFiles
<1>3. Own \in [chain : {"own", "main", "other", "mixed"}, len : Nat]
  BY DEF Own
<1>4. ASSUME NEW p \in Peers, NEW v \in 0..MaxGrow
      PROVE  Expected([chain |-> ChainAt[p], version |-> v], f)
                 \in [chain : {"own", "main", "other", "mixed"}, len : Nat]
  <2>1. ChainAt[p] \in {"main", "other"} /\ Size[f] \in Nat /\ v \in Nat
    BY SMTT(20), SnapshotAssumption DEF FileSet
  <2>2. Size[f] + v \in Nat
    BY SMTT(20), <2>1
  <2> QED BY <2>1, <2>2, <1>3 DEF Expected
<1>5. None # Own /\ \A p \in Peers, v \in 0..MaxGrow :
                       None # Expected([chain |-> ChainAt[p], version |-> v], f)
  BY SMTT(20), <1>3, <1>4, SnapshotAssumption
<1>6. CASE files = OwnFiles
  BY <1>2, <1>5, <1>6
<1>7. ASSUME NEW p \in Peers, NEW v \in 0..MaxGrow,
             Intact(files, [chain |-> ChainAt[p], version |-> v])
      PROVE  files # NoFiles
  BY <1>2, <1>5, <1>7 DEF Intact
<1> QED BY <1>6, <1>7 DEF Whole

LEMMA NoFetchType == NoFetch \in Fetches
BY DEF NoFetch, Fetches

\* What the process's end and the removal of the staging directory leave.
LEMMA Ended ==
    ASSUME Stop PROVE g_snap' \in Fetches /\ pc' = "down" /\ ~g_fSnapshotApplied'
BY NoFetchType DEF Stop

LEMMA Emptied ==
    ASSUME RemoveStaging PROVE IsDirectory(stage') /\ manifest' \in Manifests \cup {None}
BY Directories DEF RemoveStaging
-----------------------------------------------------------------------------
(* The start of the node.                                                    *)

\* Steps of a process that has nothing to do with the snapshot at hand.
LEMMA Apart ==
    ASSUME IInv, Types', pc' \in {"down", "wipe", "apply", "load", "run"},
           g_fSnapshotApplied' => pc' = "run", Marked'
    PROVE  IInv'
BY DEF IInv, Phases, AppliedWhole

\* The marker and the chain it is about, when neither changes.
LEMMA MarkKept ==
    ASSUME Marked, bad' => bad, diskFailed => diskFailed', UNCHANGED <<data, rejected>>,
           pc \in {"down", "wipe"} => pc' \in {"down", "wipe"}
    PROVE  Marked'
BY DEF Marked

LEMMA StartStep ==
    ASSUME IInv, Start PROVE IInv'
<1>1. Types' /\ pc' \in {"wipe", "apply"} /\ ~g_fSnapshotApplied'
  BY DEF IInv, Types, Phases, Start, disk
<1>2. Marked'
  BY DEF IInv, Marked, Start, disk, faultVars
<1> QED BY <1>1, <1>2, Apart

\* A file of the chain is removed, and with the last one what was wrong with it.
LEMMA RemoveFileStep ==
    ASSUME Types, Marked, NEW f \in FileSet, RemoveFile(f), UNCHANGED <<rejected, pc, faultVars>>
    PROVE  IsDirectory(data') /\ Marked'
<1>1. IsDirectory(data')
  BY FileWritten DEF Types, RemoveFile
<1>2. Marked'
  BY DEF Marked, RemoveFile, faultVars
<1> QED BY <1>1, <1>2

LEMMA WipeStep ==
    ASSUME IInv, WipeRejected PROVE IInv'
<1>1. pc = "wipe" /\ ~g_fSnapshotApplied' /\ g_snap' = g_snap
  BY DEF IInv, Phases, WipeRejected
<1>2. ASSUME NEW f \in FileSet, RemoveFile(f),
             UNCHANGED <<stage, linked, manifest, ready, rejected, pc, faultVars>>
      PROVE  IInv'
  <2>1. IsDirectory(data') /\ Marked'
    BY <1>2, RemoveFileStep DEF IInv
  <2>2. Types'
    BY <1>1, <1>2, <2>1 DEF IInv, Types
  <2> QED BY <1>1, <1>2, <2>1, <2>2, Apart
<1>3. CASE /\ data = NoFiles /\ RemoveStaging /\ rejected' = FALSE /\ pc' = "apply"
           /\ UNCHANGED <<data, height, bad, faultVars>>
  <2>1. Types'
    BY <1>1, <1>3, Emptied DEF IInv, Types
  <2>2. Marked'
    BY <1>3 DEF IInv, Marked, faultVars
  <2> QED BY <1>1, <1>3, <2>1, <2>2, Apart
<1>4. CASE Fault("disk") /\ pc' = "apply" /\ UNCHANGED <<disk, bad>>
  <2>1. Types'
    BY <1>1, <1>4 DEF IInv, Types, disk
  <2>2. Marked'
    BY <1>4 DEF Marked, Fault
  <2> QED BY <1>1, <1>4, <2>1, <2>2, Apart
<1> QED BY <1>2, <1>3, <1>4 DEF WipeRejected

LEMMA ApplySnapshotStep ==
    ASSUME IInv, ApplySnapshot PROVE IInv'
<1>1. /\ pc = "apply" /\ ~g_fSnapshotApplied'
      /\ UNCHANGED <<data, rejected, g_snap, faultVars, bad>>
  BY DEF IInv, Phases, ApplySnapshot
<1>2. Marked'
  BY <1>1 DEF IInv, Marked, faultVars
<1>3. CASE pc' = "load" /\ UNCHANGED <<stage, linked, manifest, ready>>
  BY <1>1, <1>2, <1>3, Apart DEF IInv, Types
<1>4. CASE pc' = "load" /\ RemoveStaging
  <2>1. Types'
    BY <1>1, <1>4, Emptied DEF IInv, Types
  <2> QED BY <1>1, <1>2, <1>4, <2>1, Apart
<1>5. CASE /\ manifest # None /\ SnapshotIntact /\ pc' = "replace"
           /\ UNCHANGED <<stage, linked, manifest, ready>>
  <2>1. Types'
    BY <1>1, <1>5 DEF IInv, Types
  <2>2. manifest' \in Manifests /\ Intact(stage', manifest')
    BY <1>5 DEF IInv, Types, SnapshotIntact
  <2> QED BY <1>1, <1>2, <1>5, <2>1, <2>2 DEF IInv, Phases, AppliedWhole
<1> QED BY <1>3, <1>4, <1>5 DEF ApplySnapshot

LEMMA RemoveOldChainStep ==
    ASSUME IInv, RemoveOldChain PROVE IInv'
<1>1. /\ pc = "replace" /\ ~g_fSnapshotApplied' /\ manifest \in Manifests /\ Intact(stage, manifest)
      /\ UNCHANGED <<stage, manifest, rejected, g_snap, faultVars>>
  BY DEF IInv, Phases, RemoveOldChain
<1>2. ASSUME NEW f \in FileSet, RemoveFile(f), UNCHANGED <<pc, cur>>
      PROVE  IInv'
  <2>1. IsDirectory(data') /\ Marked'
    BY <1>1, <1>2, RemoveFileStep DEF IInv
  <2>2. Types'
    BY <1>1, <2>1 DEF IInv, Types
  <2>3. Intact(stage', manifest') /\ manifest' \in Manifests
    BY <1>1
  <2> QED BY <1>1, <1>2, <2>1, <2>2, <2>3 DEF IInv, Phases, AppliedWhole
<1>3. CASE data = NoFiles /\ pc' = "rename" /\ cur' = 1 /\ UNCHANGED <<data, height, bad>>
  <2>1. Types' /\ Marked'
    BY <1>1, <1>3 DEF IInv, Types, Marked, faultVars
  <2>2. Renamed'
    <3>1. cur' \in 1..(Len(Files) + 1) /\ \A i \in DOMAIN Files : ~(i < cur')
      BY SMTT(20), <1>3, FilesType
    <3>2. \A i \in DOMAIN Files : stage'[Files[i]] = Expected(manifest', Files[i])
      BY <1>1 DEF Intact, FileSet
    <3> QED BY <1>1, <3>1, <3>2 DEF Renamed
  <2> QED BY <1>1, <1>3, <2>1, <2>2 DEF IInv, Phases, AppliedWhole
<1> QED BY <1>2, <1>3 DEF RemoveOldChain

LEMMA RenameFileStep ==
    ASSUME IInv, RenameFile PROVE IInv'
<1>1. /\ pc = "rename" /\ pc' = "rename" /\ ~g_fSnapshotApplied' /\ Renamed /\ cur \in DOMAIN Files
      /\ cur' = cur + 1 /\ UNCHANGED <<manifest, rejected, g_snap, faultVars, bad>>
      /\ data' = [data EXCEPT ![Files[cur]] = stage[Files[cur]]]
      /\ stage' = [stage EXCEPT ![Files[cur]] = None]
  BY DEF IInv, Phases, RenameFile
<1>2. Types'
  BY <1>1, FileWritten DEF IInv, Types
<1>3. Marked'
  BY <1>1 DEF IInv, Marked, faultVars
<1>4. Renamed'
  <2>1. cur \in 1..Len(Files) /\ cur' \in 1..(Len(Files) + 1)
    BY SMTT(20), <1>1, FilesType
  <2>2. DOMAIN data = FileSet /\ DOMAIN stage = FileSet
    BY DEF IInv, Types, IsDirectory
  <2>3. ASSUME NEW i \in DOMAIN Files
        PROVE  /\ i < cur' => data'[Files[i]] = Expected(manifest', Files[i])
               /\ i >= cur' => stage'[Files[i]] = Expected(manifest', Files[i])
    <3>1. Files[i] \in FileSet /\ Files[cur] \in FileSet
      BY <1>1 DEF FileSet
    <3>2. CASE i = cur
      <4>1. data'[Files[i]] = stage[Files[cur]]
        BY <1>1, <2>2, <3>1, <3>2
      <4>2. stage[Files[cur]] = Expected(manifest, Files[cur])
        BY SMTT(20), <1>1, <2>1 DEF Renamed
      <4>3. ~(i >= cur')
        BY SMTT(20), <1>1, <2>1, <3>2
      <4> QED BY <1>1, <3>2, <4>1, <4>2, <4>3
    <3>3. CASE i # cur
      <4>1. Files[i] # Files[cur]
        BY <1>1, <3>3, SnapshotAssumption
      <4>2. data'[Files[i]] = data[Files[i]] /\ stage'[Files[i]] = stage[Files[i]]
        BY <1>1, <2>2, <3>1, <4>1
      <4>3. (i < cur' => i < cur) /\ (i >= cur' => i >= cur)
        BY SMTT(20), <1>1, <2>1, <3>3, FilesType
      <4> QED BY <1>1, <4>2, <4>3 DEF Renamed
    <3> QED BY <3>2, <3>3
  <2> QED BY <1>1, <2>1, <2>3 DEF Renamed
<1> QED BY <1>1, <1>2, <1>3, <1>4 DEF IInv, Phases, AppliedWhole

\* The last file is in its place: all of them are those of the manifest.
LEMMA SnapshotAppliedStep ==
    ASSUME IInv, SnapshotApplied PROVE IInv'
<1>1. /\ pc = "rename" /\ pc' = "load" /\ Renamed /\ cur \notin DOMAIN Files /\ RemoveStaging
      /\ UNCHANGED <<data, rejected, g_snap, faultVars, bad>>
  BY DEF IInv, Phases, SnapshotApplied
<1>2. Types'
  BY <1>1, Emptied DEF IInv, Types
<1>3. Marked'
  BY <1>1 DEF IInv, Marked, faultVars
<1>4. Whole(data')
  <2>1. \A i \in DOMAIN Files : i < cur
    BY SMTT(20), <1>1, FilesType DEF Renamed
  <2>2. Intact(data, manifest)
    BY <1>1, <2>1 DEF Renamed, Intact, FileSet
  <2> QED BY <1>1, <2>2, IntactWhole DEF IInv, Types, Renamed
<1> QED BY <1>1, <1>2, <1>3, <1>4 DEF IInv, Phases, AppliedWhole

LEMMA ApplyFailsStep ==
    ASSUME IInv, ApplyFails PROVE IInv'
<1>1. /\ pc' = "load" /\ ~g_fSnapshotApplied' /\ diskFailed' /\ UNCHANGED <<disk, g_snap>>
  BY DEF IInv, Phases, ApplyFails, Fault
<1>2. Types' /\ Marked'
  BY <1>1 DEF IInv, Types, Marked, disk
<1> QED BY <1>1, <1>2, Apart

LEMMA LoadBlockIndexStep ==
    ASSUME IInv, LoadBlockIndex PROVE IInv'
<1>1. pc = "load" /\ UNCHANGED <<stage, manifest, rejected, faultVars>>
  BY DEF LoadBlockIndex
<1>2. CASE /\ data' = OwnFiles /\ bad' = FALSE /\ pc' = "verify"
           /\ UNCHANGED <<g_fSnapshotApplied, g_snap>>
  <2>1. Types' /\ Marked'
    BY <1>1, <1>2, Directories DEF IInv, Types, Marked
  <2>2. Whole(data')
    BY <1>2 DEF Whole
  <2> QED BY <1>1, <1>2, <2>1, <2>2 DEF IInv, Phases, AppliedWhole
<1>3. CASE Whole(data) /\ pc' = "verify" /\ UNCHANGED <<data, bad, g_fSnapshotApplied, g_snap>>
  <2>1. Types' /\ Marked'
    BY <1>1, <1>3 DEF IInv, Types, Marked, faultVars
  <2>2. Whole(data')
    BY <1>3
  <2> QED BY <1>1, <1>3, <2>1, <2>2 DEF IInv, Phases, AppliedWhole
<1>4. CASE Stop /\ UNCHANGED <<data, bad>>
  <2>1. Types'
    BY <1>1, <1>4, Ended DEF IInv, Types
  <2>2. Marked'
    BY <1>1, <1>4 DEF IInv, Marked, faultVars
  <2> QED BY <1>4, <2>1, <2>2, Ended, Apart
<1> QED BY <1>2, <1>3, <1>4 DEF LoadBlockIndex

\* The verification fails: the chain that is marked is there.
LEMMA VerifySnapshotStep ==
    ASSUME IInv, VerifySnapshot PROVE IInv'
<1>1. pc = "verify" /\ Whole(data) /\ data # NoFiles /\ data' = data
  BY WholeIsSome DEF IInv, Phases, VerifySnapshot
<1>2. CASE Stop /\ rejected' = TRUE /\ RemoveStaging
  <2>1. Types' /\ pc' = "down" /\ ~g_fSnapshotApplied'
    BY <1>1, <1>2, Ended, Emptied DEF IInv, Types
  <2>2. Marked'
    BY <1>1, <1>2, <2>1 DEF Marked
  <2> QED BY <2>1, <2>2, Apart
<1>3. CASE Stop /\ Fault("disk") /\ UNCHANGED <<stage, manifest>>
  <2>1. Types' /\ pc' = "down" /\ ~g_fSnapshotApplied'
    BY <1>1, <1>3, Ended DEF IInv, Types
  <2>2. Marked'
    BY <1>3 DEF Marked, Fault
  <2> QED BY <2>1, <2>2, Apart
<1>4. CASE /\ pc' = "run" /\ g_snap' = [NoFetch EXCEPT !.fWanted = ~g_fSnapshotApplied /\ height = 0]
           /\ UNCHANGED <<rejected, stage, manifest, faultVars, bad>>
  <2>1. g_snap' \in Fetches
    BY <1>4, NoFetchType DEF Fetches
  <2>2. Types' /\ Marked'
    BY <1>1, <1>4, <2>1 DEF IInv, Types, Marked, faultVars
  <2> QED BY <1>4, <2>2, Apart
<1> QED BY <1>2, <1>3, <1>4 DEF VerifySnapshot

LEMMA CrashStep ==
    ASSUME IInv, Crash PROVE IInv'
<1>1. /\ pc' = "down" /\ ~g_fSnapshotApplied' /\ g_snap' \in Fetches
      /\ (diskFailed => diskFailed') /\ UNCHANGED <<disk, bad>>
  BY Ended DEF Crash, Fault
<1>2. Types'
  BY <1>1 DEF IInv, Types, disk
<1>3. Marked'
  BY <1>1, MarkKept DEF IInv, disk
<1> QED BY <1>1, <1>2, <1>3, Apart
-----------------------------------------------------------------------------
(* The node that runs.                                                       *)

\* No chain it runs on is marked, and its steps mark none.
LEMMA Running ==
    ASSUME IInv, pc = "run", pc' \in {"run", "down"}, g_fSnapshotApplied' => pc' = "run",
           Types', UNCHANGED bad, diskFailed => diskFailed'
    PROVE  IInv'
<1>1. Marked'
  BY DEF IInv, Marked
<1> QED BY <1>1, Apart

LEMMA SyncStep ==
    ASSUME IInv, Sync \/ CreateChainSnapshot \/ Tick PROVE IInv'
<1>1. pc = "run" /\ pc' = "run" /\ UNCHANGED <<data, bad, faultVars>>
  BY DEF Sync, CreateChainSnapshot, Tick, disk
<1>2. CASE Sync
  <2>1. Types'
    BY <1>2 DEF IInv, Types, Sync
  <2> QED BY <1>1, <2>1, Running DEF faultVars
<1>3. CASE CreateChainSnapshot
  <2>1. Types'
    BY SMTT(20), <1>3 DEF IInv, Types, CreateChainSnapshot, Manifests
  <2> QED BY <1>1, <2>1, Running DEF faultVars
<1>4. CASE Tick
  <2>1. UNCHANGED <<data, stage, manifest>>
    BY <1>4 DEF Tick, disk
  <2>2. \A age \in Nat, max \in Nat : Older(age, max) \in Nat
    BY SMTT(20) DEF Older
  <2>3. PICK w, l : /\ w = Older(g_snap.nWantStart, SNAP_GIVEUP_SECONDS)
                    /\ l = Older(g_snap.nLastProgress, SNAP_PEER_TIMEOUT)
    OBVIOUS
  <2>4. w \in Nat /\ l \in Nat
    BY <2>2, <2>3, SnapshotAssumption DEF IInv, Types, Fetches
  <2>5. g_snap' = [g_snap EXCEPT !.nWantStart = w, !.nLastProgress = l]
    BY <1>4, <2>3 DEF Tick
  <2>6. g_snap' \in Fetches
    BY <2>4, <2>5 DEF IInv, Types, Fetches
  <2> QED BY <1>1, <2>1, <2>6, Running DEF IInv, Types, faultVars
<1> QED BY <1>2, <1>3, <1>4

LEMMA ResetType ==
    ASSUME g_snap \in Fetches, SnapReset
    PROVE  g_snap' \in Fetches /\ IsDirectory(stage') /\ manifest' \in Manifests \cup {None}
<1>1. g_snap' \in Fetches
  BY DEF SnapReset, Fetches
<1> QED BY <1>1, Emptied DEF SnapReset

LEMMA SendMessagesStep ==
    ASSUME IInv, NEW p \in Peers, SnapFetchSendMessages(p) PROVE IInv'
<1>1. /\ pc = "run" /\ pc' = "run" /\ UNCHANGED <<data, bad, faultVars>>
      /\ IsDirectory(data) /\ IsDirectory(stage) /\ manifest \in Manifests \cup {None}
      /\ g_snap \in Fetches
  BY DEF SnapFetchSendMessages, IInv, Types
<1>2. /\ IsDirectory(stage') /\ manifest' \in Manifests \cup {None}
      /\ g_snap' \in Fetches
  <2>1. CASE SnapGiveUp(p)
    BY <2>1, Emptied, NoFetchType DEF SnapGiveUp
  <2>2. CASE SnapAsk(p)
    BY <1>1, <2>2 DEF SnapAsk, Fetches
  <2>3. CASE SnapAbandon(p)
    BY <1>1, <2>3, ResetType DEF SnapAbandon
  <2> QED BY <2>1, <2>2, <2>3 DEF SnapFetchSendMessages
<1>3. Types'
  BY <1>1, <1>2 DEF Types
<1> QED BY <1>1, <1>3, Running DEF faultVars

LEMMA DisconnectStep ==
    ASSUME IInv, NEW p \in Peers, Disconnect(p) \/ Grow(p) PROVE IInv'
<1>1. UNCHANGED <<disk, pc, cur, g_fSnapshotApplied, g_snap, bad>> /\ (diskFailed => diskFailed')
  <2>1. CASE Disconnect(p)
    BY ZenonT(20), <2>1 DEF Disconnect, Fault
  <2>2. CASE Grow(p)
    BY ZenonT(20), <2>2 DEF Grow, faultVars
  <2> QED BY <2>1, <2>2
<1>2. Types' /\ Phases'
  BY <1>1 DEF IInv, Types, Phases, Renamed, AppliedWhole, disk
<1>3. Marked'
  BY <1>1, MarkKept DEF IInv, disk
<1> QED BY <1>2, <1>3 DEF IInv

LEMMA RecvSnapshotStep ==
    ASSUME IInv, NEW p \in Peers, NEW v \in 0..MaxGrow, RecvSnapshot(p, v) PROVE IInv'
<1>1. /\ pc = "run" /\ pc' = "run" /\ UNCHANGED <<data, bad, g_fSnapshotApplied>>
      /\ IsDirectory(data) /\ IsDirectory(stage) /\ manifest \in Manifests \cup {None}
      /\ g_snap \in Fetches
  BY DEF RecvSnapshot, IInv, Types
<1>2. PICK m, n : /\ m = [chain |-> ChainAt[p], version |-> v]
                  /\ n = IF [peer |-> p, file |-> None, offset |-> 0] \in requests THEN 0 ELSE 1
  OBVIOUS
<1>3. m \in Manifests /\ n \in Nat
  BY SMTT(20), <1>2 DEF Manifests
<1>4. \/ UNCHANGED <<g_snap, stage, manifest, faultVars>>
      \/ /\ g_snap' = [g_snap EXCEPT !.nPeer = p, !.nCurFile = 1, !.nCurOffset = 0,
                                     !.manifest = m, !.nLastProgress = 0, !.nUnasked = g_snap.nUnasked + n]
         /\ UNCHANGED <<stage, manifest, faultVars>>
      \/ SnapReset /\ Fault("disk")
  BY ZenonT(30), <1>2 DEF RecvSnapshot
<1>5. IsDirectory(stage') /\ manifest' \in Manifests \cup {None} /\ g_snap' \in Fetches /\ (diskFailed => diskFailed')
  <2>1. CASE UNCHANGED <<g_snap, stage, manifest, faultVars>>
    BY <1>1, <2>1 DEF faultVars
  <2>2. CASE /\ g_snap' = [g_snap EXCEPT !.nPeer = p, !.nCurFile = 1, !.nCurOffset = 0,
                                         !.manifest = m, !.nLastProgress = 0, !.nUnasked = g_snap.nUnasked + n]
             /\ UNCHANGED <<stage, manifest, faultVars>>
    <3>1. PICK u : u = g_snap.nUnasked + n
      OBVIOUS
    <3>2. u \in Nat
      BY SMTT(20), <1>1, <1>3, <3>1 DEF Fetches
    <3>3. 0 \in Nat /\ 1 \in Nat /\ m \in Manifests \cup {None} /\ p \in Peers \cup {None}
      BY <1>3
    <3>4. g_snap' = [g_snap EXCEPT !.nPeer = p, !.nCurFile = 1, !.nCurOffset = 0,
                                   !.manifest = m, !.nLastProgress = 0, !.nUnasked = u]
      BY <2>2, <3>1
    <3>5. g_snap' \in Fetches
      BY ZenonT(60), <1>1, <3>2, <3>3, <3>4 DEF Fetches
    <3> QED BY <1>1, <2>2, <3>5 DEF faultVars
  <2>3. CASE SnapReset /\ Fault("disk")
    BY <1>1, <2>3, ResetType DEF Fault
  <2> QED BY <1>4, <2>1, <2>2, <2>3
<1>6. Types'
  BY <1>1, <1>5 DEF Types
<1> QED BY <1>1, <1>5, <1>6, Running

\* A chunk: what it writes to a file that is a hard link goes to the chain, too.
LEMMA RecvSnapChunkStep ==
    ASSUME IInv, NEW req \in requests, NEW n \in 0..SNAP_CHUNK_BYTES, RecvSnapChunk(req, n)
    PROVE  IInv'
<1>1. /\ pc = "run" /\ UNCHANGED bad /\ n \in Nat
      /\ IsDirectory(data) /\ IsDirectory(stage) /\ manifest \in Manifests \cup {None}
      /\ g_snap \in Fetches
  <2>1. pc = "run" /\ UNCHANGED bad
    BY ZenonT(20) DEF RecvSnapChunk
  <2>2. n \in Nat
    BY SMTT(20), SnapshotAssumption
  <2> QED BY <2>1, <2>2 DEF IInv, Types
<1>2. PICK i, f, content :
        /\ i = g_snap.nCurFile /\ f = Files[i] /\ content = Appended(f, ChainAt[req.peer], n)
  OBVIOUS
<1>3. i \in Nat /\ content.len \in Nat
  BY SMTT(20), <1>1, <1>2 DEF Fetches, Appended
<1>4. IsDirectory([stage EXCEPT ![f] = content]) /\ IsDirectory([data EXCEPT ![f] = content])
  BY <1>1, FileWritten
<1>5. CASE UNCHANGED <<disk, g_snap, pc, cur, g_fSnapshotApplied, faultVars>>
  <2>1. Types'
    BY <1>5 DEF IInv, Types, disk
  <2> QED BY <1>1, <1>5, <2>1, Running DEF faultVars
<1>6. CASE /\ SnapReset
           /\ data' = IF f \in linked THEN [data EXCEPT ![f] = content] ELSE data
           /\ UNCHANGED <<pc, faultVars>>
  <2>1. Types'
    BY <1>1, <1>4, <1>6, ResetType DEF Types
  <2> QED BY <1>1, <1>6, <2>1, Running DEF faultVars
<1>7. CASE SnapReset /\ Fault("disk") /\ UNCHANGED <<data, pc, g_fSnapshotApplied>>
  <2>1. Types'
    BY <1>1, <1>7, ResetType DEF Types
  <2>2. diskFailed => diskFailed'
    BY <1>7 DEF Fault
  <2> QED BY <1>1, <1>7, <2>1, <2>2, Running
<1>8. ASSUME NEW j \in Nat, NEW offset \in Nat, Write(f, content),
             g_snap' = [g_snap EXCEPT !.nCurFile = j, !.nCurOffset = offset, !.nLastProgress = 0],
             UNCHANGED <<manifest, pc, faultVars>>
      PROVE  IInv'
  <2>1. g_snap' \in Fetches
    BY <1>1, <1>8 DEF Fetches
  <2>2. IsDirectory(data') /\ IsDirectory(stage')
    BY <1>1, <1>4, <1>8 DEF Write
  <2>3. Types'
    BY <1>1, <1>8, <2>1, <2>2 DEF Types
  <2> QED BY <1>1, <1>8, <2>3, Running DEF faultVars
<1>9. CASE /\ Write(f, content) /\ manifest' = g_snap.manifest /\ Stop
           /\ UNCHANGED faultVars \/ Fault("crash")
  <2>1. IsDirectory(data') /\ IsDirectory(stage')
    BY <1>1, <1>4, <1>9 DEF Write
  <2>2. manifest' \in Manifests \cup {None} /\ (diskFailed => diskFailed')
    <3>1. g_snap.manifest \in Manifests \cup {None}
      BY <1>1 DEF Fetches
    <3>2. diskFailed => diskFailed'
      BY ZenonT(20), <1>9 DEF Fault, faultVars
    <3> QED BY <1>9, <3>1, <3>2
  <2>3. Types'
    BY <1>9, <2>1, <2>2, Ended DEF Types
  <2> QED BY <1>1, <1>9, <2>2, <2>3, Ended, Running
<1>10. ASSUME NEW done \in BOOLEAN, NEW next,
             next = IF done THEN [peer |-> req.peer, file |-> i + 1, offset |-> 0]
                    ELSE [peer |-> req.peer, file |-> i, offset |-> content.len]
      PROVE  next.file \in Nat /\ next.offset \in Nat
  BY SMTT(20), <1>3, <1>10
<1>11. \/ UNCHANGED <<disk, g_snap, pc, cur, g_fSnapshotApplied, faultVars>>
       \/ SnapReset /\ Fault("disk") /\ UNCHANGED <<data, pc, g_fSnapshotApplied>>
       \/ /\ SnapReset
          /\ data' = IF f \in linked THEN [data EXCEPT ![f] = content] ELSE data
          /\ UNCHANGED <<pc, faultVars>>
       \/ \E done \in BOOLEAN : \E next :
            /\ next = IF done THEN [peer |-> req.peer, file |-> i + 1, offset |-> 0]
                      ELSE [peer |-> req.peer, file |-> i, offset |-> content.len]
            /\ Write(f, content)
            /\ g_snap' = [g_snap EXCEPT !.nCurFile = next.file, !.nCurOffset = next.offset,
                                        !.nLastProgress = 0]
            /\ UNCHANGED <<manifest, pc, faultVars>>
       \/ /\ Write(f, content) /\ manifest' = g_snap.manifest /\ Stop
          /\ UNCHANGED faultVars \/ Fault("crash")
  BY ZenonT(60), <1>2 DEF RecvSnapChunk
<1> QED BY ZenonT(60), <1>5, <1>6, <1>7, <1>8, <1>9, <1>10, <1>11
-----------------------------------------------------------------------------
(* The theorems.                                                             *)

LEMMA InitOK == Init => IInv
<1> SUFFICES ASSUME Init PROVE IInv
  OBVIOUS
<1>1. pc = "down" /\ ~g_fSnapshotApplied /\ ~bad /\ data = NoFiles /\ g_snap = NoFetch
  BY DEF Init
<1>2. IsDirectory(stage) /\ manifest \in Manifests \cup {None}
  <2>1. CASE stage = NoFiles /\ manifest = None
    BY <2>1, Directories
  <2>2. ASSUME NEW p \in Peers, manifest = [chain |-> ChainAt[p], version |-> 0],
               stage = [f \in FileSet |-> Expected(manifest, f)]
        PROVE  IsDirectory(stage) /\ manifest \in Manifests \cup {None}
    <3>1. 0 \in 0..MaxGrow
      BY SMTT(20), SnapshotAssumption
    <3> QED BY SMTT(20), <2>2, <3>1 DEF IsDirectory, Manifests
  <2> QED BY <2>1, <2>2 DEF Init
<1> QED BY <1>1, <1>2, Directories, NoFetchType DEF IInv, Types, Phases, Marked, AppliedWhole

LEMMA NextOK == IInv /\ [Next]_vars => IInv'
<1> SUFFICES ASSUME IInv, [Next]_vars PROVE IInv'
  OBVIOUS
<1>1. CASE Startup
  BY <1>1, StartStep, WipeStep, ApplySnapshotStep, RemoveOldChainStep, RenameFileStep,
     SnapshotAppliedStep, ApplyFailsStep, LoadBlockIndexStep, VerifySnapshotStep DEF Startup
<1>2. CASE Crash \/ Sync \/ CreateChainSnapshot \/ Tick
  BY <1>2, CrashStep, SyncStep
<1>3. ASSUME NEW p \in Peers, SnapFetchSendMessages(p) \/ Disconnect(p) \/ Grow(p)
      PROVE  IInv'
  BY <1>3, SendMessagesStep, DisconnectStep
<1>4. ASSUME NEW p \in Peers, NEW v \in 0..MaxGrow, RecvSnapshot(p, v)
      PROVE  IInv'
  BY <1>4, RecvSnapshotStep
<1>5. ASSUME NEW req \in requests, NEW n \in 0..SNAP_CHUNK_BYTES, RecvSnapChunk(req, n)
      PROVE  IInv'
  BY <1>5, RecvSnapChunkStep
<1>6. CASE UNCHANGED vars
  BY <1>6 DEF vars, disk, faultVars, IInv, Types, Phases, Renamed, Marked, AppliedWhole
<1> QED BY <1>1, <1>2, <1>3, <1>4, <1>5, <1>6 DEF Next

THEOREM Invariance == Spec => []IInv
BY InitOK, NextOK, PTL DEF Spec

\* What ApplySnapshotIfPresent has reported as applied is one peer's files of one
\* time, or this node's own, wherever earlier starts have died: for any number of
\* files, of peers and of faults.
THEOREM LoadsWholeSnapshots == Spec => []AppliedWhole
<1>1. IInv => AppliedWhole
  BY DEF IInv, Phases
<1> QED BY <1>1, Invariance, PTL

\* The snapshot-rejected marker outlives every crash until the chain it is about is
\* gone: as long as the disk obeys, no later start runs on that chain.
THEOREM RejectedIsWiped == Spec => []RejectedNeverRuns
<1>1. IInv => RejectedNeverRuns
  BY DEF IInv, Marked, RejectedNeverRuns
<1> QED BY <1>1, Invariance, PTL
=============================================================================
