-------------------------- MODULE ChainStateProofs ---------------------------
(* Machine-checked proofs about ChainState, for every block tree, every set  *)
(* of transactions and every number of faults.  First what they rest on:     *)
(* chains of the block tree, the links of the main chain, and the            *)
(* transaction index.                                                        *)
EXTENDS ChainState, TLAPS

\* The provers a leaf is given to, in this order, unless it names one.
USE ZenonT(10), SMTT(20)
-----------------------------------------------------------------------------
(* Chains.                                                                  *)

\* The chain of a block is that of its predecessor, and the block.
LEMMA ChainStep ==
    ASSUME NEW b \in Blocks \ {Genesis}
    PROVE  /\ Prev[b] \in Blocks
           /\ ChainOf(b) = ChainOf(Prev[b]) \cup {b}
           /\ Ancestors[b] = ChainOf(Prev[b])
           /\ \A a \in ChainOf(Prev[b]) : Height[a] < Height[b] /\ a # b
           /\ Height[b] = Height[Prev[b]] + 1
<1>1. Prev[b] \in Blocks /\ Ancestors[b] = ChainOf(Prev[b]) /\ Height[b] = Height[Prev[b]] + 1
  BY TreeAssumption DEF ChainOf
<1>2. \A a \in Ancestors[b] : Height[a] < Height[b] /\ a \in Blocks
  BY TreeAssumption, ChainAssumption
<1>3. Height[b] \in Nat
  BY TreeAssumption
<1>4. \A a \in Ancestors[b] : a # b
  BY SMTT(20), <1>2, <1>3
<1> QED BY <1>1, <1>2, <1>4 DEF ChainOf

\* The blocks of a chain are blocks, and their chains are parts of it.
LEMMA ChainParts ==
    ASSUME NEW b \in Blocks, NEW a \in ChainOf(b)
    PROVE  /\ a \in Blocks
           /\ ChainOf(a) \subseteq ChainOf(b)
           /\ Height[a] \in Nat /\ Trust[a] \in Nat
           /\ Genesis \in ChainOf(a)
           /\ a # Genesis => Prev[a] \in ChainOf(b)
<1>1. a \in Blocks
  BY TreeAssumption DEF ChainOf
<1>2. ChainOf(a) \subseteq ChainOf(b)
  BY ChainAssumption DEF ChainOf
<1>3. Height[a] \in Nat /\ Trust[a] \in Nat /\ Genesis \in ChainOf(a)
  BY <1>1, TreeAssumption, ChainAssumption
<1>4. a # Genesis => Prev[a] \in ChainOf(a)
  BY <1>1, TreeAssumption DEF ChainOf
<1> QED BY <1>1, <1>2, <1>3, <1>4

\* No block of a chain has more trust than its end.
LEMMA ChainTrust ==
    ASSUME NEW b \in Blocks, NEW a \in ChainOf(b)
    PROVE  Trust[a] <= Trust[b] /\ Trust[a] \in Nat /\ Trust[b] \in Nat
<1>1. a = b \/ Trust[a] < Trust[b]
  BY ChainAssumption DEF ChainOf
<1>2. Trust[a] \in Nat /\ Trust[b] \in Nat
  BY ChainParts, ChainAssumption
<1> QED BY SMTT(20), <1>1, <1>2

\* A chain has one block on top of another.
LEMMA OneChild ==
    ASSUME NEW b \in Blocks, NEW x, NEW c \in ChainOf(b), NEW d \in ChainOf(b),
           IsParent(x, c), IsParent(x, d)
    PROVE  c = d
<1>1. c \in Blocks \ {Genesis} /\ d \in Blocks \ {Genesis} /\ Prev[c] = x /\ Prev[d] = x
  BY ChainParts DEF IsParent
<1>2. Height[c] = Height[d] /\ Height[c] \in Nat
  BY <1>1, ChainStep, ChainParts
<1>3. c \in ChainOf(d)
  BY SMTT(20), <1>2, ChainAssumption
<1>4. c \in Ancestors[d] => Height[c] < Height[d]
  BY <1>1, ChainAssumption
<1> QED BY SMTT(20), <1>2, <1>3, <1>4 DEF ChainOf
-----------------------------------------------------------------------------
(* Links.                                                                   *)

\* A block on top of the chain.
LEMMA FollowsConnect ==
    ASSUME NEW next \in Links, NEW b \in Blocks \ {Genesis}, Follows(next, Prev[b]), NEW new,
           new = [next EXCEPT ![b] = None, ![Prev[b]] = b]
    PROVE  new \in Links /\ Follows(new, b)
<1>1. Prev[b] \in Blocks /\ Prev[b] # b /\ None \notin Blocks
  BY ChainStep, ChainAssumption DEF ChainOf
<1>2. /\ new \in Links
      /\ \A x \in Blocks : new[x] = IF x = Prev[b] THEN b ELSE IF x = b THEN None ELSE next[x]
  BY <1>1 DEF Links
<1>3. ASSUME NEW x \in Blocks, NEW c \in Blocks
      PROVE  new[x] = c <=> c \in ChainOf(b) /\ IsParent(x, c)
  <2>1. CASE x = Prev[b]
    <3>1. b \in ChainOf(b) /\ IsParent(x, b)
      BY <2>1 DEF ChainOf, IsParent
    <3> QED BY ZenonT(30), <1>2, <2>1, <3>1, OneChild
  <2>2. CASE x = b
    <3>1. ~(c \in ChainOf(b) /\ IsParent(x, c))
      <4> SUFFICES ASSUME c \in ChainOf(b), c # Genesis, Prev[c] = b PROVE FALSE
        BY <2>2 DEF IsParent
      <4>1. b \in ChainOf(Prev[c])
        BY DEF ChainOf
      <4>2. Height[b] < Height[c]
        BY <4>1, ChainStep
      <4>3. c = b \/ Height[c] < Height[b]
        BY ChainAssumption DEF ChainOf
      <4> QED BY SMTT(20), <4>2, <4>3, TreeAssumption
    <3> QED BY ZenonT(30), <1>1, <1>2, <2>2, <3>1
  <2>3. CASE x # Prev[b] /\ x # b
    <3>1. new[x] = next[x]
      BY ZenonT(30), <1>2, <2>3
    <3>2. c \in ChainOf(b) /\ IsParent(x, c) <=> c \in ChainOf(Prev[b]) /\ IsParent(x, c)
      BY SMTT(20), <2>3, ChainStep DEF IsParent
    <3> QED BY <3>1, <3>2 DEF Follows
  <2> QED BY <2>1, <2>2, <2>3
<1> QED BY ZenonT(30), <1>2, <1>3 DEF Follows

\* The top block of the chain taken away.
LEMMA FollowsDisconnect ==
    ASSUME NEW next \in Links, NEW b \in Blocks \ {Genesis}, Follows(next, b), NEW new,
           new = [next EXCEPT ![Prev[b]] = None]
    PROVE  new \in Links /\ Follows(new, Prev[b])
<1>1. Prev[b] \in Blocks /\ None \notin Blocks
  BY ChainStep, ChainAssumption
<1>2. /\ new \in Links
      /\ \A x \in Blocks : new[x] = IF x = Prev[b] THEN None ELSE next[x]
  BY <1>1 DEF Links
<1>3. ASSUME NEW x \in Blocks, NEW c \in Blocks
      PROVE  new[x] = c <=> c \in ChainOf(Prev[b]) /\ IsParent(x, c)
  <2>1. CASE x = Prev[b]
    <3>1. ~(c \in ChainOf(Prev[b]) /\ IsParent(x, c))
      <4> SUFFICES ASSUME c \in ChainOf(Prev[b]), IsParent(x, c) PROVE FALSE
        OBVIOUS
      <4>1. b \in ChainOf(b) /\ c \in ChainOf(b) /\ c # b
        BY ChainStep DEF ChainOf
      <4>2. IsParent(x, b)
        BY <2>1 DEF IsParent
      <4> QED BY <4>1, <4>2, OneChild
    <3> QED BY <1>1, <1>2, <2>1, <3>1
  <2>2. CASE x # Prev[b]
    <3>1. c \in ChainOf(b) /\ IsParent(x, c) <=> c \in ChainOf(Prev[b]) /\ IsParent(x, c)
      BY SMTT(20), <2>2, ChainStep DEF IsParent
    <3> QED BY <1>2, <2>2, <3>1 DEF Follows
  <2> QED BY <2>1, <2>2
<1> QED BY <1>2, <1>3 DEF Follows

\* The links of the main chain after a change of tip.
LEMMA FollowsRelink ==
    ASSUME NEW next \in Links, NEW from \in Blocks, NEW to \in Blocks, Follows(next, from)
    PROVE  Relinked(next, from, to) \in Links /\ Follows(Relinked(next, from, to), to)
<1> DEFINE connected == ChainOf(to) \ ChainOf(from)
           disconnected == ChainOf(from) \ ChainOf(to)
           new == Relinked(next, from, to)
<1>1. None \notin Blocks /\ ChainOf(from) \subseteq Blocks /\ ChainOf(to) \subseteq Blocks
  BY ChainAssumption, ChainParts
<1>2. \A x \in Blocks :
        new[x] = IF \E c \in connected : IsParent(x, c) THEN CHOOSE c \in connected : IsParent(x, c)
                 ELSE IF \E d \in disconnected : IsParent(x, d) THEN None
                 ELSE next[x]
  BY DEF Relinked
<1>3. new \in Links
  <2>1. \A x \in Blocks : new[x] \in Blocks \cup {None}
    BY <1>1, <1>2 DEF Links
  <2> QED BY <2>1 DEF Relinked, Links
<1>4. ASSUME NEW x \in Blocks, NEW c \in Blocks
      PROVE  new[x] = c <=> c \in ChainOf(to) /\ IsParent(x, c)
  <2> HIDE DEF new
  <2>1. CASE \E e \in connected : IsParent(x, e)
    <3>1. new[x] \in connected /\ IsParent(x, new[x])
      BY <1>2, <2>1
    <3> QED BY <3>1, OneChild
  <2>2. CASE (~ \E e \in connected : IsParent(x, e)) /\ \E d \in disconnected : IsParent(x, d)
    <3>1. new[x] = None
      BY <1>2, <2>2
    <3>2. ~(c \in ChainOf(to) /\ IsParent(x, c))
      BY <2>2, OneChild
    <3> QED BY <1>1, <3>1, <3>2
  <2>3. CASE (~ \E e \in connected : IsParent(x, e)) /\ ~ \E d \in disconnected : IsParent(x, d)
    <3>1. new[x] = next[x]
      BY <1>2, <2>3
    <3> QED BY <2>3, <3>1 DEF Follows
  <2> QED BY <2>1, <2>2, <2>3
<1> QED BY <1>3, <1>4 DEF Follows

\* A block off the chain has no successor.
LEMMA FollowsOff ==
    ASSUME NEW next \in Links, NEW b \in Blocks, Follows(next, b), NEW x \in Blocks \ ChainOf(b)
    PROVE  next[x] = None
<1>1. \A c \in ChainOf(b) : ~IsParent(x, c)
  BY ChainParts DEF IsParent
<1> QED BY <1>1 DEF Follows, Links
-----------------------------------------------------------------------------
(* The transaction index.                                                   *)

\* Where the index says a transaction is.
LEMMA PosInChain ==
    ASSUME NEW tx, NEW b \in Blocks, IsIndex(tx), Matches(tx, b), NEW t \in DOMAIN tx
    PROVE  /\ tx[t].pos \in ChainOf(b) /\ t \in Vtx[tx[t].pos]
           /\ tx[t] \in Entry /\ t \in Txs /\ t # None
BY SMTT(20), ChainAssumption DEF Matches, IsIndex, Entry

\* A block that connects has no transaction of the chain below it.
LEMMA ConnectFresh ==
    ASSUME NEW tx, NEW b \in Blocks \ {Genesis}, IsIndex(tx), Matches(tx, Prev[b]), CanConnect(tx, b)
    PROVE  Vtx[b] \cap DOMAIN tx = {}
<1> SUFFICES ASSUME NEW t \in Vtx[b], t \in DOMAIN tx PROVE FALSE
  OBVIOUS
<1>1. /\ tx[t].pos \in ChainOf(Prev[b]) /\ t \in Vtx[tx[t].pos] /\ t \in Txs /\ t # None
  BY PosInChain, ChainStep
<1>2. tx[t].pos \in Blocks /\ Height[tx[t].pos] < Height[b] /\ Height[b] \in Nat
  BY SMTT(20), <1>1, ChainStep, ChainParts, TreeAssumption
<1>3. CASE Vin[t] = {}
  BY SMTT(20), <1>1, <1>2, <1>3, TransactionAssumption, TreeAssumption
<1>4. ASSUME NEW i \in Vin[t] PROVE FALSE
  <2>1. i \in Spends(b)
    BY DEF Spends
  <2>2. tx[i].spent = None
    BY <2>1 DEF CanConnect
  <2>3. tx[i].spent = t
    BY DEF Matches
  <2> QED BY <1>1, <2>2, <2>3
<1> QED BY <1>3, <1>4

\* ConnectBlock takes the index of a chain to that of the chain with the block.
LEMMA ConnectMatches ==
    ASSUME NEW tx, NEW b \in Blocks \ {Genesis}, IsIndex(tx), Matches(tx, Prev[b]), CanConnect(tx, b)
    PROVE  IsIndex(Connected(tx, b)) /\ Matches(Connected(tx, b), b)
<1> DEFINE new == Connected(tx, b)
<1>1. Vtx[b] \cap DOMAIN tx = {}
  BY ConnectFresh
<1>2. Prev[b] \in Blocks /\ ChainOf(b) = ChainOf(Prev[b]) \cup {b} /\ b \notin ChainOf(Prev[b])
  BY ChainStep
<1>3. /\ DOMAIN new = DOMAIN tx \cup Vtx[b]
      /\ \A t \in Vtx[b] : new[t] = [pos |-> b, spent |-> None]
      /\ \A t \in DOMAIN tx \cap Spends(b) :
            new[t] = [pos |-> tx[t].pos, spent |-> CHOOSE u \in Vtx[b] : t \in Vin[u]]
      /\ \A t \in DOMAIN tx \ Spends(b) : new[t] = tx[t]
  BY <1>1 DEF Connected
<1>4. \A t \in DOMAIN tx \cap Spends(b) : new[t].spent \in Vtx[b] /\ t \in Vin[new[t].spent]
  BY SMTT(20), <1>3 DEF Spends
<1>5. \A t \in DOMAIN tx : new[t].pos = tx[t].pos
  BY SMTT(20), <1>3
<1>6. \A t \in Vtx[b] : new[t].pos = b /\ new[t].spent = None
  BY SMTT(20), <1>3
<1>7. Vtx[b] \subseteq Txs /\ None \notin Txs
  BY ChainAssumption
<1>8. IsIndex(new)
  <2>1. DOMAIN new \subseteq Txs
    BY <1>3, <1>7 DEF IsIndex
  <2>2. ASSUME NEW t \in DOMAIN new PROVE new[t] \in Entry
    <3>1. CASE t \in Vtx[b]
      BY SMTT(20), <1>3, <3>1 DEF Entry
    <3>2. CASE t \in DOMAIN tx \cap Spends(b)
      <4>1. tx[t] \in Entry
        BY <3>2 DEF IsIndex
      <4> QED BY SMTT(20), <1>3, <1>4, <1>7, <3>2, <4>1 DEF Entry
    <3>3. CASE t \in DOMAIN tx \ Spends(b)
      BY <1>3, <3>3 DEF IsIndex
    <3> QED BY <1>3, <3>1, <3>2, <3>3
  <2>3. new = [t \in DOMAIN new |-> new[t]]
    BY DEF Connected
  <2> HIDE DEF new
  <2> QED BY <2>1, <2>2, <2>3 DEF IsIndex
<1>9. Matches(new, b)
  <2> HIDE DEF new
  <2>1. DOMAIN new = UNION {Vtx[a] : a \in ChainOf(b)}
    BY SMTT(20), <1>2, <1>3 DEF Matches
  <2>2. ASSUME NEW t \in DOMAIN new, NEW a \in ChainOf(b) PROVE t \in Vtx[a] <=> a = new[t].pos
    <3>1. CASE t \in Vtx[b]
      <4>1. a # b => t \notin Vtx[a]
        BY SMTT(20), <1>1, <1>2, <3>1 DEF Matches
      <4> QED BY <1>6, <3>1, <4>1
    <3>2. CASE t \in DOMAIN tx /\ t \notin Vtx[b]
      <4>1. tx[t].pos # b
        BY <1>2, <3>2, PosInChain
      <4> QED BY <1>2, <1>5, <3>2, <4>1 DEF Matches
    <3> QED BY <1>3, <3>1, <3>2
  <2>3. ASSUME NEW u \in DOMAIN new, NEW t \in Vin[u]
        PROVE  t \in DOMAIN new /\ new[t].spent = u /\ Height[new[t].pos] < Height[new[u].pos]
    <3>1. CASE u \in Vtx[b]
      <4>1. t \in Spends(b)
        BY <3>1 DEF Spends
      <4>2. t \in DOMAIN tx
        BY <4>1 DEF CanConnect
      <4>3. new[t].spent = u
        BY <1>4, <3>1, <4>1, <4>2 DEF CanConnect
      <4>4. Height[tx[t].pos] < Height[b]
        BY <4>2, <1>2, PosInChain, ChainStep
      <4> QED BY <1>3, <1>5, <1>6, <3>1, <4>2, <4>3, <4>4
    <3>2. CASE u \in DOMAIN tx
      <4>1. t \in DOMAIN tx /\ tx[t].spent = u /\ Height[tx[t].pos] < Height[tx[u].pos]
        BY <3>2 DEF Matches
      <4>2. u # None
        BY <3>2, <1>2, PosInChain
      <4>3. t \notin Spends(b)
        BY <4>1, <4>2 DEF CanConnect
      <4> QED BY <1>3, <3>2, <1>5, <4>1, <4>3
    <3> QED BY <1>3, <3>1, <3>2
  <2>4. ASSUME NEW t \in DOMAIN new
        PROVE  new[t].spent = None \/ (new[t].spent \in DOMAIN new /\ t \in Vin[new[t].spent])
    <3>1. CASE t \in Vtx[b]
      BY <1>6, <3>1
    <3>2. CASE t \in DOMAIN tx \cap Spends(b)
      BY <1>3, <1>4, <3>2
    <3>3. CASE t \in DOMAIN tx \ Spends(b)
      BY <1>3, <3>3 DEF Matches
    <3> QED BY <1>3, <3>1, <3>2, <3>3
  <2> QED BY <2>1, <2>2, <2>3, <2>4 DEF Matches
<1> QED BY <1>8, <1>9

\* DisconnectBlock takes the index of a chain to that of the chain without its
\* top block, and never misses a record.
LEMMA DisconnectMatches ==
    ASSUME NEW tx, NEW b \in Blocks \ {Genesis}, IsIndex(tx), Matches(tx, b)
    PROVE  /\ CanDisconnect(tx, b)
           /\ IsIndex(Disconnected(tx, b)) /\ Matches(Disconnected(tx, b), Prev[b])
<1> DEFINE new == Disconnected(tx, b)
<1>1. Prev[b] \in Blocks /\ ChainOf(b) = ChainOf(Prev[b]) \cup {b} /\ b \notin ChainOf(Prev[b])
  BY ChainStep
<1>2. \A t \in DOMAIN tx : t \in Vtx[b] <=> tx[t].pos = b
  BY <1>1 DEF Matches
<1>3. Vtx[b] \subseteq DOMAIN tx
  BY SMTT(20), <1>1 DEF Matches
<1>4. \A t \in Spends(b) : t \in DOMAIN tx /\ tx[t].spent \in Vtx[b]
  BY SMTT(20), <1>3 DEF Spends, Matches
<1>5. /\ DOMAIN new = DOMAIN tx \ Vtx[b]
      /\ \A t \in DOMAIN new : new[t].pos = tx[t].pos
      /\ \A t \in DOMAIN new \cap Spends(b) : new[t] = [pos |-> tx[t].pos, spent |-> None]
      /\ \A t \in DOMAIN new \ Spends(b) : new[t] = tx[t]
  BY DEF Disconnected
<1>6. IsIndex(new)
  <2>1. ASSUME NEW t \in DOMAIN new PROVE new[t] \in Entry
    <3>1. tx[t] \in Entry
      BY <1>5 DEF IsIndex
    <3> HIDE DEF new
    <3>2. CASE t \in Spends(b)
      <4>1. new[t] = [pos |-> tx[t].pos, spent |-> None]
        BY <1>5, <3>2
      <4>2. tx[t].pos \in Blocks
        BY <3>1 DEF Entry
      <4> QED BY SMTT(20), <4>1, <4>2 DEF Entry
    <3>3. CASE t \notin Spends(b)
      BY <1>5, <3>1, <3>3
    <3> QED BY <3>2, <3>3
  <2>2. new = [t \in DOMAIN new |-> new[t]]
    BY DEF Disconnected
  <2> HIDE DEF new
  <2> QED BY <1>5, <2>1, <2>2 DEF IsIndex
<1>7. Matches(new, Prev[b])
  <2> HIDE DEF new
  <2>1. DOMAIN new = UNION {Vtx[a] : a \in ChainOf(Prev[b])}
    <3>1. ASSUME NEW t \in DOMAIN new PROVE \E a \in ChainOf(Prev[b]) : t \in Vtx[a]
      BY SMTT(20), <1>1, <1>5 DEF Matches
    <3>2. ASSUME NEW a \in ChainOf(Prev[b]), NEW t \in Vtx[a] PROVE t \in DOMAIN new
      <4>1. t \in DOMAIN tx /\ tx[t].pos = a
        BY SMTT(20), <1>1 DEF Matches
      <4> QED BY <1>1, <1>2, <1>5, <4>1
    <3> QED BY <3>1, <3>2
  <2>2. \A t \in DOMAIN new : \A a \in ChainOf(Prev[b]) : t \in Vtx[a] <=> a = new[t].pos
    BY SMTT(20), <1>1, <1>5 DEF Matches
  <2>3. ASSUME NEW u \in DOMAIN new, NEW t \in Vin[u]
        PROVE  t \in DOMAIN new /\ new[t].spent = u /\ Height[new[t].pos] < Height[new[u].pos]
    <3>1. u \in DOMAIN tx /\ u \notin Vtx[b]
      BY <1>5
    <3>2. t \in DOMAIN tx /\ tx[t].spent = u /\ Height[tx[t].pos] < Height[tx[u].pos]
      BY <3>1 DEF Matches
    <3>3. t \notin Vtx[b]
      <4>1. tx[u].pos \in ChainOf(Prev[b])
        BY <1>1, <1>2, <3>1, PosInChain
      <4>2. Height[tx[u].pos] < Height[b] /\ Height[tx[u].pos] \in Nat /\ Height[b] \in Nat
        BY SMTT(20), <4>1, <1>1, ChainStep, ChainParts, TreeAssumption
      <4> QED BY SMTT(20), <1>2, <3>2, <4>2
    <3>4. t \notin Spends(b)
      BY <1>4, <3>1, <3>2
    <3> QED BY <1>5, <3>2, <3>3, <3>4
  <2>4. ASSUME NEW t \in DOMAIN new
        PROVE  new[t].spent = None \/ (new[t].spent \in DOMAIN new /\ t \in Vin[new[t].spent])
    <3>1. CASE t \in Spends(b)
      <4>1. new[t] = [pos |-> tx[t].pos, spent |-> None]
        BY <1>5, <3>1
      <4> QED BY SMTT(20), <4>1
    <3>2. CASE t \notin Spends(b)
      <4>1. tx[t].spent = None \/ (tx[t].spent \in DOMAIN tx /\ t \in Vin[tx[t].spent])
        BY <1>5 DEF Matches
      <4>2. ~(tx[t].spent \in Vtx[b] /\ t \in Vin[tx[t].spent])
        BY <3>2 DEF Spends
      <4>3. new[t].spent = tx[t].spent
        BY <1>5, <3>2
      <4>4. DOMAIN new = DOMAIN tx \ Vtx[b]
        BY <1>5
      <4> QED BY <4>1, <4>2, <4>3, <4>4
    <3> QED BY <3>1, <3>2
  <2> QED BY <2>1, <2>2, <2>3, <2>4 DEF Matches
<1> QED BY <1>4, <1>6, <1>7 DEF CanDisconnect

\* A chain with an index spends no output twice, and only outputs of its own.
LEMMA MatchesValid ==
    ASSUME NEW tx, NEW b \in Blocks, IsIndex(tx), Matches(tx, b)
    PROVE  Valid(b)
<1>1. ASSUME NEW a \in ChainOf(b), NEW t \in Vtx[a]
      PROVE  t \in DOMAIN tx /\ tx[t].pos = a
  BY SMTT(20) DEF Matches
<1>2. ASSUME NEW a \in ChainOf(b), NEW i \in Spends(a)
      PROVE  \E c \in Ancestors[a] : i \in Vtx[c]
  <2>1. PICK u \in Vtx[a] : i \in Vin[u]
    BY DEF Spends
  <2>2. u \in DOMAIN tx /\ tx[u].pos = a
    BY <1>1
  <2>3. i \in DOMAIN tx /\ Height[tx[i].pos] < Height[a]
    BY <2>1, <2>2 DEF Matches
  <2>4. tx[i].pos \in ChainOf(b) /\ i \in Vtx[tx[i].pos]
    BY <2>3, PosInChain
  <2>5. Height[tx[i].pos] \in Nat /\ Height[a] \in Nat
    BY <2>4, ChainParts
  <2>6. tx[i].pos \in ChainOf(a) /\ tx[i].pos # a
    BY SMTT(20), <2>3, <2>4, <2>5, ChainAssumption
  <2> QED BY <2>4, <2>6 DEF ChainOf
<1>3. ASSUME NEW a \in ChainOf(b), NEW c \in ChainOf(b), NEW t \in Vtx[a], NEW u \in Vtx[c],
             <<a, t>> # <<c, u>>
      PROVE  t # u /\ Vin[t] \cap Vin[u] = {}
  <2>1. t \in DOMAIN tx /\ tx[t].pos = a /\ u \in DOMAIN tx /\ tx[u].pos = c
    BY <1>1
  <2>2. t # u
    BY <1>3, <2>1
  <2>3. \A i \in Vin[t] \cap Vin[u] : tx[i].spent = t /\ tx[i].spent = u
    BY <2>1 DEF Matches
  <2> QED BY SMTT(20), <2>2, <2>3
<1> QED BY <1>2, <1>3 DEF Valid

\* The blocks of a valid chain connect, each on top of the one below it.
LEMMA ValidConnects ==
    ASSUME NEW tx, NEW new \in Blocks, Valid(new), NEW b \in ChainOf(new), b # Genesis,
           IsIndex(tx), Matches(tx, Prev[b])
    PROVE  CanConnect(tx, b)
<1>1. /\ b \in Blocks \ {Genesis} /\ Prev[b] \in Blocks /\ Ancestors[b] = ChainOf(Prev[b])
      /\ \A a \in ChainOf(Prev[b]) : a # b /\ a \in ChainOf(new)
  BY ChainParts, ChainStep
<1>2. ASSUME NEW t \in DOMAIN tx, NEW u \in Vtx[b]
      PROVE  t # u /\ Vin[t] \cap Vin[u] = {}
  <2>1. tx[t].pos \in ChainOf(Prev[b]) /\ t \in Vtx[tx[t].pos]
    BY <1>1, PosInChain
  <2>2. tx[t].pos \in ChainOf(new) /\ <<tx[t].pos, t>> # <<b, u>>
    BY <1>1, <2>1
  <2> QED BY SMTT(20), <2>1, <2>2 DEF Valid
<1>3. Vtx[b] \cap DOMAIN tx = {}
  BY <1>2
<1>4. ASSUME NEW i \in Spends(b)
      PROVE  i \in DOMAIN tx /\ tx[i].spent = None
  <2>1. PICK c \in Ancestors[b] : i \in Vtx[c]
    BY DEF Valid
  <2>2. i \in DOMAIN tx
    BY SMTT(20), <1>1, <2>1 DEF Matches
  <2>3. PICK u \in Vtx[b] : i \in Vin[u]
    BY DEF Spends
  <2>4. ASSUME tx[i].spent # None PROVE FALSE
    <3>1. tx[i].spent \in DOMAIN tx /\ i \in Vin[tx[i].spent]
      BY <2>2, <2>4 DEF Matches
    <3> QED BY <1>2, <2>3, <3>1
  <2> QED BY <2>2, <2>4
<1>5. ASSUME NEW t \in Vtx[b], NEW u \in Vtx[b], t # u
      PROVE  Vin[t] \cap Vin[u] = {}
  <2>1. <<b, t>> # <<b, u>>
    BY <1>5
  <2> QED BY <2>1 DEF Valid
<1> QED BY <1>3, <1>4, <1>5 DEF CanConnect
-----------------------------------------------------------------------------
\* What holds of the index in memory and of the database at every step.
Stored ==
    /\ mapBlockIndex \subseteq Blocks /\ dbIndex = mapBlockIndex
    /\ \A b \in mapBlockIndex : ChainOf(b) \subseteq mapBlockIndex
    /\ pnext \in Links /\ dbNext \in Links
    /\ pindexBest \in mapBlockIndex /\ dbBest \in mapBlockIndex
    /\ IsIndex(dbTx) /\ Matches(dbTx, dbBest)
    /\ Follows(dbNext, dbBest) /\ Follows(pnext, dbBest)
    /\ hashSyncCheckpoint \in mapBlockIndex /\ dbSync = hashSyncCheckpoint
    /\ Mode = "STRICT" => hashSyncCheckpoint \in ChainOf(dbBest)

\* While SetBestChain runs: the batch is the database of the chain that ends in
\* task.at, on the way from the chain on disk to that of task.goal.
Switching ==
    /\ task \in TaskType /\ task.new \in mapBlockIndex
    /\ task.goal \in ChainOf(task.new)
    /\ IsIndex(batch.tx) /\ Matches(batch.tx, task.at)
    /\ batch.next \in Links /\ Follows(batch.next, task.at)
    /\ task.base = dbBest
    /\ task.at \in ChainOf(task.base) \cup ChainOf(task.goal)
    /\ ChainOf(task.base) \cap ChainOf(task.goal) \subseteq ChainOf(task.at)
    /\ ~task.later => pindexBest = dbBest
    /\ task.caller # "block" => hashSyncCheckpoint \in ChainOf(task.new)
    /\ Mode = "STRICT" => hashSyncCheckpoint \in ChainOf(task.goal)
    /\ task.caller = "block" =>
          Trust[pindexBest] < Trust[task.goal] /\ Trust[pindexBest] <= Trust[dbBest]

\* Between the calls.
Waiting ==
    /\ pindexBest = dbBest /\ batch = NoBatch
    /\ pc = "idle" => task = NoTask
    /\ pc # "idle" => task.new \in mapBlockIndex
    /\ pc = "indexed" /\ Mode = "STRICT" => hashSyncCheckpoint \in ChainOf(task.new)
    /\ pc = "checkpoint" =>
          hashSyncCheckpoint \in ChainOf(task.new) /\ task.new \in ChainOf(dbBest)

Bounded ==
    /\ hashPendingCheckpoint \in Signed \cup {None}
    /\ faults \in 0..MaxFaults

\* The inductive invariant.
IInv ==
    /\ Stored /\ Bounded
    /\ \/ pc = "switch" /\ Switching
       \/ pc \in {"idle", "indexed", "accepted", "checkpoint"} /\ Waiting
-----------------------------------------------------------------------------
\* The blocks in the main chain are those of the chain on disk.
LEMMA MainChain ==
    ASSUME Stored, pindexBest = dbBest, NEW b \in Blocks
    PROVE  IsInMainChain(b) => b \in ChainOf(dbBest)
<1>1. dbBest \in Blocks
  BY DEF Stored
<1>2. b \notin ChainOf(dbBest) => pnext[b] = None
  BY <1>1, FollowsOff DEF Stored
<1> QED BY <1>2 DEF IsInMainChain, ChainOf

\* Stored and Bounded speak of nothing else.
LEMMA StoredUnchanged ==
    ASSUME Stored, UNCHANGED <<mapBlockIndex, pnext, pindexBest, hashSyncCheckpoint, dbVars>>
    PROVE  Stored'
BY DEF Stored, dbVars

\* An operation that has done its work returns with the tip it left on disk.
LEMMA ReturnStep ==
    ASSUME Stored', Bounded', pindexBest' = dbBest',
           NEW caller, NEW new \in mapBlockIndex', Return(caller, new),
           caller # "block" => hashSyncCheckpoint' \in ChainOf(new) /\ new \in ChainOf(dbBest')
    PROVE  IInv'
<1>1. /\ pc' = "accepted" \/ (caller # "block" /\ pc' = "checkpoint")
      /\ task'.new = new /\ batch' = NoBatch
  BY DEF Return, NoTask
<1>2. Waiting'
  BY <1>1 DEF Waiting, ChainOf
<1> QED BY <1>1, <1>2 DEF IInv

\* An operation that stops leaves the tip as it is on disk.
LEMMA IdleStep ==
    ASSUME Stored', Bounded', pindexBest' = dbBest', Idle
    PROVE  IInv'
BY DEF Idle, IInv, Waiting

\* The block SetBestChain goes to first has more trust than the tip, if the new
\* tip has, and stands above a checkpoint that is below both tips.
LEMMA GoalOfNew ==
    ASSUME NEW new \in Blocks, NEW goal \in Blocks, pindexBest \in Blocks,
           IF new # Genesis /\ Prev[new] = pindexBest THEN goal = new ELSE IsIntermediate(goal, new)
    PROVE  /\ goal \in ChainOf(new)
           /\ Trust[new] > Trust[pindexBest] => Trust[goal] > Trust[pindexBest]
           /\ \A s \in Ancestors[new] : s \in ChainOf(pindexBest) => s \in ChainOf(goal)
<1>1. CASE goal = new
  BY <1>1 DEF ChainOf
<1>2. CASE goal # new /\ IsIntermediate(goal, new)
  <2>1. goal \in Ancestors[new] /\ goal \in ChainOf(new)
    BY <1>2 DEF IsIntermediate, ChainOf
  <2>2. PICK c \in ChainOf(new) \ {Genesis} : Prev[c] = goal
    BY <2>1, ChainAssumption
  <2>3. Height[c] > Height[goal]
    BY <2>2, ChainStep, ChainParts, TreeAssumption
  <2>4. Trust[goal] > Trust[pindexBest]
    BY <1>2, <2>2, <2>3 DEF IsIntermediate
  <2>5. ASSUME NEW s \in Ancestors[new], s \in ChainOf(pindexBest) PROVE s \in ChainOf(goal)
    <3>1. s \in Blocks /\ s \in ChainOf(new)
      BY ChainParts DEF ChainOf
    <3>2. Trust[s] <= Trust[pindexBest]
      BY <2>5, ChainTrust
    <3>3. Height[s] <= Height[goal]
      <4> SUFFICES ASSUME ~(Height[s] <= Height[goal]) PROVE FALSE
        OBVIOUS
      <4>1. PICK d \in ChainOf(new) \ {Genesis} : Prev[d] = s
        BY ChainAssumption
      <4>2. d \in Blocks /\ Height[d] = Height[s] + 1
        BY <4>1, ChainStep, ChainParts
      <4>3. Height[d] > Height[goal]
        BY SMTT(20), <3>1, <4>2, TreeAssumption
      <4>4. Trust[s] > Trust[pindexBest]
        BY <1>2, <4>1, <4>3 DEF IsIntermediate
      <4> QED BY SMTT(20), <3>1, <3>2, <4>4, ChainAssumption
    <3> QED BY <2>1, <3>1, <3>3, ChainAssumption
  <2> QED BY <2>1, <2>4, <2>5
<1> QED BY <1>1, <1>2

\* A call of SetBestChain starts from the database of the tip.
LEMMA SetBestChainStep ==
    ASSUME Stored, Bounded', pindexBest = dbBest,
           NEW new \in mapBlockIndex, NEW caller \in {"block", "pending", "message"},
           SetBestChain(new, caller),
           UNCHANGED <<mapBlockIndex, pnext, pindexBest, hashSyncCheckpoint, dbVars>>,
           caller = "block" => /\ Trust[new] > Trust[pindexBest]
                               /\ Mode = "STRICT" => hashSyncCheckpoint \in ChainOf(new),
           caller # "block" => hashSyncCheckpoint \in Ancestors[new]
    PROVE  IInv'
<1>1. PICK goal \in Blocks :
        /\ IF new # Genesis /\ Prev[new] = pindexBest THEN goal = new ELSE IsIntermediate(goal, new)
        /\ BeginTxn(new, goal, pindexBest, FALSE, caller, dbTx, dbNext)
  BY ZenonT(30) DEF SetBestChain
<1>2. new \in Blocks /\ pindexBest \in Blocks
  BY DEF Stored
<1>3. /\ goal \in ChainOf(new)
      /\ Trust[new] > Trust[pindexBest] => Trust[goal] > Trust[pindexBest]
      /\ \A s \in Ancestors[new] : s \in ChainOf(pindexBest) => s \in ChainOf(goal)
  BY <1>1, <1>2, GoalOfNew
<1>4. Mode = "STRICT" => hashSyncCheckpoint \in ChainOf(goal)
  <2> SUFFICES ASSUME Mode = "STRICT" PROVE hashSyncCheckpoint \in ChainOf(goal)
    OBVIOUS
  <2>1. hashSyncCheckpoint \in ChainOf(pindexBest)
    BY DEF Stored
  <2>2. hashSyncCheckpoint \in Ancestors[new]
    <3>1. CASE caller = "block"
      <4>1. Trust[hashSyncCheckpoint] <= Trust[pindexBest]
        BY <1>2, <2>1, ChainTrust
      <4>2. Trust[new] \in Nat /\ Trust[pindexBest] \in Nat /\ Trust[new] > Trust[pindexBest]
        BY <1>2, <3>1, ChainAssumption
      <4>3. hashSyncCheckpoint # new
        BY SMTT(20), <4>1, <4>2
      <4> QED BY <3>1, <4>3 DEF ChainOf
    <3> QED BY <3>1
  <2> QED BY <1>3, <2>1, <2>2
<1>5. /\ pc' = "switch"
      /\ task' = [new |-> new, goal |-> goal, at |-> dbBest, base |-> dbBest,
                  later |-> FALSE, caller |-> caller]
      /\ batch' = [tx |-> dbTx, next |-> dbNext]
  BY <1>1 DEF BeginTxn
<1>6. Stored'
  BY StoredUnchanged
<1>7. Switching'
  <2>1. task' \in TaskType
    BY <1>2, <1>5 DEF TaskType
  <2>2. Trust[pindexBest] \in Nat
    BY <1>2, ChainAssumption
  <2>3. dbBest' = dbBest /\ mapBlockIndex' = mapBlockIndex
    BY DEF dbVars
  <2>4. dbBest \in ChainOf(dbBest)
    BY DEF ChainOf
  <2>5. caller # "block" => hashSyncCheckpoint \in ChainOf(new)
    BY DEF ChainOf
  <2>6. /\ task'.new = new /\ task'.goal = goal /\ task'.at = dbBest /\ task'.base = dbBest
        /\ task'.caller = caller /\ batch'.tx = dbTx /\ batch'.next = dbNext
    BY <1>5
  <2>7. /\ task'.new \in mapBlockIndex' /\ task'.goal \in ChainOf(task'.new)
        /\ task'.base = dbBest' /\ task'.at \in ChainOf(task'.base) \cup ChainOf(task'.goal)
        /\ ChainOf(task'.base) \cap ChainOf(task'.goal) \subseteq ChainOf(task'.at)
    BY <1>3, <2>3, <2>4, <2>6
  <2>8. /\ IsIndex(batch'.tx) /\ Matches(batch'.tx, task'.at)
        /\ batch'.next \in Links /\ Follows(batch'.next, task'.at)
    BY ZenonT(30), <2>6 DEF Stored
  <2>9. /\ task'.caller # "block" => hashSyncCheckpoint' \in ChainOf(task'.new)
        /\ Mode = "STRICT" => hashSyncCheckpoint' \in ChainOf(task'.goal)
    BY <1>4, <2>5, <2>6
  <2>10. task'.caller = "block" =>
           Trust[pindexBest'] < Trust[task'.goal] /\ Trust[pindexBest'] <= Trust[dbBest']
    <3>1. caller = "block" => Trust[pindexBest] < Trust[goal]
      BY <1>3
    <3> QED BY SMTT(20), <2>2, <2>3, <2>6, <3>1
  <2>11. pindexBest' = dbBest'
    BY <2>3
  <2> QED BY ZenonT(30), <2>1, <2>7, <2>8, <2>9, <2>10, <2>11 DEF Switching
<1> QED BY <1>5, <1>6, <1>7 DEF IInv
-----------------------------------------------------------------------------
(* One lemma for each action.                                               *)

\* Disconnecting never fails: the chain is found as it was connected.
LEMMA DisconnectBlockStep ==
    ASSUME IInv, DisconnectBlock
    PROVE  IInv'
<1>1. pc = "switch" /\ Switching /\ Stored /\ Bounded /\ task.at \notin ChainOf(task.goal)
  BY DEF IInv, DisconnectBlock
<1>2. /\ task.at \in Blocks \ {Genesis} /\ task.goal \in Blocks /\ task.base \in Blocks
      /\ task.at \in ChainOf(task.base)
  <2>1. /\ task \in TaskType
        /\ task.at \in ChainOf(task.base) \cup ChainOf(task.goal)
    BY <1>1 DEF Switching
  <2>2. task.at \in Blocks /\ task.goal \in Blocks /\ task.base \in Blocks
    BY <2>1 DEF TaskType
  <2>3. Genesis \in ChainOf(task.goal)
    BY <2>2, ChainAssumption
  <2>4. task.at # Genesis
    BY <1>1, <2>3
  <2> QED BY <1>1, <2>1, <2>2, <2>4
<1>3. /\ CanDisconnect(batch.tx, task.at)
      /\ IsIndex(Disconnected(batch.tx, task.at))
      /\ Matches(Disconnected(batch.tx, task.at), Prev[task.at])
  BY <1>1, <1>2, DisconnectMatches DEF Switching
<1>4. /\ batch' = [tx |-> Disconnected(batch.tx, task.at),
                   next |-> [batch.next EXCEPT ![Prev[task.at]] = None]]
      /\ task' = [task EXCEPT !.at = Prev[task.at]]
      /\ UNCHANGED <<memVars, pc, syncVars, dbVars, faults>>
  BY <1>3 DEF DisconnectBlock
<1>5. batch'.next \in Links /\ Follows(batch'.next, Prev[task.at])
  BY <1>1, <1>2, <1>4, FollowsDisconnect DEF Switching
<1>6. /\ Prev[task.at] \in Blocks /\ Prev[task.at] \in ChainOf(task.base)
      /\ ChainOf(task.at) = ChainOf(Prev[task.at]) \cup {task.at}
  BY <1>2, ChainStep, ChainParts
<1>7. ChainOf(task.base) \cap ChainOf(task.goal) \subseteq ChainOf(Prev[task.at])
  BY <1>1, <1>6 DEF Switching
<1>8. /\ task' \in TaskType /\ task'.at = Prev[task.at]
      /\ task'.new = task.new /\ task'.goal = task.goal /\ task'.base = task.base
      /\ task'.later = task.later /\ task'.caller = task.caller
  BY <1>1, <1>4, <1>6 DEF Switching, TaskType
<1>9. IsIndex(batch'.tx) /\ Matches(batch'.tx, Prev[task.at])
  BY <1>3, <1>4
<1>10. Switching'
  BY SMTT(20), <1>1, <1>4, <1>5, <1>6, <1>7, <1>8, <1>9
  DEF Switching, memVars, syncVars, dbVars
<1>11. Stored' /\ Bounded'
  BY <1>1, <1>4, StoredUnchanged DEF memVars, syncVars, Bounded
<1> QED BY <1>1, <1>4, <1>10, <1>11 DEF IInv

\* An abort ends the call, with the tip that is on disk.
LEMMA TxnAbortStep ==
    ASSUME Stored, Switching, Bounded', TxnAbort, ~LateAbort,
           UNCHANGED <<hashSyncCheckpoint, dbVars>>
    PROVE  IInv'
<1>1. CASE task.later
  <2>1. pindexBest' = task.new /\ Return(task.caller, task.new) /\ UNCHANGED <<mapBlockIndex, pnext>>
    BY <1>1 DEF TxnAbort
  <2>2. task.new = dbBest /\ dbBest' = dbBest
    BY <1>1, <2>1 DEF LateAbort, dbVars
  <2>3. Stored'
    BY <2>1, <2>2
    DEF Stored, Switching, dbVars
  <2>4. /\ task.new \in ChainOf(dbBest') /\ task.new \in mapBlockIndex'
        /\ task.caller # "block" => hashSyncCheckpoint' \in ChainOf(task.new)
    BY <2>1, <2>2 DEF Switching, ChainOf
  <2> QED BY <2>1, <2>2, <2>3, <2>4, ReturnStep
<1>2. CASE ~task.later
  <2>1. Idle /\ UNCHANGED memVars
    BY <1>2 DEF TxnAbort
  <2>2. Stored' /\ pindexBest' = dbBest'
    BY <1>2, <2>1, StoredUnchanged DEF memVars, dbVars, Switching
  <2> QED BY <2>1, <2>2, IdleStep
<1> QED BY <1>1, <1>2

\* Connecting the next block of the chain to task.goal.
LEMMA ConnectBlockStep ==
    ASSUME IInv, ConnectBlock, ~LateAbort
    PROVE  IInv'
<1>1. pc = "switch" /\ Switching /\ Stored /\ Bounded
  BY DEF IInv, ConnectBlock
<1>2. PICK b \in ChainOf(task.goal) :
        /\ IsParent(task.at, b)
        /\ IF CanConnect(batch.tx, b)
           THEN /\ batch' = [tx |-> Connected(batch.tx, b),
                             next |-> [batch.next EXCEPT ![b] = pnext[b], ![task.at] = b]]
                /\ task' = [task EXCEPT !.at = b]
                /\ UNCHANGED <<memVars, pc>>
           ELSE TxnAbort
  BY DEF ConnectBlock
<1>3. UNCHANGED <<syncVars, dbVars, faults>>
  BY DEF ConnectBlock
<1>4. Bounded'
  BY <1>1, <1>3 DEF Bounded, syncVars
<1>5. CASE ~CanConnect(batch.tx, b)
  BY <1>1, <1>2, <1>3, <1>4, <1>5, TxnAbortStep DEF syncVars
<1>6. CASE CanConnect(batch.tx, b)
  <2>1. /\ task.at \in Blocks /\ task.goal \in Blocks /\ task.base \in Blocks
        /\ b \in Blocks \ {Genesis} /\ Prev[b] = task.at
    BY <1>1, <1>2, ChainParts DEF Switching, TaskType, IsParent
  <2>2. /\ ChainOf(b) = ChainOf(task.at) \cup {b} /\ b \notin ChainOf(task.at)
    BY <2>1, ChainStep
  <2>3. b \notin ChainOf(task.base)
    BY <1>1, <2>2 DEF Switching
  <2>4. pnext[b] = None
    BY <1>1, <2>1, <2>3, FollowsOff DEF Stored, Switching
  <2>5. IsIndex(Connected(batch.tx, b)) /\ Matches(Connected(batch.tx, b), b)
    BY <1>1, <1>6, <2>1, ConnectMatches DEF Switching
  <2>6. /\ batch'.tx = Connected(batch.tx, b)
        /\ batch'.next = [batch.next EXCEPT ![b] = None, ![Prev[b]] = b]
        /\ task' = [task EXCEPT !.at = b]
        /\ UNCHANGED <<memVars, pc>>
    BY SMTT(20), <1>2, <1>6, <2>1, <2>4
  <2>7. batch'.next \in Links /\ Follows(batch'.next, b)
    BY <1>1, <2>1, <2>6, FollowsConnect DEF Switching
  <2>8. /\ task' \in TaskType /\ task'.at = b
        /\ task'.new = task.new /\ task'.goal = task.goal /\ task'.base = task.base
        /\ task'.later = task.later /\ task'.caller = task.caller
    BY <1>1, <2>1, <2>6 DEF Switching, TaskType
  <2>9. IsIndex(batch'.tx) /\ Matches(batch'.tx, b)
    BY <2>5, <2>6
  <2>10. /\ b \in ChainOf(task.base) \cup ChainOf(task.goal)
         /\ ChainOf(task.base) \cap ChainOf(task.goal) \subseteq ChainOf(b)
    BY <1>1, <1>2, <2>2 DEF Switching
  <2>11. Switching'
    BY SMTT(20), <1>1, <1>3, <2>6, <2>7, <2>8, <2>9, <2>10
    DEF Switching, memVars, syncVars, dbVars
  <2>12. Stored'
    BY <1>1, <1>3, <2>6, StoredUnchanged DEF memVars, syncVars
  <2> QED BY <1>1, <1>4, <2>6, <2>11, <2>12 DEF IInv
<1> QED BY <1>5, <1>6

\* A commit makes task.goal the tip on disk; with blocks above it, the next
\* transaction starts from there.
LEMMA TxnCommitStep ==
    ASSUME IInv, TxnCommit
    PROVE  IInv'
<1>1. pc = "switch" /\ Switching /\ Stored /\ Bounded /\ task.at = task.goal
  BY DEF IInv, TxnCommit
<1>2. /\ task.new \in Blocks /\ task.goal \in Blocks /\ task.base \in Blocks
      /\ task.goal \in ChainOf(task.new)
  BY <1>1 DEF Switching, TaskType
<1>3. /\ dbTx' = batch.tx /\ dbNext' = batch.next /\ dbBest' = task.goal
      /\ pnext' = Relinked(pnext, dbBest, task.goal)
      /\ UNCHANGED <<mapBlockIndex, syncVars, dbIndex, dbSync, faults>>
  BY ZenonT(30), <1>1 DEF TxnCommit, Switching
<1>4. pnext' \in Links /\ Follows(pnext', task.goal)
  BY ZenonT(30), <1>1, <1>2, <1>3, FollowsRelink DEF Stored, Switching
<1>5. IsIndex(dbTx') /\ Matches(dbTx', task.goal) /\ dbNext' \in Links /\ Follows(dbNext', task.goal)
  BY ZenonT(30), <1>1, <1>3 DEF Switching
<1>6. task.goal \in mapBlockIndex
  BY ZenonT(30), <1>1, <1>2 DEF Stored, Switching
<1>7. pindexBest' \in mapBlockIndex => Stored'
  BY ZenonT(30), <1>1, <1>3, <1>4, <1>5, <1>6
  DEF Stored, Switching, syncVars
<1>8. Bounded'
  BY <1>1, <1>3 DEF Bounded, syncVars
<1>9. CASE task.goal = task.new
  <2>1. pindexBest' = task.new /\ Return(task.caller, task.new)
    BY <1>9 DEF TxnCommit
  <2>2. Stored' /\ pindexBest' = dbBest' /\ task.new \in mapBlockIndex'
    BY <1>3, <1>6, <1>7, <1>9, <2>1
  <2>3. task.caller # "block" => hashSyncCheckpoint' \in ChainOf(task.new) /\ task.new \in ChainOf(dbBest')
    BY ZenonT(30), <1>1, <1>3, <1>9 DEF Switching, syncVars, ChainOf
  <2> QED BY <1>8, <2>1, <2>2, <2>3, ReturnStep
<1>10. CASE task.goal # task.new
  <2>1. PICK b \in ChainOf(task.new) :
          /\ IsParent(task.goal, b)
          /\ BeginTxn(task.new, b, task.goal, TRUE, task.caller, batch.tx, batch.next)
    BY ZenonT(30), <1>10 DEF TxnCommit
  <2>2. pindexBest' = pindexBest
    BY <1>10 DEF TxnCommit
  <2>3. Stored'
    BY ZenonT(30), <1>1, <1>7, <2>2 DEF Stored
  <2>4. /\ pc' = "switch"
        /\ task' = [new |-> task.new, goal |-> b, at |-> task.goal, base |-> task.goal,
                    later |-> TRUE, caller |-> task.caller]
        /\ batch'.tx = dbTx' /\ batch'.next = dbNext'
    BY <1>3, <2>1 DEF BeginTxn
  <2>5. b \in Blocks \ {Genesis} /\ Prev[b] = task.goal
    BY <1>2, <2>1, ChainParts DEF IsParent
  <2>6. ChainOf(task.goal) \subseteq ChainOf(b) /\ task.goal \in ChainOf(task.goal)
    BY SMTT(20), <1>2, <2>5, ChainStep DEF ChainOf
  <2>7. task' \in TaskType
    BY ZenonT(30), <1>1, <1>2, <2>4, <2>5 DEF Switching, TaskType
  <2>8. task.caller = "block" =>
          Trust[pindexBest] < Trust[b] /\ Trust[pindexBest] <= Trust[task.goal]
    <3> SUFFICES ASSUME task.caller = "block"
                 PROVE  Trust[pindexBest] < Trust[b] /\ Trust[pindexBest] <= Trust[task.goal]
      OBVIOUS
    <3>1. Trust[pindexBest] < Trust[task.goal]
      BY <1>1 DEF Switching
    <3>2. Trust[task.goal] <= Trust[b] /\ Trust[task.goal] \in Nat /\ Trust[b] \in Nat
      BY <2>5, <2>6, ChainTrust
    <3>3. Trust[pindexBest] \in Nat
      BY <1>1, ChainAssumption DEF Stored
    <3> QED BY SMTT(20), <3>1, <3>2, <3>3
  <2>9. Switching'
    BY <1>1, <1>3, <1>4, <1>5, <2>1, <2>2, <2>4, <2>6, <2>7, <2>8
    DEF Switching, syncVars
  <2> QED BY <1>8, <2>3, <2>4, <2>9 DEF IInv
<1> QED BY <1>9, <1>10

\* A commit that fails is an abort.
LEMMA CommitFailsStep ==
    ASSUME IInv, CommitFails, ~LateAbort
    PROVE  IInv'
<1>1. pc = "switch" /\ Switching /\ Stored /\ Bounded /\ TxnAbort /\ UNCHANGED <<syncVars, dbVars>>
  BY DEF IInv, CommitFails
<1>2. Bounded'
  BY SMTT(20), <1>1, ChainAssumption DEF CommitFails, Bounded, syncVars
<1> QED BY <1>1, <1>2, TxnAbortStep DEF syncVars

\* A checkpoint enters the main chain, or is there.
LEMMA EnterMainChainStep ==
    ASSUME Stored, Bounded', pindexBest = dbBest,
           NEW c \in mapBlockIndex, NEW caller \in {"pending", "message"},
           ValidateSyncCheckpoint(c), EnterMainChain(c, caller),
           UNCHANGED <<memVars, hashSyncCheckpoint, dbVars>>
    PROVE  IInv'
<1>1. Stored' /\ pindexBest' = dbBest' /\ c \in mapBlockIndex' /\ caller # "block"
  BY StoredUnchanged DEF memVars, dbVars
<1>2. hashSyncCheckpoint \in Ancestors[c] /\ hashSyncCheckpoint' \in ChainOf(c)
  BY DEF ValidateSyncCheckpoint, ChainOf
<1>3. CASE IsInMainChain(c)
  <2>1. Return(caller, c)
    BY <1>3 DEF EnterMainChain
  <2>2. c \in ChainOf(dbBest')
    BY <1>3, MainChain DEF Stored, dbVars
  <2> QED BY <1>1, <1>2, <2>1, <2>2, ReturnStep
<1>4. CASE ~IsInMainChain(c)
  <2>1. SetBestChain(c, caller)
    BY <1>4 DEF EnterMainChain
  <2> QED BY <1>1, <1>2, <2>1, SetBestChainStep DEF memVars
<1> QED BY <1>3, <1>4

\* The pending checkpoint is accepted, dropped or kept.
LEMMA AcceptPendingSyncCheckpointStep ==
    ASSUME IInv, AcceptPendingSyncCheckpoint
    PROVE  IInv'
<1>1. /\ pc = "accepted" /\ Waiting /\ Stored /\ Bounded /\ pindexBest = dbBest
      /\ UNCHANGED <<memVars, hashSyncCheckpoint, dbVars, faults>>
  BY DEF IInv, AcceptPendingSyncCheckpoint, Waiting
<1>2. Bounded'
  BY <1>1 DEF AcceptPendingSyncCheckpoint, Bounded
<1>3. Stored' /\ pindexBest' = dbBest'
  BY <1>1, StoredUnchanged DEF memVars, dbVars
<1>4. CASE Idle
  BY <1>2, <1>3, <1>4, IdleStep
<1>5. CASE /\ hashPendingCheckpoint \in mapBlockIndex
           /\ ValidateSyncCheckpoint(hashPendingCheckpoint)
           /\ EnterMainChain(hashPendingCheckpoint, "pending")
  BY <1>1, <1>2, <1>5, EnterMainChainStep
<1> QED BY <1>4, <1>5 DEF AcceptPendingSyncCheckpoint

\* A signed checkpoint arrives.
LEMMA ProcessSyncCheckpointStep ==
    ASSUME IInv, NEW c \in Signed, ProcessSyncCheckpoint(c)
    PROVE  IInv'
<1>1. /\ pc = "idle" /\ Waiting /\ Stored /\ Bounded /\ pindexBest = dbBest
      /\ UNCHANGED <<memVars, hashSyncCheckpoint, dbVars, faults>>
  BY DEF IInv, ProcessSyncCheckpoint, Waiting
<1>2. Bounded'
  BY <1>1 DEF ProcessSyncCheckpoint, Bounded
<1>3. Stored' /\ pindexBest' = dbBest'
  BY <1>1, StoredUnchanged DEF memVars, dbVars
<1>4. CASE c \notin mapBlockIndex
  <2>1. UNCHANGED <<pc, task, batch>>
    BY <1>4 DEF ProcessSyncCheckpoint
  <2> QED BY <1>1, <1>2, <1>3, <2>1 DEF IInv, Waiting
<1>5. CASE c \in mapBlockIndex
  <2>1. ValidateSyncCheckpoint(c) /\ EnterMainChain(c, "message")
    BY <1>5 DEF ProcessSyncCheckpoint
  <2> QED BY <1>1, <1>2, <1>5, <2>1, EnterMainChainStep
<1> QED BY <1>4, <1>5

\* The checkpoint is written once it is in the main chain.
LEMMA WriteSyncCheckpointStep ==
    ASSUME IInv, WriteSyncCheckpoint
    PROVE  IInv'
<1>1. /\ pc = "checkpoint" /\ Waiting /\ Stored /\ Bounded /\ Idle
      /\ dbSync' = task.new /\ hashSyncCheckpoint' = task.new /\ hashPendingCheckpoint' = None
      /\ UNCHANGED <<memVars, dbIndex, dbNext, dbTx, dbBest, faults>>
  BY DEF IInv, WriteSyncCheckpoint
<1>2. Bounded'
  BY <1>1 DEF Bounded
<1>3. task.new \in mapBlockIndex /\ task.new \in ChainOf(dbBest) /\ pindexBest' = dbBest'
  BY <1>1 DEF Waiting, memVars
<1>4. Stored'
  BY <1>1, <1>3 DEF Stored, memVars
<1> QED BY <1>1, <1>2, <1>3, <1>4, IdleStep

\* A checkpoint that is not written changes nothing.
LEMMA SyncCommitFailsStep ==
    ASSUME IInv, SyncCommitFails
    PROVE  IInv'
<1>1. /\ pc = "checkpoint" /\ Waiting /\ Stored /\ Bounded /\ Idle
      /\ faults' = faults + 1 /\ faults < MaxFaults
      /\ UNCHANGED <<memVars, syncVars, dbVars>>
  BY DEF IInv, SyncCommitFails
<1>2. Bounded'
  BY SMTT(20), <1>1, ChainAssumption DEF Bounded, syncVars
<1>3. Stored' /\ pindexBest' = dbBest'
  BY <1>1, StoredUnchanged DEF memVars, syncVars, dbVars, Waiting
<1> QED BY <1>1, <1>2, <1>3, IdleStep

\* A block that passes CheckSync extends the chain of the checkpoint.
LEMMA AcceptBlockStep ==
    ASSUME IInv, NEW b \in Blocks \ {Genesis}, AcceptBlock(b)
    PROVE  IInv'
<1>1. /\ pc = "idle" /\ Waiting /\ Stored /\ Bounded /\ pindexBest = dbBest
      /\ Prev[b] \in mapBlockIndex
      /\ Mode = "STRICT" => CheckSync(b)
      /\ mapBlockIndex' = mapBlockIndex \cup {b} /\ dbIndex' = dbIndex \cup {b}
      /\ pc' = "indexed" /\ task' = [NoTask EXCEPT !.new = b, !.caller = "block"]
      /\ UNCHANGED <<pnext, pindexBest, syncVars, dbNext, dbTx, dbBest, dbSync, batch, faults>>
  BY DEF IInv, AcceptBlock, Waiting
<1>2. Bounded'
  BY <1>1 DEF Bounded, syncVars
<1>3. ChainOf(b) = ChainOf(Prev[b]) \cup {b} /\ Prev[b] \in Blocks /\ Height[b] = Height[Prev[b]] + 1
  BY ChainStep
<1>4. \A a \in mapBlockIndex' : ChainOf(a) \subseteq mapBlockIndex'
  BY <1>1, <1>3 DEF Stored
<1>5. Stored'
  BY <1>1, <1>4
  DEF Stored, syncVars
<1>6. Mode = "STRICT" => hashSyncCheckpoint \in ChainOf(b)
  <2> SUFFICES ASSUME Mode = "STRICT" PROVE hashSyncCheckpoint \in ChainOf(Prev[b])
    BY <1>3
  <2>1. dbBest \in Blocks /\ hashSyncCheckpoint \in Blocks
    BY <1>1 DEF Stored
  <2>2. CASE IsInMainChain(hashSyncCheckpoint) /\ IsInMainChain(Prev[b])
    <3>1. hashSyncCheckpoint \in ChainOf(dbBest) /\ Prev[b] \in ChainOf(dbBest)
      BY <1>1, <1>3, <2>1, <2>2, MainChain
    <3>2. Height[hashSyncCheckpoint] <= Height[Prev[b]]
      BY SMTT(20), <1>1, <1>3, <2>1, TreeAssumption DEF CheckSync
    <3> QED BY <2>1, <3>1, <3>2, ChainAssumption
  <2> QED BY <1>1, <2>2 DEF CheckSync
<1>7. task'.new = b
  BY <1>1 DEF NoTask
<1>8. Waiting'
  BY SMTT(20), <1>1, <1>6, <1>7 DEF Waiting, syncVars, ChainOf
<1> QED BY <1>1, <1>2, <1>5, <1>8 DEF IInv

\* The new block's chain becomes the best, or the block is left on its branch.
LEMMA NewBestStep ==
    ASSUME IInv, NewBest
    PROVE  IInv'
<1>1. /\ pc = "indexed" /\ Waiting /\ Stored /\ Bounded
      /\ pindexBest = dbBest /\ task.new \in mapBlockIndex
      /\ UNCHANGED <<memVars, syncVars, dbVars, faults>>
  BY DEF IInv, NewBest, Waiting
<1>2. Bounded'
  BY <1>1 DEF Bounded, syncVars
<1>3. CASE Trust[task.new] > Trust[pindexBest]
  <2>1. SetBestChain(task.new, "block")
    BY <1>3 DEF NewBest
  <2>2. Mode = "STRICT" => hashSyncCheckpoint \in ChainOf(task.new)
    BY <1>1 DEF Waiting
  <2> QED BY <1>1, <1>2, <1>3, <2>1, <2>2, SetBestChainStep DEF memVars, syncVars
<1>4. CASE ~(Trust[task.new] > Trust[pindexBest])
  <2>1. Return("block", task.new)
    BY <1>4 DEF NewBest
  <2>2. Stored' /\ pindexBest' = dbBest' /\ task.new \in mapBlockIndex'
    BY <1>1, StoredUnchanged DEF memVars, syncVars, dbVars
  <2> QED BY <1>2, <2>1, <2>2, ReturnStep
<1> QED BY <1>3, <1>4

\* A restart finds what is on disk.
LEMMA CrashStep ==
    ASSUME IInv, Crash
    PROVE  IInv'
<1>1. /\ Stored /\ Bounded /\ Idle /\ hashPendingCheckpoint' = None
      /\ faults' = faults + 1 /\ faults < MaxFaults
      /\ mapBlockIndex' = dbIndex /\ pnext' = dbNext /\ pindexBest' = dbBest
      /\ hashSyncCheckpoint' = dbSync /\ UNCHANGED dbVars
  BY DEF IInv, Crash
<1>2. Bounded'
  BY SMTT(20), <1>1, ChainAssumption DEF Bounded
<1>3. Stored' /\ pindexBest' = dbBest'
  BY <1>1 DEF Stored, dbVars
<1> QED BY <1>1, <1>2, <1>3, IdleStep
-----------------------------------------------------------------------------
\* A new data directory.
LEMMA InitStep ==
    ASSUME Init
    PROVE  IInv
<1>1. Genesis \in Blocks /\ ChainOf(Genesis) = {Genesis} /\ None \notin Blocks /\ None \notin Txs
  BY SMTT(20), TreeAssumption, ChainAssumption DEF ChainOf
<1>2. IsIndex(dbTx) /\ Matches(dbTx, Genesis)
  <2>1. Vtx[Genesis] \subseteq Txs /\ \A t \in Vtx[Genesis] : Vin[t] = {}
    BY SMTT(20), <1>1, ChainAssumption
  <2>2. /\ DOMAIN dbTx = Vtx[Genesis]
        /\ \A t \in Vtx[Genesis] : dbTx[t] = [pos |-> Genesis, spent |-> None]
    BY DEF Init
  <2>3. IsIndex(dbTx)
    BY <1>1, <2>1 DEF Init, IsIndex, Entry
  <2> QED BY SMTT(20), <1>1, <2>1, <2>2, <2>3 DEF Matches
<1>3. pnext \in Links /\ Follows(pnext, Genesis) /\ dbNext \in Links /\ Follows(dbNext, Genesis)
  BY <1>1 DEF Init, Links, Follows, IsParent
<1>4. Stored
  BY <1>1, <1>2, <1>3 DEF Init, Stored
<1>5. Bounded /\ Waiting
  BY SMTT(20), ChainAssumption DEF Init, Bounded, Waiting
<1> QED BY <1>4, <1>5 DEF Init, IInv

\* Every step keeps the invariant, if no postponed block fails.
LEMMA NextStep ==
    ASSUME IInv, [Next /\ ~LateAbort]_vars
    PROVE  IInv'
<1>1. CASE UNCHANGED vars
  <2>1. Stored' /\ Bounded'
    BY <1>1, StoredUnchanged DEF vars, memVars, syncVars, dbVars, IInv, Bounded
  <2>2. Switching => Switching'
    BY ZenonT(30), <1>1 DEF vars, memVars, syncVars, dbVars, Switching
  <2>3. pc' = pc /\ (Waiting => Waiting')
    BY <1>1 DEF vars, memVars, syncVars, dbVars, Waiting, ChainOf
  <2> QED BY <2>1, <2>2, <2>3 DEF IInv
<1>2. CASE Next /\ ~LateAbort
  BY <1>2, AcceptBlockStep, NewBestStep, DisconnectBlockStep, ConnectBlockStep, TxnCommitStep,
     CommitFailsStep, AcceptPendingSyncCheckpointStep, ProcessSyncCheckpointStep,
     WriteSyncCheckpointStep, SyncCommitFailsStep, CrashStep DEF Next
<1> QED BY <1>1, <1>2

\* IInv holds throughout.
LEMMA Invariance == NoLateAbort => []IInv
<1>1. Init => IInv
  BY InitStep
<1>2. IInv /\ [Next /\ ~LateAbort]_vars => IInv'
  BY NextStep
<1> QED BY <1>1, <1>2, PTL DEF NoLateAbort
-----------------------------------------------------------------------------
(* The theorems.                                                            *)

\* The index on disk is the one in memory, and every block SetBestChain handles
\* is indexed.
THEOREM TypeCorrect == NoLateAbort => []TypeOK
<1>1. IInv => TypeOK
  BY ZenonT(30) DEF IInv, Stored, Bounded, Switching, Waiting, TypeOK
<1> QED BY <1>1, Invariance, PTL

\* However a switch of chains is cut short, by a block that does not connect, by
\* a failed commit or by a crash, the transaction index on disk is that of the
\* chain that ends in hashBestChain.
THEOREM IndexNeverTorn == NoLateAbort => []TxIndexMatches
<1>1. IInv => TxIndexMatches
  BY DEF IInv, Stored, TxIndexMatches
<1> QED BY <1>1, Invariance, PTL

\* Nor do pnext in memory and hashNext on disk ever lead off that chain.
THEOREM LinksNeverTorn == NoLateAbort => []NextMatches
<1>1. IInv => NextMatches
  BY DEF IInv, Stored, NextMatches
<1> QED BY <1>1, Invariance, PTL

\* Between operations the tip in memory is the tip on disk.
THEOREM TipCommitted == NoLateAbort => []BestCommitted
<1>1. IInv => BestCommitted
  BY DEF IInv, Waiting, BestCommitted
<1> QED BY <1>1, Invariance, PTL

\* In STRICT mode no block, checkpoint, failure or restart takes the main chain
\* off the sync-checkpoint.
THEOREM SyncKept == NoLateAbort => []SyncInMainChain
<1>1. IInv => SyncInMainChain
  BY DEF IInv, Stored, Waiting, SyncInMainChain
<1> QED BY <1>1, Invariance, PTL

\* A sync-checkpoint is replaced by a descendant of it only.
THEOREM SyncOnlyAdvances == NoLateAbort => SyncAdvances
<1>1. IInv /\ [Next /\ ~LateAbort]_vars => [(hashSyncCheckpoint \in ChainOf(hashSyncCheckpoint'))]_vars
  <2> SUFFICES ASSUME IInv, Next PROVE hashSyncCheckpoint \in ChainOf(hashSyncCheckpoint')
    OBVIOUS
  <2>1. CASE hashSyncCheckpoint' = hashSyncCheckpoint
    BY <2>1 DEF ChainOf
  <2>2. CASE WriteSyncCheckpoint
    <3>1. pc = "checkpoint" /\ hashSyncCheckpoint' = task.new
      BY <2>2 DEF WriteSyncCheckpoint
    <3> QED BY <3>1 DEF IInv, Waiting
  <2>3. CASE Crash
    <3>1. hashSyncCheckpoint' = hashSyncCheckpoint
      BY <2>3 DEF IInv, Stored, Crash
    <3> QED BY <2>1, <3>1
  <2> QED BY ZenonT(30), <2>1, <2>2, <2>3 DEF Next, AcceptBlock, NewBest, DisconnectBlock, ConnectBlock,
             TxnCommit, CommitFails, AcceptPendingSyncCheckpoint, ProcessSyncCheckpoint,
             SyncCommitFails, syncVars
<1> QED BY <1>1, Invariance, PTL DEF NoLateAbort, SyncAdvances

\* The tip loses trust to a checkpoint only, not to a crash or a failure.
THEOREM TrustKept == NoLateAbort => TrustFallsToCheckpoint
<1> DEFINE Falls == Trust[pindexBest'] < Trust[pindexBest] => task.caller \in {"pending", "message"}
<1>1. IInv /\ [Next /\ ~LateAbort]_vars => [Falls]_vars
  <2> SUFFICES ASSUME IInv, Next, ~LateAbort PROVE Falls
    OBVIOUS
  <2>1. pindexBest \in Blocks /\ Trust[pindexBest] \in Nat /\ dbBest \in Blocks /\ Trust[dbBest] \in Nat
    BY ZenonT(30), ChainAssumption DEF IInv, Stored
  <2>2. CASE pindexBest' = pindexBest
    BY SMTT(20), <2>1, <2>2
  <2>3. CASE pindexBest' = dbBest
    <3>1. CASE pc = "switch"
      <4>1. Switching
        BY <3>1 DEF IInv
      <4>2. task.caller \in {"block", "pending", "message"}
        BY <4>1 DEF Switching, TaskType
      <4>3. task.caller = "block" => Trust[pindexBest] <= Trust[dbBest]
        BY ZenonT(30), <4>1 DEF Switching
      <4> QED BY SMTT(20), <2>1, <2>3, <4>2, <4>3
    <3>2. CASE pc # "switch"
      BY <2>2, <2>3, <3>2 DEF IInv, Waiting
    <3> QED BY <3>1, <3>2
  <2>4. CASE pc = "switch" /\ TxnAbort /\ UNCHANGED dbVars
    <3>1. pindexBest' = pindexBest \/ pindexBest' = dbBest
      BY <2>4 DEF TxnAbort, LateAbort, memVars, dbVars
    <3> QED BY <2>2, <2>3, <3>1
  <2>5. CASE TxnCommit
    <3>1. pindexBest' = pindexBest \/ (pindexBest' = task.goal /\ pc = "switch")
      BY ZenonT(30), <2>5 DEF TxnCommit
    <3>2. CASE pindexBest' = task.goal /\ pc = "switch"
      <4>1. Switching
        BY <3>2 DEF IInv
      <4>2. task.caller \in {"block", "pending", "message"} /\ task.goal \in Blocks
        BY <4>1 DEF Switching, TaskType
      <4>3. task.caller = "block" => Trust[pindexBest] < Trust[task.goal]
        BY ZenonT(30), <4>1 DEF Switching
      <4> QED BY SMTT(20), <2>1, <3>2, <4>2, <4>3, ChainAssumption
    <3> QED BY <2>2, <3>1, <3>2
  <2>6. CASE DisconnectBlock \/ ConnectBlock \/ CommitFails
    <3>1. pindexBest' = pindexBest \/ (pc = "switch" /\ TxnAbort /\ UNCHANGED dbVars)
      BY <2>6 DEF DisconnectBlock, ConnectBlock, CommitFails, memVars
    <3> QED BY <2>2, <2>4, <3>1
  <2>7. CASE Crash
    BY <2>3, <2>7 DEF Crash
  <2> QED BY ZenonT(30), <2>2, <2>5, <2>6, <2>7 DEF Next, AcceptBlock, NewBest,
             AcceptPendingSyncCheckpoint, ProcessSyncCheckpoint, WriteSyncCheckpoint,
             SyncCommitFails, memVars
<1> QED BY <1>1, Invariance, PTL DEF NoLateAbort, TrustFallsToCheckpoint

-----------------------------------------------------------------------------
(* The best of the valid chains.                                            *)

\* No valid chain that ends in S has more trust than the tip.
Heaviest(S) == \A b \in S : Valid(b) => Trust[b] <= Trust[pindexBest]

(***************************************************************************)
(* What MostTrust needs besides IInv.  Between AcceptBlock and NewBest, and *)
(* while SetBestChain runs for it, the new block may be the exception; the  *)
(* tip moves to a chain of less trust only for a checkpoint, which is above *)
(* the genesis block.                                                       *)
(***************************************************************************)
Heavy ==
    /\ pc = "checkpoint" \/ (pc = "switch" /\ task.caller # "block") => task.new # Genesis
    /\ hashSyncCheckpoint = Genesis /\ faults = 0 =>
          /\ pc \in {"idle", "accepted"} => Heaviest(mapBlockIndex)
          /\ pc = "indexed" => Heaviest(mapBlockIndex \ {task.new})
          /\ pc = "switch" /\ task.caller = "block" => Heaviest(mapBlockIndex \ {task.new})
          /\ pc = "switch" /\ task.caller # "block" /\ ~task.later => Heaviest(mapBlockIndex)

\* A valid tip with as much trust as the old one is the heaviest.
LEMMA HeavierTip ==
    ASSUME Stored, NEW new \in mapBlockIndex, Heaviest(mapBlockIndex \ {new}),
           Trust[pindexBest] <= Trust[new], pindexBest' = new, mapBlockIndex' = mapBlockIndex
    PROVE  Heaviest(mapBlockIndex)'
<1>1. Trust[pindexBest] \in Nat /\ \A b \in mapBlockIndex : Trust[b] \in Nat
  BY ChainAssumption DEF Stored
<1> SUFFICES ASSUME NEW b \in mapBlockIndex, Valid(b) PROVE Trust[b] <= Trust[new]
  BY DEF Heaviest
<1>2. CASE b = new
  BY SMTT(20), <1>1, <1>2
<1>3. CASE b # new
  <2>1. Trust[b] <= Trust[pindexBest]
    BY <1>3 DEF Heaviest
  <2> QED BY SMTT(20), <1>1, <2>1
<1> QED BY <1>2, <1>3

\* Where SetBestChain returns to.
LEMMA Returned ==
    ASSUME NEW caller, NEW new, Return(caller, new)
    PROVE  /\ task'.new = new
           /\ caller = "block" => pc' = "accepted"
           /\ caller # "block" => pc' = "checkpoint"
<1>1. task'.new = new
  BY DEF Return, NoTask
<1>2. caller = "block" => pc' = "accepted"
  BY ZenonT(30) DEF Return
<1>3. caller # "block" => pc' = "checkpoint"
  BY ZenonT(30) DEF Return
<1> QED BY <1>1, <1>2, <1>3

\* A block that does not connect makes its chain invalid.
LEMMA AbortHeavy ==
    ASSUME IInv, Heavy, ConnectBlock, ~LateAbort, TxnAbort, pc = "switch",
           \E b \in ChainOf(task.goal) : IsParent(task.at, b) /\ ~CanConnect(batch.tx, b)
    PROVE  Heavy'
<1>1. Switching /\ Stored /\ UNCHANGED <<syncVars, dbVars, faults>> /\ task.new \in mapBlockIndex
  BY DEF IInv, ConnectBlock, Switching
<1>2. CASE task.later
  <2>1. pindexBest' = task.new /\ Return(task.caller, task.new) /\ mapBlockIndex' = mapBlockIndex
    BY <1>2 DEF TxnAbort
  <2>2. task.new = dbBest
    BY <1>1, <1>2, <2>1 DEF LateAbort, dbVars
  <2>3. /\ task'.new = task.new
        /\ \/ pc' = "accepted" /\ task.caller = "block"
           \/ pc' = "checkpoint" /\ task.caller # "block"
    BY SMTT(20), <2>1, Returned
  <2>4. ASSUME hashSyncCheckpoint' = Genesis, faults' = 0, task.caller = "block"
        PROVE  Heaviest(mapBlockIndex)'
    <3>1. Heaviest(mapBlockIndex \ {task.new})
      BY <1>1, <2>4 DEF Heavy, syncVars
    <3>2. Trust[pindexBest] <= Trust[task.new]
      BY <1>1, <2>2, <2>4 DEF Switching
    <3> QED BY <1>1, <2>1, <3>1, <3>2, HeavierTip
  <2> QED BY <2>3, <2>4 DEF Heavy
<1>3. CASE ~task.later
  <2>1. pc' = "idle" /\ UNCHANGED memVars
    BY <1>3 DEF TxnAbort, Idle
  <2>2. PICK b \in ChainOf(task.goal) : IsParent(task.at, b) /\ ~CanConnect(batch.tx, b)
    OBVIOUS
  <2>3. task.new \in Blocks /\ b \in ChainOf(task.new)
    BY <1>1, <2>2, ChainParts DEF Switching, TaskType
  <2>4. ~Valid(task.new)
    BY <1>1, <2>2, <2>3, ValidConnects DEF Switching, IsParent
  <2>5. ASSUME hashSyncCheckpoint' = Genesis, faults' = 0
        PROVE  Heaviest(mapBlockIndex)'
    <3>1. Heaviest(mapBlockIndex \ {task.new})
      BY <1>1, <1>3, <2>5 DEF Heavy, Heaviest, syncVars
    <3> QED BY <2>1, <2>4, <3>1 DEF Heaviest, memVars
  <2> QED BY <2>1, <2>5 DEF Heavy
<1> QED BY <1>2, <1>3

LEMMA TxnBegun ==
    ASSUME NEW new, NEW goal, NEW base, NEW later, NEW caller, NEW tx, NEW next,
           BeginTxn(new, goal, base, later, caller, tx, next)
    PROVE  pc' = "switch" /\ task'.new = new /\ task'.caller = caller /\ task'.later = later
BY DEF BeginTxn

\* A step within SetBestChain.
LEMMA SwitchHeavy ==
    ASSUME IInv, Heavy, ~LateAbort, DisconnectBlock \/ ConnectBlock \/ TxnCommit
    PROVE  Heavy'
<1>1. /\ pc = "switch" /\ Switching /\ Stored /\ UNCHANGED <<syncVars, faults>>
      /\ task.new \in mapBlockIndex
  BY ZenonT(30) DEF IInv, DisconnectBlock, ConnectBlock, TxnCommit, Switching
<1>2. ASSUME UNCHANGED <<memVars, pc>>, task'.new = task.new, task'.caller = task.caller,
             task'.later = task.later
      PROVE  Heavy'
  BY <1>1, <1>2 DEF Heavy, Heaviest, memVars, syncVars
<1>3. CASE DisconnectBlock
  <2>1. task.at \in Blocks \ {Genesis} /\ task.at \notin ChainOf(task.goal)
    BY SMTT(20), <1>1, <1>3, ChainAssumption DEF DisconnectBlock, Switching, TaskType
  <2>2. CanDisconnect(batch.tx, task.at)
    BY <1>1, <2>1, DisconnectMatches DEF Switching
  <2>3. UNCHANGED <<memVars, pc>> /\ task' = [task EXCEPT !.at = Prev[task.at]]
    BY <1>3, <2>2 DEF DisconnectBlock
  <2> QED BY <1>1, <1>2, <2>3 DEF Switching, TaskType
<1>4. CASE ConnectBlock
  <2>1. CASE \E b \in ChainOf(task.goal) : IsParent(task.at, b) /\ ~CanConnect(batch.tx, b) /\ TxnAbort
    BY <1>1, <1>4, <2>1, AbortHeavy
  <2>2. CASE \E b \in ChainOf(task.goal) : task' = [task EXCEPT !.at = b] /\ UNCHANGED <<memVars, pc>>
    BY <1>1, <1>2, <2>2 DEF Switching, TaskType
  <2> QED BY <1>4, <2>1, <2>2 DEF ConnectBlock
<1>5. CASE TxnCommit /\ task.goal = task.new
  <2>1. pindexBest' = task.new /\ Return(task.caller, task.new) /\ mapBlockIndex' = mapBlockIndex
    BY <1>5 DEF TxnCommit
  <2>2. /\ task'.new = task.new
        /\ \/ pc' = "accepted" /\ task.caller = "block"
           \/ pc' = "checkpoint" /\ task.caller # "block"
    BY SMTT(20), <2>1, Returned
  <2>3. ASSUME hashSyncCheckpoint' = Genesis, faults' = 0, task.caller = "block"
        PROVE  Heaviest(mapBlockIndex)'
    <3>1. Heaviest(mapBlockIndex \ {task.new})
      BY <1>1, <2>3 DEF Heavy, syncVars
    <3>2. Trust[pindexBest] <= Trust[task.new]
      <4>1. Trust[pindexBest] < Trust[task.new]
        BY <1>1, <1>5, <2>3 DEF Switching
      <4>2. Trust[pindexBest] \in Nat /\ Trust[task.new] \in Nat
        BY <1>1, ChainAssumption DEF Stored
      <4> QED BY SMTT(20), <4>1, <4>2
    <3> QED BY <1>1, <2>1, <3>1, <3>2, HeavierTip
  <2> QED BY <1>1, <2>2, <2>3 DEF Heavy
<1>6. CASE TxnCommit /\ task.goal # task.new
  <2>1. pc' = "switch" /\ task'.new = task.new /\ task'.caller = task.caller /\ task'.later = TRUE
    <3>1. PICK b : BeginTxn(task.new, b, task.goal, TRUE, task.caller, batch.tx, batch.next)
      BY ZenonT(30), <1>6 DEF TxnCommit
    <3> QED BY ZenonT(30), <3>1, TxnBegun
  <2>2. UNCHANGED <<pindexBest, mapBlockIndex>>
    BY <1>6 DEF TxnCommit
  <2> QED BY <1>1, <2>1, <2>2 DEF Heavy, Heaviest, syncVars
<1> QED BY <1>3, <1>4, <1>5, <1>6

\* A checkpoint moves the tip: the block above the genesis block is remembered.
LEMMA EnterHeavy ==
    ASSUME IInv, Heavy, NEW c \in mapBlockIndex, NEW caller \in {"pending", "message"},
           pc \in {"idle", "accepted"}, ValidateSyncCheckpoint(c), EnterMainChain(c, caller),
           UNCHANGED <<memVars, hashSyncCheckpoint, faults>>
    PROVE  Heavy'
<1>1. c # Genesis
  BY TreeAssumption DEF ValidateSyncCheckpoint
<1>2. CASE Return(caller, c)
  <2>1. pc' = "checkpoint" /\ task'.new = c
    BY <1>2 DEF Return, NoTask
  <2> QED BY <1>1, <2>1 DEF Heavy
<1>3. CASE SetBestChain(c, caller)
  <2>1. pc' = "switch" /\ task'.new = c /\ task'.caller = caller
    BY ZenonT(30), <1>3, TxnBegun DEF SetBestChain
  <2> QED BY <1>1, <2>1 DEF Heavy, Heaviest, memVars
<1> QED BY <1>2, <1>3 DEF EnterMainChain

\* AcceptBlock, and the choice that follows it.
LEMMA AcceptHeavy ==
    ASSUME IInv, Heavy, NewBest \/ \E b \in Blocks \ {Genesis} : AcceptBlock(b)
    PROVE  Heavy'
<1>1. CASE NewBest
  <2>1. /\ pc = "indexed" /\ Stored /\ task.new \in mapBlockIndex
        /\ UNCHANGED <<memVars, syncVars, faults>>
    BY <1>1 DEF IInv, Waiting, NewBest
  <2>2. CASE SetBestChain(task.new, "block")
    <3>1. pc' = "switch" /\ task'.new = task.new /\ task'.caller = "block"
      BY ZenonT(30), <2>2, TxnBegun DEF SetBestChain
    <3> QED BY <2>1, <3>1 DEF Heavy, Heaviest, memVars, syncVars
  <2>3. CASE Return("block", task.new) /\ ~(Trust[task.new] > Trust[pindexBest])
    <3>1. pc' = "accepted"
      BY <2>3 DEF Return
    <3>2. Trust[task.new] <= Trust[pindexBest]
      <4>1. Trust[task.new] \in Nat /\ Trust[pindexBest] \in Nat
        BY ZenonT(30), <2>1, ChainAssumption DEF Stored
      <4> QED BY SMTT(20), <2>3, <4>1
    <3> QED BY <2>1, <3>1, <3>2 DEF Heavy, Heaviest, memVars, syncVars
  <2> QED BY <1>1, <2>2, <2>3 DEF NewBest
<1>2. ASSUME NEW b \in Blocks \ {Genesis}, AcceptBlock(b)
      PROVE  Heavy'
  <2>1. /\ pc = "idle" /\ pc' = "indexed" /\ task'.new = b /\ mapBlockIndex' = mapBlockIndex \cup {b}
        /\ UNCHANGED <<pindexBest, syncVars, faults>>
    BY ZenonT(30), <1>2 DEF AcceptBlock, NoTask
  <2> QED BY <2>1 DEF Heavy, Heaviest, syncVars
<1> QED BY <1>1, <1>2

\* Every step.
LEMMA HeavyStep ==
    ASSUME IInv, Heavy, [Next /\ ~LateAbort]_vars
    PROVE  Heavy'
<1>1. faults \in Nat
  BY SMTT(20) DEF IInv, Bounded
<1>2. CASE UNCHANGED vars
  BY <1>2 DEF vars, memVars, syncVars, Heavy, Heaviest
<1>3. CASE CommitFails \/ SyncCommitFails \/ Crash
  <2>1. faults' # 0
    BY SMTT(20), <1>1, <1>3 DEF CommitFails, SyncCommitFails, Crash
  <2>2. CASE SyncCommitFails \/ Crash
    <3>1. pc' = "idle"
      BY <2>2 DEF SyncCommitFails, Crash, Idle
    <3> QED BY <2>1, <3>1 DEF Heavy
  <2>3. CASE CommitFails
    <3>1. pc = "switch" /\ TxnAbort
      BY <2>3 DEF CommitFails
    <3>2. CASE Return(task.caller, task.new)
      <4>1. task'.new = task.new /\ (pc' = "accepted" \/ (pc' = "checkpoint" /\ task.caller # "block"))
        BY SMTT(20), <3>2, Returned
      <4> QED BY <2>1, <3>1, <4>1 DEF Heavy
    <3>3. CASE Idle
      <4>1. pc' = "idle"
        BY <3>3 DEF Idle
      <4> QED BY <2>1, <4>1 DEF Heavy
    <3> QED BY <3>1, <3>2, <3>3 DEF TxnAbort
  <2> QED BY <1>3, <2>2, <2>3
<1>4. CASE WriteSyncCheckpoint
  <2>1. pc' = "idle" /\ hashSyncCheckpoint' # Genesis
    BY <1>4 DEF WriteSyncCheckpoint, Idle, Heavy
  <2> QED BY <2>1 DEF Heavy
<1>5. CASE AcceptPendingSyncCheckpoint
  <2>1. pc = "accepted" /\ UNCHANGED <<memVars, hashSyncCheckpoint, faults>>
    BY <1>5 DEF AcceptPendingSyncCheckpoint
  <2>2. CASE Idle
    BY <2>1, <2>2 DEF Idle, Heavy, Heaviest, memVars
  <2>3. CASE /\ hashPendingCheckpoint \in mapBlockIndex
             /\ ValidateSyncCheckpoint(hashPendingCheckpoint)
             /\ EnterMainChain(hashPendingCheckpoint, "pending")
    BY <2>1, <2>3, EnterHeavy
  <2> QED BY <1>5, <2>2, <2>3 DEF AcceptPendingSyncCheckpoint
<1>6. ASSUME NEW c \in Signed, ProcessSyncCheckpoint(c)
      PROVE  Heavy'
  <2>1. pc = "idle" /\ UNCHANGED <<memVars, hashSyncCheckpoint, faults>>
    BY <1>6 DEF ProcessSyncCheckpoint
  <2>2. CASE UNCHANGED <<pc, task, batch>>
    BY <2>1, <2>2 DEF Heavy, Heaviest, memVars
  <2>3. CASE c \in mapBlockIndex /\ ValidateSyncCheckpoint(c) /\ EnterMainChain(c, "message")
    BY <2>1, <2>3, EnterHeavy
  <2> QED BY <1>6, <2>2, <2>3 DEF ProcessSyncCheckpoint
<1>7. CASE ~LateAbort /\ (DisconnectBlock \/ ConnectBlock \/ TxnCommit)
  BY <1>7, SwitchHeavy
<1>8. CASE NewBest \/ \E b \in Blocks \ {Genesis} : AcceptBlock(b)
  BY <1>8, AcceptHeavy
<1> QED BY ZenonT(30), <1>2, <1>3, <1>4, <1>5, <1>6, <1>7, <1>8 DEF Next

(***************************************************************************)
(* As long as no checkpoint was accepted and nothing failed, the node is on *)
(* a valid chain and knows of no valid one with more trust, whatever blocks *)
(* came, in whatever order, and however many of them did not connect.       *)
(***************************************************************************)
THEOREM BestOfValid == NoLateAbort => []MostTrust
<1>1. Init => Heavy
  <2> SUFFICES ASSUME Init PROVE Heavy
    OBVIOUS
  <2>1. pc = "idle" /\ mapBlockIndex = {Genesis} /\ pindexBest = Genesis
    BY DEF Init
  <2>2. Trust[Genesis] \in Nat
    BY TreeAssumption, ChainAssumption
  <2> QED BY SMTT(20), <2>1, <2>2 DEF Heavy, Heaviest
<1>2. IInv /\ Heavy /\ [Next /\ ~LateAbort]_vars => Heavy'
  BY HeavyStep
<1>3. IInv /\ Heavy => MostTrust
  <2> SUFFICES ASSUME IInv, Heavy, pc = "idle", hashSyncCheckpoint = Genesis, faults = 0
               PROVE  Valid(pindexBest) /\ \A b \in mapBlockIndex : Valid(b) => Trust[b] <= Trust[pindexBest]
    BY DEF MostTrust
  <2>1. Valid(pindexBest)
    <3>1. pindexBest = dbBest /\ dbBest \in Blocks /\ IsIndex(dbTx) /\ Matches(dbTx, dbBest)
      BY DEF IInv, Stored, Waiting
    <3> QED BY <3>1, MatchesValid
  <2> QED BY <2>1 DEF Heavy, Heaviest
<1> QED BY <1>1, <1>2, <1>3, Invariance, PTL DEF NoLateAbort
=============================================================================
