--------------------------- MODULE LevelDBLemmas ----------------------------
(****************************************************************************)
(* What the recursive functions of LevelDB compute, what a lookup depends   *)
(* on, what memtables, logs and tables hold, and what the steps do to the   *)
(* files, for any keys, levels, limits, writers and batches.                *)
(****************************************************************************)
EXTENDS LevelDBInv, WellFoundedInduction, TLAPS

\* The prover a leaf is given to unless it names one.
USE ZenonT(10)

-----------------------------------------------------------------------------
(* Numbers.                                                                 *)

\* A nonempty set of naturals has a least element, and a greatest one if it is bounded.
LEMMA LeastNat ==
    ASSUME NEW S \in SUBSET Nat, S # {}
    PROVE  \E x \in S : \A y \in S : x <= y
<1>1. PICK x \in S : \A y \in S : ~(<<y, x>> \in OpToRel(<, Nat))
  BY WFMin, NatLessThanWellFounded
<1>2. \A y \in S : ~(y < x)
  BY <1>1 DEF OpToRel
<1> QED BY SMTT(20), <1>2

LEMMA MinOf ==
    ASSUME NEW S \in SUBSET Nat, S # {}
    PROVE  Min(S) \in S /\ \A y \in S : Min(S) <= y
BY LeastNat DEF Min

LEMMA MaxOf ==
    ASSUME NEW b \in Nat, NEW S \in SUBSET (0..b), S # {}
    PROVE  Max(S) \in S /\ \A y \in S : y <= Max(S)
<1> DEFINE U == {u \in Nat : \A y \in S : y <= u}
<1>1. U \in SUBSET Nat /\ b \in U
  BY SMTT(20)
<1>2. PICK u \in U : \A v \in U : u <= v
  BY <1>1, LeastNat
<1>3. u \in S
  <2> SUFFICES ASSUME u \notin S PROVE FALSE
    OBVIOUS
  <2>1. PICK y \in S : y \in 0..b
    BY ZenonT(10)
  <2>2. u - 1 \in Nat /\ \A z \in S : z <= u - 1
    BY SMTT(20), <1>2, <2>1
  <2> QED BY SMTT(20), <1>2, <2>2
<1>4. \E x \in S : \A y \in S : x >= y
  BY <1>2, <1>3
<1> QED BY <1>4 DEF Max

\* What holds of 0 and goes over to the next number holds of all numbers up to n.
LEMMA CountUp ==
    ASSUME NEW n \in Nat, NEW S, 0 \in S, \A i \in 0..(n - 1) : i \in S => i + 1 \in S
    PROVE  0..n \subseteq S
<1> SUFFICES ASSUME (0..n) \ S # {} PROVE FALSE
  OBVIOUS
<1> DEFINE U == (0..n) \ S
<1>1. U \in SUBSET Nat /\ U # {}
  BY SMTT(20)
<1> HIDE DEF U
<1>2. PICK x \in U : \A y \in U : x <= y
  BY <1>1, LeastNat
<1>3. x \in 0..n /\ x # 0 /\ x - 1 \in 0..(n - 1) /\ x - 1 \in S
  BY SMTT(20), <1>2 DEF U
<1>4. x \in S
  BY SMTT(20), <1>3
<1> QED BY <1>2, <1>4 DEF U

\* A finite set of naturals is bounded.
LEMMA FiniteBounded ==
    ASSUME NEW S \in SUBSET Nat, IsFiniteSet(S)
    PROVE  \E b \in Nat : S \subseteq 0..b
<1>1. PICK q \in Seq(S) : \A s \in S : \E n \in 1..Len(q) : q[n] = s
  BY DEF IsFiniteSet
<1>2. Len(q) \in Nat /\ \A i \in 1..Len(q) : q[i] \in Nat
  <2>1. Len(q) \in Nat /\ \A i \in 1..Len(q) : q[i] \in S
    BY SMTT(20), q \in Seq(S)
  <2> QED BY <2>1
<1> DEFINE C == {n \in 0..Len(q) : \E b \in Nat : \A i \in 1..n : q[i] <= b}
<1>3. 0 \in C
  <2>1. 0 \in Nat /\ \A i \in 1..0 : q[i] <= 0
    BY SMTT(20)
  <2> QED BY SMTT(20), <1>2, <2>1
<1>4. ASSUME NEW n \in 0..(Len(q) - 1), n \in C PROVE n + 1 \in C
  <2>1. PICK b \in Nat : \A i \in 1..n : q[i] <= b
    BY <1>4
  <2>2. n + 1 \in 0..Len(q) /\ q[n + 1] \in Nat
    BY SMTT(20), <1>2
  <2>3. b + q[n + 1] \in Nat /\ \A i \in 1..(n + 1) : q[i] <= b + q[n + 1]
    BY SMTT(20), <1>2, <2>1, <2>2
  <2> QED BY <2>2, <2>3
<1>5. Len(q) \in C
  <2> HIDE DEF C
  <2>1. 0..Len(q) \subseteq C
    BY <1>2, <1>3, <1>4, CountUp
  <2> QED BY SMTT(20), <1>2, <2>1
<1>6. PICK b \in Nat : \A i \in 1..Len(q) : q[i] <= b
  BY <1>5
<1>7. S \subseteq 0..b
  BY SMTT(20), <1>1, <1>2, <1>6
<1> QED BY <1>7

LEMMA EmptyCardinality == Cardinality({}) = 0
<1> DEFINE Count(g) == [T \in SUBSET {} |-> IF T = {} THEN 0 ELSE 1 + g[T \ {CHOOSE x : x \in T}]]
           CS == CHOOSE g : g = Count(g)
           zero == [T \in SUBSET {} |-> 0]
<1>1. zero = Count(zero)
  OBVIOUS
<1>2. CS = Count(CS)
  <2> HIDE DEF Count, zero
  <2> QED BY <1>1
<1>3. CS[{}] = 0
  <2> HIDE DEF CS
  <2> QED BY <1>2
<1> QED BY <1>3 DEF Cardinality

-----------------------------------------------------------------------------
(* The recursive functions of the model are what their definitions say.     *)

LEMMA RecoverLogFileUnfolds ==
    ASSUME NEW records, Len(records) \in Nat
    PROVE  \E upto :
             /\ upto[0] = [mem |-> {}, tables |-> <<>>]
             /\ \A i \in 1..Len(records) : upto[i] = ReadRecord(upto[i - 1], records[i])
             /\ RecoverLogFile(records) = EndOf(upto[Len(records)])
<1> DEFINE n == Len(records)
           F(g, m) == [i \in 0..m |-> IF i = 0 THEN [mem |-> {}, tables |-> <<>>]
                                      ELSE ReadRecord(g[i - 1], records[i])]
           upto == CHOOSE g : g = F(g, n)
           S == {m \in 0..n : \E g : g = F(g, m)}
<1>1. RecoverLogFile(records) = EndOf(upto[n])
  BY DEF RecoverLogFile, ReadRecord, EndOf
<1>2. 0 \in S
  <2> DEFINE g == [i \in 0..0 |-> [mem |-> {}, tables |-> <<>>]]
  <2>1. g = F(g, 0)
    BY SMTT(20)
  <2> HIDE DEF F, g
  <2> QED BY SMTT(20), <2>1
<1>3. ASSUME NEW m \in 0..(n - 1), m \in S PROVE m + 1 \in S
  <2>1. PICK g : g = F(g, m)
    BY <1>3
  <2> DEFINE h == [i \in 0..(m + 1) |-> IF i = m + 1 THEN ReadRecord(g[m], records[m + 1])
                                        ELSE g[i]]
  <2>2. ASSUME NEW i \in 0..(m + 1) PROVE h[i] = F(h, m + 1)[i]
    <3>1. CASE i = m + 1
      BY SMTT(20), <3>1
    <3>2. CASE i # m + 1
      <4>1. i \in 0..m /\ h[i] = g[i]
        BY SMTT(20), <3>2
      <4>2. g[i] = F(g, m)[i]
        BY <2>1
      <4>3. i # 0 => i - 1 \in 0..m /\ h[i - 1] = g[i - 1]
        BY SMTT(20), <3>2
      <4> QED BY <4>1, <4>2, <4>3
    <3> QED BY <3>1, <3>2
  <2>3. h = F(h, m + 1)
    BY <2>2
  <2>4. m + 1 \in 0..n
    BY SMTT(20)
  <2> HIDE DEF h, F
  <2> QED BY <2>3, <2>4
<1>4. n \in S
  <2> HIDE DEF S
  <2>1. 0..n \subseteq S
    BY <1>2, <1>3, CountUp
  <2> QED BY SMTT(20), <2>1
<1>5. upto = F(upto, n)
  <2> HIDE DEF F
  <2> QED BY <1>4, ZenonT(20)
<1> HIDE DEF upto, S
<1>6. \A i \in 0..n : upto[i] = IF i = 0 THEN [mem |-> {}, tables |-> <<>>]
                                ELSE ReadRecord(upto[i - 1], records[i])
  BY <1>5
<1>7. 0 \in 0..n /\ \A i \in 1..n : i \in 0..n /\ i # 0
  BY SMTT(20)
<1>8. /\ upto[0] = [mem |-> {}, tables |-> <<>>]
      /\ \A i \in 1..n : upto[i] = ReadRecord(upto[i - 1], records[i])
  BY <1>6, <1>7
<1> QED BY <1>1, <1>8

LEMMA RecoverLogsUnfolds ==
    ASSUME NEW next_file, NEW b, b = Max({0} \cup Logs), b \in Nat
    PROVE  \E upto : ReadsLogs(upto, next_file, b)
<1> DEFINE F(g, m) == [n \in 0..m |-> IF n = 0 THEN [tables |-> {}, next |-> next_file]
                                      ELSE ReadNumber(g[n - 1], n)]
           upto == CHOOSE g : g = F(g, b)
           S == {m \in 0..b : \E g : g = F(g, m)}
<1>1. RecoverLogs(next_file) = upto[b]
  BY DEF RecoverLogs, ReadLog, ReadNumber
<1>2. 0 \in S
  <2> DEFINE g == [i \in 0..0 |-> [tables |-> {}, next |-> next_file]]
  <2>1. g = F(g, 0)
    BY SMTT(20)
  <2> HIDE DEF F, g
  <2> QED BY SMTT(20), <2>1
<1>3. ASSUME NEW m \in 0..(b - 1), m \in S PROVE m + 1 \in S
  <2>1. PICK g : g = F(g, m)
    BY <1>3
  <2> DEFINE h == [i \in 0..(m + 1) |-> IF i = m + 1 THEN ReadNumber(g[m], i) ELSE g[i]]
  <2>2. ASSUME NEW i \in 0..(m + 1) PROVE h[i] = F(h, m + 1)[i]
    <3>1. CASE i = m + 1
      BY SMTT(20), <3>1
    <3>2. CASE i # m + 1
      <4>1. i \in 0..m /\ h[i] = g[i]
        BY SMTT(20), <3>2
      <4>2. g[i] = F(g, m)[i]
        BY <2>1
      <4>3. i # 0 => i - 1 \in 0..m /\ h[i - 1] = g[i - 1]
        BY SMTT(20), <3>2
      <4> QED BY <4>1, <4>2, <4>3
    <3> QED BY <3>1, <3>2
  <2>3. h = F(h, m + 1)
    BY <2>2
  <2>4. m + 1 \in 0..b
    BY SMTT(20)
  <2> HIDE DEF h, F
  <2> QED BY <2>3, <2>4
<1>4. b \in S
  <2> HIDE DEF S
  <2>1. 0..b \subseteq S
    BY <1>2, <1>3, CountUp
  <2> QED BY SMTT(20), <2>1
<1>5. upto = F(upto, b)
  <2> HIDE DEF F
  <2> QED BY <1>4, ZenonT(20)
<1> HIDE DEF upto, S
<1>6. \A n \in 0..b : upto[n] = IF n = 0 THEN [tables |-> {}, next |-> next_file]
                                ELSE ReadNumber(upto[n - 1], n)
  BY <1>5
<1>7. 0 \in 0..b /\ \A i \in 1..b : i \in 0..b /\ i # 0
  BY SMTT(20)
<1>8. /\ upto[0] = [tables |-> {}, next |-> next_file]
      /\ \A n \in 1..b : upto[n] = ReadNumber(upto[n - 1], n)
  BY <1>6, <1>7
<1>9. ReadsLogs(upto, next_file, b)
  BY <1>1, <1>8 DEF ReadsLogs
<1> QED BY <1>9

LEMMA OpsUnfold ==
    ASSUME NEW n \in Nat
    PROVE  \E upto :
             /\ upto[0] = <<>>
             /\ \A i \in 1..n : upto[i] = upto[i - 1] \o call[writers[i]]
             /\ Ops(n) = upto[n]
<1> DEFINE Then(ops, i) == ops \o call[writers[i]]
           F(g, m) == [i \in 0..m |-> IF i = 0 THEN <<>> ELSE Then(g[i - 1], i)]
           upto == CHOOSE g : g = F(g, n)
           S == {m \in 0..n : \E g : g = F(g, m)}
<1>1. Ops(n) = upto[n]
  BY DEF Ops
<1> HIDE DEF Then
<1>2. 0 \in S
  <2> DEFINE g == [i \in 0..0 |-> <<>>]
  <2>1. g = F(g, 0)
    BY SMTT(20)
  <2> HIDE DEF F, g
  <2> QED BY SMTT(20), <2>1
<1>3. ASSUME NEW m \in 0..(n - 1), m \in S PROVE m + 1 \in S
  <2>1. PICK g : g = F(g, m)
    BY <1>3
  <2> DEFINE h == [i \in 0..(m + 1) |-> IF i = m + 1 THEN Then(g[m], i) ELSE g[i]]
  <2>2. ASSUME NEW i \in 0..(m + 1) PROVE h[i] = F(h, m + 1)[i]
    <3>1. CASE i = m + 1
      BY SMTT(20), <3>1
    <3>2. CASE i # m + 1
      <4>1. i \in 0..m /\ h[i] = g[i]
        BY SMTT(20), <3>2
      <4>2. g[i] = F(g, m)[i]
        BY <2>1
      <4>3. i # 0 => i - 1 \in 0..m /\ h[i - 1] = g[i - 1]
        BY SMTT(20), <3>2
      <4> QED BY <4>1, <4>2, <4>3
    <3> QED BY <3>1, <3>2
  <2>3. h = F(h, m + 1)
    BY <2>2
  <2>4. m + 1 \in 0..n
    BY SMTT(20)
  <2> HIDE DEF h, F
  <2> QED BY <2>3, <2>4
<1>4. n \in S
  <2> HIDE DEF S
  <2>1. 0..n \subseteq S
    BY <1>2, <1>3, CountUp
  <2> QED BY SMTT(20), <2>1
<1>5. upto = F(upto, n)
  <2> HIDE DEF F
  <2> QED BY <1>4, ZenonT(20)
<1> HIDE DEF upto, S
<1>6. \A i \in 0..n : upto[i] = IF i = 0 THEN <<>> ELSE Then(upto[i - 1], i)
  BY <1>5
<1>7. 0 \in 0..n /\ \A i \in 1..n : i \in 0..n /\ i # 0
  BY SMTT(20)
<1>8. upto[0] = <<>> /\ \A i \in 1..n : upto[i] = Then(upto[i - 1], i)
  BY <1>6, <1>7
<1> QED BY <1>1, <1>8, ZenonT(20) DEF Then

\* The operations of a group of writers, one writer after the other.
LEMMA OpsOf ==
    /\ Ops(0) = <<>>
    /\ \A n \in Nat : Ops(n + 1) = Ops(n) \o call[writers[n + 1]]
<1>1. Ops(0) = <<>>
  BY OpsUnfold
<1>2. ASSUME NEW n \in Nat PROVE Ops(n + 1) = Ops(n) \o call[writers[n + 1]]
  <2>8. n + 1 \in Nat
    BY SMTT(20)
  <2>1. PICK g : /\ g[0] = <<>> /\ \A i \in 1..n : g[i] = g[i - 1] \o call[writers[i]]
                 /\ Ops(n) = g[n]
    BY OpsUnfold
  <2>2. PICK h : /\ h[0] = <<>> /\ \A i \in 1..(n + 1) : h[i] = h[i - 1] \o call[writers[i]]
                 /\ Ops(n + 1) = h[n + 1]
    BY <2>8, OpsUnfold
  <2> DEFINE S == {i \in 0..n : g[i] = h[i]}
  <2>3. 0 \in S
    BY SMTT(20), <2>1, <2>2
  <2>4. ASSUME NEW i \in 0..(n - 1), i \in S PROVE i + 1 \in S
    <3>1. i + 1 \in 1..n /\ i + 1 \in 1..(n + 1) /\ i + 1 \in 0..n /\ (i + 1) - 1 = i
      BY SMTT(20)
    <3>2. g[i + 1] = g[i] \o call[writers[i + 1]] /\ h[i + 1] = h[i] \o call[writers[i + 1]]
      BY <2>1, <2>2, <3>1
    <3> QED BY <2>4, <3>1, <3>2
  <2>5. 0..n \subseteq S
    <3> HIDE DEF S
    <3> QED BY <2>3, <2>4, CountUp
  <2>6. g[n] = h[n]
    BY SMTT(20), <2>5
  <2>7. n + 1 \in 1..(n + 1) /\ (n + 1) - 1 = n
    BY SMTT(20)
  <2> QED BY <2>1, <2>2, <2>6, <2>7
<1> QED BY <1>1, <1>2

\* The tables made from one log: none is empty.
LEMMA RecoveredTables ==
    ASSUME NEW records \in Seq(Block)
    PROVE  RecoverLogFile(records) \in Seq(Block \ {{}})
<1>1. Len(records) \in Nat
  BY SMTT(20)
<1>2. PICK upto : /\ upto[0] = [mem |-> {}, tables |-> <<>>]
                  /\ \A i \in 1..Len(records) : upto[i] = ReadRecord(upto[i - 1], records[i])
                  /\ RecoverLogFile(records) = EndOf(upto[Len(records)])
  BY <1>1, RecoverLogFileUnfolds
<1> DEFINE A == [mem : Block, tables : Seq(Block \ {{}})]
           S == {i \in 0..Len(records) : upto[i] \in A}
<1>3. 0 \in S
  <2>1. {} \in Block /\ <<>> \in Seq(Block \ {{}})
    BY SMTT(20) DEF Block
  <2>2. [mem |-> {}, tables |-> <<>>] \in A
    BY <2>1
  <2> HIDE DEF A
  <2> QED BY SMTT(20), <1>1, <1>2, <2>2
<1>4. ASSUME NEW i \in 0..(Len(records) - 1), i \in S PROVE i + 1 \in S
  <2>1. i + 1 \in 1..Len(records) /\ (i + 1) - 1 = i /\ records[i + 1] \in Block
    BY SMTT(20)
  <2>2. upto[i + 1] = ReadRecord(upto[i], records[i + 1])
    BY <1>2, <2>1
  <2>3. PICK acc \in A : acc = upto[i]
    BY <1>4
  <2>4. PICK r \in Block : r = records[i + 1]
    BY <2>1
  <2>5. acc.mem \cup r \in Block
    BY <2>3, <2>4 DEF Block
  <2>6. CASE Cardinality(acc.mem \cup r) > WriteBuffer
    <3>1. acc.mem \cup r # {}
      <4>1. Cardinality({}) = 0
        BY EmptyCardinality
      <4>2. WriteBuffer \in Nat
        BY LevelDBAssumption
      <4>3. acc.mem \cup r = {} => Cardinality(acc.mem \cup r) = 0
        BY <4>1
      <4> QED BY SMTT(20), <2>6, <4>2, <4>3
    <3>2. Append(acc.tables, acc.mem \cup r) \in Seq(Block \ {{}})
      BY SMTT(20), <2>3, <2>5, <3>1
    <3>3. ReadRecord(acc, r) \in A
      BY <2>6, <3>2 DEF ReadRecord, Block
    <3> QED BY SMTT(20), <2>1, <2>2, <2>3, <2>4, <3>3
  <2>7. CASE ~(Cardinality(acc.mem \cup r) > WriteBuffer)
    <3>1. ReadRecord(acc, r) \in A
      BY <2>3, <2>5, <2>7 DEF ReadRecord
    <3> QED BY SMTT(20), <2>1, <2>2, <2>3, <2>4, <3>1
  <2> QED BY <2>6, <2>7
<1>5. 0..Len(records) \subseteq S
  <2> HIDE DEF S
  <2> QED BY <1>1, <1>3, <1>4, CountUp
<1>6. PICK end \in A : end = upto[Len(records)]
  BY SMTT(20), <1>1, <1>5
<1>7. EndOf(end) \in Seq(Block \ {{}})
  BY SMTT(20), <1>6 DEF EndOf
<1> QED BY <1>2, <1>6, <1>7

\* The tables made from all logs have new numbers, and so does the next log.
LEMMA RecoveredLogs ==
    ASSUME NEW next_file \in Nat, NEW b \in Nat, Logs \subseteq 1..b,
           \A n \in Logs : disk.log[n] \in Seq(Block)
    PROVE  /\ RecoverLogs(next_file).next \in Nat
           /\ next_file <= RecoverLogs(next_file).next
           /\ \A n \in Logs : n < RecoverLogs(next_file).next
           /\ \A t \in RecoverLogs(next_file).tables :
                 /\ t[1] \in next_file..(RecoverLogs(next_file).next - 1)
                 /\ t[2] \in Block \ {{}}
<1>1. {0} \cup Logs \in SUBSET (0..b) /\ {0} \cup Logs # {}
  BY SMTT(20)
<1>2. PICK last : last = Max({0} \cup Logs)
  OBVIOUS
<1>3. last \in Nat /\ \A n \in Logs : n \in 1..last
  <2>1. last \in {0} \cup Logs /\ \A n \in {0} \cup Logs : n <= last
    BY <1>1, <1>2, MaxOf
  <2> QED BY SMTT(20), <1>1, <2>1
<1>41. PICK upto : ReadsLogs(upto, next_file, last)
  BY <1>2, <1>3, RecoverLogsUnfolds
<1>4. /\ upto[0] = [tables |-> {}, next |-> next_file]
      /\ \A n \in 1..last : upto[n] = ReadNumber(upto[n - 1], n)
      /\ RecoverLogs(next_file) = upto[last]
  BY <1>41 DEF ReadsLogs
<1> DEFINE Fine(acc, m) ==
              /\ acc.next \in Nat /\ next_file <= acc.next
              /\ \A n \in Logs : n <= m => n < acc.next
              /\ \A t \in acc.tables : t[1] \in next_file..(acc.next - 1) /\ t[2] \in Block \ {{}}
           S == {m \in 0..last : Fine(upto[m], m)}
<1>5. 0 \in S
  <2>1. upto[0].next = next_file /\ upto[0].tables = {}
    BY SMTT(20), <1>4
  <2>2. \A n \in Logs : ~(n <= 0)
    BY SMTT(20), <1>1
  <2> QED BY SMTT(20), <1>3, <2>1, <2>2
<1>6. ASSUME NEW m \in 0..(last - 1), m \in S PROVE m + 1 \in S
  <2>1. m \in Nat /\ m + 1 \in 1..last /\ m + 1 \in 0..last /\ (m + 1) - 1 = m
    BY SMTT(20), <1>3
  <2>2. PICK acc : acc = upto[m]
    OBVIOUS
  <2>3. Fine(acc, m)
    BY <1>6, <2>2
  <2>4. CASE m + 1 \notin Logs
    <3>1. upto[m + 1] = acc
      BY <1>4, <2>1, <2>2, <2>4 DEF ReadNumber
    <3>2. Fine(acc, m + 1)
      <4>1. \A n \in Logs : n <= m + 1 => n <= m
        BY SMTT(20), <1>3, <2>1, <2>4
      <4> QED BY <2>3, <4>1
    <3> QED BY <2>1, <3>1, <3>2
  <2>5. CASE m + 1 \in Logs
    <3>1. PICK made \in Seq(Block \ {{}}) : made = RecoverLogFile(disk.log[m + 1])
      BY <2>5, RecoveredTables
    <3>2. upto[m + 1] =
             [tables |-> acc.tables \cup {<<acc.next + i - 1, made[i]>> : i \in 1..Len(made)},
              next |-> MarkFileNumberUsed(acc.next + Len(made), m + 1)]
      <4>1. upto[m + 1] = ReadNumber(acc, m + 1)
        BY <1>4, <2>1, <2>2
      <4>2. upto[m + 1] = ReadLog(acc, m + 1)
        BY <2>5, <4>1 DEF ReadNumber
      <4> QED BY <3>1, <4>2 DEF ReadLog
    <3>3. PICK k \in Nat : k = MarkFileNumberUsed(acc.next + Len(made), m + 1)
      BY SMTT(20), <2>1, <2>3 DEF MarkFileNumberUsed
    <3>4. acc.next + Len(made) <= k /\ m + 1 < k
      BY SMTT(20), <2>1, <2>3, <3>3 DEF MarkFileNumberUsed
    <3>5. upto[m + 1].next = k
      BY SMTT(20), <3>2, <3>3
    <3>6. ASSUME NEW t \in upto[m + 1].tables
          PROVE  t[1] \in next_file..(k - 1) /\ t[2] \in Block \ {{}}
      <4>1. CASE t \in acc.tables
        BY SMTT(20), <2>3, <3>1, <3>3, <3>4, <4>1
      <4>2. CASE t \notin acc.tables
        <5>1. PICK i \in 1..Len(made) : t = <<acc.next + i - 1, made[i]>>
          BY SMTT(20), <3>2, <4>2
        <5>2. made[i] \in Block \ {{}}
          BY SMTT(20), <3>1, <5>1
        <5>3. t[1] = acc.next + i - 1 /\ t[2] = made[i]
          BY <5>1
        <5>4. acc.next + i - 1 \in next_file..(k - 1)
          BY SMTT(20), <2>3, <3>1, <3>3, <3>4, <5>1
        <5> QED BY <5>2, <5>3, <5>4
      <4> QED BY <4>1, <4>2
    <3>7. ASSUME NEW n \in Logs, n <= m + 1 PROVE n < k
      <4>1. n \in Nat
        BY SMTT(20), <1>3
      <4> QED BY SMTT(20), <2>1, <3>3, <3>4, <3>7, <4>1
    <3>8. k \in Nat /\ next_file <= k
      BY SMTT(20), <2>3, <3>1, <3>3, <3>4
    <3>9. Fine(upto[m + 1], m + 1)
      BY <3>5, <3>6, <3>7, <3>8
    <3> HIDE DEF Fine
    <3> QED BY <2>1, <3>9
  <2> QED BY <2>4, <2>5
<1>7. Fine(upto[last], last)
  <2>1. 0..last \subseteq S
    <3> HIDE DEF S
    <3> QED BY <1>3, <1>5, <1>6, CountUp
  <2> HIDE DEF Fine
  <2> QED BY SMTT(20), <1>3, <2>1
<1>8. \A n \in Logs : n <= last
  BY SMTT(20), <1>3
<1> QED BY <1>4, <1>7, <1>8

-----------------------------------------------------------------------------
(* A lookup depends on the tables of its version only.                      *)

LEMMA FirstLevel == 0 \in Levels
BY SMTT(20), VersionSetAssumption DEF Levels

LEMMA VersionGetSame ==
    ASSUME NEW v, NEW next \in Nat, Below(v, next), NEW T, NEW U,
           \A n \in FilesOf(v) : T[n] = U[n], NEW k, NEW seq
    PROVE  VersionGet(v, T, k, seq) = VersionGet(v, U, k, seq)
<1> DEFINE Hit(t, f) == InFile(f, k) /\ Visible(t[f.number], k, seq) # {}
           hits0(t) == {f \in v[0] : Hit(t, f)}
           newest(t) == CHOOSE f \in hits0(t) : \A g \in hits0(t) : g.number <= f.number
           found(l) == {f \in v[l] : InFile(f, k)}
           FindFile(l) == CHOOSE f \in found(l) : \A g \in found(l) : f.largest <= g.largest
           deeper(t) == {l \in Levels \ {0} : found(l) # {} /\ Hit(t, FindFile(l))}
           value(t, f) == Newest(Visible(t[f.number], k, seq)).val
           result(t) == IF hits0(t) # {} THEN value(t, newest(t))
                        ELSE IF deeper(t) # {} THEN value(t, FindFile(Min(deeper(t))))
                        ELSE Deleted
<1>1. \A t : VersionGet(v, t, k, seq) = result(t)
  BY DEF VersionGet
<1>2. ASSUME NEW l \in Levels, NEW f \in v[l] PROVE T[f.number] = U[f.number]
  BY SMTT(20) DEF FilesOf
<1>3. hits0(T) = hits0(U)
  BY <1>2, FirstLevel
<1>4. newest(T) = newest(U)
  BY <1>3
<1>5. ASSUME hits0(T) # {} PROVE newest(T) \in v[0]
  <2> DEFINE H == hits0(T)
             N == {f.number : f \in H}
  <2>1. N \in SUBSET (0..next) /\ N # {}
    BY SMTT(20), <1>5, FirstLevel DEF Below, Named
  <2>2. PICK n \in N : \A m \in N : m <= n
    <3> HIDE DEF N
    <3> QED BY <2>1, MaxOf
  <2>3. \E f \in H : \A g \in H : g.number <= f.number
    BY <2>2
  <2>4. newest(T) \in H
    <3> HIDE DEF hits0
    <3> QED BY <2>3
  <2> QED BY <2>4
<1>6. ASSUME NEW l \in Levels, found(l) # {} PROVE FindFile(l) \in v[l]
  <2> DEFINE F == found(l)
             N == {f.largest : f \in F}
  <2>1. N \in SUBSET Nat /\ N # {}
    BY <1>6, VersionSetAssumption DEF Below, Named
  <2>2. PICK n \in N : \A m \in N : n <= m
    <3> HIDE DEF N
    <3> QED BY <2>1, LeastNat
  <2>3. \E f \in F : \A g \in F : f.largest <= g.largest
    BY <2>2
  <2>4. FindFile(l) \in F
    <3> HIDE DEF found
    <3> QED BY <2>3
  <2> QED BY <2>4
<1> HIDE DEF newest, FindFile
<1>7. deeper(T) = deeper(U)
  <2> HIDE DEF found
  <2> QED BY <1>2, <1>6
<1>8. deeper(T) # {} => Min(deeper(T)) \in Levels /\ found(Min(deeper(T))) # {}
  <2>1. deeper(T) \in SUBSET Nat
    BY SMTT(20) DEF Levels
  <2>2. deeper(T) # {} => Min(deeper(T)) \in deeper(T)
    <3> HIDE DEF deeper
    <3> QED BY <2>1, MinOf
  <2> QED BY <2>2
<1>9. CASE hits0(T) # {}
  <2>1. value(T, newest(T)) = value(U, newest(U))
    BY <1>2, <1>4, <1>5, <1>9, FirstLevel
  <2> HIDE DEF value, hits0
  <2> QED BY <1>1, <1>3, <1>9, <2>1
<1>10. CASE hits0(T) = {} /\ deeper(T) # {}
  <2>1. value(T, FindFile(Min(deeper(T)))) = value(U, FindFile(Min(deeper(U))))
    <3> HIDE DEF deeper
    <3> QED BY <1>2, <1>6, <1>7, <1>8, <1>10
  <2> HIDE DEF value, hits0, deeper
  <2> QED BY <1>1, <1>3, <1>7, <1>10, <2>1
<1>11. CASE hits0(T) = {} /\ deeper(T) = {}
  <2> HIDE DEF value, hits0, deeper
  <2> QED BY <1>1, <1>3, <1>7, <1>11
<1> QED BY <1>9, <1>10, <1>11

-----------------------------------------------------------------------------
(* Numbers stay below a growing bound.                                      *)

LEMMA BelowMore ==
    ASSUME NEW v, NEW n \in Nat, NEW m \in Nat, n <= m, Below(v, n)
    PROVE  Below(v, m)
BY SMTT(20) DEF Below, Named

LEMMA NamedMore ==
    ASSUME NEW f, NEW n \in Nat, NEW m \in Nat, n <= m, Named(f, n)
    PROVE  Named(f, m)
BY SMTT(20) DEF Named

LEMMA ApplyBelow ==
    ASSUME NEW v, NEW edit, NEW n, Below(v, n), \A x \in edit.new_files : Named(x[2], n)
    PROVE  Below(Apply(v, edit), n)
<1> SUFFICES ASSUME NEW l \in Levels, NEW f \in Apply(v, edit)[l] PROVE Named(f, n)
  BY DEF Below
<1>1. f \in v[l] \/ \E x \in edit.new_files : f = x[2]
  BY DEF Apply
<1> QED BY <1>1 DEF Below

LEMMA FileNamed ==
    ASSUME NEW n \in Nat, NEW E \in Block \ {{}}
    PROVE  Named(FileMetaData(n, E), n + 1)
<1> DEFINE keys == {e.key : e \in E}
<1>1. keys \in SUBSET Keys /\ keys # {}
  BY DEF Block, Entry
<1>2. PICK b \in Nat : Keys \subseteq 0..b
  BY FiniteBounded, VersionSetAssumption
<1>3. FileMetaData(n, E) = [number |-> n, smallest |-> Min(keys), largest |-> Max(keys),
                            size |-> Cardinality(E)]
  BY DEF FileMetaData
<1> HIDE DEF keys
<1>4. Min(keys) \in keys
  BY <1>1, MinOf, VersionSetAssumption
<1>5. keys \in SUBSET (0..b)
  BY <1>1, <1>2
<1>6. Max(keys) \in keys
  BY <1>1, <1>5, MaxOf
<1> QED BY SMTT(20), <1>1, <1>3, <1>4, <1>6 DEF Named

LEMMA EmptyBelow ==
    ASSUME NEW n
    PROVE  Below(EmptyVersion, n)
BY DEF Below, EmptyVersion

\* The snapshot of a reader stays as it was while its tables do.
LEMMA ReaderKept ==
    ASSUME Control, Numbers, Reads, ReaderSame
    PROVE  Reads'
<1> USE DEF ReaderSame
<1> SUFFICES ASSUME reader # NoReader PROVE Reads'
  BY DEF Reads
<1>1. state = "up"
  BY DEF Control
<1>2. /\ versions.next_file \in Nat /\ versions'.next_file \in Nat
      /\ versions.next_file <= versions'.next_file
      /\ versions.last_sequence \in Nat /\ versions'.last_sequence \in Nat
      /\ versions.last_sequence <= versions'.last_sequence
  BY <1>1 DEF Numbers
<1>3. /\ reader.seq \in Nat /\ reader.seq <= versions'.last_sequence
      /\ reader.log \in 0..(versions'.next_file - 1)
      /\ reader.log = logfile' => reader.mem = mem'
  BY SMTT(20), <1>1, <1>2 DEF Reads
<1>4. Below(reader.version, versions'.next_file)
  <2>1. PICK n \in Nat : n = versions.next_file
    BY <1>2
  <2>2. PICK m \in Nat : m = versions'.next_file
    BY <1>2
  <2>3. PICK v : v = reader.version
    OBVIOUS
  <2>4. n <= m /\ Below(v, n)
    BY <1>2, <2>1, <2>2, <2>3 DEF Reads
  <2>5. Below(v, m)
    BY <2>4, BelowMore
  <2> QED BY <2>2, <2>3, <2>5
<1>5. ASSUME NEW k \in Keys
      PROVE  Get(reader.mem, reader.imm, reader.version, reader.seq, k)'
                = Get(reader.mem, reader.imm, reader.version, reader.seq, k)
  <2>1. PICK v : v = reader.version
    OBVIOUS
  <2>2. PICK seq : seq = reader.seq
    OBVIOUS
  <2>3. PICK T : T = disk.table
    OBVIOUS
  <2>4. PICK U : U = disk'.table
    OBVIOUS
  <2>5. PICK next \in Nat : next = versions.next_file
    BY <1>2
  <2>6. Below(v, next) /\ \A n \in FilesOf(v) : U[n] = T[n]
    BY <2>1, <2>3, <2>4, <2>5 DEF Reads
  <2>7. VersionGet(v, U, k, seq) = VersionGet(v, T, k, seq)
    BY SMTT(20), <2>6, VersionGetSame
  <2> QED BY <2>1, <2>2, <2>3, <2>4, <2>7 DEF Get
<1>6. ReadsSnapshot'
  BY <1>5 DEF Reads, ReadsSnapshot
<1> QED BY <1>3, <1>4, <1>6 DEF Reads

-----------------------------------------------------------------------------
(* The memtables and the queue.                                             *)

LEMMA OpsTyped ==
    ASSUME Held, NEW n \in 0..Len(writers)
    PROVE  Ops(n) \in Seq(Op)
<1> DEFINE S == {i \in 0..Len(writers) : Ops(i) \in Seq(Op)}
<1>1. Len(writers) \in Nat /\ \A i \in 1..Len(writers) : writers[i] \in Writers
  BY SMTT(20) DEF Held
<1>2. \A w \in Writers : call[w] \in Seq(Op)
  <2>1. Batches \subseteq Seq(Op)
    BY LevelDBAssumption DEF Op
  <2>2. <<>> \in Seq(Op)
    BY SMTT(20)
  <2> QED BY <2>1, <2>2 DEF Held
<1>3. 0 \in S
  <2>1. <<>> \in Seq(Op) /\ 0 \in 0..Len(writers)
    BY SMTT(20), <1>1
  <2> QED BY <2>1, OpsOf
<1>4. ASSUME NEW i \in 0..(Len(writers) - 1), i \in S PROVE i + 1 \in S
  <2>1. i \in Nat /\ i + 1 \in 1..Len(writers) /\ i + 1 \in 0..Len(writers)
    BY SMTT(20), <1>1
  <2>2. Ops(i + 1) = Ops(i) \o call[writers[i + 1]]
    BY <2>1, OpsOf
  <2>3. call[writers[i + 1]] \in Seq(Op)
    BY <1>1, <1>2, <2>1
  <2>4. PICK a \in Seq(Op) : a = Ops(i)
    BY <1>4
  <2>5. PICK c \in Seq(Op) : c = call[writers[i + 1]]
    BY <2>3
  <2>6. a \o c \in Seq(Op)
    BY SMTT(20)
  <2> QED BY <2>1, <2>2, <2>4, <2>5, <2>6
<1>5. 0..Len(writers) \subseteq S
  <2> HIDE DEF S
  <2> QED BY <1>1, <1>3, <1>4, CountUp
<1> QED BY <1>5

LEMMA EntriesTyped ==
    ASSUME NEW ops \in Seq(Op), NEW seq \in Nat
    PROVE  /\ Entries(ops, seq) \in BlockTo(seq + Len(ops))
           /\ Entries(ops, seq) \in Block
           /\ \A e \in Entries(ops, seq) : e.seq > seq
<1> SUFFICES ASSUME NEW i \in 1..Len(ops)
             PROVE  /\ [key |-> ops[i].key, seq |-> seq + i, val |-> ops[i].val]
                          \in [key : Keys, seq : 0..(seq + Len(ops)), val : Values]
                    /\ [key |-> ops[i].key, seq |-> seq + i, val |-> ops[i].val] \in Entry
                    /\ seq + i > seq
  BY SMTT(20) DEF Entries, BlockTo, Block
<1>1. ops[i] \in Op
  BY SMTT(20)
<1>2. ops[i].key \in Keys /\ ops[i].val \in Values
  BY <1>1 DEF Op
<1>3. seq + i \in 0..(seq + Len(ops)) /\ seq + i > seq
  BY SMTT(20)
<1> QED BY SMTT(20), <1>2, <1>3 DEF Entry

LEMMA LeaveTyped ==
    ASSUME Held, NEW n \in 0..Len(writers), Leave(n)
    PROVE  writers' \in Seq(Writers) /\ call' \in [Writers -> Batches \cup {<<>>}]
<1>1. writers \in Seq(Writers) /\ call \in [Writers -> Batches \cup {<<>>}] /\ Len(writers) \in Nat
  BY SMTT(20) DEF Held
<1>2. writers' = SubSeq(writers, n + 1, Len(writers))
  BY DEF Leave
<1>3. writers' \in Seq(Writers)
  BY SMTT(20), <1>1, <1>2
<1>4. call' = [w \in Writers |-> IF \E i \in 1..n : writers[i] = w THEN <<>> ELSE call[w]]
  BY DEF Leave
<1> QED BY <1>1, <1>3, <1>4

LEMMA HeldStep ==
    ASSUME FInv, Held, Numbers, Next
    PROVE  Held'
<1>1. ASSUME UNCHANGED <<mem, imm, writers, call, group>> PROVE Held'
  BY <1>1 DEF Held
<1>2. CASE NewDB \/ NewDBCurrent
  BY <1>1, <1>2 DEF NewDB, NewDBCurrent, process
<1>3. CASE Recover
  BY <1>1, <1>3, ZenonT(20) DEF Recover
<1>4. CASE SetCurrentFile \/ WriteManifest \/ WriteManifestFails
  BY <1>1, <1>4 DEF SetCurrentFile, WriteManifest, WriteManifestFails
<1>5. CASE Install
  <2>1. imm' \in {imm, {}} /\ UNCHANGED <<mem, writers, call, group>>
    BY <1>5 DEF Install
  <2> QED BY <2>1 DEF Held, Block
<1>6. CASE CompactMemTable \/ CompactMemTableFails
  BY <1>1, <1>6 DEF CompactMemTable, CompactMemTableFails
<1>7. CASE \E level \in 0..NumLevels - 2 : \E f \in versions.current[level] :
              BackgroundCompaction(level, f)
  BY <1>1, <1>7 DEF BackgroundCompaction
<1>8. CASE \E last \in Keys : CompactionOutput(last)
  BY <1>1, <1>8 DEF CompactionOutput
<1>9. CASE InstallCompactionResults \/ CompactionFails
  BY <1>1, <1>9 DEF InstallCompactionResults, CompactionFails
<1>10. CASE \E w \in Writers, b \in Batches : Write(w, b)
  <2>1. PICK w \in Writers, b \in Batches : Write(w, b)
    BY <1>10
  <2>2. /\ call' = [call EXCEPT ![w] = b] /\ writers' = Append(writers, w)
        /\ UNCHANGED <<mem, imm, group>>
    BY <2>1 DEF Write
  <2>3. call' \in [Writers -> Batches \cup {<<>>}]
    BY <2>1, <2>2 DEF Held
  <2>4. writers' \in Seq(Writers) /\ Len(writers') = Len(writers) + 1 /\ Len(writers) \in Nat
    BY SMTT(20), <2>1, <2>2 DEF Held
  <2> QED BY SMTT(20), <2>2, <2>3, <2>4 DEF Held
<1>11. CASE SwitchMemTable
  <2>1. imm' = mem /\ mem' = {} /\ UNCHANGED <<writers, call, group>>
    BY <1>11 DEF SwitchMemTable
  <2> QED BY <2>1 DEF Held, Block
<1>12. CASE MakeRoomFails
  <2>1. Leave(1) /\ writers # <<>> /\ group = 0 /\ UNCHANGED <<mem, imm, group>>
    BY <1>12 DEF MakeRoomFails, AtFront
  <2>2. 1 \in 0..Len(writers)
    BY SMTT(20), <2>1 DEF Held
  <2>3. writers' \in Seq(Writers) /\ call' \in [Writers -> Batches \cup {<<>>}]
    BY <2>1, <2>2, LeaveTyped
  <2> QED BY SMTT(20), <2>1, <2>3 DEF Held
<1>13. CASE FinishWrite
  <2>1. /\ state = "up" /\ mem' = mem \cup Entries(Ops(group), versions.last_sequence)
        /\ Leave(group) /\ group' = 0 /\ UNCHANGED imm
    BY <1>13 DEF FinishWrite, Working
  <2>2. writers' \in Seq(Writers) /\ call' \in [Writers -> Batches \cup {<<>>}]
    BY <2>1, LeaveTyped DEF Held
  <2>3. PICK ops \in Seq(Op) : ops = Ops(group)
    BY OpsTyped DEF Held
  <2>4. PICK seq \in Nat : seq = versions.last_sequence
    BY <2>1 DEF Numbers
  <2>5. mem' = mem \cup Entries(ops, seq)
    BY <2>1, <2>3, <2>4
  <2>6. mem' \in Block
    BY <2>5, EntriesTyped DEF Held, Block
  <2> QED BY SMTT(20), <2>1, <2>2, <2>6 DEF Held
<1>14. ASSUME NEW n \in 1..Len(writers), AddRecord(n) PROVE Held'
  <2>1. group' = n /\ UNCHANGED <<mem, imm, writers, call>>
    BY <1>14 DEF AddRecord
  <2> QED BY SMTT(20), <2>1 DEF Held
<1>15. ASSUME NEW n \in 1..Len(writers), AddRecordFails(n) PROVE Held'
  <2>1. Leave(n) /\ group = 0 /\ UNCHANGED <<mem, imm, group>>
    BY <1>15 DEF AddRecordFails, AtFront
  <2>2. writers' \in Seq(Writers) /\ call' \in [Writers -> Batches \cup {<<>>}]
    BY SMTT(20), <2>1, LeaveTyped DEF Held
  <2> QED BY SMTT(20), <2>1, <2>2 DEF Held
<1>16. CASE BeginGet \/ EndGet
  BY <1>1, <1>16 DEF BeginGet, EndGet
<1>17. CASE Crash
  <2>1. /\ mem' = {} /\ imm' = {} /\ writers' = <<>> /\ call' = [w \in Writers |-> <<>>]
        /\ group' = 0
    BY <1>17 DEF Crash
  <2> QED BY SMTT(20), <2>1 DEF Held, Block
<1> QED BY <1>2, <1>3, <1>4, <1>5, <1>6, <1>7, <1>8, <1>9, <1>10, <1>11, <1>12, <1>13, <1>14,
           <1>15, <1>16, <1>17 DEF Next

-----------------------------------------------------------------------------
(* The files hold what they should.                                         *)

LEMMA SeqTo ==
    ASSUME NEW b \in Nat, NEW c \in Nat, b <= c, NEW log, LogsTo(log, b)
    PROVE  LogsTo(log, c)
<1>1. BlockTo(b) \subseteq BlockTo(c)
  BY SMTT(20) DEF BlockTo
<1>2. \A s \in Seq(BlockTo(b)) : s \in Seq(BlockTo(c))
  BY SMTT(20), <1>1
<1> QED BY SMTT(20), <1>2 DEF LogsTo

LEMMA SeqBlock ==
    ASSUME NEW b \in Nat, NEW s \in Seq(BlockTo(b))
    PROVE  s \in Seq(Block) /\ \A r \in Range(s) : \A e \in r : e.seq \in 0..b
<1>1. BlockTo(b) \subseteq Block
  BY SMTT(20) DEF BlockTo, Block, Entry
<1>2. s \in Seq(Block)
  BY SMTT(20), <1>1
<1>3. \A r \in Range(s) : r \in BlockTo(b)
  BY SMTT(20) DEF Range
<1> QED BY <1>2, <1>3 DEF BlockTo

\* What replaying the logs makes.
LEMMA Replayed ==
    ASSUME Stored, disk.current \in DOMAIN disk.manifest
    PROVE  LET r == RecoverLogs(Described.next_file + 1)
               last == Max({Described.last_sequence} \cup {e.seq : e \in Logged})
           IN  /\ r.next \in Nat /\ Described.next_file < r.next
               /\ \A n \in Logs : n < r.next
               /\ \A t \in r.tables :
                     /\ t[1] \in (Described.next_file + 1)..(r.next - 1)
                     /\ t[2] \in Block \ {{}}
               /\ last \in Nat
<1>1. Described.next_file \in Nat /\ Described.last_sequence \in Nat
  BY DEF Stored, RecordsTyped, Counted, Described
<1>2. PICK b \in Nat : LogsTo(disk.log, b)
  BY DEF Stored, LogsTyped
<1>3. Logs \subseteq 1..b /\ \A n \in Logs : disk.log[n] \in Seq(BlockTo(b))
  BY <1>2 DEF LogsTo, Logs
<1>4. \A n \in Logs : disk.log[n] \in Seq(Block)
  BY <1>3, SeqBlock
<1>5. PICK next \in Nat : next = Described.next_file + 1
  BY SMTT(20), <1>1
<1>6. /\ RecoverLogs(next).next \in Nat /\ next <= RecoverLogs(next).next
      /\ \A n \in Logs : n < RecoverLogs(next).next
      /\ \A t \in RecoverLogs(next).tables :
            t[1] \in next..(RecoverLogs(next).next - 1) /\ t[2] \in Block \ {{}}
  BY <1>3, <1>4, RecoveredLogs
<1>7. \A e \in Logged : e.seq \in 0..b
  <2>1. \A n \in Logs : \A r \in Range(disk.log[n]) : \A e \in r : e.seq \in 0..b
    BY <1>3, SeqBlock
  <2> QED BY <2>1 DEF Logged
<1>8. Max({Described.last_sequence} \cup {e.seq : e \in Logged}) \in Nat
  <2> DEFINE S == {Described.last_sequence} \cup {e.seq : e \in Logged}
  <2>1. PICK l \in Nat : l = Described.last_sequence
    BY <1>1
  <2>2. PICK c \in Nat : l <= c /\ b <= c
    <3>1. l + b \in Nat /\ l <= l + b /\ b <= l + b
      BY SMTT(20), <2>1
    <3> QED BY <3>1
  <2>3. S \in SUBSET (0..c) /\ S # {}
    <3>1. l \in 0..c /\ 0..b \subseteq 0..c
      BY SMTT(20), <2>2
    <3> QED BY <1>7, <2>1, <3>1
  <2> HIDE DEF S
  <2>4. Max(S) \in S
    BY <2>3, MaxOf
  <2>5. Max(S) \in Nat
    <3>1. S \subseteq Nat
      BY SMTT(20), <2>2, <2>3
    <3> QED BY <2>4, <3>1
  <2> QED BY <2>5 DEF S
<1> QED BY SMTT(20), <1>1, <1>5, <1>6, <1>8

LEMMA RecoverStep ==
    ASSUME FInv, Stored, Recover
    PROVE  Recovered
<1> DEFINE r == ReplayedLogs
           table == [n \in DOMAIN disk.table \cup {t[1] : t \in r.tables} |->
                        IF \E t \in r.tables : t[1] = n
                        THEN (CHOOSE t \in r.tables : t[1] = n)[2] ELSE disk.table[n]]
<1>1. /\ state = "down" /\ state' = "open" /\ disk.current # 0
      /\ disk' = [disk EXCEPT !.table = table, !.log = Put(@, r.next, <<>>)]
      /\ versions' = [current |-> Described.version, log_number |-> Described.log_number,
                      next_file |-> r.next + 1, manifest |-> Described.next_file,
                      last_sequence |-> LastLogged]
      /\ logfile' = r.next
      /\ bg' = [pc |-> "write", kind |-> "open", edit |-> OpenEdit]
  BY ZenonT(30) DEF Recover, ReplayedLogs, LastLogged, OpenEdit
<1>2. disk.current \in DOMAIN disk.manifest
  BY <1>1 DEF FInv, Manifests
<1>3. /\ r.next \in Nat /\ Described.next_file < r.next
      /\ \A n \in Logs : n < r.next
      /\ \A t \in r.tables :
            t[1] \in (Described.next_file + 1)..(r.next - 1) /\ t[2] \in Block \ {{}}
      /\ LastLogged \in Nat
  BY <1>2, Replayed DEF ReplayedLogs, LastLogged
<1>4. Described.next_file \in Nat
  BY <1>2 DEF Stored, RecordsTyped, Counted, Described
<1>5. DOMAIN table = DOMAIN disk.table \cup {t[1] : t \in r.tables}
  OBVIOUS
<1>6. ASSUME NEW n \in DOMAIN table
      PROVE  \/ \E t \in r.tables : t[1] = n /\ table[n] = t[2]
             \/ n \in DOMAIN disk.table /\ table[n] = disk.table[n]
  <2>1. CASE \E t \in r.tables : t[1] = n
    <3>1. PICK t \in r.tables : t = CHOOSE u \in r.tables : u[1] = n
      BY <2>1
    <3>2. t[1] = n
      BY <2>1, <3>1
    <3>3. table[n] = t[2]
      BY <1>5, <2>1, <3>1
    <3> HIDE DEF table
    <3> QED BY <3>1, <3>2, <3>3
  <2>2. CASE ~\E t \in r.tables : t[1] = n
    BY <1>5, <2>2
  <2> QED BY <2>1, <2>2
<1> HIDE DEF table
<1>7. /\ DOMAIN disk' = DOMAIN disk /\ disk'.manifest = disk.manifest
      /\ disk'.current = disk.current /\ disk'.table = table
      /\ disk'.log = Put(disk.log, r.next, <<>>)
  BY <1>1 DEF FInv, Control
<1> QED BY SMTT(20), <1>1, <1>2, <1>3, <1>4, <1>5, <1>6, <1>7 DEF Recovered

LEMMA PutLog ==
    ASSUME NEW log, NEW b \in Nat, LogsTo(log, b), NEW n \in Nat \ {0}
    PROVE  LogsTo(Put(log, n, <<>>), b + n)
<1>0. b + n \in Nat /\ b <= b + n
  BY SMTT(20)
<1>1. LogsTo(log, b + n)
  BY <1>0, SeqTo
<1>2. <<>> \in Seq(BlockTo(b + n)) /\ n \in 1..(b + n)
  BY SMTT(20)
<1> QED BY <1>1, <1>2 DEF LogsTo, Put

LEMMA AppendLog ==
    ASSUME NEW log, NEW b \in Nat, LogsTo(log, b), NEW c \in Nat, b <= c, NEW E \in BlockTo(c), NEW l
    PROVE  LogsTo([log EXCEPT ![l] = Append(@, E)], c)
<1>1. LogsTo(log, c)
  BY SeqTo
<1>2. ASSUME NEW n \in DOMAIN log
      PROVE  n \in 1..c /\ [log EXCEPT ![l] = Append(@, E)][n] \in Seq(BlockTo(c))
  <2>1. PICK s \in Seq(BlockTo(c)) : s = log[n]
    BY <1>1 DEF LogsTo
  <2>2. Append(s, E) \in Seq(BlockTo(c))
    BY SMTT(20)
  <2> QED BY <1>1, <2>1, <2>2 DEF LogsTo
<1> QED BY <1>2 DEF LogsTo

LEMMA SubSeqTyped ==
    ASSUME NEW B, NEW s \in Seq(B), NEW i \in 1..(Len(s) + 1), NEW j \in 0..Len(s)
    PROVE  SubSeq(s, i, j) \in Seq(B)
BY SMTT(20)

\* What a reader of a log gets is records of the log.
LEMMA ReadableTyped ==
    ASSUME NEW B, NEW records \in Seq(B), NEW s \in Readable(records)
    PROVE  s \in Seq(B)
<1> DEFINE torn == {i \in 1..Len(records) : records[i] = {}}
<1>1. CASE torn = {}
  BY <1>1 DEF Readable
<1>2. CASE torn # {}
  <2>1. PICK m : m = Min(torn)
    BY ZenonT(10)
  <2>2. torn \in SUBSET Nat
    BY SMTT(20)
  <2>3. m \in torn
    <3> HIDE DEF torn
    <3> QED BY <1>2, <2>1, <2>2, MinOf
  <2>4. PICK j \in m + 1..Len(records) + 1 :
           s = SubSeq(records, 1, m - 1) \o SubSeq(records, j, Len(records))
    BY <1>2, <2>1 DEF Readable
  <2>5. m \in 1..Len(records) /\ j \in Nat /\ j >= 1 /\ j <= Len(records) + 1
    BY SMTT(20), <2>3, <2>4
  <2>9. /\ 1 \in 1..(Len(records) + 1) /\ m - 1 \in 0..Len(records)
        /\ j \in 1..(Len(records) + 1) /\ Len(records) \in 0..Len(records)
    BY SMTT(20), <2>5
  <2>6. PICK a \in Seq(B) : a = SubSeq(records, 1, m - 1)
    BY <2>9, SubSeqTyped
  <2>7. PICK c \in Seq(B) : c = SubSeq(records, j, Len(records))
    BY <2>9, SubSeqTyped
  <2>8. a \o c \in Seq(B)
    BY SMTT(20)
  <2> QED BY <2>4, <2>6, <2>7, <2>8
<1> QED BY <1>1, <1>2

LEMMA RecordCounted ==
    ASSUME FInv, Stored, Numbers, bg.pc = "write"
    PROVE  Counted(Record(Base, bg.edit))
<1>1. HasEdit /\ state \in {"open", "up"} /\ (state = "up" <=> bg.kind # "open")
  BY SMTT(20) DEF FInv, Control, NoEdit
<1>2. PICK next \in Nat : next = bg.edit.next_file
  BY <1>1 DEF Numbers
<1>3. PICK v : v = Base
  OBVIOUS
<1>4. Below(v, next)
  <2>1. CASE bg.kind = "open"
    BY <1>1, <1>2, <1>3, <2>1 DEF Base, Numbers
  <2>2. CASE bg.kind # "open"
    <3>1. v = Described.version /\ disk.current \in DOMAIN disk.manifest
      BY <1>1, <1>3, <2>2 DEF Base, Described, FInv, Manifests
    <3>2. Counted(Described)
      BY <3>1 DEF Stored, RecordsTyped, Described
    <3>3. PICK n \in Nat : n = Described.next_file
      BY <3>2 DEF Counted
    <3>4. Below(v, n) /\ n <= next
      BY <1>1, <1>2, <3>1, <3>2, <3>3 DEF Counted, Numbers
    <3> QED BY <3>4, BelowMore
  <2> QED BY <2>1, <2>2
<1>5. PICK edit : edit = bg.edit
  OBVIOUS
<1>6. \A x \in edit.new_files : Named(x[2], next)
  BY <1>1, <1>2, <1>5 DEF Numbers
<1>7. Below(Apply(v, edit), next)
  BY <1>4, <1>6, ApplyBelow
<1>8. edit.last_sequence \in Nat /\ edit.next_file = next
  BY <1>1, <1>2, <1>5 DEF Numbers
<1>9. Counted(Record(v, edit))
  BY <1>2, <1>7, <1>8 DEF Counted, Record
<1> QED BY <1>3, <1>5, <1>9

-----------------------------------------------------------------------------
(* Versions and files.                                                      *)

LEMMA PutFile ==
    ASSUME NEW files, NEW n, NEW contents
    PROVE  /\ DOMAIN Put(files, n, contents) = DOMAIN files \cup {n}
           /\ Put(files, n, contents)[n] = contents
           /\ \A m \in DOMAIN files : m # n => Put(files, n, contents)[m] = files[m]
BY DEF Put

\* The new version names files of the old one and of the edit.
LEMMA ApplyFiles ==
    ASSUME NEW v, NEW edit, NEW T, FilesOf(v) \subseteq T,
           \A x \in edit.new_files : x[2].number \in T
    PROVE  FilesOf(Apply(v, edit)) \subseteq T
<1> SUFFICES ASSUME NEW l \in Levels, NEW f \in Apply(v, edit)[l] PROVE f.number \in T
  BY SMTT(20) DEF FilesOf
<1>1. f \in v[l] \/ \E x \in edit.new_files : f = x[2]
  BY DEF Apply
<1> QED BY SMTT(20), <1>1 DEF FilesOf

LEMMA OverlappingInputs ==
    ASSUME NEW v, NEW level \in Nat, NEW lo, NEW hi
    PROVE  GetOverlappingInputs(v, level, lo, hi) \subseteq v[level]
BY SMTT(20) DEF GetOverlappingInputs, Overlapping

\* A compaction takes files of a level and of the next one.
LEMMA InputFiles ==
    ASSUME NEW v, NEW level \in Nat, NEW f \in v[level]
    PROVE  /\ PickCompaction(v, level, f).inputs[1] \subseteq v[level]
           /\ PickCompaction(v, level, f).inputs[2] \subseteq v[level + 1]
<1>1. ASSUME NEW inputs0, inputs0 \subseteq v[level]
      PROVE  /\ SetupOtherInputs(v, level, inputs0).inputs[1] \subseteq v[level]
             /\ SetupOtherInputs(v, level, inputs0).inputs[2] \subseteq v[level + 1]
  <2> DEFINE r == GetRange(inputs0)
             inputs1 == GetOverlappingInputs(v, level + 1, r.lo, r.hi)
             all == GetRange(inputs0 \cup inputs1)
             expanded0 == GetOverlappingInputs(v, level, all.lo, all.hi)
             new == GetRange(expanded0)
             expanded1 == GetOverlappingInputs(v, level + 1, new.lo, new.hi)
  <2>0. level + 1 \in Nat
    BY SMTT(20)
  <2>1. /\ inputs1 \subseteq v[level + 1] /\ expanded0 \subseteq v[level]
        /\ expanded1 \subseteq v[level + 1]
    BY <2>0, OverlappingInputs
  <2>2. \/ SetupOtherInputs(v, level, inputs0).inputs = <<expanded0, expanded1>>
        \/ SetupOtherInputs(v, level, inputs0).inputs = <<inputs0, inputs1>>
    BY DEF SetupOtherInputs
  <2> HIDE DEF inputs1, expanded0, expanded1
  <2> QED BY SMTT(20), <1>1, <2>1, <2>2
<1> DEFINE inputs0 == IF level = 0 THEN GetOverlappingInputs(v, 0, f.smallest, f.largest) ELSE {f}
<1>2. inputs0 \subseteq v[level]
  BY OverlappingInputs
<1>3. PickCompaction(v, level, f) = SetupOtherInputs(v, level, inputs0)
  BY DEF PickCompaction
<1> HIDE DEF inputs0
<1> QED BY <1>1, <1>2, <1>3

-----------------------------------------------------------------------------
(* Files that are needed exist.  An edit is in the manifest before it is in  *)
(* versions_, and nothing is deleted once the two may disagree (bg_error_).  *)

\* Versions stay present while no table is lost.
LEMMA StillPresent ==
    ASSUME FilesPresent, DOMAIN disk.table \subseteq DOMAIN disk'.table,
           disk'.current = disk.current, disk'.manifest = disk.manifest,
           versions'.current = versions.current, reader' \in {reader, NoReader},
           compaction' = compaction
    PROVE  FilesPresent'
BY DEF FilesPresent, Described, ReaderVersions, CompactionVersions

\* Steps that leave the tables, the manifest and the versions alone.
LEMMA OtherSteps ==
    ASSUME FInv, FilesKept
    PROVE  FInv'
<1> USE DEF FilesKept
<1>1. Control'
  BY DEF FInv, Control, HasEdit
<1>2. Manifests'
  BY SMTT(20) DEF FInv, Manifests, Described
<1>3. FilesPresent'
  BY DEF FInv, Present, FilesPresent, Described, ReaderVersions, CompactionVersions
<1>4. Present'
  BY <1>3 DEF FInv, Present, HasEdit, Described
<1> QED BY <1>1, <1>2, <1>4 DEF FInv

LEMMA NewDBFiles ==
    ASSUME FInv, NewDB \/ NewDBCurrent
    PROVE  FInv'
<1> USE DEF FInv
<1>1. UNCHANGED <<versions, pending, bg, compaction, reader, bg_error>>
  BY DEF NewDB, NewDBCurrent, process
<1>2. CASE NewDB
  <2> DEFINE first == [version |-> EmptyVersion, log_number |-> 0, next_file |-> 2,
                       last_sequence |-> 0]
  <2>1. /\ state = "down" /\ state' = "create" /\ disk'.current = 0 /\ disk.current = 0
        /\ DOMAIN disk' = DOMAIN disk /\ disk'.table = disk.table
        /\ disk'.manifest = Put(disk.manifest, 1, first)
    BY <1>2 DEF NewDB, Control
  <2>5. first.version = EmptyVersion
    OBVIOUS
  <2> HIDE DEF first
  <2>4. 1 \in DOMAIN disk'.manifest /\ disk'.manifest[1].version = EmptyVersion
    BY <2>1, <2>5 DEF Put
  <2>2. Control' /\ Manifests'
    BY SMTT(20), <1>1, <2>1, <2>4 DEF Control, Manifests, HasEdit, NoEdit
  <2>3. Present'
    BY <1>1, <2>1 DEF Present, FilesPresent, ReaderVersions, CompactionVersions, HasEdit
  <2> QED BY <2>2, <2>3
<1>3. CASE NewDBCurrent
  <2>1. /\ state = "create" /\ state' = "down" /\ disk'.current = 1
        /\ DOMAIN disk' = DOMAIN disk /\ disk'.table = disk.table /\ disk'.manifest = disk.manifest
    BY <1>3 DEF NewDBCurrent, Control
  <2>2. FilesOf(EmptyVersion) = {}
    BY DEF FilesOf, EmptyVersion
  <2>3. Control' /\ Manifests'
    BY SMTT(20), <1>1, <2>1 DEF Control, Manifests, HasEdit, NoEdit
  <2>4. Present'
    BY <1>1, <2>1, <2>2
    DEF Present, Manifests, FilesPresent, Described, ReaderVersions, CompactionVersions, HasEdit
  <2> QED BY <2>3, <2>4
<1> QED BY <1>2, <1>3

\* Recovery makes the tables its edit names.
LEMMA RecoverFiles ==
    ASSUME FInv, Recover
    PROVE  FInv'
<1> USE DEF FInv
<1> DEFINE r == RecoverLogs(Described.next_file + 1)
           last == Max({Described.last_sequence} \cup {e.seq : e \in Logged})
           made == {t[1] : t \in r.tables}
           edit == [new_files |-> {<<0, FileMetaData(t[1], t[2])>> : t \in r.tables},
                    deleted_files |-> {}, log_number |-> r.next,
                    next_file |-> r.next + 1, last_sequence |-> last]
           table == [n \in DOMAIN disk.table \cup made |->
                        IF \E t \in r.tables : t[1] = n
                        THEN (CHOOSE t \in r.tables : t[1] = n)[2] ELSE disk.table[n]]
<1>1. /\ state = "down" /\ state' = "open" /\ disk.current # 0
      /\ UNCHANGED <<bg_error, pending, compaction, reader>>
      /\ disk' = [disk EXCEPT !.table = table, !.log = Put(@, r.next, <<>>)]
      /\ versions' = [current |-> Described.version, log_number |-> Described.log_number,
                      next_file |-> r.next + 1, manifest |-> Described.next_file,
                      last_sequence |-> last]
      /\ bg' = [pc |-> "write", kind |-> "open", edit |-> edit]
  BY ZenonT(30) DEF Recover
<1>2. \A x \in edit.new_files : x[2].number \in made
  <2> SUFFICES ASSUME NEW t \in r.tables PROVE <<0, FileMetaData(t[1], t[2])>>[2].number \in made
    BY DEF FileMetaData
  <2> QED BY DEF FileMetaData
<1>3. DOMAIN table = DOMAIN disk.table \cup made
  OBVIOUS
<1> HIDE DEF r, last, made, edit, table
<1>4. /\ DOMAIN disk' = DOMAIN disk /\ disk'.table = table
      /\ disk'.manifest = disk.manifest /\ disk'.current = disk.current
  BY <1>1 DEF Control
<1>5. /\ versions'.current = Described.version
      /\ DOMAIN versions' = {"current", "log_number", "next_file", "manifest", "last_sequence"}
      /\ HasEdit' /\ bg'.pc = "write" /\ bg'.kind = "open" /\ bg'.edit = edit
  BY <1>1 DEF HasEdit
<1>6. Control'
  BY <1>1, <1>4, <1>5 DEF Control
<1>7. Manifests'
  BY <1>1, <1>4, <1>5 DEF Manifests
<1>8. reader = NoReader /\ compaction = NoCompaction
  BY <1>1 DEF Control
<1>9. FilesPresent'
  BY <1>1, <1>3, <1>4, <1>5, <1>8
  DEF Present, FilesPresent, Described, ReaderVersions, CompactionVersions
<1>10. Present'
  BY <1>1, <1>2, <1>3, <1>4, <1>5, <1>8, <1>9 DEF Present, FilesPresent, Described
<1> QED BY <1>6, <1>7, <1>10

\* A record in the manifest: the files of the edit exist already.
LEMMA RecordWritten ==
    ASSUME FInv, bg.pc = "write"
    PROVE  RecordAdded
<1> USE DEF FInv
<1>1. /\ DOMAIN WithRecord = DOMAIN disk /\ WithRecord.table = disk.table
      /\ WithRecord.current = disk.current
      /\ WithRecord.manifest = Put(disk.manifest, versions.manifest, Record(Base, bg.edit))
  BY DEF WithRecord, Control
<1>2. Record(Base, bg.edit).version = Apply(Base, bg.edit)
  BY DEF Record
<1>3. HasEdit
  BY SMTT(20) DEF Control, NoEdit
<1>4. FilesOf(Base) \subseteq DOMAIN disk.table
  <2>1. CASE bg.kind = "open"
    BY <2>1 DEF Base, Present, FilesPresent
  <2>2. CASE bg.kind # "open"
    <3>1. state = "up"
      BY SMTT(20), <2>2 DEF Control, NoEdit
    <3>2. Base = Described.version
      BY <2>2, <3>1 DEF Base, Described, Manifests
    <3> QED BY <3>1, <3>2 DEF Present, FilesPresent, Manifests
  <2> QED BY <2>1, <2>2
<1>5. FilesOf(Apply(Base, bg.edit)) \subseteq DOMAIN disk.table
  BY <1>3, <1>4, ApplyFiles DEF Present
<1>6. DOMAIN WithRecord.manifest = DOMAIN disk.manifest \cup {versions.manifest}
  BY <1>1 DEF Put
<1>7. WithRecord.manifest[versions.manifest].version = Apply(Base, bg.edit)
  BY <1>1, <1>2 DEF Put
<1>8. \A n \in DOMAIN disk.manifest :
         n # versions.manifest => WithRecord.manifest[n] = disk.manifest[n]
  BY <1>1 DEF Put
<1> QED BY <1>1, <1>5, <1>6, <1>7, <1>8 DEF RecordAdded

LEMMA WriteManifestFiles ==
    ASSUME FInv, WriteManifest
    PROVE  FInv'
<1> USE DEF FInv
<1>1. /\ bg.pc = "write" /\ disk' = WithRecord
      /\ UNCHANGED <<state, versions, bg_error, pending, compaction, reader>>
      /\ bg' = [bg EXCEPT !.pc = IF bg.kind = "open" THEN "current" ELSE "install"]
  BY DEF WriteManifest
<1>2. HasEdit /\ (state = "open" <=> bg.kind = "open") /\ state \in {"open", "up"}
  BY SMTT(20), <1>1 DEF Control, NoEdit
<1>3. /\ HasEdit' /\ bg'.edit = bg.edit /\ bg'.kind = bg.kind
      /\ bg'.pc = IF bg.kind = "open" THEN "current" ELSE "install"
  BY <1>1, <1>2 DEF HasEdit
<1>4. Control'
  <2>1. DOMAIN disk' = DOMAIN disk
    BY <1>1, RecordWritten DEF RecordAdded
  <2>2. bg # NoEdit /\ bg # [pc |-> "merge"]
    BY SMTT(20), <1>1 DEF NoEdit
  <2>3. CASE state = "open"
    BY <1>1, <1>2, <1>3, <2>1, <2>3 DEF Control, NoEdit
  <2>4. CASE state = "up"
    BY SMTT(20), <1>1, <1>2, <1>3, <2>1, <2>2, <2>4 DEF Control, NoEdit
  <2> QED BY <1>2, <2>3, <2>4
<1>5. FilesOf(Described.version)' \subseteq DOMAIN disk.table
  <2>1. CASE disk.current = versions.manifest
    BY <1>1, <2>1, RecordWritten DEF Described, RecordAdded
  <2>2. CASE disk.current # versions.manifest
    BY <1>1, <1>2, <2>2, RecordWritten DEF Described, Manifests, Present, RecordAdded
  <2> QED BY <2>1, <2>2
<1>6. Present'
  BY <1>1, <1>2, <1>3, <1>5, RecordWritten
  DEF Present, FilesPresent, ReaderVersions, CompactionVersions, RecordAdded
<1>7. Manifests'
  <2>1. CASE bg.kind = "open"
    <3>1. Base = versions.current /\ state' = "open" /\ bg'.pc = "current"
      BY <1>1, <1>2, <1>3, <2>1 DEF Base
    <3> QED BY <1>1, <1>2, <1>3, <3>1, RecordWritten DEF Manifests, RecordAdded
  <2>2. CASE bg.kind # "open"
    <3>1. /\ Base = Described.version /\ state' = "up" /\ bg'.pc = "install"
          /\ disk.current = versions.manifest /\ state = "up"
      BY <1>1, <1>2, <1>3, <2>2 DEF Base, Described, Manifests
    <3>2. Described'.version = Apply(Base, bg.edit)
      BY <1>1, <3>1, RecordWritten DEF Described, RecordAdded
    <3>3. ~bg_error => Base = versions.current
      BY <1>1, <3>1 DEF Manifests
    <3> QED BY <1>1, <1>2, <1>3, <3>1, <3>2, <3>3, RecordWritten DEF Manifests, RecordAdded
  <2> QED BY <2>1, <2>2
<1> QED BY <1>4, <1>6, <1>7

\* With bg_error_ set the manifest may be ahead of versions_.
LEMMA WriteManifestFailsFiles ==
    ASSUME FInv, WriteManifestFails
    PROVE  FInv'
<1> USE DEF FInv
<1>1. /\ bg.pc = "write" /\ bg.kind # "open" /\ disk' \in {disk, WithRecord} /\ bg_error' = TRUE
      /\ UNCHANGED <<state, versions, reader>> /\ bg' = Resumed
      /\ pending' = IF bg.kind = "merge" THEN {} ELSE pending
      /\ compaction' = IF bg.kind = "merge" THEN NoCompaction ELSE compaction
  BY DEF WriteManifestFails
<1>2. HasEdit /\ state = "up" /\ bg.kind \in {"mem", "move", "merge"}
  BY SMTT(20), <1>1 DEF Control, NoEdit
<1>3. /\ DOMAIN disk' = DOMAIN disk /\ disk'.table = disk.table /\ disk'.current = disk.current
      /\ disk.current = versions.manifest /\ disk.current \in DOMAIN disk.manifest
      /\ DOMAIN disk'.manifest = DOMAIN disk.manifest
  BY <1>1, <1>2, RecordWritten DEF Manifests, RecordAdded
<1>4. FilesOf(Described.version)' \subseteq DOMAIN disk.table
  BY <1>1, <1>2, <1>3, RecordWritten DEF Described, Present, RecordAdded
<1>5. \/ bg' = NoEdit /\ compaction' = NoCompaction
      \/ bg' = [pc |-> "merge"] /\ compaction' # NoCompaction /\ compaction' = compaction
  BY SMTT(20), <1>1, <1>2 DEF Control, Resumed, NoEdit
<1>6. Control'
  BY SMTT(20), <1>1, <1>2, <1>3, <1>5 DEF Control, NoEdit
<1>7. Manifests'
  BY SMTT(20), <1>1, <1>2, <1>3, <1>5 DEF Manifests, NoEdit
<1>8. Present'
  BY <1>1, <1>2, <1>3, <1>4, <1>5
  DEF Present, FilesPresent, ReaderVersions, CompactionVersions, HasEdit, NoEdit
<1> QED BY <1>6, <1>7, <1>8

LEMMA SetCurrentFileFiles ==
    ASSUME FInv, SetCurrentFile
    PROVE  FInv'
<1> USE DEF FInv
<1>1. /\ bg.pc = "current" /\ disk' = [disk EXCEPT !.current = versions.manifest]
      /\ bg' = [bg EXCEPT !.pc = "install"]
      /\ UNCHANGED <<state, versions, bg_error, pending, compaction, reader>>
  BY DEF SetCurrentFile
<1>2. HasEdit /\ state = "open" /\ bg.kind = "open"
  BY SMTT(20), <1>1 DEF Control, NoEdit
<1>3. /\ HasEdit' /\ bg'.edit = bg.edit /\ bg'.kind = "open" /\ bg'.pc = "install"
      /\ DOMAIN disk' = DOMAIN disk /\ disk'.table = disk.table /\ disk'.manifest = disk.manifest
      /\ disk'.current = versions.manifest
  BY <1>1, <1>2 DEF HasEdit, Control
<1>4. Described'.version = Apply(versions.current, bg.edit)
  BY <1>1, <1>3 DEF Described, Manifests
<1>5. FilesOf(Apply(versions.current, bg.edit)) \subseteq DOMAIN disk.table
  BY <1>2, ApplyFiles DEF Present, FilesPresent
<1>6. Control'
  BY <1>1, <1>2, <1>3 DEF Control, NoEdit
<1>7. Manifests'
  BY <1>1, <1>2, <1>3, <1>4 DEF Manifests
<1>8. Present'
  BY <1>1, <1>2, <1>3, <1>4, <1>5
  DEF Present, FilesPresent, ReaderVersions, CompactionVersions
<1> QED BY <1>6, <1>7, <1>8

\* What is deleted is not in use.
LEMMA GoneTables ==
    ASSUME NEW pinned, NEW outputs, NEW T,
           T \subseteq Obsolete(disk, Installed, pinned, outputs).table
    PROVE  /\ FilesOf(Installed.current) \cap T = {}
           /\ outputs \cap T = {}
           /\ \A v \in pinned : FilesOf(v) \cap T = {}
BY DEF Obsolete

LEMMA InstalledVersion ==
    ASSUME FInv
    PROVE  /\ DOMAIN Installed = DOMAIN versions
           /\ Installed.current = Apply(versions.current, bg.edit)
           /\ Installed.manifest = versions.manifest
           /\ Installed.next_file = versions.next_file
           /\ Installed.last_sequence = versions.last_sequence
BY DEF FInv, Control, Installed

LEMMA InstallFiles ==
    ASSUME FInv, Install, versions.manifest \in Nat
    PROVE  FInv'
<1> USE DEF FInv
<1> DEFINE gone == Obsolete(disk, Installed, StillPinned, StillPending)
<1>1. /\ bg.pc = "install" /\ versions' = Installed /\ pending' = StillPending
      /\ compaction' = IF bg.kind = "merge" THEN NoCompaction ELSE compaction
      /\ disk' = (IF bg.kind = "move" THEN disk
                  ELSE DeleteObsoleteFiles(disk, Installed, StillPinned, StillPending))
      /\ bg' = Resumed /\ state' = "up" /\ UNCHANGED <<bg_error, reader>>
  BY DEF Install
<1>2. HasEdit /\ state \in {"open", "up"} /\ (state = "open" <=> bg.kind = "open")
  BY SMTT(20), <1>1 DEF Control, NoEdit
<1>3. \/ bg' = NoEdit /\ compaction' = NoCompaction
      \/ bg' = [pc |-> "merge"] /\ compaction' # NoCompaction /\ compaction' = compaction
            /\ state = "up"
  BY SMTT(20), <1>1, <1>2 DEF Control, Resumed, NoEdit
<1>4. disk' = disk \/ (~bg_error /\ disk' = Without(disk, gone))
  BY <1>1 DEF DeleteObsoleteFiles
<1>5. /\ DOMAIN disk' = DOMAIN disk /\ disk'.current = disk.current
      /\ disk.current = versions.manifest /\ disk.current \in DOMAIN disk'.manifest
      /\ disk'.manifest[disk.current] = disk.manifest[disk.current]
  <2>1. disk.current = versions.manifest /\ disk.current \in DOMAIN disk.manifest
    BY <1>1, <1>2 DEF Manifests
  <2>2. gone.manifest = {n \in DOMAIN disk.manifest : n < Installed.manifest}
    BY DEF Obsolete
  <2>3. versions.manifest \notin gone.manifest
    BY SMTT(20), <2>2, InstalledVersion
  <2>4. ASSUME disk' = Without(disk, gone)
        PROVE  /\ DOMAIN disk' = DOMAIN disk /\ disk'.current = disk.current
               /\ disk'.manifest = Restrict(disk.manifest, DOMAIN disk.manifest \ gone.manifest)
    BY <2>4 DEF Without, Control
  <2> HIDE DEF gone
  <2> QED BY <1>4, <2>1, <2>3, <2>4 DEF Restrict
<1>6. PICK T : /\ DOMAIN disk'.table = DOMAIN disk.table \ T
               /\ T = {} \/ (~bg_error /\ T = gone.table)
  <2>1. CASE disk' = disk
    BY <2>1
  <2>2. CASE ~bg_error /\ disk' = Without(disk, gone)
    <3>1. disk'.table = Restrict(disk.table, DOMAIN disk.table \ gone.table)
      BY <2>2 DEF Without, Control
    <3> HIDE DEF gone
    <3> QED BY <2>2, <3>1 DEF Restrict
  <2> QED BY <1>4, <2>1, <2>2
<1>7. /\ FilesOf(Installed.current) \cap T = {} /\ StillPending \cap T = {}
      /\ \A v \in StillPinned : FilesOf(v) \cap T = {}
  <2>1. T \subseteq gone.table
    BY <1>6
  <2> QED BY <2>1, GoneTables
<1>8. FilesOf(Installed.current) \subseteq DOMAIN disk.table
  BY <1>2, ApplyFiles, InstalledVersion DEF Present, FilesPresent
<1>9. FilesOf(versions'.current) \subseteq DOMAIN disk'.table
  BY <1>1, <1>6, <1>7, <1>8
<1>10. FilesOf(Described'.version) \subseteq DOMAIN disk'.table
  <2>1. Described'.version = Described.version
    BY <1>5 DEF Described
  <2>2. CASE T = {}
    BY <1>2, <1>6, <2>1, <2>2 DEF Present
  <2>3. CASE ~bg_error
    <3>1. Described.version = Installed.current
      BY <1>1, <2>3, InstalledVersion DEF Manifests
    <3> QED BY <1>6, <1>7, <1>8, <2>1, <3>1
  <2> QED BY <1>6, <2>2, <2>3
<1>11. ASSUME NEW v \in ReaderVersions' \cup CompactionVersions'
       PROVE  FilesOf(v) \subseteq DOMAIN disk'.table
  <2>1. v \in StillPinned
    BY <1>1 DEF StillPinned, ReaderVersions, CompactionVersions
  <2>2. v \in ReaderVersions \cup CompactionVersions
    BY <2>1 DEF StillPinned
  <2>3. FilesOf(v) \subseteq DOMAIN disk.table
    BY <2>2 DEF Present, FilesPresent
  <2> QED BY <1>6, <1>7, <2>1, <2>3
<1>12. pending' \subseteq DOMAIN disk'.table
  <2>1. StillPending \subseteq DOMAIN disk.table
    BY DEF StillPending, Present
  <2> QED BY <1>1, <1>6, <1>7, <2>1
<1>13. Control'
  <2>1. DOMAIN disk' = DOMAIN disk /\ DOMAIN versions' = DOMAIN versions
    BY <1>1, <1>5, InstalledVersion
  <2>2. CASE bg' = NoEdit /\ compaction' = NoCompaction
    BY <1>1, <1>2, <2>1, <2>2 DEF Control
  <2>3. CASE /\ bg' = [pc |-> "merge"] /\ compaction' # NoCompaction /\ compaction' = compaction
             /\ state = "up"
    BY SMTT(20), <1>1, <1>2, <2>1, <2>3 DEF Control
  <2> QED BY <1>3, <2>2, <2>3
<1>14. Manifests'
  <2>1. bg'.pc \in {"idle", "merge"}
    BY SMTT(20), <1>3 DEF NoEdit
  <2>2. ~bg_error => Described'.version = versions'.current
    BY <1>1, <1>5, InstalledVersion DEF Manifests, Described
  <2> QED BY <1>1, <1>5, <2>1, <2>2, InstalledVersion DEF Manifests
<1>15. Present'
  <2>1. ~HasEdit'
    BY SMTT(20), <1>3 DEF HasEdit, NoEdit
  <2>2. compaction' # NoCompaction => compaction' = compaction /\ pending' = pending
    BY <1>1 DEF StillPending
  <2>3. FilesPresent'
    BY <1>9, <1>10, <1>11 DEF FilesPresent
  <2> QED BY <1>10, <1>12, <2>1, <2>2, <2>3 DEF Present
<1> QED BY <1>13, <1>14, <1>15

LEMMA CompactMemTableFiles ==
    ASSUME FInv, CompactMemTable
    PROVE  FInv'
<1> USE DEF FInv
<1> DEFINE n == versions.next_file
           f == FileMetaData(n, imm)
           level == PickLevelForMemTableOutput(versions.current, f.smallest, f.largest)
           edit == Edit({<<level, f>>}, {}, logfile, n + 1)
<1>1. /\ FlushReady /\ disk' = [disk EXCEPT !.table = Put(@, n, imm)]
      /\ versions' = [versions EXCEPT !.next_file = n + 1]
      /\ bg' = [pc |-> "write", kind |-> "mem", edit |-> edit]
      /\ UNCHANGED <<state, bg_error, pending, compaction, reader>>
  BY DEF CompactMemTable
<1>2. edit.new_files = {<<level, f>>} /\ f.number = n
  BY DEF Edit, FileMetaData
<1> HIDE DEF n, f, level, edit
<1>3. /\ DOMAIN disk' = DOMAIN disk /\ disk'.table = Put(disk.table, n, imm)
      /\ disk'.manifest = disk.manifest /\ disk'.current = disk.current
  BY <1>1 DEF Control
<1>4. DOMAIN disk'.table = DOMAIN disk.table \cup {n}
  BY <1>3 DEF Put
<1>5. /\ HasEdit' /\ bg'.pc = "write" /\ bg'.kind = "mem" /\ bg'.edit = edit
      /\ DOMAIN versions' = DOMAIN versions /\ versions'.current = versions.current
      /\ versions'.manifest = versions.manifest
  BY <1>1 DEF HasEdit, Control
<1>6. state = "up" /\ bg.pc \in {"idle", "merge"}
  BY <1>1 DEF FlushReady, Working
<1>7. Control'
  BY <1>1, <1>3, <1>5, <1>6 DEF Control, HasEdit
<1>8. Manifests'
  BY <1>1, <1>3, <1>5, <1>6 DEF Manifests, Described
<1>9. FilesPresent'
  BY <1>1, <1>3, <1>4, <1>5, StillPresent DEF Present
<1>10. Present'
  BY SMTT(20), <1>1, <1>2, <1>3, <1>4, <1>5, <1>6, <1>9 DEF Present, Described
<1> QED BY <1>7, <1>8, <1>10

LEMMA BackgroundCompactionFiles ==
    ASSUME FInv, NEW level \in Nat, level < NumLevels - 1, NEW f \in versions.current[level],
           BackgroundCompaction(level, f)
    PROVE  FInv'
<1> USE DEF FInv
<1> DEFINE c == PickCompaction(versions.current, level, f)
           edit == Edit({<<level + 1, g>> : g \in c.inputs[1]},
                        {<<level, g.number>> : g \in c.inputs[1]},
                        versions.log_number, versions.next_file)
           start == [level |-> level, inputs |-> c.inputs, version |-> versions.current,
                     smallest_snapshot |-> versions.last_sequence,
                     from |-> Min(Keys), outputs |-> {}]
<1>1. /\ state = "up" /\ bg.pc = "idle" /\ ~bg_error
      /\ \/ bg' = [pc |-> "write", kind |-> "move", edit |-> edit] /\ UNCHANGED compaction
         \/ bg' = [pc |-> "merge"] /\ compaction' = start
      /\ UNCHANGED <<disk, state, versions, bg_error, pending, reader>>
  BY DEF BackgroundCompaction, Working
<1>2. c.inputs[1] \subseteq versions.current[level]
  BY InputFiles
<1>3. level \in Levels
  BY SMTT(20), VersionSetAssumption DEF Levels
<1>4. \A x \in edit.new_files : x[2].number \in FilesOf(versions.current)
  <2>1. edit.new_files = {<<level + 1, g>> : g \in c.inputs[1]}
    BY DEF Edit
  <2> HIDE DEF c, edit
  <2> QED BY SMTT(20), <1>2, <1>3, <2>1 DEF FilesOf
<1>5. /\ start.version = versions.current /\ start.outputs = {}
      /\ DOMAIN start = {"level", "inputs", "version", "smallest_snapshot", "from", "outputs"}
      /\ start # NoCompaction
  BY DEF NoCompaction
<1> HIDE DEF c, edit, start
<1>6. CASE bg' = [pc |-> "write", kind |-> "move", edit |-> edit] /\ UNCHANGED compaction
  <2>1. HasEdit' /\ bg'.pc = "write" /\ bg'.kind = "move" /\ bg'.edit = edit
    BY <1>6 DEF HasEdit
  <2>2. compaction = NoCompaction
    BY <1>1 DEF Control
  <2>3. Control'
    BY <1>1, <1>6, <2>1, <2>2 DEF Control
  <2>4. Manifests'
    BY <1>1, <1>6, <2>1 DEF Manifests, Described
  <2>5. FilesPresent'
    BY <1>1, <1>6, StillPresent DEF Present
  <2>6. Present'
    BY <1>1, <1>4, <1>6, <2>1, <2>5 DEF Present, Described, FilesPresent
  <2> QED BY <2>3, <2>4, <2>6
<1>7. CASE bg' = [pc |-> "merge"] /\ compaction' = start
  <2>1. ~HasEdit' /\ bg'.pc = "merge"
    BY SMTT(20), <1>7 DEF HasEdit
  <2>2. Control'
    BY <1>1, <1>5, <1>7, <2>1 DEF Control
  <2>3. Manifests'
    BY <1>1, <1>7, <2>1 DEF Manifests, Described
  <2>4. FilesPresent'
    BY <1>1, <1>5, <1>7
    DEF Present, FilesPresent, Described, ReaderVersions, CompactionVersions
  <2>5. Present'
    BY <1>1, <1>5, <1>7, <2>1, <2>4 DEF Present, Described
  <2> QED BY <2>2, <2>3, <2>5
<1> QED BY <1>1, <1>6, <1>7

\* The outputs of a compaction are pending, so that a flush in between keeps them.
LEMMA CompactionOutputFiles ==
    ASSUME FInv, NEW last, CompactionOutput(last)
    PROVE  FInv'
<1> USE DEF FInv
<1> DEFINE n == versions.next_file
           E == {e \in Rest(compaction) : e.key <= last}
<1>1. /\ state = "up" /\ bg.pc = "merge"
      /\ disk' = [disk EXCEPT !.table = Put(@, n, E)]
      /\ pending' = pending \cup {n}
      /\ versions' = [versions EXCEPT !.next_file = n + 1]
      /\ compaction' = [compaction EXCEPT !.from = last + 1, !.outputs = @ \cup {FileMetaData(n, E)}]
      /\ UNCHANGED <<state, bg_error, bg, reader>>
  BY DEF CompactionOutput, Working
<1>2. FileMetaData(n, E).number = n
  BY DEF FileMetaData
<1> HIDE DEF n, E
<1>3. compaction # NoCompaction /\ bg = [pc |-> "merge"] /\ ~HasEdit
  BY SMTT(20), <1>1 DEF Control, NoEdit, HasEdit
<1>4. /\ DOMAIN compaction' = DOMAIN compaction
      /\ compaction'.outputs = compaction.outputs \cup {FileMetaData(n, E)}
      /\ compaction'.version = compaction.version
  BY <1>1, <1>3 DEF Control
<1>5. compaction' # NoCompaction
  <2>1. "version" \in DOMAIN compaction' /\ "version" \notin DOMAIN NoCompaction
    BY <1>3, <1>4 DEF Control, NoCompaction
  <2> QED BY <2>1
<1>6. /\ DOMAIN disk' = DOMAIN disk /\ disk'.table = Put(disk.table, n, E)
      /\ disk'.manifest = disk.manifest /\ disk'.current = disk.current
      /\ DOMAIN versions' = DOMAIN versions /\ versions'.current = versions.current
      /\ versions'.manifest = versions.manifest
  BY <1>1 DEF Control
<1>7. DOMAIN disk'.table = DOMAIN disk.table \cup {n}
  BY <1>6 DEF Put
<1>8. Control'
  BY <1>1, <1>3, <1>4, <1>5, <1>6 DEF Control
<1>9. Manifests'
  BY <1>1, <1>3, <1>6 DEF Manifests, Described
<1>10. FilesPresent'
  BY <1>1, <1>3, <1>4, <1>5, <1>6, <1>7
  DEF Present, FilesPresent, Described, ReaderVersions, CompactionVersions
<1>11. Present'
  BY <1>1, <1>2, <1>3, <1>4, <1>5, <1>6, <1>7, <1>10 DEF Present, Described, HasEdit
<1> QED BY <1>8, <1>9, <1>11

LEMMA InstallCompactionResultsFiles ==
    ASSUME FInv, InstallCompactionResults
    PROVE  FInv'
<1> USE DEF FInv
<1> DEFINE edit == Edit({<<compaction.level + 1, f>> : f \in compaction.outputs},
                        UNION {{<<compaction.level + i - 1, f.number>> :
                                    f \in compaction.inputs[i]} : i \in 1..2},
                        versions.log_number, versions.next_file)
<1>1. /\ state = "up" /\ bg.pc = "merge" /\ bg' = [pc |-> "write", kind |-> "merge", edit |-> edit]
      /\ UNCHANGED <<disk, state, versions, bg_error, pending, compaction, reader>>
  BY DEF InstallCompactionResults, Working
<1>2. edit.new_files = {<<compaction.level + 1, f>> : f \in compaction.outputs}
  BY DEF Edit
<1> HIDE DEF edit
<1>3. compaction # NoCompaction
  BY SMTT(20), <1>1 DEF Control, NoEdit, HasEdit
<1>4. HasEdit' /\ bg'.pc = "write" /\ bg'.kind = "merge" /\ bg'.edit = edit
  BY <1>1 DEF HasEdit
<1>5. Control'
  BY <1>1, <1>3, <1>4 DEF Control
<1>6. Manifests'
  BY <1>1, <1>4 DEF Manifests, Described
<1>7. FilesPresent'
  BY <1>1, StillPresent DEF Present
<1>8. Present'
  BY SMTT(20), <1>1, <1>2, <1>3, <1>4, <1>7 DEF Present, Described
<1> QED BY <1>5, <1>6, <1>8

LEMMA CompactionFailsFiles ==
    ASSUME FInv, CompactionFails
    PROVE  FInv'
<1> USE DEF FInv
<1>1. /\ state = "up" /\ bg_error' = TRUE /\ bg' = NoEdit /\ compaction' = NoCompaction
      /\ versions' = [versions EXCEPT !.next_file = @ + 1] /\ pending' = {}
      /\ UNCHANGED <<disk, state, reader>>
  BY DEF CompactionFails, Working
<1>2. /\ DOMAIN versions' = DOMAIN versions /\ versions'.current = versions.current
      /\ versions'.manifest = versions.manifest
  BY <1>1 DEF Control
<1>3. Control'
  BY <1>1, <1>2 DEF Control
<1>4. Manifests'
  BY <1>1, <1>2 DEF Manifests, NoEdit
<1>5. ~HasEdit'
  BY SMTT(20), <1>1 DEF HasEdit, NoEdit
<1>6. Present'
  BY <1>1, <1>2, <1>5
  DEF Present, FilesPresent, Described, ReaderVersions, CompactionVersions
<1> QED BY <1>3, <1>4, <1>6

LEMMA CrashFiles ==
    ASSUME FInv, Crash
    PROVE  FInv'
<1> USE DEF FInv
<1>1. PICK d \in PartlyDeleted : \E log : disk' = [d EXCEPT !.log = log]
  BY DEF Crash
<1>2. /\ state' = "down" /\ versions' = NoVersions /\ bg_error' = FALSE /\ pending' = {}
      /\ bg' = NoEdit /\ compaction' = NoCompaction /\ reader' = NoReader
      /\ state # "down"
  BY DEF Crash
<1>3. /\ DOMAIN d = DOMAIN disk /\ d.current = disk.current
      /\ DOMAIN d.manifest = DOMAIN disk.manifest
      /\ \A n \in DOMAIN disk.manifest : d.manifest[n] = disk.manifest[n]
      /\ disk.current # 0 => FilesOf(Described.version) \subseteq DOMAIN d.table
  <2>1. CASE d = disk
    BY <2>1 DEF Present, FilesPresent
  <2>2. CASE d # disk
    <3> DEFINE gone == Obsolete(disk, Installed, StillPinned, StillPending)
    <3>1. bg.pc = "install" /\ bg.kind # "move" /\ ~bg_error
      BY <2>2 DEF PartlyDeleted
    <3>2. PICK part \in [log : SUBSET gone.log, table : SUBSET gone.table, manifest : {{}}] :
             d = Without(disk, part)
      BY <1>1, <3>1 DEF PartlyDeleted
    <3>3. FilesOf(Installed.current) \cap part.table = {} /\ part.manifest = {}
      <4>1. part.table \subseteq gone.table /\ part.manifest = {}
        <5> HIDE DEF gone
        <5> QED BY <3>2
      <4>2. PICK T : T = part.table
        OBVIOUS
      <4>3. T \subseteq gone.table
        BY <4>1, <4>2
      <4>4. FilesOf(Installed.current) \cap T = {}
        BY <4>3, GoneTables
      <4> QED BY <4>1, <4>2, <4>4
    <3>4. Described.version = Installed.current
      BY <3>1, InstalledVersion DEF Manifests
    <3> HIDE DEF gone
    <3>5. /\ DOMAIN d = DOMAIN disk /\ d.current = disk.current
          /\ d.manifest = Restrict(disk.manifest, DOMAIN disk.manifest \ part.manifest)
          /\ d.table = Restrict(disk.table, DOMAIN disk.table \ part.table)
      BY <3>2 DEF Without, Control
    <3>6. DOMAIN d.table = DOMAIN disk.table \ part.table
      BY <3>5 DEF Restrict
    <3> QED BY <3>3, <3>4, <3>5, <3>6 DEF Restrict, Present, FilesPresent
  <2> QED BY <2>1, <2>2
<1>4. /\ DOMAIN disk' = DOMAIN disk /\ disk'.current = d.current /\ disk'.table = d.table
      /\ disk'.manifest = d.manifest
  BY <1>1, <1>3 DEF Control
<1>5. disk.current # 0 => disk'.manifest[disk.current] = Described
  BY <1>3, <1>4 DEF Manifests, Described
<1>6. Control'
  BY <1>2, <1>4 DEF Control, NoVersions
<1>7. Manifests'
  BY <1>2, <1>3, <1>4 DEF Manifests, NoEdit
<1>8. FilesOf(EmptyVersion) = {}
  BY DEF FilesOf, EmptyVersion
<1>9. FilesPresent'
  BY <1>2, <1>3, <1>4, <1>5, <1>8
  DEF FilesPresent, Described, ReaderVersions, CompactionVersions, NoVersions
<1>10. Present'
  BY SMTT(20), <1>2, <1>9 DEF Present, HasEdit, NoEdit
<1> QED BY <1>6, <1>7, <1>10

-----------------------------------------------------------------------------
(* What each step does to the files.                                        *)

LEMMA WithoutFiles ==
    ASSUME Control, NEW part
    PROVE  /\ DOMAIN Without(disk, part) = DOMAIN disk
           /\ Without(disk, part).current = disk.current
           /\ Fewer(Without(disk, part).log, disk.log)
           /\ Fewer(Without(disk, part).table, disk.table)
           /\ Fewer(Without(disk, part).manifest, disk.manifest)
<1>1. /\ DOMAIN Without(disk, part) = DOMAIN disk /\ Without(disk, part).current = disk.current
      /\ Without(disk, part).log = Restrict(disk.log, DOMAIN disk.log \ part.log)
      /\ Without(disk, part).table = Restrict(disk.table, DOMAIN disk.table \ part.table)
      /\ Without(disk, part).manifest = Restrict(disk.manifest, DOMAIN disk.manifest \ part.manifest)
  BY DEF Without, Control
<1>2. ASSUME NEW f, NEW S PROVE Fewer(Restrict(f, DOMAIN f \ S), f)
  BY DEF Fewer, Restrict
<1> QED BY <1>1, <1>2

LEMMA InstallDisk ==
    ASSUME Control, Install
    PROVE  OnlyDeleted
<1>1. disk' = disk \/ \E part : disk' = Without(disk, part)
  BY DEF Install, DeleteObsoleteFiles
<1>2. CASE disk' = disk
  BY <1>2 DEF Fewer, OnlyDeleted
<1>3. CASE \E part : disk' = Without(disk, part)
  BY <1>3, WithoutFiles DEF OnlyDeleted
<1> QED BY <1>1, <1>2, <1>3

LEMMA CrashDisk ==
    ASSUME Control, Crash
    PROVE  Lost
<1>1. PICK d \in PartlyDeleted :
         \E log \in [DOMAIN d.log -> UNION {Readable(d.log[n]) : n \in DOMAIN d.log}] :
            /\ \A n \in DOMAIN d.log : log[n] \in Readable(d.log[n])
            /\ disk' = [d EXCEPT !.log = log]
  BY DEF Crash
<1>2. d = disk \/ \E part : d = Without(disk, part)
  BY <1>1 DEF PartlyDeleted
<1>3. /\ DOMAIN d = DOMAIN disk /\ d.current = disk.current
      /\ Fewer(d.log, disk.log) /\ Fewer(d.table, disk.table) /\ Fewer(d.manifest, disk.manifest)
  <2>1. CASE d = disk
    BY <2>1 DEF Fewer
  <2>2. CASE \E part : d = Without(disk, part)
    BY <2>2, WithoutFiles
  <2> QED BY <1>2, <2>1, <2>2
<1>4. /\ DOMAIN disk' = DOMAIN d /\ disk'.current = d.current
      /\ disk'.table = d.table /\ disk'.manifest = d.manifest
      /\ DOMAIN disk'.log = DOMAIN d.log /\ \A n \in DOMAIN d.log : disk'.log[n] \in Readable(d.log[n])
  <2>1. PICK log \in [DOMAIN d.log -> UNION {Readable(d.log[n]) : n \in DOMAIN d.log}] :
            /\ \A n \in DOMAIN d.log : log[n] \in Readable(d.log[n])
            /\ disk' = [d EXCEPT !.log = log]
    BY <1>1
  <2> QED BY <1>3, <2>1 DEF Control
<1> QED BY <1>3, <1>4 DEF Lost

LEMMA FileSteps ==
    ASSUME FInv, Next
    PROVE  \/ SameFiles
           \/ NewDB
           \/ Recover
           \/ WriteManifest \/ WriteManifestFails
           \/ Install
           \/ CompactMemTable
           \/ \E last \in Keys : CompactionOutput(last)
           \/ SwitchMemTable
           \/ \E n \in 1..Len(writers) : AddRecord(n) \/ AddRecordFails(n)
           \/ Crash
<1>1. ASSUME UNCHANGED disk PROVE SameFiles
  BY <1>1 DEF SameFiles
<1>2. CASE NewDBCurrent \/ SetCurrentFile
  BY <1>2 DEF NewDBCurrent, SetCurrentFile, SameFiles, FInv, Control
<1>3. CASE CompactMemTableFails \/ InstallCompactionResults \/ CompactionFails
  BY <1>1, <1>3 DEF CompactMemTableFails, InstallCompactionResults, CompactionFails
<1>4. CASE \E level \in 0..NumLevels - 2 : \E f \in versions.current[level] :
              BackgroundCompaction(level, f)
  BY <1>1, <1>4 DEF BackgroundCompaction
<1>5. CASE \E w \in Writers, b \in Batches : Write(w, b)
  BY <1>1, <1>5 DEF Write
<1>6. CASE MakeRoomFails \/ FinishWrite \/ BeginGet \/ EndGet
  BY <1>1, <1>6 DEF MakeRoomFails, FinishWrite, BeginGet, EndGet
<1> QED BY <1>2, <1>3, <1>4, <1>5, <1>6 DEF Next

-----------------------------------------------------------------------------
(* The files hold what they should.                                         *)

\* The inputs of a compaction exist.
LEMMA InputsPresent ==
    ASSUME FInv, Merges, compaction # NoCompaction, NEW f \in compaction.inputs[1] \cup compaction.inputs[2]
    PROVE  f.number \in DOMAIN disk.table
<1>1. compaction.level \in Levels /\ compaction.level + 1 \in Levels
  BY SMTT(20), VersionSetAssumption DEF Merges, Levels
<1>2. f \in compaction.version[compaction.level] \/ f \in compaction.version[compaction.level + 1]
  BY DEF Merges
<1>3. f.number \in FilesOf(compaction.version)
  BY SMTT(20), <1>1, <1>2 DEF FilesOf
<1> QED BY <1>3 DEF FInv, Present, FilesPresent, CompactionVersions

LEMMA RestTyped ==
    ASSUME FInv, TablesTyped, Merges, compaction # NoCompaction
    PROVE  Rest(compaction) \in Block
<1> SUFFICES ASSUME NEW e \in Rest(compaction) PROVE e \in Entry
  BY DEF Block
<1>1. PICK f \in compaction.inputs[1] \cup compaction.inputs[2] : e \in disk.table[f.number]
  BY DEF Rest, Kept
<1> QED BY <1>1, InputsPresent DEF TablesTyped, Block

LEMMA OutputStep ==
    ASSUME FInv, Stored, Numbers, Merges, NEW last \in Keys, CompactionOutput(last)
    PROVE  OutputMade(last)
<1> DEFINE n == versions.next_file
           E == {e \in Rest(compaction) : e.key <= last}
<1>1. /\ state = "up" /\ state' = "up" /\ bg.pc = "merge"
      /\ disk' = [disk EXCEPT !.table = Put(@, n, E)]
      /\ versions' = [versions EXCEPT !.next_file = n + 1]
      /\ compaction' = [compaction EXCEPT !.from = last + 1, !.outputs = @ \cup {FileMetaData(n, E)}]
      /\ last \in {e.key : e \in Rest(compaction)}
      /\ UNCHANGED <<mem, logfile, bg, reader>>
  BY DEF CompactionOutput, Working
<1>2. compaction # NoCompaction
  BY SMTT(20), <1>1 DEF FInv, Control, NoEdit, HasEdit
<1>3. E \in Block \ {{}}
  <2>1. PICK e \in Rest(compaction) : e.key = last
    BY <1>1
  <2>2. Rest(compaction) \in Block
    BY <1>2, RestTyped DEF Stored
  <2>3. e \in E
    BY SMTT(20), <2>1, VersionSetAssumption
  <2> QED BY <2>2, <2>3 DEF Block
<1>4. n \in Nat
  BY <1>1 DEF Numbers
<1> HIDE DEF n, E
<1>5. /\ DOMAIN disk' = DOMAIN disk /\ disk'.table = Put(disk.table, n, E)
      /\ disk'.log = disk.log /\ disk'.manifest = disk.manifest /\ disk'.current = disk.current
  BY <1>1 DEF FInv, Control
<1>6. compaction' # NoCompaction
  <2>1. DOMAIN compaction' = DOMAIN compaction
    BY <1>1
  <2>2. "version" \in DOMAIN compaction' /\ "version" \notin DOMAIN NoCompaction
    BY <1>2, <2>1 DEF FInv, Control, NoCompaction
  <2> QED BY <2>2
<1> QED BY <1>1, <1>2, <1>3, <1>4, <1>5, <1>6 DEF n, E, OutputMade

LEMMA FlushStep ==
    ASSUME FInv, Held, Numbers, CompactMemTable
    PROVE  Flushed
<1> DEFINE n == versions.next_file
           f == FileMetaData(n, imm)
           level == PickLevelForMemTableOutput(versions.current, f.smallest, f.largest)
<1>1. /\ FlushReady /\ state' = state /\ disk' = [disk EXCEPT !.table = Put(@, n, imm)]
      /\ versions' = [versions EXCEPT !.next_file = n + 1]
      /\ bg' = [pc |-> "write", kind |-> "mem", edit |-> Edit({<<level, f>>}, {}, logfile, n + 1)]
      /\ UNCHANGED <<mem, logfile, compaction, reader>>
  BY DEF CompactMemTable
<1>2. state = "up" /\ imm # {} /\ bg.pc \in {"idle", "merge"}
  BY <1>1 DEF FlushReady, Working
<1>3. imm \in Block /\ n \in Nat
  BY <1>2 DEF Held, Numbers
<1> HIDE DEF n, f, level
<1>4. /\ DOMAIN disk' = DOMAIN disk /\ disk'.table = Put(disk.table, n, imm)
      /\ disk'.log = disk.log /\ disk'.manifest = disk.manifest /\ disk'.current = disk.current
  BY <1>1 DEF FInv, Control
<1> QED BY <1>1, <1>2, <1>3, <1>4 DEF n, f, level, Flushed

LEMMA TablesStep ==
    ASSUME FInv, Stored, Held, Numbers, Merges, Next
    PROVE  TablesTyped'
<1>1. ASSUME NEW n \in Nat, NEW E \in Block \ {{}}, disk'.table = Put(disk.table, n, E)
      PROVE  TablesTyped'
  BY <1>1 DEF Stored, TablesTyped, Put
<1>2. ASSUME Fewer(disk'.table, disk.table) PROVE TablesTyped'
  BY <1>2 DEF Stored, TablesTyped, Fewer
<1>3. ASSUME disk'.table = disk.table PROVE TablesTyped'
  BY <1>3 DEF Stored, TablesTyped
<1>4. CASE SameFiles
  BY <1>3, <1>4 DEF SameFiles
<1>5. CASE NewDB \/ SwitchMemTable \/ \E n \in 1..Len(writers) : AddRecord(n) \/ AddRecordFails(n)
  <2>1. disk'.table = disk.table
    BY <1>5 DEF NewDB, SwitchMemTable, AddRecord, AddRecordFails, FInv, Control
  <2> QED BY <1>3, <2>1
<1>6. CASE Recover
  BY SMTT(20), <1>6, RecoverStep DEF Stored, TablesTyped, Recovered
<1>7. CASE WriteManifest \/ WriteManifestFails
  <2>1. disk'.table = disk.table
    BY <1>7 DEF WriteManifest, WriteManifestFails, WithRecord, FInv, Control
  <2> QED BY <1>3, <2>1
<1>8. CASE Install
  BY <1>2, <1>8, InstallDisk DEF FInv, OnlyDeleted
<1>9. CASE CompactMemTable
  BY <1>1, <1>9, FlushStep DEF Flushed
<1>10. CASE \E last \in Keys : CompactionOutput(last)
  BY <1>1, <1>10, OutputStep DEF OutputMade
<1>11. CASE Crash
  BY <1>2, <1>11, CrashDisk DEF FInv, Lost
<1> QED BY <1>4, <1>5, <1>6, <1>7, <1>8, <1>9, <1>10, <1>11, FileSteps

LEMMA LogsStep ==
    ASSUME FInv, Stored, Held, Numbers, Merges, Next
    PROVE  LogsTyped'
<1>1. PICK b \in Nat : LogsTo(disk.log, b)
  BY DEF Stored, LogsTyped
<1>2. ASSUME NEW n \in Nat \ {0}, disk'.log = Put(disk.log, n, <<>>) PROVE LogsTyped'
  <2>1. LogsTo(disk'.log, b + n)
    BY <1>1, <1>2, PutLog
  <2>2. b + n \in Nat
    BY SMTT(20)
  <2> QED BY <2>1, <2>2 DEF LogsTyped
<1>3. ASSUME NEW c \in Nat, b <= c, NEW E \in BlockTo(c),
             disk'.log = [disk.log EXCEPT ![logfile] = Append(@, E)]
      PROVE  LogsTyped'
  <2>1. LogsTo([disk.log EXCEPT ![logfile] = Append(@, E)], c)
    <3>1. PICK log : log = disk.log
      OBVIOUS
    <3> QED BY <1>1, <1>3, <3>1, AppendLog
  <2> QED BY <1>3, <2>1 DEF LogsTyped
<1>4. ASSUME disk'.log = disk.log PROVE LogsTyped'
  BY <1>4 DEF Stored, LogsTyped
<1>5. CASE SameFiles
  BY <1>4, <1>5 DEF SameFiles
<1>6. CASE NewDB \/ CompactMemTable \/ \E last \in Keys : CompactionOutput(last)
  <2>1. disk'.log = disk.log
    BY <1>6, FlushStep, OutputStep DEF NewDB, FInv, Control, OutputMade, Flushed
  <2> QED BY <1>4, <2>1
<1>7. CASE Recover
  <2>1. PICK n : n = ReplayedLogs.next
    OBVIOUS
  <2>2. n \in Nat \ {0} /\ disk'.log = Put(disk.log, n, <<>>)
    BY SMTT(20), <1>7, <2>1, RecoverStep DEF Recovered
  <2> QED BY <1>2, <2>2
<1>8. CASE WriteManifest \/ WriteManifestFails
  <2>1. disk'.log = disk.log
    BY <1>8 DEF WriteManifest, WriteManifestFails, WithRecord, FInv, Control
  <2> QED BY <1>4, <2>1
<1>9. CASE Install
  <2>1. Fewer(disk'.log, disk.log)
    BY <1>9, InstallDisk DEF FInv, OnlyDeleted
  <2>2. LogsTo(disk'.log, b)
    BY <1>1, <2>1 DEF Fewer, LogsTo
  <2> QED BY <2>2 DEF LogsTyped
<1>10. CASE SwitchMemTable
  <2>1. state = "up" /\ disk' = [disk EXCEPT !.log = Put(@, versions.next_file, <<>>)]
    BY <1>10 DEF SwitchMemTable, AtFront, Working
  <2>2. PICK n : n = versions.next_file
    OBVIOUS
  <2>3. n \in Nat \ {0}
    BY SMTT(20), <2>1, <2>2 DEF Numbers
  <2>4. disk'.log = Put(disk.log, n, <<>>)
    BY <2>1, <2>2 DEF FInv, Control
  <2> QED BY <1>2, <2>3, <2>4
<1>11. ASSUME NEW n \in 1..Len(writers), AddRecord(n) \/ AddRecordFails(n) PROVE LogsTyped'
  <2>1. state = "up"
    BY <1>11 DEF AddRecord, AddRecordFails, AtFront, Working
  <2>2. PICK seq \in Nat : seq = versions.last_sequence
    BY <2>1 DEF Numbers
  <2>3. PICK ops \in Seq(Op) : ops = Ops(n)
    <3>1. n \in 0..Len(writers)
      BY SMTT(20)
    <3> QED BY <3>1, OpsTyped
  <2>4. PICK E : E = Entries(ops, seq)
    OBVIOUS
  <2>5. \/ disk'.log = disk.log
        \/ disk'.log = [disk.log EXCEPT ![logfile] = Append(@, E)]
        \/ disk'.log = [disk.log EXCEPT ![logfile] = Append(@, {})]
    BY <1>11, <2>2, <2>3, <2>4 DEF AddRecord, AddRecordFails, FInv, Control
  <2>6. PICK c \in Nat : c = b + (seq + Len(ops))
    BY SMTT(20), <1>1
  <2>7. b <= c /\ seq + Len(ops) <= c
    BY SMTT(20), <1>1, <2>6
  <2>8. E \in BlockTo(c) /\ {} \in BlockTo(c)
    <3>1. E \in BlockTo(seq + Len(ops))
      BY <2>4, EntriesTyped
    <3>2. 0..(seq + Len(ops)) \subseteq 0..c
      BY SMTT(20), <2>7
    <3> QED BY <3>1, <3>2 DEF BlockTo
  <2> QED BY <1>3, <1>4, <2>5, <2>7, <2>8
<1>12. CASE Crash
  <2>1. PICK d : /\ Fewer(d, disk.log) /\ DOMAIN disk'.log = DOMAIN d
                 /\ \A n \in DOMAIN d : disk'.log[n] \in Readable(d[n])
    BY <1>12, CrashDisk DEF FInv, Lost
  <2>2. ASSUME NEW n \in DOMAIN d PROVE n \in 1..b /\ disk'.log[n] \in Seq(BlockTo(b))
    <3>1. n \in 1..b /\ d[n] \in Seq(BlockTo(b))
      BY <1>1, <2>1 DEF Fewer, LogsTo
    <3>2. PICK s : s = disk'.log[n]
      OBVIOUS
    <3>3. s \in Readable(d[n])
      BY <2>1, <3>2
    <3> QED BY <3>1, <3>2, <3>3, ReadableTyped
  <2>3. LogsTo(disk'.log, b)
    BY <2>1, <2>2 DEF LogsTo
  <2> QED BY <2>3 DEF LogsTyped
<1> QED BY <1>5, <1>6, <1>7, <1>8, <1>9, <1>10, <1>11, <1>12, FileSteps

LEMMA RecordsStep ==
    ASSUME FInv, Stored, Held, Numbers, Merges, Next
    PROVE  RecordsTyped'
<1>1. ASSUME NEW n, NEW r, Counted(r), disk'.manifest = Put(disk.manifest, n, r)
      PROVE  RecordsTyped'
  BY <1>1 DEF Stored, RecordsTyped, Put
<1>2. ASSUME Fewer(disk'.manifest, disk.manifest) PROVE RecordsTyped'
  BY <1>2 DEF Stored, RecordsTyped, Fewer
<1>3. ASSUME disk'.manifest = disk.manifest PROVE RecordsTyped'
  BY <1>3 DEF Stored, RecordsTyped
<1>4. CASE SameFiles
  BY <1>3, <1>4 DEF SameFiles
<1>5. CASE NewDB
  <2> DEFINE first == [version |-> EmptyVersion, log_number |-> 0, next_file |-> 2,
                       last_sequence |-> 0]
  <2>1. disk'.manifest = Put(disk.manifest, 1, first)
    BY <1>5 DEF NewDB, FInv, Control
  <2>2. Counted(first)
    BY EmptyBelow DEF Counted
  <2> HIDE DEF first
  <2> QED BY <1>1, <2>1, <2>2
<1>6. CASE SwitchMemTable \/ \E n \in 1..Len(writers) : AddRecord(n) \/ AddRecordFails(n)
  <2>1. disk'.manifest = disk.manifest
    BY <1>6 DEF SwitchMemTable, AddRecord, AddRecordFails, FInv, Control
  <2> QED BY <1>3, <2>1
<1>7. CASE Recover \/ CompactMemTable \/ \E last \in Keys : CompactionOutput(last)
  BY <1>3, <1>7, RecoverStep, FlushStep, OutputStep DEF Recovered, OutputMade, Flushed
<1>8. CASE WriteManifest \/ WriteManifestFails
  <2>1. bg.pc = "write" /\ (disk' = disk \/ disk' = WithRecord)
    BY <1>8 DEF WriteManifest, WriteManifestFails
  <2>2. CASE disk' = disk
    BY <1>3, <2>2
  <2>3. CASE disk' = WithRecord
    <3>1. disk'.manifest = Put(disk.manifest, versions.manifest, Record(Base, bg.edit))
      BY <2>3 DEF WithRecord, FInv, Control
    <3> QED BY <1>1, <2>1, <3>1, RecordCounted
  <2> QED BY <2>1, <2>2, <2>3
<1>9. CASE Install
  BY <1>2, <1>9, InstallDisk DEF FInv, OnlyDeleted
<1>10. CASE Crash
  BY <1>2, <1>10, CrashDisk DEF FInv, Lost
<1> QED BY <1>4, <1>5, <1>6, <1>7, <1>8, <1>9, <1>10, FileSteps

LEMMA StoredStep ==
    ASSUME FInv, Stored, Held, Numbers, Merges, Next
    PROVE  Stored'
BY TablesStep, LogsStep, RecordsStep DEF Stored

-----------------------------------------------------------------------------
(* The theorems.                                                            *)

LEMMA FilesStep ==
    ASSUME FInv, Numbers, Next
    PROVE  FInv'
<1>1. CASE NewDB \/ NewDBCurrent
  BY <1>1, NewDBFiles
<1>2. CASE Recover
  BY <1>2, RecoverFiles
<1>3. CASE SetCurrentFile
  BY <1>3, SetCurrentFileFiles
<1>4. CASE WriteManifest \/ WriteManifestFails
  BY <1>4, WriteManifestFiles, WriteManifestFailsFiles
<1>5. CASE Install
  <2>1. bg.pc = "install"
    BY <1>5 DEF Install
  <2>2. state \in {"open", "up"}
    BY SMTT(20), <2>1 DEF FInv, Control, NoEdit
  <2> QED BY <1>5, <2>2, InstallFiles DEF Numbers
<1>6. CASE CompactMemTable
  BY <1>6, CompactMemTableFiles
<1>7. ASSUME NEW level \in 0..NumLevels - 2, NEW f \in versions.current[level],
             BackgroundCompaction(level, f)
      PROVE  FInv'
  <2>1. level \in Nat /\ level < NumLevels - 1
    BY SMTT(20), VersionSetAssumption
  <2> QED BY <1>7, <2>1, BackgroundCompactionFiles
<1>8. CASE \E last \in Keys : CompactionOutput(last)
  BY <1>8, CompactionOutputFiles
<1>9. CASE InstallCompactionResults \/ CompactionFails
  BY <1>9, InstallCompactionResultsFiles, CompactionFailsFiles
<1>10. CASE CompactMemTableFails
  <2>1. /\ state = "up" /\ state' = state /\ versions' = [versions EXCEPT !.next_file = @ + 1]
        /\ bg_error' = TRUE /\ UNCHANGED <<disk, pending, bg, compaction, reader>>
    BY <1>10 DEF CompactMemTableFails, FlushReady, Working
  <2>2. /\ DOMAIN versions' = DOMAIN versions /\ versions'.current = versions.current
        /\ versions'.manifest = versions.manifest
    BY <2>1 DEF FInv, Control
  <2> QED BY <2>1, <2>2, OtherSteps DEF FilesKept
<1>11. ASSUME UNCHANGED <<disk, state, versions, bg_error, pending, bg, compaction, reader>>
       PROVE  FInv'
  BY <1>11, OtherSteps DEF FilesKept
<1>12. CASE MakeRoomFails \/ \E w \in Writers, b \in Batches : Write(w, b)
  BY <1>11, <1>12 DEF MakeRoomFails, Write
<1>13. CASE EndGet
  <2>1. /\ reader' = NoReader
        /\ UNCHANGED <<disk, state, versions, bg_error, pending, bg, compaction>>
    BY <1>13 DEF EndGet
  <2> QED BY <2>1, OtherSteps DEF FilesKept
<1>14. CASE BeginGet
  <2>1. /\ state = "up" /\ UNCHANGED <<disk, state, versions, bg_error, pending, bg, compaction>>
        /\ DOMAIN reader' = {"seq", "log", "mem", "imm", "version", "expected"}
        /\ reader'.version = versions.current
    BY <1>14 DEF BeginGet, Working
  <2> QED BY <2>1, OtherSteps DEF FilesKept
<1>15. CASE SwitchMemTable \/ FinishWrite
            \/ \E n \in 1..Len(writers) : AddRecord(n) \/ AddRecordFails(n)
  <2>1. state = "up" /\ UNCHANGED <<state, bg_error, pending, bg, compaction>>
    BY <1>15 DEF SwitchMemTable, FinishWrite, AddRecord, AddRecordFails, AtFront, Working
  <2>2. /\ DOMAIN disk' = DOMAIN disk /\ disk'.table = disk.table
        /\ disk'.manifest = disk.manifest /\ disk'.current = disk.current
    BY <1>15 DEF SwitchMemTable, FinishWrite, AddRecord, AddRecordFails, FInv, Control
  <2>3. /\ DOMAIN versions' = DOMAIN versions /\ versions'.current = versions.current
        /\ versions'.manifest = versions.manifest
    BY <1>15 DEF SwitchMemTable, FinishWrite, AddRecord, AddRecordFails, FInv, Control
  <2>4. CASE FinishWrite
    <3>1. reader' = (IF reader # NoReader /\ reader.log = logfile
                     THEN [reader EXCEPT !.mem = mem'] ELSE reader)
      BY <2>4 DEF FinishWrite
    <3>2. \/ reader' = reader
          \/ /\ reader # NoReader /\ reader'.version = reader.version
             /\ DOMAIN reader' = {"seq", "log", "mem", "imm", "version", "expected"}
      BY <3>1 DEF FInv, Control
    <3> QED BY <2>1, <2>2, <2>3, <3>2, OtherSteps DEF FilesKept
  <2>5. CASE reader' = reader
    BY <2>1, <2>2, <2>3, <2>5, OtherSteps DEF FilesKept
  <2> QED BY <1>15, <2>4, <2>5 DEF SwitchMemTable, AddRecord, AddRecordFails
<1>16. CASE Crash
  BY <1>16, CrashFiles
<1> QED BY <1>1, <1>2, <1>3, <1>4, <1>5, <1>6, <1>7, <1>8, <1>9, <1>10, <1>12, <1>13, <1>14,
           <1>15, <1>16 DEF Next
=============================================================================
