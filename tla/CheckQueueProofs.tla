--------------------------- MODULE CheckQueueProofs ---------------------------
(* Machine-checked proofs about CheckQueue, for any number of workers, checks *)
(* and blocks.                                                                *)
EXTENDS CheckQueue, FiniteSetTheorems, TLAPS

\* The prover a leaf is given to unless it names one.
USE ZenonT(10)

\* The states of a thread that has a batch, and of the master between blocks.
Busy == {"work", "done"}
Off == {"idle", "aborted"}

Roles ==
    /\ \A w \in Workers : pc[w] \notin Off \cup {"block"}
    /\ pc[Master] \notin {"new", "gone"}
    /\ \A t \in Threads : mine[t] # {} <=> pc[t] \in Busy

\* What the results so far say of the block's checks.
Answer ==
    /\ pc[Master] \in Off => Outstanding = {} /\ fAllOk
    /\ Outstanding \subseteq added
    /\ pc[Master] \notin Off /\ fAllOk => added \ Outstanding \subseteq good
    /\ pc[Master] \notin Off /\ ~fAllOk => ~(added \subseteq good)
    /\ \A t \in Threads : pc[t] \in Busy /\ ~fOk[t] => ~(added \subseteq good)
    /\ \A t \in Threads : pc[t] = "done" /\ fOk[t] => mine[t] \subseteq good

\* The inductive invariant.
IInv == TypeOK /\ TodoCounted /\ ThreadsCounted /\ Roles /\ Answer
-----------------------------------------------------------------------------
(* Counting.                                                                 *)

\* Threads and checks are finite in number.
LEMMA Finite ==
    ASSUME TypeOK
    PROVE  /\ IsFiniteSet(Outstanding) /\ Outstanding \subseteq Checks
           /\ IsFiniteSet(Inside) /\ IsFiniteSet(Asleep)
           /\ \A S \in SUBSET Checks : IsFiniteSet(S) /\ Cardinality(S) \in Nat
<1>1. IsFiniteSet(Threads)
  BY QueueAssumption, FS_AddElement DEF Threads
<1>2. Inside \subseteq Threads /\ Asleep \subseteq Threads
  BY DEF Inside, Asleep
<1>3. Outstanding \subseteq Checks
  BY SMTT(20) DEF TypeOK, Outstanding
<1>4. \A S \in SUBSET Checks : IsFiniteSet(S) /\ Cardinality(S) \in Nat
  BY QueueAssumption, FS_Subset, FS_CardinalityType
<1> QED BY <1>1, <1>2, <1>3, <1>4, FS_Subset

\* The cardinality of a part taken away.
LEMMA CardMinus ==
    ASSUME NEW S, IsFiniteSet(S), NEW T \in SUBSET S
    PROVE  Cardinality(S \ T) = Cardinality(S) - Cardinality(T) /\ Cardinality(S \ T) \in Nat
<1>1. IsFiniteSet(T) /\ IsFiniteSet(S \ T) /\ S \cap T = T
  BY FS_Subset
<1>2. Cardinality(S \ T) = Cardinality(S) - Cardinality(S \cap T)
  BY FS_Difference
<1> QED BY ZenonT(30), <1>1, <1>2, FS_CardinalityType

\* The cardinality of a disjoint part added.
LEMMA CardPlus ==
    ASSUME NEW S, IsFiniteSet(S), NEW T, IsFiniteSet(T), S \cap T = {}
    PROVE  Cardinality(S \cup T) = Cardinality(S) + Cardinality(T) /\ Cardinality(S \cup T) \in Nat
<1>1. IsFiniteSet(S \cup T) /\ Cardinality(S \cup T) = Cardinality(S) + Cardinality(T) - Cardinality(S \cap T)
  BY FS_Union
<1>2. Cardinality(S \cap T) = 0 /\ Cardinality(S) \in Nat /\ Cardinality(T) \in Nat
  BY FS_EmptySet, FS_CardinalityType
<1> QED BY SMTT(20), <1>1, <1>2

\* A step in which no thread enters, leaves, falls asleep or wakes.
LEMMA ThreadsKept ==
    ASSUME ThreadsCounted, nTotal' = nTotal, nIdle' = nIdle,
           \A t \in Threads : pc'[t] \in LoopStates <=> pc[t] \in LoopStates,
           \A t \in Threads : pc'[t] \in SleepStates <=> pc[t] \in SleepStates
    PROVE  ThreadsCounted'
<1>1. Inside' = Inside /\ Asleep' = Asleep
  BY DEF Inside, Asleep
<1> QED BY <1>1 DEF ThreadsCounted

\* A step that moves no check.
LEMMA TodoKept ==
    ASSUME TodoCounted, nTodo' = nTodo, queue' = queue, mine' = mine
    PROVE  TodoCounted' /\ Outstanding' = Outstanding
<1>1. Outstanding' = Outstanding
  BY DEF Outstanding
<1> QED BY <1>1 DEF TodoCounted

\* A step of one thread.
LEMMA PcOf ==
    ASSUME TypeOK, NEW t \in Threads, NEW s, Goto(t, s)
    PROVE  \A u \in Threads : pc'[u] = IF u = t THEN s ELSE pc[u]
BY DEF Goto, TypeOK
-----------------------------------------------------------------------------
(* One lemma for each action.                                                *)

\* A thread that enters is counted.
LEMMA EnterStep ==
    ASSUME IInv, NEW t \in Threads, Enter(t)
    PROVE  IInv'
<1>1. /\ lock = None /\ lock' = t /\ nTotal' = nTotal + 1 /\ Goto(t, "look")
      /\ pc[t] = IF t = Master THEN "block" ELSE "new"
      /\ UNCHANGED <<queue, nIdle, fAllOk, nTodo, fQuit, mine, fOk, quit, blockVars, blocks, spurious>>
  BY DEF Enter
<1>2. \A u \in Threads : pc'[u] = IF u = t THEN "look" ELSE pc[u]
  BY <1>1, PcOf DEF IInv
<1>3. TypeOK'
  <2>1. \A u \in Threads : lock' = u <=> pc'[u] = "look"
    BY <1>1, <1>2, QueueAssumption DEF IInv, TypeOK, Threads
  <2> QED BY SMTT(20), <1>1, <2>1 DEF IInv, TypeOK, Goto, blockVars
<1>4. TodoCounted' /\ Outstanding' = Outstanding
  BY <1>1, TodoKept DEF IInv
<1>5. ThreadsCounted'
  <2>1. Inside' = Inside \cup {t} /\ t \notin Inside /\ Asleep' = Asleep
    BY <1>1, <1>2 DEF Inside, Asleep, LoopStates, SleepStates
  <2> QED BY <1>1, <2>1, Finite, FS_AddElement DEF IInv, ThreadsCounted
<1>6. Roles'
  BY <1>1, <1>2 DEF IInv, Roles, Threads, Busy, Off
<1>7. Answer'
  BY <1>1, <1>2, <1>4 DEF IInv, Answer, Threads, Busy, Off, blockVars
<1> QED BY <1>3, <1>4, <1>5, <1>6, <1>7 DEF IInv

\* A thread that wakes is not idle.
LEMMA WakeStep ==
    ASSUME IInv, NEW t \in Threads, Wake(t)
    PROVE  IInv'
<1>1. /\ lock = None /\ lock' = t /\ nIdle' = nIdle - 1 /\ Goto(t, "look") /\ pc[t] = "woken"
      /\ UNCHANGED <<queue, nTotal, fAllOk, nTodo, fQuit, mine, fOk, quit, blockVars, blocks, spurious>>
  BY DEF Wake
<1>2. \A u \in Threads : pc'[u] = IF u = t THEN "look" ELSE pc[u]
  BY <1>1, PcOf DEF IInv
<1>3. ThreadsCounted' /\ nIdle' \in Nat
  <2>1. Asleep' = Asleep \ {t} /\ t \in Asleep /\ Inside' = Inside
    BY <1>1, <1>2 DEF Inside, Asleep, LoopStates, SleepStates
  <2>2. Cardinality(Asleep') = Cardinality(Asleep) - 1 /\ Cardinality(Asleep') \in Nat
    BY <2>1, Finite, FS_RemoveElement, FS_CardinalityType DEF IInv
  <2> QED BY <1>1, <2>1, <2>2 DEF IInv, ThreadsCounted
<1>4. TypeOK'
  <2>1. \A u \in Threads : lock' = u <=> pc'[u] = "look"
    BY <1>1, <1>2, QueueAssumption DEF IInv, TypeOK, Threads
  <2> QED BY <1>1, <1>3, <2>1 DEF IInv, TypeOK, Goto, blockVars
<1>5. TodoCounted' /\ Outstanding' = Outstanding
  BY <1>1, TodoKept DEF IInv
<1>6. Roles'
  BY <1>1, <1>2 DEF IInv, Roles, Threads, Busy, Off
<1>7. Answer'
  BY <1>1, <1>2, <1>5 DEF IInv, Answer, Threads, Busy, Off, blockVars
<1> QED BY <1>3, <1>4, <1>5, <1>6, <1>7 DEF IInv

\* A thread that sleeps is idle.
LEMMA SleepStep ==
    ASSUME IInv, NEW t \in Threads, Sleep(t)
    PROVE  IInv'
<1>1. /\ lock' = None /\ nIdle' = nIdle + 1 /\ Goto(t, "wait") /\ pc[t] = "look"
      /\ UNCHANGED <<queue, nTotal, fAllOk, nTodo, fQuit, mine, fOk, quit, blockVars, blocks, spurious>>
  BY DEF Sleep
<1>2. \A u \in Threads : pc'[u] = IF u = t THEN "wait" ELSE pc[u]
  BY <1>1, PcOf DEF IInv
<1>3. ThreadsCounted'
  <2>1. Asleep' = Asleep \cup {t} /\ t \notin Asleep /\ Inside' = Inside
    BY <1>1, <1>2 DEF Inside, Asleep, LoopStates, SleepStates
  <2> QED BY <1>1, <2>1, Finite, FS_AddElement DEF IInv, ThreadsCounted
<1>4. TypeOK'
  <2>1. \A u \in Threads : lock' = u <=> pc'[u] = "look"
    BY <1>1, <1>2, QueueAssumption DEF IInv, TypeOK, Threads
  <2> QED BY SMTT(20), <1>1, <2>1 DEF IInv, TypeOK, Goto, blockVars
<1>5. TodoCounted' /\ Outstanding' = Outstanding
  BY <1>1, TodoKept DEF IInv
<1>6. Roles'
  BY <1>1, <1>2 DEF IInv, Roles, Threads, Busy, Off
<1>7. Answer'
  BY <1>1, <1>2, <1>5 DEF IInv, Answer, Threads, Busy, Off, blockVars
<1> QED BY <1>3, <1>4, <1>5, <1>6, <1>7 DEF IInv

\* The master leaves with nothing outstanding.
LEMMA LeaveStep ==
    ASSUME IInv, NEW t \in Threads, Leave(t)
    PROVE  IInv' /\ (t = Master => result' = (added \subseteq good))
<1>1. /\ lock' = None /\ nTotal' = nTotal - 1 /\ pc[t] = "look" /\ nTodo = 0
      /\ Goto(t, IF t = Master THEN "idle" ELSE "gone")
      /\ quit' = IF nTotal' = 0 THEN QuitNotified ELSE quit
      /\ result' = IF t = Master THEN fAllOk ELSE result
      /\ fAllOk' = IF t = Master THEN TRUE ELSE fAllOk
      /\ UNCHANGED <<queue, nIdle, nTodo, fQuit, mine, fOk, added, good, blocks, spurious>>
  BY DEF Leave, MayLeave
<1>2. \A u \in Threads : pc'[u] = IF u = t THEN (IF t = Master THEN "idle" ELSE "gone") ELSE pc[u]
  BY <1>1, PcOf DEF IInv
<1>3. ThreadsCounted' /\ nTotal' \in Nat
  <2>1. Inside' = Inside \ {t} /\ t \in Inside /\ Asleep' = Asleep
    BY <1>1, <1>2 DEF Inside, Asleep, LoopStates, SleepStates
  <2>2. Cardinality(Inside') = Cardinality(Inside) - 1 /\ Cardinality(Inside') \in Nat
    BY <2>1, Finite, FS_RemoveElement, FS_CardinalityType DEF IInv
  <2> QED BY <1>1, <2>1, <2>2 DEF IInv, ThreadsCounted
<1>4. TypeOK'
  <2>1. \A u \in Threads : lock' = u <=> pc'[u] = "look"
    BY <1>1, <1>2, QueueAssumption DEF IInv, TypeOK, Threads
  <2>2. pc' \in [Threads -> {"new", "idle", "block", "aborted", "look", "work", "done",
                             "wait", "woken", "gone"}]
    BY <1>1 DEF IInv, TypeOK, Goto
  <2>3. quit' \in {"no", "wait", "woken", "done"}
    BY <1>1 DEF IInv, TypeOK, QuitNotified
  <2> QED BY ZenonT(30), <1>1, <1>3, <2>1, <2>2, <2>3 DEF IInv, TypeOK
<1>5. TodoCounted' /\ Outstanding' = Outstanding
  BY <1>1, TodoKept DEF IInv
<1>6. Outstanding = {}
  BY ZenonT(30), <1>1, Finite, FS_EmptySet DEF IInv, TodoCounted
<1>7. Roles'
  BY <1>1, <1>2, QueueAssumption DEF IInv, Roles, Threads, Busy, Off
<1>8. \A u \in Threads : pc[u] \notin Busy
  BY SMTT(20), <1>6 DEF IInv, Roles, Outstanding
<1>9. CASE t = Master
  <2>1. result' = (added \subseteq good)
    BY <1>1, <1>6, <1>9 DEF IInv, Answer, Off, TypeOK
  <2>2. fAllOk' = TRUE /\ pc'[Master] = "idle" /\ \A u \in Threads : pc'[u] \notin Busy
    BY <1>1, <1>2, <1>8, <1>9 DEF Threads, Busy
  <2>3. Answer'
    BY <1>1, <1>5, <1>6, <2>2 DEF IInv, Answer, Busy, Off
  <2> QED BY <1>3, <1>4, <1>5, <1>7, <2>1, <2>3 DEF IInv
<1>10. CASE t # Master
  <2>1. Answer'
    BY <1>1, <1>2, <1>5, <1>10 DEF IInv, Answer, Threads, Busy, Off
  <2> QED BY <1>3, <1>4, <1>5, <1>7, <1>10, <2>1 DEF IInv
<1> QED BY <1>9, <1>10

\* A batch has at least one check.
LEMMA BatchNotEmpty ==
    ASSUME TypeOK, NEW batch \in SUBSET queue, Cardinality(batch) = BatchSize
    PROVE  batch # {}
<1> DEFINE share == Cardinality(queue) \div (nTotal + nIdle + 1)
<1>1. Cardinality(queue) \in Nat /\ nTotal + nIdle + 1 \in Nat /\ nTotal + nIdle + 1 > 0
  BY SMTT(20), Finite DEF TypeOK
<1>2. share \in Int
  BY SMTT(20), <1>1
<1>3. BatchSize = IF share < 1 THEN 1 ELSE IF share > nBatchSize THEN nBatchSize ELSE share
  BY DEF BatchSize
<1>4. BatchSize >= 1
  <2> HIDE DEF share
  <2> QED BY SMTT(20), <1>2, <1>3, QueueAssumption
<1> QED BY SMTT(20), <1>4, FS_EmptySet

\* A batch moves from the queue to its thread.
LEMMA TakeStep ==
    ASSUME IInv, NEW t \in Threads, Take(t)
    PROVE  IInv'
<1>1. PICK batch \in SUBSET queue :
        /\ Cardinality(batch) = BatchSize
        /\ queue' = queue \ batch
        /\ mine' = [mine EXCEPT ![t] = batch]
  BY ZenonT(30) DEF Take
<1>2. /\ lock' = None /\ pc[t] = "look" /\ Goto(t, "work")
      /\ fOk' = [fOk EXCEPT ![t] = fAllOk]
      /\ UNCHANGED <<nIdle, nTotal, fAllOk, nTodo, fQuit, quit, blockVars, blocks, spurious>>
  BY DEF Take
<1>3. \A u \in Threads : pc'[u] = IF u = t THEN "work" ELSE pc[u]
  BY <1>2, PcOf DEF IInv
<1>4. batch # {} /\ batch \subseteq Checks
  BY <1>1, BatchNotEmpty DEF IInv, TypeOK
<1>5. /\ \A u \in Threads : mine'[u] = IF u = t THEN batch ELSE mine[u]
      /\ \A u \in Threads : fOk'[u] = IF u = t THEN fAllOk ELSE fOk[u]
  BY <1>1, <1>2 DEF IInv, TypeOK
<1>6. mine[t] = {}
  BY <1>2 DEF IInv, Roles, Busy
<1>7. Outstanding' = Outstanding
  BY SMTT(20), <1>1, <1>5, <1>6 DEF Outstanding
<1>8. TypeOK'
  <2>1. \A u \in Threads : lock' = u <=> pc'[u] = "look"
    BY <1>2, <1>3, QueueAssumption DEF IInv, TypeOK, Threads
  <2> QED BY <1>1, <1>2, <1>4, <2>1 DEF IInv, TypeOK, Goto, blockVars
<1>9. TodoCounted'
  BY SMTT(20), <1>1, <1>2, <1>5, <1>7 DEF IInv, TodoCounted
<1>10. ThreadsCounted'
  BY <1>2, <1>3, ThreadsKept DEF IInv, LoopStates, SleepStates
<1>11. Roles'
  BY <1>2, <1>3, <1>4, <1>5 DEF IInv, Roles, Threads, Busy, Off
<1>12. pc[Master] \notin Off
  BY <1>1, <1>4 DEF IInv, Answer, Outstanding
<1>13. Answer'
  BY <1>2, <1>3, <1>5, <1>7, <1>12 DEF IInv, Answer, Threads, Busy, Off, blockVars
<1> QED BY <1>8, <1>9, <1>10, <1>11, <1>13 DEF IInv

\* The result of a batch is what its checks and the earlier ones say.
LEMMA WorkStep ==
    ASSUME IInv, NEW t \in Threads, Work(t)
    PROVE  IInv'
<1>1. /\ pc[t] = "work" /\ Goto(t, "done")
      /\ fOk' = [fOk EXCEPT ![t] = fOk[t] /\ mine[t] \subseteq good]
      /\ UNCHANGED <<lock, queueVars, fQuit, mine, quit, blockVars, blocks, spurious>>
  BY DEF Work
<1>2. \A u \in Threads : pc'[u] = IF u = t THEN "done" ELSE pc[u]
  BY <1>1, PcOf DEF IInv
<1>3. /\ \A u \in Threads \ {t} : fOk'[u] = fOk[u]
      /\ fOk'[t] <=> fOk[t] /\ mine[t] \subseteq good
  BY ZenonT(30), <1>1 DEF IInv, TypeOK
<1>4. TypeOK'
  <2>1. \A u \in Threads : lock' = u <=> pc'[u] = "look"
    BY <1>1, <1>2 DEF IInv, TypeOK
  <2> QED BY <1>1, <2>1 DEF IInv, TypeOK, Goto, blockVars, queueVars
<1>5. TodoCounted' /\ Outstanding' = Outstanding
  BY <1>1, TodoKept DEF IInv, queueVars
<1>6. ThreadsCounted'
  BY <1>1, <1>2, ThreadsKept DEF IInv, LoopStates, SleepStates, queueVars
<1>7. Roles'
  BY <1>1, <1>2 DEF IInv, Roles, Threads, Busy, Off
<1>8. mine[t] \subseteq added
  BY DEF IInv, Answer, Outstanding
<1>9. Answer'
  <2>1. \A u \in Threads : pc'[u] \in Busy /\ ~fOk'[u] => ~(added \subseteq good)
    BY <1>1, <1>2, <1>3, <1>8 DEF IInv, Answer, Busy
  <2>2. \A u \in Threads : pc'[u] = "done" /\ fOk'[u] => mine[u] \subseteq good
    BY <1>1, <1>2, <1>3 DEF IInv, Answer
  <2> QED BY <1>1, <1>2, <1>5, <2>1, <2>2 DEF IInv, Answer, Threads, Busy, Off, blockVars, queueVars
<1> QED BY <1>4, <1>5, <1>6, <1>7, <1>9 DEF IInv

\* What is no longer outstanding is what the result answers for.
LEMMA AccountStep ==
    ASSUME IInv, NEW t \in Threads, Account(t)
    PROVE  IInv'
<1>1. /\ lock = None /\ lock' = t /\ pc[t] = "done"
      /\ fAllOk' = (fAllOk /\ fOk[t])
      /\ nTodo' = nTodo - Cardinality(mine[t])
      /\ mine' = [mine EXCEPT ![t] = {}]
      /\ UNCHANGED <<queue, nIdle, nTotal, fQuit, fOk, quit, blockVars, blocks, spurious>>
  BY DEF Account
<1>2. /\ pc' \in [Threads -> {"new", "idle", "block", "aborted", "look", "work", "done",
                              "wait", "woken", "gone"}]
      /\ pc'[t] = "look"
      /\ \A u \in Threads \ {t} : pc'[u] = pc[u] \/ (pc[u] = "wait" /\ pc'[u] = "woken")
  BY DEF Account, IInv, TypeOK, MasterNotified, Threads
<1>3. \A u \in Threads : mine'[u] = IF u = t THEN {} ELSE mine[u]
  BY <1>1 DEF IInv, TypeOK
<1>4. /\ mine[t] \subseteq Outstanding /\ mine[t] # {}
      /\ Outstanding' = Outstanding \ mine[t]
  <2>1. mine[t] \subseteq Outstanding /\ mine[t] # {}
    BY <1>1 DEF IInv, Roles, Outstanding, Busy
  <2>2. mine[t] \cap queue = {} /\ \A u \in Threads : u # t => mine[t] \cap mine[u] = {}
    BY DEF IInv, TodoCounted
  <2> QED BY SMTT(20), <1>1, <1>3, <2>1, <2>2 DEF Outstanding
<1>5. nTodo' = Cardinality(Outstanding') /\ nTodo' \in Nat
  BY ZenonT(30), <1>1, <1>4, Finite, CardMinus DEF IInv, TodoCounted
<1>6. TypeOK'
  <2>1. \A u \in Threads : lock' = u <=> pc'[u] = "look"
    BY <1>1, <1>2, QueueAssumption DEF IInv, TypeOK, Threads
  <2>2. fAllOk' \in BOOLEAN
    BY <1>1 DEF IInv, TypeOK
  <2> QED BY ZenonT(30), <1>1, <1>2, <1>5, <2>1, <2>2 DEF IInv, TypeOK, blockVars
<1>7. TodoCounted'
  BY SMTT(20), <1>1, <1>3, <1>5 DEF IInv, TodoCounted
<1>8. ThreadsCounted'
  BY <1>1, <1>2, ThreadsKept DEF IInv, LoopStates, SleepStates
<1>9. Roles'
  BY SMTT(20), <1>1, <1>2, <1>3 DEF IInv, Roles, Threads, Busy, Off
<1>10. pc[Master] \notin Off /\ pc'[Master] \notin Off
  BY <1>2, <1>4 DEF IInv, Answer, Threads, Off
<1>11. Answer'
  <2>1. fAllOk /\ fOk[t] => added \ (Outstanding \ mine[t]) \subseteq good
    BY <1>1, <1>10 DEF IInv, Answer
  <2>2. ~(fAllOk /\ fOk[t]) => ~(added \subseteq good)
    BY <1>1, <1>10 DEF IInv, Answer, Busy
  <2>3. fAllOk' <=> fAllOk /\ fOk[t]
    BY ZenonT(30), <1>1
  <2>4. Outstanding' \subseteq added
    BY <1>4 DEF IInv, Answer
  <2>5. \A u \in Threads : pc'[u] \in Busy => pc'[u] = pc[u] /\ u # t
    BY <1>2 DEF Busy
  <2>6. \A u \in Threads : pc'[u] \in Busy /\ ~fOk[u] => ~(added \subseteq good)
    BY <2>5 DEF IInv, Answer
  <2>7. \A u \in Threads : pc'[u] = "done" /\ fOk[u] => mine'[u] \subseteq good
    BY <1>3, <2>5 DEF IInv, Answer, Busy
  <2> QED BY <1>1, <1>4, <1>10, <2>1, <2>2, <2>3, <2>4, <2>6, <2>7 DEF Answer, blockVars
<1> QED BY <1>6, <1>7, <1>8, <1>9, <1>11 DEF IInv

\* A new block starts with nothing outstanding.
LEMMA BeginStep ==
    ASSUME IInv, Begin
    PROVE  IInv'
<1>1. /\ pc[Master] = "idle" /\ blocks < MaxBlocks /\ blocks' = blocks + 1
      /\ UNCHANGED <<lock, queueVars, fQuit, mine, fOk, quit, result, spurious>>
      /\ \/ Goto(Master, "block") /\ added' = {} /\ good' \in SUBSET Checks
         \/ Goto(Master, "aborted") /\ UNCHANGED <<added, good>>
  BY DEF Begin
<1>2. Master \in Threads
  BY DEF Threads
<1>3. /\ pc' \in [Threads -> {"new", "idle", "block", "aborted", "look", "work", "done",
                              "wait", "woken", "gone"}]
      /\ pc'[Master] \in {"block", "aborted"}
      /\ \A u \in Threads \ {Master} : pc'[u] = pc[u]
  BY <1>1, <1>2 DEF IInv, TypeOK, Goto
<1>4. TodoCounted' /\ Outstanding' = Outstanding
  BY <1>1, TodoKept DEF IInv, queueVars
<1>5. Outstanding = {} /\ fAllOk /\ fAllOk'
  BY <1>1 DEF IInv, Answer, Off, queueVars
<1>6. TypeOK'
  <2>1. \A u \in Threads : lock' = u <=> pc'[u] = "look"
    BY <1>1, <1>3 DEF IInv, TypeOK
  <2>2. added' \subseteq Checks /\ good' \subseteq Checks /\ blocks' \in 0..MaxBlocks
    BY SMTT(20), <1>1, QueueAssumption DEF IInv, TypeOK
  <2> QED BY <1>1, <1>3, <2>1, <2>2 DEF IInv, TypeOK, queueVars
<1>7. ThreadsCounted'
  BY <1>1, <1>3, ThreadsKept DEF IInv, LoopStates, SleepStates, queueVars
<1>8. Roles'
  BY <1>1, <1>3, QueueAssumption DEF IInv, Roles, Threads, Busy, Off
<1>9. \A u \in Threads : pc'[u] \notin Busy
  <2>1. \A u \in Threads : pc[u] \notin Busy
    BY <1>5 DEF IInv, Roles, Outstanding
  <2> QED BY <1>3, <2>1 DEF Busy
<1>10. pc'[Master] = "block" => added' = {}
  BY <1>1, <1>2 DEF IInv, TypeOK, Goto
<1>11. Answer'
  BY <1>3, <1>4, <1>5, <1>9, <1>10 DEF Answer, Busy, Off
<1> QED BY <1>4, <1>6, <1>7, <1>8, <1>11 DEF IInv

\* Checks are added that were not there.
LEMMA AddStep ==
    ASSUME IInv, NEW batch \in SUBSET (Checks \ added), Add(batch)
    PROVE  IInv'
<1>1. /\ pc[Master] = "block"
      /\ queue' = queue \cup batch
      /\ nTodo' = nTodo + Cardinality(batch)
      /\ added' = added \cup batch
      /\ UNCHANGED <<lock, nIdle, nTotal, fAllOk, fQuit, mine, fOk, quit, good, result, blocks, spurious>>
  BY DEF Add
<1>2. /\ pc' \in [Threads -> {"new", "idle", "block", "aborted", "look", "work", "done",
                              "wait", "woken", "gone"}]
      /\ \A u \in Threads : pc'[u] = pc[u] \/ (pc[u] = "wait" /\ pc'[u] = "woken")
  <2>1. PICK S \in NotifyWorkers(Cardinality(batch)) :
          pc' = [t \in Threads |-> IF t \in S THEN "woken" ELSE pc[t]]
    BY DEF Add
  <2>2. S \subseteq Waiting
    BY DEF NotifyWorkers
  <2> QED BY <2>1, <2>2 DEF IInv, TypeOK, Waiting
<1>3. Outstanding \cap batch = {} /\ Outstanding' = Outstanding \cup batch
  <2>1. Outstanding \cap batch = {}
    BY DEF IInv, Answer
  <2> QED BY <1>1, <2>1 DEF Outstanding
<1>4. nTodo' = Cardinality(Outstanding') /\ nTodo' \in Nat
  <2>1. IsFiniteSet(Outstanding) /\ IsFiniteSet(batch)
    BY Finite DEF IInv
  <2> QED BY ZenonT(30), <1>1, <1>3, <2>1, CardPlus DEF IInv, TodoCounted
<1>5. TypeOK'
  <2>1. \A u \in Threads : lock' = u <=> pc'[u] = "look"
    BY <1>1, <1>2 DEF IInv, TypeOK
  <2> QED BY <1>1, <1>2, <1>4, <2>1 DEF IInv, TypeOK
<1>6. TodoCounted'
  <2>1. \A t \in Threads : mine[t] \cap batch = {}
    BY SMTT(20), <1>3 DEF Outstanding
  <2> QED BY <1>1, <1>4, <2>1 DEF IInv, TodoCounted
<1>7. ThreadsCounted'
  BY <1>1, <1>2, ThreadsKept DEF IInv, LoopStates, SleepStates
<1>8. Roles'
  BY <1>1, <1>2 DEF IInv, Roles, Threads, Busy, Off
<1>9. pc[Master] \notin Off /\ pc'[Master] \notin Off
  BY <1>1, <1>2 DEF Threads, Off
<1>10. \A u \in Threads : pc'[u] \in Busy => pc'[u] = pc[u]
  BY <1>2 DEF Busy
<1>11. Answer'
  <2>1. added' \ Outstanding' \subseteq added \ Outstanding /\ Outstanding' \subseteq added'
    BY <1>1, <1>3 DEF IInv, Answer
  <2>2. ~(added \subseteq good) => ~(added' \subseteq good)
    BY <1>1
  <2>3. \A u \in Threads : pc'[u] \in Busy /\ ~fOk[u] => ~(added' \subseteq good)
    BY <1>10, <2>2 DEF IInv, Answer
  <2>4. \A u \in Threads : pc'[u] = "done" /\ fOk[u] => mine[u] \subseteq good
    BY <1>10 DEF IInv, Answer, Busy
  <2> QED BY <1>1, <1>9, <2>1, <2>2, <2>3, <2>4 DEF IInv, Answer
<1> QED BY <1>5, <1>6, <1>7, <1>8, <1>11 DEF IInv

\* Steps that only wake threads.
LEMMA WakingStep ==
    ASSUME IInv,
           UNCHANGED <<lock, queueVars, mine, fOk, blockVars, blocks>>,
           fQuit' \in BOOLEAN, quit' \in {"no", "wait", "woken", "done"}, spurious' \in 0..MaxSpurious,
           pc' \in [Threads -> {"new", "idle", "block", "aborted", "look", "work", "done",
                                "wait", "woken", "gone"}],
           \A u \in Threads : pc'[u] = pc[u] \/ (pc[u] = "wait" /\ pc'[u] = "woken")
    PROVE  IInv'
<1>1. TodoCounted' /\ Outstanding' = Outstanding
  BY TodoKept DEF IInv, queueVars
<1>2. ThreadsCounted'
  BY ThreadsKept DEF IInv, LoopStates, SleepStates, queueVars
<1>3. TypeOK'
  <2>1. \A u \in Threads : lock' = u <=> pc'[u] = "look"
    BY DEF IInv, TypeOK
  <2> QED BY <2>1 DEF IInv, TypeOK, queueVars, blockVars
<1>4. Roles'
  BY DEF IInv, Roles, Threads, Busy, Off
<1>5. Answer'
  <2>1. \A u \in Threads : (pc'[u] \in Busy \/ pc'[u] \in Off) => pc'[u] = pc[u]
    BY DEF Busy, Off
  <2>2. pc'[Master] \in Off <=> pc[Master] \in Off
    BY <2>1 DEF Threads, Off
  <2> QED BY <1>1, <2>1, <2>2 DEF IInv, Answer, Busy, queueVars, blockVars
<1> QED BY <1>1, <1>2, <1>3, <1>4, <1>5 DEF IInv
-----------------------------------------------------------------------------
(* The invariant.                                                            *)

\* IInv holds of a queue just made.
LEMMA InitStep == Init => IInv
<1> SUFFICES ASSUME Init PROVE IInv
  OBVIOUS
<1>1. /\ pc \in [Threads -> {"idle", "new"}]
      /\ pc[Master] = "idle" /\ \A w \in Workers : pc[w] = "new"
      /\ \A t \in Threads : mine[t] = {} /\ fOk[t] = TRUE
  BY QueueAssumption DEF Init, Threads
<1>2. Outstanding = {} /\ Inside = {} /\ Asleep = {}
  BY <1>1 DEF Init, Outstanding, Inside, Asleep, LoopStates, SleepStates
<1>3. Cardinality({}) = 0
  BY FS_EmptySet
<1>4. TypeOK
  <2>1. /\ lock = None /\ \A t \in Threads : lock = t <=> pc[t] = "look"
        /\ pc \in [Threads -> {"new", "idle", "block", "aborted", "look", "work", "done",
                               "wait", "woken", "gone"}]
    BY <1>1, QueueAssumption DEF Init, Threads
  <2>2. mine \in [Threads -> SUBSET Checks] /\ fOk \in [Threads -> BOOLEAN]
    BY DEF Init
  <2>3. blocks \in 0..MaxBlocks /\ spurious \in 0..MaxSpurious
    BY SMTT(20), QueueAssumption DEF Init
  <2>4. nIdle \in Nat /\ nTotal \in Nat /\ nTodo \in Nat /\ quit \in {"no", "wait", "woken", "done"}
    BY DEF Init
  <2>5. fAllOk \in BOOLEAN /\ fQuit \in BOOLEAN /\ result \in BOOLEAN
    BY ZenonT(30) DEF Init
  <2>6. queue \subseteq Checks /\ added \subseteq Checks /\ good \subseteq Checks
    BY DEF Init
  <2> QED BY <2>1, <2>2, <2>3, <2>4, <2>5, <2>6 DEF TypeOK
<1>5. TodoCounted /\ ThreadsCounted
  BY <1>1, <1>2, <1>3 DEF Init, TodoCounted, ThreadsCounted
<1>6. Roles /\ Answer
  BY <1>1, <1>2, QueueAssumption DEF Init, Roles, Answer, Threads, Busy, Off
<1> QED BY <1>4, <1>5, <1>6 DEF IInv

\* Every step keeps IInv.
LEMMA NextStep == IInv /\ [Next]_vars => IInv'
<1> SUFFICES ASSUME IInv, [Next]_vars PROVE IInv'
  OBVIOUS
<1>1. CASE \E t \in Threads : Loop(t)
  BY <1>1, EnterStep, AccountStep, WakeStep, LeaveStep, SleepStep, TakeStep, WorkStep DEF Loop
<1>2. CASE Begin
  BY <1>2, BeginStep
<1>3. CASE \E batch \in SUBSET (Checks \ added) \ {{}} : Add(batch)
  BY <1>3, AddStep
<1>4. CASE Quit
  <2>1. /\ UNCHANGED <<lock, queueVars, mine, fOk, blockVars, blocks>>
        /\ fQuit' \in BOOLEAN /\ quit' \in {"no", "wait", "woken", "done"} /\ spurious' \in 0..MaxSpurious
    BY <1>4 DEF Quit, IInv, TypeOK
  <2>2. pc' = [t \in Threads |-> IF t \in Waiting THEN "woken" ELSE pc[t]]
    BY <1>4 DEF Quit
  <2>3. /\ pc' \in [Threads -> {"new", "idle", "block", "aborted", "look", "work", "done",
                                "wait", "woken", "gone"}]
        /\ \A u \in Threads : pc'[u] = pc[u] \/ (pc[u] = "wait" /\ pc'[u] = "woken")
    BY <2>2 DEF IInv, TypeOK, Waiting
  <2> QED BY <2>1, <2>3, WakingStep
<1>5. CASE QuitWakes
  <2>1. /\ UNCHANGED <<lock, queueVars, mine, fOk, blockVars, blocks>>
        /\ fQuit' \in BOOLEAN /\ quit' \in {"no", "wait", "woken", "done"} /\ spurious' \in 0..MaxSpurious
        /\ pc' = pc
    BY <1>5 DEF QuitWakes, IInv, TypeOK
  <2> QED BY <2>1, WakingStep DEF IInv, TypeOK
<1>6. CASE WakeSpuriously
  <2>1. /\ UNCHANGED <<lock, queueVars, mine, fOk, blockVars, blocks>>
        /\ fQuit' \in BOOLEAN /\ quit' \in {"no", "wait", "woken", "done"} /\ spurious' \in 0..MaxSpurious
    BY SMTT(20), <1>6, QueueAssumption DEF WakeSpuriously, IInv, TypeOK
  <2>2. \/ pc' = pc
        \/ \E t \in Threads : pc[t] = "wait" /\ pc' = [pc EXCEPT ![t] = "woken"]
    BY <1>6 DEF WakeSpuriously, Goto
  <2>3. /\ pc' \in [Threads -> {"new", "idle", "block", "aborted", "look", "work", "done",
                                "wait", "woken", "gone"}]
        /\ \A u \in Threads : pc'[u] = pc[u] \/ (pc[u] = "wait" /\ pc'[u] = "woken")
    BY <2>2 DEF IInv, TypeOK
  <2> QED BY <2>1, <2>3, WakingStep
<1>7. CASE UNCHANGED vars
  <2>1. /\ UNCHANGED <<lock, queueVars, mine, fOk, blockVars, blocks>>
        /\ pc' = pc /\ quit' = quit /\ fQuit' = fQuit /\ spurious' = spurious
    BY <1>7 DEF vars
  <2> QED BY <2>1, WakingStep DEF IInv, TypeOK
<1>8. CASE Rest
  BY <1>7, <1>8 DEF Rest
<1> QED BY <1>1, <1>2, <1>3, <1>4, <1>5, <1>6, <1>7, <1>8 DEF Next

\* IInv holds throughout.
LEMMA Invariance == Spec => []IInv
BY InitStep, NextStep, PTL DEF Spec
-----------------------------------------------------------------------------
(* The theorems.                                                             *)

\* The type invariant, with what the mutex guards: a thread is inside a critical
\* section exactly when it holds the mutex.
THEOREM TypeCorrect == Spec => []TypeOK
<1>1. IInv => TypeOK
  BY DEF IInv
<1> QED BY <1>1, Invariance, PTL

\* nTodo counts the checks that are queued or in a batch, none of them twice, and
\* nTotal and nIdle count the threads in Loop and asleep, whatever the threads'
\* order and however the waits end.
THEOREM CountersExact == Spec => []Counted
<1>1. IInv => Counted
  BY DEF IInv, Counted
<1> QED BY <1>1, Invariance, PTL

\* When ConnectBlock goes on after Wait, no worker holds one of the block's
\* checks and the result is reset.
THEOREM WaitLeavesNothing == Spec => []NothingLeft
<1>1. IInv => NothingLeft
  <2> SUFFICES ASSUME IInv, pc[Master] = "idle" PROVE Outstanding = {} /\ nTodo = 0 /\ fAllOk
    BY DEF NothingLeft
  <2>1. Outstanding = {} /\ fAllOk
    BY DEF IInv, Answer, Off
  <2> QED BY <2>1, FS_EmptySet DEF IInv, TodoCounted
<1> QED BY <1>1, Invariance, PTL

\* A step of the queue is a step of CheckAll, or none: Wait answers for every
\* check that was added and for nothing else.
THEOREM AnswersForAll == Spec => Implements
<1>1. Init => All!Init
  <2> SUFFICES ASSUME Init PROVE All!Init
    OBVIOUS
  <2>1. pc[Master] = "idle"
    BY DEF Init, Threads
  <2> QED BY <2>1 DEF Init, All!Init
<1>2. IInv /\ [Next]_vars => [All!Next]_(All!vars)
  <2> SUFFICES ASSUME IInv, [Next]_vars PROVE All!Next \/ UNCHANGED All!vars
    OBVIOUS
  <2>1. Master \in Threads /\ pc[Master] # "new" /\ DOMAIN pc = Threads /\ pc = [t \in Threads |-> pc[t]]
    BY DEF Threads, IInv, Roles, TypeOK
  <2>2. ASSUME blockVars' = blockVars, pc'[Master] \in Off <=> pc[Master] \in Off
        PROVE  UNCHANGED All!vars
    BY <2>2 DEF All!vars, blockVars, Off
  <2>3. ASSUME NEW t \in Threads, Loop(t) PROVE All!Next \/ UNCHANGED All!vars
    <3>1. CASE Leave(t) /\ t = Master
      <4>1. pc[Master] = "look" /\ pc'[Master] = "idle" /\ added' = added /\ good' = good
        BY <2>1, <3>1 DEF Leave, Goto
      <4>2. result' = (added \subseteq good)
        BY <3>1, LeaveStep
      <4> QED BY <4>1, <4>2 DEF All!Next, All!Finish
    <3>2. CASE Leave(t) /\ t # Master
      <4>1. pc'[Master] = pc[Master] /\ blockVars' = blockVars
        BY <2>1, <3>2 DEF Leave, Goto, blockVars
      <4> QED BY <2>2, <4>1
    <3>3. CASE Enter(t) \/ Wake(t) \/ Sleep(t) \/ Take(t) \/ Work(t)
      <4>1. blockVars' = blockVars
        BY <3>3 DEF Enter, Wake, Sleep, Take, Work, blockVars
      <4>2. pc[t] \notin Off
        BY <2>1, <3>3 DEF Enter, Wake, Sleep, Take, Work, Off
      <4>3. \E s \in {"look", "wait", "work", "done"} : pc' = [pc EXCEPT ![t] = s]
        BY <3>3 DEF Enter, Wake, Sleep, Take, Work, Goto
      <4>4. pc'[Master] \in Off <=> pc[Master] \in Off
        BY <2>1, <4>2, <4>3 DEF Off
      <4> QED BY <2>2, <4>1, <4>4
    <3>4. CASE Account(t)
      <4>1. blockVars' = blockVars
        BY <3>4 DEF Account, blockVars
      <4>2. pc'[Master] \in Off <=> pc[Master] \in Off
        BY <2>1, <3>4 DEF Account, MasterNotified, Off
      <4> QED BY <2>2, <4>1, <4>2
    <3> QED BY <2>3, <3>1, <3>2, <3>3, <3>4 DEF Loop
  <2>4. CASE Begin
    <3>1. CASE pc' = [pc EXCEPT ![Master] = "block"] /\ added' = {} /\ good' \in SUBSET Checks
      BY <2>1, <2>4, <3>1 DEF Begin, All!Next, All!Begin
    <3>2. CASE pc' = [pc EXCEPT ![Master] = "aborted"] /\ UNCHANGED <<added, good>>
      <4>1. pc'[Master] = "aborted" /\ pc[Master] = "idle" /\ blockVars' = blockVars
        BY <2>1, <2>4, <3>2 DEF Begin, blockVars
      <4> QED BY <2>2, <4>1 DEF Off
    <3> QED BY <2>4, <3>1, <3>2 DEF Begin, Goto
  <2>5. CASE \E batch \in SUBSET (Checks \ added) \ {{}} : Add(batch)
    <3>1. PICK batch \in SUBSET (Checks \ added) : Add(batch)
      BY <2>5
    <3>2. pc[Master] = "block" /\ added' = added \cup batch /\ good' = good /\ result' = result
      BY <3>1 DEF Add
    <3>3. pc'[Master] \in {"woken", "block"}
      BY <2>1, <3>1, <3>2 DEF Add
    <3> QED BY <3>1, <3>2, <3>3 DEF All!Next, All!Add
  <2>6. CASE Quit
    <3>1. blockVars' = blockVars /\ pc[Master] = "idle" /\ pc'[Master] = "idle"
      BY <2>1, <2>6, QueueAssumption DEF Quit, Waiting
    <3> QED BY <2>2, <3>1
  <2>7. CASE WakeSpuriously
    <3>1. blockVars' = blockVars
      BY <2>7 DEF WakeSpuriously
    <3>2. pc' = pc \/ \E t \in Threads : pc[t] = "wait" /\ pc' = [pc EXCEPT ![t] = "woken"]
      BY <2>7 DEF WakeSpuriously, Goto
    <3>3. pc'[Master] \in Off <=> pc[Master] \in Off
      BY <2>1, <3>2 DEF Off
    <3> QED BY <2>2, <3>1, <3>3
  <2>8. CASE QuitWakes \/ Rest \/ UNCHANGED vars
    <3>1. blockVars' = blockVars /\ pc' = pc
      BY <2>8 DEF QuitWakes, Rest, vars
    <3> QED BY <2>2, <3>1
  <2> QED BY <2>3, <2>4, <2>5, <2>6, <2>7, <2>8 DEF Next
<1> QED BY <1>1, <1>2, Invariance, PTL DEF Spec, Implements, All!Spec
=============================================================================
