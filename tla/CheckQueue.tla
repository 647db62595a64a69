------------------------------ MODULE CheckQueue ------------------------------
(***************************************************************************)
(* CCheckQueue and CCheckQueueControl (checkqueue.h), as ConnectBlock uses    *)
(* them: the thread that connects a block hands the script checks to worker  *)
(* threads, joins them in Wait, and takes the answer.                         *)
(*                                                                          *)
(* A critical section of Loop is two steps, so that what is read without the *)
(* mutex (the assertions of CCheckQueueControl) can fall between them: one   *)
(* takes the mutex and does the bookkeeping that ends the last run or wait   *)
(* ("look" is then the state with the mutex held), one decides what to do    *)
(* next and releases it.                                                      *)
(*                                                                          *)
(* The queue is a set.  The code pops its back, but "the order of booleans   *)
(* doesn't matter"; every choice of a batch is allowed here.                  *)
(***************************************************************************)
EXTENDS Integers, FiniteSets

CONSTANTS Workers,     \* threads that run ThreadScriptCheck
          Master,      \* the thread that connects a block, holding cs_main
          Checks,      \* script checks of a block
          nBatchSize,  \* the largest batch
          MaxBlocks,   \* bound on the blocks connected
          MaxSpurious, \* bound on the waits that end without a notification
          None         \* no thread

ASSUME QueueAssumption ==
    /\ IsFiniteSet(Workers) /\ IsFiniteSet(Checks)
    /\ Master \notin Workers /\ None \notin Workers \cup {Master}
    /\ nBatchSize \in Nat \ {0}
    /\ MaxBlocks \in Nat /\ MaxSpurious \in Nat

Threads == Workers \cup {Master}

VARIABLES
    lock,        \* the thread that holds mutex between its two steps
    queue, nIdle, nTotal, fAllOk, nTodo, fQuit,
    pc,          \* where each thread is
    mine,        \* the checks of its batch, nNow of them, not yet accounted for
    fOk,         \* its own result
    quit,        \* where the thread that calls Quit is
    added,       \* the checks of this block handed over so far
    good,        \* the checks of this block that succeed
    result,      \* what the last Wait returned
    blocks, spurious

queueVars == <<queue, nIdle, nTotal, fAllOk, nTodo>>
blockVars == <<added, good, result>>
vars == <<lock, queueVars, fQuit, pc, mine, fOk, quit, blockVars, blocks, spurious>>

\* The thread t goes to state s.
Goto(t, s) == pc' = [pc EXCEPT ![t] = s]
-----------------------------------------------------------------------------
(* Condition variables: waiting threads are in "wait", notified ones in       *)
(* "woken", where they compete for the mutex.                                *)

Waiting == {w \in Workers : pc[w] = "wait"}

\* The threads a notify_one or notify_all of condWorker may wake.
NotifyWorkers(n) ==
    IF n > 1 THEN {Waiting}
    ELSE IF Waiting = {} THEN {{}} ELSE {{w} : w \in Waiting}

\* condMaster.notify_one, condQuit.notify_one
MasterNotified == IF pc[Master] = "wait" THEN "woken" ELSE pc[Master]
QuitNotified == IF quit = "wait" THEN "woken" ELSE quit
-----------------------------------------------------------------------------
(* Loop.                                                                     *)

\* The first time round: a worker thread starts, or the master calls Wait (or
\* the destructor of CCheckQueueControl does, on ConnectBlock's early returns).
Enter(t) ==
    /\ lock = None
    /\ pc[t] = IF t = Master THEN "block" ELSE "new"
    /\ lock' = t
    /\ nTotal' = nTotal + 1
    /\ Goto(t, "look")
    /\ UNCHANGED <<queue, nIdle, fAllOk, nTodo, fQuit, mine, fOk, quit, blockVars, blocks, spurious>>

\* Mutant: the master is not told.
AccountQuietly(t) ==
    /\ lock = None
    /\ pc[t] = "done"
    /\ lock' = t
    /\ fAllOk' = (fAllOk /\ fOk[t])
    /\ nTodo' = nTodo - Cardinality(mine[t])
    /\ mine' = [mine EXCEPT ![t] = {}]
    /\ Goto(t, "look")
    /\ UNCHANGED <<queue, nIdle, nTotal, fQuit, fOk, quit, blockVars, blocks, spurious>>

\* Mutant: one check of the batch is counted.
AccountOne(t) ==
    /\ lock = None
    /\ pc[t] = "done"
    /\ lock' = t
    /\ fAllOk' = (fAllOk /\ fOk[t])
    /\ nTodo' = nTodo - 1
    /\ mine' = [mine EXCEPT ![t] = {}]
    /\ pc' = IF nTodo' = 0 /\ t # Master
             THEN [pc EXCEPT ![Master] = MasterNotified, ![t] = "look"]
             ELSE [pc EXCEPT ![t] = "look"]
    /\ UNCHANGED <<queue, nIdle, nTotal, fQuit, fOk, quit, blockVars, blocks, spurious>>

\* The clean-up of the previous run; the last check done wakes the master.
Account(t) ==
    /\ lock = None
    /\ pc[t] = "done"
    /\ lock' = t
    /\ fAllOk' = (fAllOk /\ fOk[t])
    /\ nTodo' = nTodo - Cardinality(mine[t])
    /\ mine' = [mine EXCEPT ![t] = {}]
    /\ pc' = IF nTodo' = 0 /\ t # Master
             THEN [pc EXCEPT ![Master] = MasterNotified, ![t] = "look"]
             ELSE [pc EXCEPT ![t] = "look"]
    /\ UNCHANGED <<queue, nIdle, nTotal, fQuit, fOk, quit, blockVars, blocks, spurious>>

\* A wait ends.
Wake(t) ==
    /\ lock = None
    /\ pc[t] = "woken"
    /\ lock' = t
    /\ nIdle' = nIdle - 1
    /\ Goto(t, "look")
    /\ UNCHANGED <<queue, nTotal, fAllOk, nTodo, fQuit, mine, fOk, quit, blockVars, blocks, spurious>>

\* There is nothing left to do for this thread.
MayLeave(t) == (t = Master \/ fQuit) /\ nTodo = 0

\* The thread returns from Loop, the master with the answer.
Leave(t) ==
    /\ pc[t] = "look" /\ queue = {} /\ MayLeave(t)
    /\ lock' = None
    /\ nTotal' = nTotal - 1
    /\ quit' = IF nTotal' = 0 THEN QuitNotified ELSE quit
    /\ result' = IF t = Master THEN fAllOk ELSE result
    /\ fAllOk' = IF t = Master THEN TRUE ELSE fAllOk
    /\ Goto(t, IF t = Master THEN "idle" ELSE "gone")
    /\ UNCHANGED <<queue, nIdle, nTodo, fQuit, mine, fOk, added, good, blocks, spurious>>

\* cond.wait
Sleep(t) ==
    /\ pc[t] = "look" /\ queue = {} /\ ~MayLeave(t)
    /\ lock' = None
    /\ nIdle' = nIdle + 1
    /\ Goto(t, "wait")
    /\ UNCHANGED <<queue, nTotal, fAllOk, nTodo, fQuit, mine, fOk, quit, blockVars, blocks, spurious>>

\* std::max(1U, std::min(nBatchSize, queue.size() / (nTotal + nIdle + 1)))
BatchSize ==
    LET share == Cardinality(queue) \div (nTotal + nIdle + 1)
    IN  IF share < 1 THEN 1 ELSE IF share > nBatchSize THEN nBatchSize ELSE share

\* The thread takes a batch; its checks are skipped if one has failed before.
Take(t) ==
    /\ pc[t] = "look" /\ queue # {}
    /\ \E batch \in SUBSET queue :
        /\ Cardinality(batch) = BatchSize
        /\ queue' = queue \ batch
        /\ mine' = [mine EXCEPT ![t] = batch]
    /\ fOk' = [fOk EXCEPT ![t] = fAllOk]
    /\ lock' = None
    /\ Goto(t, "work")
    /\ UNCHANGED <<nIdle, nTotal, fAllOk, nTodo, fQuit, quit, blockVars, blocks, spurious>>

\* Mutant: the last check of the batch decides.
WorkLast(t) ==
    /\ pc[t] = "work"
    /\ \E c \in mine[t] : fOk' = [fOk EXCEPT ![t] = (c \in good)]
    /\ Goto(t, "done")
    /\ UNCHANGED <<lock, queueVars, fQuit, mine, quit, blockVars, blocks, spurious>>

\* Without the mutex: the checks of the batch are executed.
Work(t) ==
    /\ pc[t] = "work"
    /\ fOk' = [fOk EXCEPT ![t] = fOk[t] /\ mine[t] \subseteq good]
    /\ Goto(t, "done")
    /\ UNCHANGED <<lock, queueVars, fQuit, mine, quit, blockVars, blocks, spurious>>
-----------------------------------------------------------------------------
(* ConnectBlock.                                                             *)

\* "passed queue is supposed to be unused", as the three assertions of the
\* constructor of CCheckQueueControl put it.  They are read without the mutex.
QueueUnused == nTotal = nIdle /\ nTodo = 0 /\ fAllOk

\* The block of CCheckQueueControl; Quit holds cs_main.
Begin ==
    /\ pc[Master] = "idle"
    /\ quit \notin {"wait", "woken"}
    /\ blocks < MaxBlocks
    /\ blocks' = blocks + 1
    /\ IF QueueUnused
       THEN /\ Goto(Master, "block")
            /\ added' = {}
            /\ good' \in SUBSET Checks
       ELSE Goto(Master, "aborted") /\ UNCHANGED <<added, good>>
    /\ UNCHANGED <<lock, queueVars, fQuit, mine, fOk, quit, result, spurious>>

\* The checks of a transaction.
Add(batch) ==
    /\ lock = None
    /\ pc[Master] = "block"
    /\ queue' = queue \cup batch
    /\ nTodo' = nTodo + Cardinality(batch)
    /\ added' = added \cup batch
    /\ \E S \in NotifyWorkers(Cardinality(batch)) :
          pc' = [t \in Threads |-> IF t \in S THEN "woken" ELSE pc[t]]
    /\ UNCHANGED <<lock, nIdle, nTotal, fAllOk, fQuit, mine, fOk, quit, good, result, blocks, spurious>>
-----------------------------------------------------------------------------
(* Quit, called by StopNode under cs_main.                                   *)

Quit ==
    /\ lock = None
    /\ quit = "no"
    /\ pc[Master] = "idle"
    /\ fQuit' = TRUE
    /\ pc' = [t \in Threads |-> IF t \in Waiting THEN "woken" ELSE pc[t]]
    /\ quit' = IF nTotal > 0 THEN "wait" ELSE "done"
    /\ UNCHANGED <<lock, queueVars, mine, fOk, blockVars, blocks, spurious>>

QuitWakes ==
    /\ lock = None
    /\ quit = "woken"
    /\ quit' = IF nTotal > 0 THEN "wait" ELSE "done"
    /\ UNCHANGED <<lock, queueVars, fQuit, pc, mine, fOk, blockVars, blocks, spurious>>
-----------------------------------------------------------------------------
\* A wait ends without a notification, as condition variables may.
WakeSpuriously ==
    /\ spurious < MaxSpurious
    /\ spurious' = spurious + 1
    /\ \/ /\ \E t \in Threads : pc[t] = "wait" /\ Goto(t, "woken")
          /\ UNCHANGED quit
       \/ /\ quit = "wait" /\ quit' = "woken"
          /\ UNCHANGED pc
    /\ UNCHANGED <<lock, queueVars, fQuit, mine, fOk, blockVars, blocks>>

\* The process has aborted; or the work is done and the workers are gone, or
\* asleep for good.
Rest ==
    /\ \/ pc[Master] = "aborted"
       \/ /\ pc[Master] = "idle" /\ blocks = MaxBlocks
          /\ quit = "done"
          /\ \A w \in Workers : pc[w] \in {"gone", "wait"}
    /\ UNCHANGED vars

Init ==
    /\ lock = None
    /\ queue = {} /\ nIdle = 0 /\ nTotal = 0 /\ fAllOk = TRUE /\ nTodo = 0 /\ fQuit = FALSE
    /\ pc = [t \in Threads |-> IF t = Master THEN "idle" ELSE "new"]
    /\ mine = [t \in Threads |-> {}]
    /\ fOk = [t \in Threads |-> TRUE]
    /\ quit = "no"
    /\ added = {} /\ good = {} /\ result = TRUE
    /\ blocks = 0 /\ spurious = 0

\* One step of Loop.
Loop(t) ==
    Enter(t) \/ Account(t) \/ Wake(t) \/ Leave(t) \/ Sleep(t) \/ Take(t) \/ Work(t)

Running == pc[Master] # "aborted"

Next ==
    \/ /\ Running
       /\ \/ \E t \in Threads : Loop(t)
          \/ Begin
          \/ \E batch \in SUBSET (Checks \ added) \ {{}} : Add(batch)
          \/ Quit
          \/ QuitWakes
          \/ WakeSpuriously
    \/ Rest

Spec == Init /\ [][Next]_vars

\* A thread that can run does.  Waits that end by themselves are no help.
FairSpec ==
    /\ Spec
    /\ \A t \in Threads : WF_vars(Running /\ Loop(t))
    /\ WF_vars(Running /\ QuitWakes)
-----------------------------------------------------------------------------
(* Properties.                                                               *)

Outstanding == queue \cup UNION {mine[t] : t \in Threads}
SleepStates == {"wait", "woken"}
LoopStates == {"look", "work", "done"} \cup SleepStates
Inside == {t \in Threads : pc[t] \in LoopStates}
Asleep == {t \in Threads : pc[t] \in SleepStates}

TypeOK ==
    /\ lock \in Threads \cup {None} /\ \A t \in Threads : lock = t <=> pc[t] = "look"
    /\ queue \subseteq Checks /\ added \subseteq Checks /\ good \subseteq Checks
    /\ nIdle \in Nat /\ nTotal \in Nat /\ nTodo \in Nat
    /\ fAllOk \in BOOLEAN /\ fQuit \in BOOLEAN /\ result \in BOOLEAN
    /\ pc \in [Threads -> {"new", "idle", "block", "aborted", "look", "work", "done",
                           "wait", "woken", "gone"}]
    /\ mine \in [Threads -> SUBSET Checks]
    /\ fOk \in [Threads -> BOOLEAN]
    /\ quit \in {"no", "wait", "woken", "done"}
    /\ blocks \in 0..MaxBlocks /\ spurious \in 0..MaxSpurious

TodoCounted ==
    /\ nTodo = Cardinality(Outstanding)
    /\ \A t \in Threads : mine[t] \cap queue = {}
    /\ \A t, u \in Threads : t # u => mine[t] \cap mine[u] = {}

ThreadsCounted == nTotal = Cardinality(Inside) /\ nIdle = Cardinality(Asleep)

\* nTodo is the number of checks in the queue or in the batch of a thread, no
\* check being in two places; nTotal and nIdle are the numbers of threads
\* inside Loop and asleep there.
Counted == TodoCounted /\ ThreadsCounted

\* Once Wait has returned nothing of the block is left anywhere: no worker
\* still holds a check, which points into the block's transactions, and the
\* next block starts from a clean result.
NothingLeft == pc[Master] = "idle" => Outstanding = {} /\ nTodo = 0 /\ fAllOk

\* The queue implements the abstract one: Wait returns whether every check that
\* was added succeeded.
All == INSTANCE CheckAll WITH phase <- IF pc[Master] \in {"idle", "aborted"} THEN "idle" ELSE "block"
Implements == All!Spec

\* "passed queue is supposed to be unused" when a block is about to be checked:
\* the assertions of CCheckQueueControl never fail.
AssertionsHold == Running

\* Wait always returns, although checks are added while workers fall asleep, and
\* every worker may be busy, asleep or gone.
WaitReturns == (pc[Master] \in LoopStates) ~> (pc[Master] = "idle")

\* Quit returns.
QuitReturns == (quit = "wait") ~> (quit = "done")

\* No wakeup is lost, of the master or of the thread in Quit.
CallsReturn == WaitReturns /\ QuitReturns
=============================================================================
