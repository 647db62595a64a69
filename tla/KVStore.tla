------------------------------ MODULE KVStore -------------------------------
(***************************************************************************)
(* What the node takes from its database: a map from keys to values that   *)
(* batches change atomically, that keeps every acknowledged batch, and     *)
(* that a crash of the process leaves as it was, with some of the batches  *)
(* still in flight added whole.                                            *)
(*                                                                         *)
(* One promise is weaker than that: once an append to the log has failed   *)
(* (damaged), a crash may take acknowledged batches along.                 *)
(***************************************************************************)
EXTENDS SequencesExt, Integers

CONSTANTS Keys, Writers, Batches

VARIABLES
    store,      \* the value of every key, 0 when it is absent
    call,       \* the batch each writer waits for, <<>> when it waits for none
    damaged     \* an append to the log has failed since the database was opened

vars == <<store, call, damaged>>

\* The store after the operations of a batch, in order.
Applied(s, batch) == FoldLeft(LAMBDA t, op : [t EXCEPT ![op.key] = op.val], s, batch)

Pending == {w \in Writers : call[w] # <<>>}

\* The batches of a sequence of writers as one batch.
Group(ws) == FlattenSeq([i \in 1..Len(ws) |-> call[ws[i]]])

\* The orders in which some of the waiting writers can be served.
Orders == UNION {SetToSeqs(W) : W \in SUBSET Pending}

Returned(W) == [w \in Writers |-> IF w \in W THEN <<>> ELSE call[w]]

Values == {0} \cup UNION {{b[i].val : i \in 1..Len(b)} : b \in Batches}

Init ==
    /\ store = [k \in Keys |-> 0]
    /\ call = [w \in Writers |-> <<>>]
    /\ damaged = FALSE

Invoke(w, b) ==
    /\ call[w] = <<>>
    /\ call' = [call EXCEPT ![w] = b]
    /\ UNCHANGED <<store, damaged>>

Commit(ws) ==
    /\ ws # <<>>
    /\ store' = Applied(store, Group(ws))
    /\ call' = Returned(ToSet(ws))
    /\ UNCHANGED damaged

Fail(W) ==
    /\ W # {}
    /\ call' = Returned(W)
    /\ damaged' \in {damaged, TRUE}
    /\ UNCHANGED store

Crash(ws) ==
    /\ store' \in IF damaged THEN [Keys -> Values] ELSE {Applied(store, Group(ws))}
    /\ call' = Returned(Writers)
    /\ damaged' = FALSE

Next ==
    \/ \E w \in Writers, b \in Batches : Invoke(w, b)
    \/ \E ws \in Orders : Commit(ws) \/ Crash(ws)
    \/ \E W \in SUBSET Pending : Fail(W)

Spec == Init /\ [][Next]_vars
=============================================================================
