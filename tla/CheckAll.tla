------------------------------- MODULE CheckAll -------------------------------
(***************************************************************************)
(* What ConnectBlock relies on: the script checks of a block are handed over *)
(* in batches, and the answer is whether every one of them succeeded.        *)
(***************************************************************************)
CONSTANTS Checks       \* script checks of a block

VARIABLES phase,       \* is a block being checked?
          added,       \* the checks handed over for it
          good,        \* the ones that will succeed
          result       \* the last answer

vars == <<phase, added, good, result>>

Init ==
    /\ phase = "idle"
    /\ added = {} /\ good = {}
    /\ result = TRUE

Begin ==
    /\ phase = "idle"
    /\ phase' = "block"
    /\ added' = {}
    /\ good' \in SUBSET Checks
    /\ UNCHANGED result

Add ==
    /\ phase = "block"
    /\ \E batch \in SUBSET Checks : added' = added \cup batch
    /\ UNCHANGED <<phase, good, result>>

Finish ==
    /\ phase = "block"
    /\ phase' = "idle"
    /\ result' = (added \subseteq good)
    /\ UNCHANGED <<added, good>>

Next == Begin \/ Add \/ Finish

Spec == Init /\ [][Next]_vars
=============================================================================
