------------------------------- MODULE MCPeers -------------------------------
(***************************************************************************)
(* The address manager and the connections share no state: a behaviour is   *)
(* one of the former or one of the latter.                                  *)
(***************************************************************************)
EXTENDS Connections, TLC
CONSTANTS Services, Ip, Sources, NewBuckets, TriedBuckets, NewBucketOf, TriedBucketOf,
    ADDRMAN_NEW_BUCKET_SIZE, ADDRMAN_TRIED_BUCKET_SIZE, ADDRMAN_NEW_BUCKETS_PER_ADDRESS,
    ADDRMAN_GETADDR_MAX_PCT, MaxIds
VARIABLES part, am

A == INSTANCE AddrMan
ASSUME MCAddrManAssumption == A!AddrManAssumption

MCServices == {"p1", "p2", "q", "r"}
MCIp == [p1 |-> "p", p2 |-> "p", q |-> "q", r |-> "r"]
MCNewBucketOf == [a \in {"p", "q", "r"} |-> [f \in {"x", "y"} |-> IF f = "y" THEN 2 ELSE 1]]
MCTriedBucketOf == [a \in MCServices |-> IF a = "r" THEN 2 ELSE 1]
MCSymmetry == Permutations(Nodes) \cup Permutations(Openers)

PeersInit == part \in {"addrman", "connections"} /\ A!Init /\ Init
PeersNext ==
    \/ part = "addrman" /\ A!Next /\ UNCHANGED <<part, cvars>>
    \/ part = "connections" /\ Next /\ UNCHANGED <<part, am>>
PeersSpec == PeersInit /\ [][PeersNext]_<<part, am, cvars>>

\* AddrMan!Consistent: what CAddrMan::Check_ requires holds between operations, and
\* no bucket is over its size.
Consistent == A!Consistent

\* AddrMan!RoundTrip: the tables a restart loads from peers.dat are consistent and
\* have every address where it was.
RoundTrip == A!RoundTrip
=============================================================================
