----------------------------- MODULE MCLevelDB ------------------------------
(***************************************************************************)
(* LevelDB with two writers over two keys, where one batch sets both keys  *)
(* and the others set or erase one, and the format of its logs in blocks   *)
(* of six bytes.  A behaviour is one of the former or one of the latter.   *)
(***************************************************************************)
EXTENDS LevelDB, TLC

CONSTANTS w1, w2, BlockSize, HeaderSize, Lengths, MaxRecords, MaxFailed,
          GroupedSequence, MergingEvents
VARIABLES part, file, size, block_offset, record, failed, pc, pos, scratch, out, reported

L == INSTANCE LogFormat
format == <<file, size, block_offset, record, failed, pc, pos, scratch, out, reported>>

MCWriters == {w1, w2}
MCSymmetry == Permutations(MCWriters)
MCBatches == {<<[key |-> 1, val |-> 1], [key |-> 2, val |-> 1]>>,
              <<[key |-> 1, val |-> 2]>>,
              <<[key |-> 1, val |-> Deleted]>>}

\* Either both writers with few operations, or one at a time with more
\* operations, of one key and the second of them a deletion, so that a
\* memtable fills up while tables are being merged.
Grouped == versions.last_sequence + Len(Ops(Len(writers))) <= GroupedSequence
MergingBatches(seq) == {<<>>, <<[key |-> 1, val |-> IF seq = 1 THEN Deleted ELSE 2]>>}
Merging ==
    /\ Len(writers) <= 1 /\ \A w \in Writers : call[w] \in MergingBatches(versions.last_sequence)
    /\ events <= MergingEvents

DBInit == part \in {"grouped", "merging", "format"} /\ Init /\ L!Init
DBNext ==
    \/ part = "grouped" /\ Next /\ Grouped' /\ UNCHANGED <<part, format>>
    \/ part = "merging" /\ Next /\ Merging' /\ UNCHANGED <<part, format>>
    \/ part = "format" /\ L!Next /\ UNCHANGED <<part, vars>>
DBSpec == DBInit /\ [][DBNext]_<<part, vars, format>>

(***************************************************************************)
(* LevelDB is the atomic, durable map that CTxDB relies on: a group takes  *)
(* effect at once, flushes, compactions, deletions of files and openings   *)
(* change no key, and a crash at any point keeps every acknowledged batch  *)
(* and adds batches in flight whole or not at all.                         *)
(***************************************************************************)
Store == INSTANCE KVStore WITH store <- Contents
Implements == Store!Spec

\* LogFormat!ReplaysLog: log::Reader returns records that log::Writer wrote, whole
\* and in order, and all of them when no append failed.
ReplaysLog == L!ReplaysLog
=============================================================================
