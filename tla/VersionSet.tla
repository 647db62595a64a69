----------------------------- MODULE VersionSet -----------------------------
(***************************************************************************)
(* The shape of a LevelDB database on disk, and the choices made over it:  *)
(* leveldb/db/version_set.cc.  A version gives every level its set of      *)
(* table files; a file is its metadata (number, key range, size), and the  *)
(* entries it holds are found in the table on disk.                        *)
(*                                                                         *)
(* An entry is one internal key with its value: the user key, the sequence *)
(* number of the operation that wrote it, and its value, Deleted for a     *)
(* deletion marker.  Sizes are counted in entries, where the code counts   *)
(* bytes.                                                                  *)
(***************************************************************************)
EXTENDS FiniteSetsExt, Functions, Integers, Sequences

CONSTANTS
    Keys,               \* user keys, ordered: a set of naturals
    NumLevels,          \* config::kNumLevels
    MaxMemCompactLevel, \* config::kMaxMemCompactLevel
    GrandParentLimit,   \* kMaxGrandParentOverlapBytes
    ExpandedLimit       \* kExpandedCompactionByteSizeLimit

ASSUME VersionSetAssumption ==
    /\ Keys \subseteq Nat /\ IsFiniteSet(Keys)
    /\ {NumLevels, MaxMemCompactLevel, GrandParentLimit, ExpandedLimit} \subseteq Nat
    /\ MaxMemCompactLevel < NumLevels

Deleted == 0
Levels == 0..NumLevels - 1
EmptyVersion == [l \in Levels |-> {}]

\* FileMetaData of a table with number n and the entries E.
FileMetaData(n, E) ==
    LET keys == {e.key : e \in E}
    IN  [number |-> n, smallest |-> Min(keys), largest |-> Max(keys), size |-> Cardinality(E)]

TotalFileSize(F) == MapThenSumSet(LAMBDA f : f.size, F)

\* The table numbers a version names.
FilesOf(v) == UNION {{f.number : f \in v[l]} : l \in Levels}

-----------------------------------------------------------------------------
\* Ranges of user keys.

InFile(f, k) == f.smallest <= k /\ k <= f.largest
Overlapping(F, lo, hi) == {f \in F : f.largest >= lo /\ f.smallest <= hi}

GetRange(F) == [lo |-> Min({f.smallest : f \in F}), hi |-> Max({f.largest : f \in F})]

OverlapInLevel(v, level, lo, hi) == Overlapping(v[level], lo, hi) # {}

(***************************************************************************)
(* The files of a level that overlap a range.  Files of level 0 overlap    *)
(* each other, so there a file that sticks out widens the range and the    *)
(* search starts again: the result is the least set of files closed under  *)
(* overlap with the range and the files in the set.                        *)
(***************************************************************************)
GetOverlappingInputs(v, level, lo, hi) ==
    LET Closed(S) == Overlapping(v[level], Min({lo} \cup {f.smallest : f \in S}),
                                 Max({hi} \cup {f.largest : f \in S})) \subseteq S
    IN  IF level > 0 THEN Overlapping(v[level], lo, hi)
        ELSE {f \in v[0] : \A S \in SUBSET v[0] : Closed(S) => f \in S}

(***************************************************************************)
(* Where the table of a memtable goes: as deep as MaxMemCompactLevel when  *)
(* nothing overlaps it on the way and not too much overlaps it one level   *)
(* further down.                                                           *)
(***************************************************************************)
PickLevelForMemTableOutput(v, lo, hi) ==
    LET Push(l) == /\ ~OverlapInLevel(v, l + 1, lo, hi)
                   /\ l + 2 < NumLevels =>
                        TotalFileSize(GetOverlappingInputs(v, l + 2, lo, hi)) <= GrandParentLimit
    IN  IF OverlapInLevel(v, 0, lo, hi) THEN 0
        ELSE Max({l \in 0..MaxMemCompactLevel : \A m \in 0..l - 1 : Push(m)})

-----------------------------------------------------------------------------
\* Compactions.

\* Compaction of "inputs0" of a level into the next one, with the files of
\* the first level grown when that pulls in no more files of the second.
SetupOtherInputs(v, level, inputs0) ==
    LET r == GetRange(inputs0)
        inputs1 == GetOverlappingInputs(v, level + 1, r.lo, r.hi)
        all == GetRange(inputs0 \cup inputs1)
        expanded0 == GetOverlappingInputs(v, level, all.lo, all.hi)
        new == GetRange(expanded0)
        expanded1 == GetOverlappingInputs(v, level + 1, new.lo, new.hi)
        grow == /\ inputs1 # {}
                /\ Cardinality(expanded0) > Cardinality(inputs0)
                /\ TotalFileSize(inputs1) + TotalFileSize(expanded0) < ExpandedLimit
                /\ Cardinality(expanded1) = Cardinality(inputs1)
        range == GetRange(IF grow THEN expanded0 \cup expanded1 ELSE inputs0 \cup inputs1)
    IN  [level |-> level,
         inputs |-> IF grow THEN <<expanded0, expanded1>> ELSE <<inputs0, inputs1>>,
         grandparents |-> IF level + 2 < NumLevels
                          THEN GetOverlappingInputs(v, level + 2, range.lo, range.hi) ELSE {}]

(***************************************************************************)
(* The compaction that starts from file f of a level.  The file is the one *)
(* after compact_pointer_ in the level with the highest score, or the one  *)
(* that too many reads had to pass through (file_to_compact_); sizes,      *)
(* pointers and seek counts are not modelled, so any file of a level that  *)
(* has a next one may be it.                                               *)
(***************************************************************************)
PickCompaction(v, level, f) ==
    SetupOtherInputs(v, level,
        IF level = 0 THEN GetOverlappingInputs(v, 0, f.smallest, f.largest) ELSE {f})

IsTrivialMove(c) ==
    /\ Cardinality(c.inputs[1]) = 1 /\ c.inputs[2] = {}
    /\ TotalFileSize(c.grandparents) <= GrandParentLimit

\* Mutant of IsBaseLevelForKey: the first level below the output is not looked at.
IsBaseLevelBelow(v, level, k) ==
    \A l \in level + 3..NumLevels - 1 : ~\E f \in v[l] : InFile(f, k)

\* No level below the output level may hold the key.
IsBaseLevelForKey(v, level, k) ==
    \A l \in level + 2..NumLevels - 1 : ~\E f \in v[l] : InFile(f, k)

(***************************************************************************)
(* What the compaction of entries E of a level keeps: not an entry hidden  *)
(* by a newer one that every snapshot sees, and not a deletion marker with *)
(* nothing left below it to delete.                                        *)
(***************************************************************************)
Kept(v, level, E, smallest_snapshot) ==
    {e \in E :
        /\ ~\E d \in E : d.key = e.key /\ d.seq > e.seq /\ d.seq <= smallest_snapshot
        /\ ~(/\ e.val = Deleted
             /\ e.seq <= smallest_snapshot
             /\ IsBaseLevelForKey(v, level, e.key))}

-----------------------------------------------------------------------------
\* Lookups.

Visible(E, k, seq) == {e \in E : e.key = k /\ e.seq <= seq}
Newest(E) == CHOOSE e \in E : \A d \in E : d.seq <= e.seq

(***************************************************************************)
(* Version::Get: level 0 from the newest file to the oldest, then the one  *)
(* file of each deeper level that may hold the key; the first hit decides. *)
(***************************************************************************)
VersionGet(v, table, k, seq) ==
    LET Hit(f) == InFile(f, k) /\ Visible(table[f.number], k, seq) # {}
        hits0 == {f \in v[0] : Hit(f)}
        newest == CHOOSE f \in hits0 : \A g \in hits0 : g.number <= f.number
        found(l) == {f \in v[l] : InFile(f, k)}
        FindFile(l) == CHOOSE f \in found(l) : \A g \in found(l) : f.largest <= g.largest
        deeper == {l \in Levels \ {0} : found(l) # {} /\ Hit(FindFile(l))}
        value(f) == Newest(Visible(table[f.number], k, seq)).val
    IN  IF hits0 # {} THEN value(newest)
        ELSE IF deeper # {} THEN value(FindFile(Min(deeper)))
        ELSE Deleted

\* VersionSet::Builder: a version with the files of an edit taken out and put in.
Apply(v, edit) ==
    [l \in Levels |-> {f \in v[l] : <<l, f.number>> \notin edit.deleted_files}
                        \cup {f \in {n[2] : n \in edit.new_files} : <<l, f>> \in edit.new_files}]
=============================================================================
