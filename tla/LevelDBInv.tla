----------------------------- MODULE LevelDBInv -----------------------------
(****************************************************************************)
(* The inductive invariant of LevelDB and what LevelDBLemmas and            *)
(* LevelDBProofs say of its steps.                                          *)
(****************************************************************************)
EXTENDS LevelDB

-----------------------------------------------------------------------------
(* The recursive functions of the model are what their definitions say.     *)

Entry == [key : Keys, seq : Nat, val : Values]

Block == SUBSET Entry

\* One record of a log is replayed.
ReadRecord(acc, r) ==
    IF Cardinality(acc.mem \cup r) > WriteBuffer
    THEN [mem |-> {}, tables |-> Append(acc.tables, acc.mem \cup r)]
    ELSE [acc EXCEPT !.mem = @ \cup r]

EndOf(acc) == IF acc.mem = {} THEN acc.tables ELSE Append(acc.tables, acc.mem)

\* The log files are gone through in the order of their numbers.
ReadLog(acc, n) ==
    LET made == RecoverLogFile(disk.log[n])
    IN  [tables |-> acc.tables \cup {<<acc.next + i - 1, made[i]>> : i \in 1..Len(made)},
         next |-> MarkFileNumberUsed(acc.next + Len(made), n)]

ReadNumber(acc, n) == IF n \in Logs THEN ReadLog(acc, n) ELSE acc

ReadsLogs(upto, next_file, b) ==
    /\ upto[0] = [tables |-> {}, next |-> next_file]
    /\ \A n \in 1..b : upto[n] = ReadNumber(upto[n - 1], n)
    /\ RecoverLogs(next_file) = upto[b]

-----------------------------------------------------------------------------
(* Files that are needed exist.  An edit is in the manifest before it is in  *)
(* versions_, and nothing is deleted once the two may disagree (bg_error_).  *)

HasEdit == DOMAIN bg = {"pc", "kind", "edit"}

\* What the background thread does, and what it has then.
Control ==
    /\ DOMAIN disk = {"log", "table", "manifest", "current"}
    /\ DOMAIN versions = {"current", "log_number", "next_file", "manifest", "last_sequence"}
    /\ reader # NoReader =>
          state = "up" /\ DOMAIN reader = {"seq", "log", "mem", "imm", "version", "expected"}
    /\ compaction # NoCompaction =>
          /\ state = "up" /\ bg.pc # "idle"
          /\ DOMAIN compaction =
                {"level", "inputs", "version", "smallest_snapshot", "from", "outputs"}
    /\ state \in {"down", "create"} => versions = NoVersions /\ bg = NoEdit
    /\ state = "open" => HasEdit /\ bg.pc \in {"write", "current", "install"} /\ bg.kind = "open"
    /\ state = "up" =>
          \/ bg = NoEdit
          \/ bg = [pc |-> "merge"] /\ compaction # NoCompaction
          \/ HasEdit /\ bg.pc \in {"write", "install"} /\ bg.kind = "mem"
          \/ HasEdit /\ bg.pc \in {"write", "install"} /\ bg.kind = "merge"
                     /\ compaction # NoCompaction
          \/ HasEdit /\ bg.pc \in {"write", "install"} /\ bg.kind = "move"
                     /\ compaction = NoCompaction
    /\ state # "up" => pending = {} /\ bg_error = FALSE
    /\ state \in {"down", "create", "open", "up"}
    /\ bg_error \in BOOLEAN

\* The manifest that CURRENT names, and what it says.
Manifests ==
    /\ disk.current # 0 \/ state \in {"open", "up"} => disk.current \in DOMAIN disk.manifest
    /\ state = "create" => 1 \in DOMAIN disk.manifest /\ disk.manifest[1].version = EmptyVersion
    /\ bg.pc = "current" =>
          /\ versions.manifest \in DOMAIN disk.manifest
          /\ disk.manifest[versions.manifest].version = Apply(versions.current, bg.edit)
    /\ state = "up" \/ bg.pc = "install" => disk.current = versions.manifest
    /\ ~bg_error /\ state = "up" /\ bg.pc # "install" => Described.version = versions.current
    /\ ~bg_error /\ bg.pc = "install" => Described.version = Apply(versions.current, bg.edit)

\* The files of what is written next exist as well.
Present ==
    /\ FilesPresent
    /\ state \in {"open", "up"} => FilesOf(Described.version) \subseteq DOMAIN disk.table
    /\ HasEdit => \A x \in bg.edit.new_files : x[2].number \in DOMAIN disk.table
    /\ pending \subseteq DOMAIN disk.table
    /\ compaction # NoCompaction => \A f \in compaction.outputs : f.number \in pending

FInv == Control /\ Manifests /\ Present

\* The tables, the manifest and the versions are left alone.
FilesKept ==
    /\ state' = state
    /\ DOMAIN disk' = DOMAIN disk
    /\ disk'.table = disk.table
    /\ disk'.manifest = disk.manifest
    /\ disk'.current = disk.current
    /\ DOMAIN versions' = DOMAIN versions
    /\ versions'.current = versions.current
    /\ versions'.manifest = versions.manifest
    /\ state = "up" \/ versions' = versions
    /\ UNCHANGED <<pending, bg, compaction>>
    /\ bg_error' = bg_error \/ (bg_error' = TRUE /\ state = "up")
    /\ \/ UNCHANGED reader
       \/ reader' = NoReader
       \/ /\ state = "up" /\ DOMAIN reader' = {"seq", "log", "mem", "imm", "version", "expected"}
          /\ reader'.version = versions.current
       \/ /\ state = "up" /\ DOMAIN reader' = {"seq", "log", "mem", "imm", "version", "expected"}
          /\ reader # NoReader /\ reader'.version = reader.version

\* A manifest with the record of an edit added.
RecordAdded ==
    /\ DOMAIN WithRecord = DOMAIN disk /\ WithRecord.table = disk.table
    /\ WithRecord.current = disk.current
    /\ DOMAIN WithRecord.manifest = DOMAIN disk.manifest \cup {versions.manifest}
    /\ \A n \in DOMAIN disk.manifest :
          n # versions.manifest => WithRecord.manifest[n] = disk.manifest[n]
    /\ WithRecord.manifest[versions.manifest].version = Apply(Base, bg.edit)
    /\ FilesOf(Apply(Base, bg.edit)) \subseteq DOMAIN disk.table

-----------------------------------------------------------------------------
(* File numbers are given out once.                                         *)

BlockTo(b) == SUBSET [key : Keys, seq : 0..b, val : Values]

\* Files with a number below "next".
Named(f, next) == f.number \in 0..(next - 1) /\ f.smallest \in Keys /\ f.largest \in Keys

Below(v, next) == \A l \in Levels : \A f \in v[l] : Named(f, next)

\* What is in the files.
LogsTo(log, b) == \A n \in DOMAIN log : n \in 1..b /\ log[n] \in Seq(BlockTo(b))

TablesTyped == \A n \in DOMAIN disk.table : n \in Nat /\ disk.table[n] \in Block \ {{}}

LogsTyped == \E b \in Nat : LogsTo(disk.log, b)

Counted(r) == r.next_file \in Nat /\ r.last_sequence \in Nat /\ Below(r.version, r.next_file)

RecordsTyped == \A m \in DOMAIN disk.manifest : Counted(disk.manifest[m])

Stored == TablesTyped /\ LogsTyped /\ RecordsTyped

\* What is in memory.
Held ==
    /\ mem \in Block /\ imm \in Block
    /\ writers \in Seq(Writers) /\ group \in 0..Len(writers)
    /\ call \in [Writers -> Batches \cup {<<>>}]

\* The next file number is above every number in use.
Numbers ==
    /\ state \in {"open", "up"} =>
          /\ versions.next_file \in Nat /\ versions.manifest \in Nat
          /\ versions.last_sequence \in Nat /\ logfile \in 0..(versions.next_file - 1)
          /\ Below(versions.current, versions.next_file)
          /\ Described.next_file <= versions.next_file
    /\ HasEdit =>
          /\ bg.edit.next_file \in Nat /\ bg.edit.last_sequence \in Nat
          /\ Described.next_file <= bg.edit.next_file /\ bg.edit.next_file <= versions.next_file
          /\ Below(versions.current, bg.edit.next_file)
          /\ \A x \in bg.edit.new_files : Named(x[2], bg.edit.next_file)
    /\ bg.pc = "current" => disk.manifest[versions.manifest].next_file = bg.edit.next_file
    /\ state = "up" => DOMAIN disk.table \subseteq 0..(versions.next_file - 1)

\* What a compaction reads and writes.
Merges ==
    compaction # NoCompaction =>
        /\ compaction.level \in Nat /\ compaction.level < NumLevels - 1
        /\ compaction.inputs[1] \subseteq compaction.version[compaction.level]
        /\ compaction.inputs[2] \subseteq compaction.version[compaction.level + 1]
        /\ \A f \in compaction.outputs : Named(f, versions.next_file)

\* What a reader relies on.
Reads ==
    reader # NoReader =>
        /\ reader.seq \in Nat /\ reader.seq <= versions.last_sequence
        /\ reader.log \in 0..(versions.next_file - 1)
        /\ reader.log = logfile => reader.mem = mem
        /\ Below(reader.version, versions.next_file)
        /\ ReadsSnapshot

-----------------------------------------------------------------------------
(* Numbers stay below a growing bound.                                      *)

\* What the reader reads is left alone.
ReaderSame ==
    /\ reader' = reader
    /\ state = "up" =>
         /\ versions'.next_file \in Nat /\ versions.next_file <= versions'.next_file
         /\ versions'.last_sequence \in Nat /\ versions.last_sequence <= versions'.last_sequence
         /\ \/ logfile' = logfile /\ mem' = mem
            \/ logfile' = versions.next_file
    /\ reader # NoReader => \A n \in FilesOf(reader.version) : disk'.table[n] = disk.table[n]

-----------------------------------------------------------------------------
(* The memtables and the queue.                                             *)

Op == [key : Keys, val : Values]

-----------------------------------------------------------------------------
(* What each step does to the files.                                        *)

\* Some files of a directory are gone, the others are as they were.
Fewer(f, g) == DOMAIN f \subseteq DOMAIN g /\ \A n \in DOMAIN f : f[n] = g[n]

\* Nothing but a deletion of files happens to the disk.
OnlyDeleted ==
    /\ DOMAIN disk' = DOMAIN disk /\ disk'.current = disk.current
    /\ Fewer(disk'.log, disk.log) /\ Fewer(disk'.table, disk.table)
    /\ Fewer(disk'.manifest, disk.manifest)

\* A crash loses files that were about to be deleted and the ends of logs.
Lost ==
    \E d :
      /\ DOMAIN disk' = DOMAIN disk /\ disk'.current = disk.current
      /\ Fewer(disk'.table, disk.table) /\ Fewer(disk'.manifest, disk.manifest)
      /\ Fewer(d, disk.log)
      /\ DOMAIN disk'.log = DOMAIN d /\ \A n \in DOMAIN d : disk'.log[n] \in Readable(d[n])

\* Steps that change neither the tables, the logs nor the manifest.
SameFiles == DOMAIN disk' = DOMAIN disk /\ disk'.table = disk.table /\ disk'.log = disk.log
             /\ disk'.manifest = disk.manifest

-----------------------------------------------------------------------------
(* The files hold what they should.                                         *)

ReplayedLogs == RecoverLogs(Described.next_file + 1)

LastLogged == Max({Described.last_sequence} \cup {e.seq : e \in Logged})

OpenEdit ==
    [new_files |-> {<<0, FileMetaData(t[1], t[2])>> : t \in ReplayedLogs.tables},
     deleted_files |-> {}, log_number |-> ReplayedLogs.next,
     next_file |-> ReplayedLogs.next + 1, last_sequence |-> LastLogged]

\* What recovery does.
Recovered ==
    /\ state = "down" /\ state' = "open" /\ disk.current # 0
    /\ disk.current \in DOMAIN disk.manifest
    /\ DOMAIN disk' = DOMAIN disk /\ disk'.manifest = disk.manifest
    /\ disk'.current = disk.current
    /\ disk'.log = Put(disk.log, ReplayedLogs.next, <<>>)
    /\ DOMAIN disk'.table = DOMAIN disk.table \cup {t[1] : t \in ReplayedLogs.tables}
    /\ \A n \in DOMAIN disk'.table :
          \/ \E t \in ReplayedLogs.tables : t[1] = n /\ disk'.table[n] = t[2]
          \/ n \in DOMAIN disk.table /\ disk'.table[n] = disk.table[n]
    /\ versions' = [current |-> Described.version, log_number |-> Described.log_number,
                    next_file |-> ReplayedLogs.next + 1, manifest |-> Described.next_file,
                    last_sequence |-> LastLogged]
    /\ logfile' = ReplayedLogs.next
    /\ bg' = [pc |-> "write", kind |-> "open", edit |-> OpenEdit]
    /\ ReplayedLogs.next \in Nat /\ Described.next_file \in Nat
    /\ Described.next_file < ReplayedLogs.next
    /\ \A n \in Logs : n < ReplayedLogs.next
    /\ \A t \in ReplayedLogs.tables :
          /\ t[1] \in (Described.next_file + 1)..(ReplayedLogs.next - 1)
          /\ t[2] \in Block \ {{}}
    /\ LastLogged \in Nat

\* What writing one output of a compaction does.
OutputMade(last) ==
    LET n == versions.next_file
        E == {e \in Rest(compaction) : e.key <= last}
    IN  /\ state = "up" /\ state' = "up" /\ n \in Nat /\ E \in Block \ {{}}
        /\ compaction # NoCompaction /\ compaction' # NoCompaction
        /\ DOMAIN disk' = DOMAIN disk /\ disk'.table = Put(disk.table, n, E)
        /\ disk'.log = disk.log /\ disk'.manifest = disk.manifest
        /\ disk'.current = disk.current
        /\ versions' = [versions EXCEPT !.next_file = n + 1]
        /\ compaction' = [compaction EXCEPT !.from = last + 1,
                                            !.outputs = @ \cup {FileMetaData(n, E)}]
        /\ UNCHANGED <<mem, logfile, bg, reader>>

\* What writing the memtable to a table does.
Flushed ==
    LET n == versions.next_file
        f == FileMetaData(n, imm)
        level == PickLevelForMemTableOutput(versions.current, f.smallest, f.largest)
    IN  /\ state = "up" /\ state' = "up" /\ n \in Nat /\ imm \in Block \ {{}}
        /\ bg.pc \in {"idle", "merge"}
        /\ DOMAIN disk' = DOMAIN disk /\ disk'.table = Put(disk.table, n, imm)
        /\ disk'.log = disk.log /\ disk'.manifest = disk.manifest
        /\ disk'.current = disk.current
        /\ versions' = [versions EXCEPT !.next_file = n + 1]
        /\ bg' = [pc |-> "write", kind |-> "mem",
                  edit |-> Edit({<<level, f>>}, {}, logfile, n + 1)]
        /\ UNCHANGED <<mem, logfile, compaction, reader>>

-----------------------------------------------------------------------------
(* Numbers in use stay below the next one.                                  *)

\* Numbers are only given out.
NumbersGrow ==
    /\ state' = state
    /\ bg' = bg
    /\ disk'.manifest = disk.manifest
    /\ disk'.current = disk.current
    /\ versions'.current = versions.current
    /\ versions'.manifest = versions.manifest
    /\ state \in {"open", "up"} =>
          /\ versions'.next_file \in Nat /\ versions.next_file <= versions'.next_file
          /\ versions'.last_sequence \in Nat
          /\ logfile' \in 0..(versions'.next_file - 1)
          /\ DOMAIN disk'.table \subseteq DOMAIN disk.table \cup 0..(versions'.next_file - 1)

-----------------------------------------------------------------------------
(* The theorems.                                                            *)

IInv == FInv /\ Stored /\ Held /\ Numbers /\ Merges /\ Reads
=============================================================================
