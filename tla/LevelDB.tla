------------------------------ MODULE LevelDB -------------------------------
(***************************************************************************)
(* The database under the transaction index: leveldb/db/db_impl.cc and the *)
(* parts of version_set.cc that write the manifest.  Writers queue up and  *)
(* the one in front logs a whole group; a full memtable becomes immutable  *)
(* and is turned into a table by the background thread, which also merges  *)
(* tables into deeper levels; the manifest records the table files and the *)
(* log from which they are not enough; opening the database replays what   *)
(* the manifest does not cover.  The process may crash between any two     *)
(* writes to the file system, the opening included, and files may fail to  *)
(* be written.                                                             *)
(*                                                                         *)
(* The node writes with WriteOptions() (sync unset), takes no snapshots    *)
(* and leaves paranoid_checks and reuse_logs unset: those branches are     *)
(* left out.  A file keeps what was flushed to it: the machine stays up.   *)
(***************************************************************************)
EXTENDS VersionSet

CONSTANTS
    Writers,        \* threads that write
    Batches,        \* the batches they write: sequences of [key, val], Deleted to erase
    WriteBuffer,    \* options_.write_buffer_size, in entries
    L0Stop,         \* config::kL0_StopWritesTrigger
    MaxSequence,    \* bound: operations ever written
    MaxEvents       \* bound: crashes, failed writes to files, and reads

Values == {Deleted} \cup UNION {{b[i].val : i \in DOMAIN b} : b \in Batches}

ASSUME LevelDBAssumption ==
    /\ {WriteBuffer, L0Stop, MaxSequence, MaxEvents} \subseteq Nat
    /\ Batches \subseteq Seq([key : Keys, val : Values]) \ {<<>>}

VARIABLES
    disk,       \* the directory: log, table and manifest files by number, and CURRENT (0: none)
    state,      \* "down", "create" (in NewDB), "open" (in DB::Open) or "up"
    versions,   \* versions_: current_, log_number_, next_file_number_, manifest_file_number_, last_sequence_
    mem,        \* mem_: entries of the memtable
    imm,        \* imm_: entries of the immutable memtable, {} for NULL
    logfile,    \* logfile_number_
    bg_error,   \* bg_error_ is set
    pending,    \* pending_outputs_
    writers,    \* writers_: the queue
    call,       \* the batch of every thread inside Write
    group,      \* how many writers of the queue are in the logged batch group, 0: none
    bg,         \* the background thread, or the opening thread, and its edit
    compaction, \* the compaction it runs
    reader,     \* a Get between its two locked parts
    damaged,    \* an append to a log failed half-way
    events      \* crashes, failures and reads so far

process == <<versions, mem, imm, logfile, bg_error, pending, writers, call, group, bg,
             compaction, reader>>
vars == <<disk, state, process, damaged, events>>

NoEdit == [pc |-> "idle"]
NoCompaction == [level |-> NumLevels]
NoReader == [seq |-> 0]
NoVersions == [current |-> EmptyVersion, log_number |-> 0, next_file |-> 2, manifest |-> 0,
               last_sequence |-> 0]

Working == state = "up"

\* Files with a number, added to or replaced in a directory listing.
Put(files, n, contents) == [m \in DOMAIN files \cup {n} |-> IF m = n THEN contents ELSE files[m]]

-----------------------------------------------------------------------------
\* Lookups in a running database, and in what an opening would find.

Get(m, i, v, seq, k) ==
    IF Visible(m, k, seq) # {} THEN Newest(Visible(m, k, seq)).val
    ELSE IF Visible(i, k, seq) # {} THEN Newest(Visible(i, k, seq)).val
    ELSE VersionGet(v, disk.table, k, seq)

\* The manifest CURRENT names, and the logs it leaves to be replayed.
Described == disk.manifest[disk.current]
Logs == {n \in DOMAIN disk.log : n >= Described.log_number}
Logged == UNION UNION {Range(disk.log[n]) : n \in Logs}

Contents ==
    IF Working
    THEN [k \in Keys |-> Get(mem, imm, versions.current, versions.last_sequence, k)]
    ELSE IF disk.current = 0 THEN [k \in Keys |-> Deleted]
    ELSE [k \in Keys |-> Get(Logged, {}, Described.version, MaxSequence, k)]

-----------------------------------------------------------------------------
\* Garbage collection.

\* Mutant of Obsolete: the outputs of the compaction under way are forgotten.
ObsoleteOutputs(d, vs, pinned, outputs) ==
    [log |-> {n \in DOMAIN d.log : n < vs.log_number},
     table |-> DOMAIN d.table \ UNION {FilesOf(v) : v \in pinned \cup {vs.current}},
     manifest |-> {n \in DOMAIN d.manifest : n < vs.manifest}]

\* Files no version in use, no compaction under way and no recovery needs.
Obsolete(d, vs, pinned, outputs) ==
    LET live == outputs \cup UNION {FilesOf(v) : v \in pinned \cup {vs.current}}
    IN  [log |-> {n \in DOMAIN d.log : n < vs.log_number},
         table |-> DOMAIN d.table \ live,
         manifest |-> {n \in DOMAIN d.manifest : n < vs.manifest}]

Without(d, gone) ==
    [d EXCEPT !.log = Restrict(@, DOMAIN @ \ gone.log),
              !.table = Restrict(@, DOMAIN @ \ gone.table),
              !.manifest = Restrict(@, DOMAIN @ \ gone.manifest)]

DeleteObsoleteFiles(d, vs, pinned, outputs) ==
    IF bg_error THEN d ELSE Without(d, Obsolete(d, vs, pinned, outputs))

\* Versions that readers and compactions hold a reference to.
ReaderVersions == IF reader = NoReader THEN {} ELSE {reader.version}
CompactionVersions == IF compaction = NoCompaction THEN {} ELSE {compaction.version}

-----------------------------------------------------------------------------
\* Opening the database.

Init ==
    /\ disk = [log |-> <<>>, table |-> <<>>, manifest |-> <<>>, current |-> 0]
    /\ state = "down"
    /\ versions = NoVersions
    /\ mem = {} /\ imm = {} /\ logfile = 0
    /\ bg_error = FALSE /\ pending = {}
    /\ writers = <<>> /\ call = [w \in Writers |-> <<>>] /\ group = 0
    /\ bg = NoEdit /\ compaction = NoCompaction /\ reader = NoReader
    /\ damaged = FALSE /\ events = 0

\* DBImpl::NewDB, up to and from the renaming that makes CURRENT.
NewDB ==
    /\ state = "down" /\ disk.current = 0
    /\ disk' = [disk EXCEPT !.manifest = Put(@, 1,
                    [version |-> EmptyVersion, log_number |-> 0, next_file |-> 2,
                     last_sequence |-> 0])]
    /\ state' = "create"
    /\ UNCHANGED <<process, damaged, events>>

NewDBCurrent ==
    /\ state = "create"
    /\ disk' = [disk EXCEPT !.current = 1]
    /\ state' = "down"
    /\ UNCHANGED <<process, damaged, events>>

\* RecoverLogFile: the tables made from the records of one log.
RecoverLogFile(records) ==
    LET Read(acc, r) ==
            IF Cardinality(acc.mem \cup r) > WriteBuffer
            THEN [mem |-> {}, tables |-> Append(acc.tables, acc.mem \cup r)]
            ELSE [acc EXCEPT !.mem = @ \cup r]
        upto[i \in 0..Len(records)] ==
            IF i = 0 THEN [mem |-> {}, tables |-> <<>>] ELSE Read(upto[i - 1], records[i])
        end == upto[Len(records)]
    IN  IF end.mem = {} THEN end.tables ELSE Append(end.tables, end.mem)

\* MarkFileNumberUsed.
MarkFileNumberUsed(next, n) == IF next <= n THEN n + 1 ELSE next

\* The numbered tables made from all logs, oldest log first, and the next file number.
RecoverLogs(next_file) ==
    LET Read(acc, n) ==
            LET made == RecoverLogFile(disk.log[n])
            IN  [tables |-> acc.tables \cup {<<acc.next + i - 1, made[i]>> : i \in 1..Len(made)},
                 next |-> MarkFileNumberUsed(acc.next + Len(made), n)]
        upto[n \in 0..Max({0} \cup Logs)] ==
            IF n = 0 THEN [tables |-> {}, next |-> next_file]
            ELSE IF n \in Logs THEN Read(upto[n - 1], n) ELSE upto[n - 1]
    IN  upto[Max({0} \cup Logs)]

(***************************************************************************)
(* VersionSet::Recover and the rest of DBImpl::Recover, and the log file   *)
(* that DB::Open creates.  The tables of the replayed logs are on disk,    *)
(* the edit that names them is not.                                        *)
(***************************************************************************)
Recover ==
    /\ state = "down" /\ disk.current # 0
    /\ FilesOf(Described.version) \subseteq
           DOMAIN disk.table \cup DOMAIN disk.log \cup DOMAIN disk.manifest
    /\ LET r == RecoverLogs(Described.next_file + 1)
           log == r.next
           last == Max({Described.last_sequence} \cup {e.seq : e \in Logged})
       IN  /\ disk' = [disk EXCEPT
                  !.table = [n \in DOMAIN @ \cup {t[1] : t \in r.tables} |->
                               IF \E t \in r.tables : t[1] = n
                               THEN (CHOOSE t \in r.tables : t[1] = n)[2] ELSE @[n]],
                  !.log = Put(@, log, <<>>)]
           /\ versions' = [current |-> Described.version, log_number |-> Described.log_number,
                           next_file |-> log + 1, manifest |-> Described.next_file,
                           last_sequence |-> last]
           /\ logfile' = log
           /\ bg' = [pc |-> "write", kind |-> "open",
                     edit |-> [new_files |-> {<<0, FileMetaData(t[1], t[2])>> : t \in r.tables},
                               deleted_files |-> {}, log_number |-> log,
                               next_file |-> log + 1, last_sequence |-> last]]
    /\ state' = "open"
    /\ UNCHANGED <<mem, imm, bg_error, pending, writers, call, group, compaction, reader,
                   damaged, events>>

\* SetCurrentFile, once the new manifest is written.
SetCurrentFile ==
    /\ bg.pc = "current"
    /\ disk' = [disk EXCEPT !.current = versions.manifest]
    /\ bg' = [bg EXCEPT !.pc = "install"]
    /\ UNCHANGED <<state, versions, mem, imm, logfile, bg_error, pending, writers, call, group,
                   compaction, reader, damaged, events>>

-----------------------------------------------------------------------------
\* VersionSet::LogAndApply.

Edit(new_files, deleted_files, log_number, next_file) ==
    [new_files |-> new_files, deleted_files |-> deleted_files, log_number |-> log_number,
     next_file |-> next_file, last_sequence |-> versions.last_sequence]

\* The manifest with the record of an edit behind the others.
Record(version, edit) ==
    [version |-> Apply(version, edit), log_number |-> edit.log_number,
     next_file |-> edit.next_file, last_sequence |-> edit.last_sequence]

\* The version a new record extends: what the manifest says, or the snapshot
\* that a new manifest begins with.
Base == IF bg.kind = "open" THEN versions.current ELSE disk.manifest[versions.manifest].version

WithRecord == [disk EXCEPT !.manifest = Put(@, versions.manifest, Record(Base, bg.edit))]

WriteManifest ==
    /\ bg.pc = "write"
    /\ disk' = WithRecord
    /\ bg' = [bg EXCEPT !.pc = IF bg.kind = "open" THEN "current" ELSE "install"]
    /\ UNCHANGED <<state, versions, mem, imm, logfile, bg_error, pending, writers, call, group,
                   compaction, reader, damaged, events>>

\* The rest of the thread's work after its edit: a nested flush goes back to
\* the compaction it interrupted.
Resumed == IF compaction # NoCompaction /\ bg.kind = "mem" THEN [pc |-> "merge"] ELSE NoEdit

\* The write or its Sync fails: the record may be there all the same.
WriteManifestFails ==
    /\ bg.pc = "write" /\ bg.kind # "open" /\ events < MaxEvents
    /\ disk' \in {disk, WithRecord}
    /\ bg_error' = TRUE
    /\ bg' = Resumed
    /\ pending' = IF bg.kind = "merge" THEN {} ELSE pending
    /\ compaction' = IF bg.kind = "merge" THEN NoCompaction ELSE compaction
    /\ events' = events + 1
    /\ UNCHANGED <<state, versions, mem, imm, logfile, writers, call, group, reader,
                   damaged>>

(***************************************************************************)
(* The new version becomes current and what it makes obsolete is deleted:  *)
(* the end of LogAndApply, then the end of CompactMemTable, of             *)
(* BackgroundCompaction (a trivial move deletes nothing) or of DB::Open.   *)
(***************************************************************************)
Installed == [versions EXCEPT !.current = Apply(@, bg.edit), !.log_number = bg.edit.log_number]
StillPinned == ReaderVersions \cup (IF bg.kind = "merge" THEN {} ELSE CompactionVersions)
StillPending == IF bg.kind = "merge" THEN {} ELSE pending

Install ==
    /\ bg.pc = "install"
    /\ versions' = Installed
    /\ imm' = IF bg.kind = "mem" THEN {} ELSE imm
    /\ pending' = StillPending
    /\ compaction' = IF bg.kind = "merge" THEN NoCompaction ELSE compaction
    /\ disk' = IF bg.kind = "move" THEN disk
               ELSE DeleteObsoleteFiles(disk, Installed, StillPinned, StillPending)
    /\ bg' = Resumed
    /\ state' = "up"
    /\ UNCHANGED <<mem, logfile, bg_error, writers, call, group, reader, damaged, events>>

-----------------------------------------------------------------------------
\* CompactMemTable, from BackgroundCompaction or from within a compaction.

FlushReady ==
    /\ Working /\ imm # {}
    /\ \/ bg.pc = "idle" /\ ~bg_error
       \/ bg.pc = "merge"

\* WriteLevel0Table writes the table, and the edit is made.
CompactMemTable ==
    /\ FlushReady
    /\ LET n == versions.next_file
           f == FileMetaData(n, imm)
           level == PickLevelForMemTableOutput(versions.current, f.smallest, f.largest)
       IN  /\ disk' = [disk EXCEPT !.table = Put(@, n, imm)]
           /\ versions' = [versions EXCEPT !.next_file = n + 1]
           /\ bg' = [pc |-> "write", kind |-> "mem",
                     edit |-> Edit({<<level, f>>}, {}, logfile, n + 1)]
    /\ UNCHANGED <<state, mem, imm, logfile, bg_error, pending, writers, call, group,
                   compaction, reader, damaged, events>>

\* BuildTable fails, and deletes what it wrote.
CompactMemTableFails ==
    /\ FlushReady /\ events < MaxEvents
    /\ versions' = [versions EXCEPT !.next_file = @ + 1]
    /\ bg_error' = TRUE
    /\ events' = events + 1
    /\ UNCHANGED <<disk, state, mem, imm, logfile, pending, writers, call, group, bg,
                   compaction, reader, damaged>>

-----------------------------------------------------------------------------
\* BackgroundCompaction of tables.

BackgroundCompaction(level, f) ==
    /\ Working /\ bg.pc = "idle" /\ ~bg_error /\ imm = {}
    /\ LET c == PickCompaction(versions.current, level, f)
       IN  IF IsTrivialMove(c)
           THEN /\ bg' = [pc |-> "write", kind |-> "move",
                          edit |-> Edit({<<level + 1, g>> : g \in c.inputs[1]},
                                        {<<level, g.number>> : g \in c.inputs[1]},
                                        versions.log_number, versions.next_file)]
                /\ UNCHANGED compaction
           ELSE /\ bg' = [pc |-> "merge"]
                /\ compaction' = [level |-> level, inputs |-> c.inputs,
                                  version |-> versions.current,
                                  smallest_snapshot |-> versions.last_sequence,
                                  from |-> Min(Keys), outputs |-> {}]
    /\ UNCHANGED <<disk, state, versions, mem, imm, logfile, bg_error, pending, writers, call,
                   group, reader, damaged, events>>

\* What DoCompactionWork has still to write, read from the input tables.
Rest(c) ==
    LET E == UNION {disk.table[f.number] : f \in c.inputs[1] \cup c.inputs[2]}
    IN  {e \in Kept(c.version, c.level, E, c.smallest_snapshot) : e.key >= c.from}

(***************************************************************************)
(* One output file of DoCompactionWork, with the entries up to key "last". *)
(* Where a file ends depends on sizes (MaxOutputFileSize,                  *)
(* ShouldStopBefore), so any key may be its last.                          *)
(***************************************************************************)
CompactionOutput(last) ==
    /\ Working /\ bg.pc = "merge"
    /\ last \in {e.key : e \in Rest(compaction)}
    /\ LET n == versions.next_file
           E == {e \in Rest(compaction) : e.key <= last}
       IN  /\ disk' = [disk EXCEPT !.table = Put(@, n, E)]
           /\ pending' = pending \cup {n}
           /\ versions' = [versions EXCEPT !.next_file = n + 1]
           /\ compaction' = [compaction EXCEPT !.from = last + 1,
                                               !.outputs = @ \cup {FileMetaData(n, E)}]
    /\ UNCHANGED <<state, mem, imm, logfile, bg_error, writers, call, group, bg, reader,
                   damaged, events>>

\* InstallCompactionResults makes the edit.
InstallCompactionResults ==
    /\ Working /\ bg.pc = "merge" /\ Rest(compaction) = {}
    /\ bg' = [pc |-> "write", kind |-> "merge",
              edit |-> Edit({<<compaction.level + 1, f>> : f \in compaction.outputs},
                            UNION {{<<compaction.level + i - 1, f.number>> :
                                        f \in compaction.inputs[i]} : i \in 1..2},
                            versions.log_number, versions.next_file)]
    /\ UNCHANGED <<disk, state, versions, mem, imm, logfile, bg_error, pending, writers, call,
                   group, compaction, reader, damaged, events>>

\* An output cannot be written: the compaction is given up, its files stay.
CompactionFails ==
    /\ Working /\ bg.pc = "merge" /\ Rest(compaction) # {} /\ events < MaxEvents
    /\ versions' = [versions EXCEPT !.next_file = @ + 1]
    /\ bg_error' = TRUE
    /\ bg' = NoEdit /\ compaction' = NoCompaction /\ pending' = {}
    /\ events' = events + 1
    /\ UNCHANGED <<disk, state, mem, imm, logfile, writers, call, group, reader, damaged>>

-----------------------------------------------------------------------------
\* Writers.

\* The batches of the first n writers as one.
Ops(n) ==
    LET upto[i \in 0..n] == IF i = 0 THEN <<>> ELSE upto[i - 1] \o call[writers[i]]
    IN  upto[n]

Entries(ops, seq) == {[key |-> ops[i].key, seq |-> seq + i, val |-> ops[i].val] : i \in 1..Len(ops)}

Write(w, b) ==
    /\ Working /\ call[w] = <<>>
    /\ versions.last_sequence + Len(Ops(Len(writers))) + Len(b) <= MaxSequence
    /\ call' = [call EXCEPT ![w] = b]
    /\ writers' = Append(writers, w)
    /\ UNCHANGED <<disk, state, versions, mem, imm, logfile, bg_error, pending, group, bg,
                   compaction, reader, damaged, events>>

\* The first n writers of the queue leave it and return.
Leave(n) ==
    /\ writers' = SubSeq(writers, n + 1, Len(writers))
    /\ call' = [w \in Writers |-> IF \E i \in 1..n : writers[i] = w THEN <<>> ELSE call[w]]

\* A writer is at the front of the queue, in MakeRoomForWrite.
AtFront == Working /\ writers # <<>> /\ group = 0
Room == Cardinality(mem) <= WriteBuffer
MustSwitch == ~bg_error /\ ~Room /\ imm = {} /\ Cardinality(versions.current[0]) < L0Stop

\* MakeRoomForWrite starts a new log and a new memtable.
SwitchMemTable ==
    /\ AtFront /\ MustSwitch
    /\ LET n == versions.next_file
       IN  /\ disk' = [disk EXCEPT !.log = Put(@, n, <<>>)]
           /\ versions' = [versions EXCEPT !.next_file = n + 1]
           /\ logfile' = n
    /\ imm' = mem /\ mem' = {}
    /\ UNCHANGED <<state, bg_error, pending, writers, call, group, bg, compaction, reader,
                   damaged, events>>

\* The new log cannot be made (its number is given back), or the background
\* thread has failed before: only the writer in front gets the error.
MakeRoomFails ==
    /\ AtFront
    /\ \/ bg_error /\ UNCHANGED events
       \/ MustSwitch /\ events < MaxEvents /\ events' = events + 1
    /\ Leave(1)
    /\ UNCHANGED <<disk, state, versions, mem, imm, logfile, bg_error, pending, group, bg,
                   compaction, reader, damaged>>

\* BuildBatchGroup takes the first n writers (as many as fit a size limit)
\* and their batches go to the log as one record.
AddRecord(n) ==
    /\ AtFront /\ ~bg_error /\ Room
    /\ disk' = [disk EXCEPT !.log[logfile] = Append(@, Entries(Ops(n), versions.last_sequence))]
    /\ group' = n
    /\ UNCHANGED <<state, versions, mem, imm, logfile, bg_error, pending, writers, call, bg,
                   compaction, reader, damaged, events>>

\* InsertInto, and the end of Write.  A Get that references the memtable
\* sees the new entries in it.
FinishWrite ==
    /\ Working /\ group > 0
    /\ mem' = mem \cup Entries(Ops(group), versions.last_sequence)
    /\ versions' = [versions EXCEPT !.last_sequence = @ + Len(Ops(group))]
    /\ Leave(group)
    /\ group' = 0
    /\ reader' = IF reader # NoReader /\ reader.log = logfile
                 THEN [reader EXCEPT !.mem = mem'] ELSE reader
    /\ UNCHANGED <<disk, state, imm, logfile, bg_error, pending, bg, compaction,
                   damaged, events>>

\* The append fails: the group returns the error, its sequence numbers are
\* used up, and the log may end in part of a record ({}).
AddRecordFails(n) ==
    /\ AtFront /\ ~bg_error /\ Room /\ events < MaxEvents
    /\ \/ UNCHANGED <<disk, damaged>>
       \/ disk' = [disk EXCEPT !.log[logfile] = Append(@, {})] /\ damaged' = TRUE
    /\ versions' = [versions EXCEPT !.last_sequence = @ + Len(Ops(n))]
    /\ Leave(n)
    /\ events' = events + 1
    /\ UNCHANGED <<state, mem, imm, logfile, bg_error, pending, group, bg, compaction, reader>>

-----------------------------------------------------------------------------
\* Readers: DBImpl::Get references what it needs under the mutex and reads
\* without it.

\* Mutant of BeginGet: the lookup is not bounded by LastSequence().
BeginGetUnbounded ==
    /\ Working /\ reader = NoReader /\ events < MaxEvents
    /\ events' = events + 1
    /\ reader' = [seq |-> MaxSequence, log |-> logfile, mem |-> mem, imm |-> imm,
                  version |-> versions.current, expected |-> Contents]
    /\ UNCHANGED <<disk, state, versions, mem, imm, logfile, bg_error, pending, writers, call,
                   group, bg, compaction, damaged>>

BeginGet ==
    /\ Working /\ reader = NoReader /\ events < MaxEvents
    /\ events' = events + 1
    /\ reader' = [seq |-> versions.last_sequence, log |-> logfile, mem |-> mem, imm |-> imm,
                  version |-> versions.current, expected |-> Contents]
    /\ UNCHANGED <<disk, state, versions, mem, imm, logfile, bg_error, pending, writers, call,
                   group, bg, compaction, damaged>>

EndGet ==
    /\ reader # NoReader
    /\ reader' = NoReader
    /\ UNCHANGED <<disk, state, versions, mem, imm, logfile, bg_error, pending, writers, call,
                   group, bg, compaction, damaged, events>>

-----------------------------------------------------------------------------
\* The process dies (or DBImpl is destroyed, which flushes nothing either).

(***************************************************************************)
(* What log::Reader gets out of a log.  A record cut short by the crash is *)
(* the end of the file and is not there.  Part of a record with others     *)
(* behind it fails its checksum and takes the rest of its block along: any *)
(* number of the records behind it.                                        *)
(***************************************************************************)
Readable(records) ==
    LET torn == {i \in 1..Len(records) : records[i] = {}}
    IN  IF torn = {} THEN {records}
        ELSE {SubSeq(records, 1, Min(torn) - 1) \o SubSeq(records, j, Len(records)) :
                  j \in Min(torn) + 1..Len(records) + 1}

\* Deletions that were under way: any of them may have happened.
PartlyDeleted ==
    IF bg.pc = "install" /\ bg.kind # "move" /\ ~bg_error
    THEN LET gone == Obsolete(disk, Installed, StillPinned, StillPending)
         IN  {Without(disk, part) :
                  part \in [log : SUBSET gone.log, table : SUBSET gone.table, manifest : {{}}]}
    ELSE {disk}

Crash ==
    /\ state # "down" /\ events < MaxEvents
    /\ \E d \in PartlyDeleted :
       \E log \in [DOMAIN d.log -> UNION {Readable(d.log[n]) : n \in DOMAIN d.log}] :
          /\ \A n \in DOMAIN d.log : log[n] \in Readable(d.log[n])
          /\ disk' = [d EXCEPT !.log = log]
    /\ state' = "down"
    /\ versions' = NoVersions
    /\ mem' = {} /\ imm' = {} /\ logfile' = 0
    /\ bg_error' = FALSE /\ pending' = {}
    /\ writers' = <<>> /\ call' = [w \in Writers |-> <<>>] /\ group' = 0
    /\ bg' = NoEdit /\ compaction' = NoCompaction /\ reader' = NoReader
    /\ damaged' = FALSE
    /\ events' = events + 1

Next ==
    \/ NewDB \/ NewDBCurrent \/ Recover \/ SetCurrentFile
    \/ WriteManifest \/ WriteManifestFails \/ Install
    \/ CompactMemTable \/ CompactMemTableFails
    \/ \E level \in 0..NumLevels - 2 : \E f \in versions.current[level] :
           BackgroundCompaction(level, f)
    \/ \E last \in Keys : CompactionOutput(last)
    \/ InstallCompactionResults \/ CompactionFails
    \/ \E w \in Writers, b \in Batches : Write(w, b)
    \/ SwitchMemTable \/ MakeRoomFails \/ FinishWrite
    \/ \E n \in 1..Len(writers) : AddRecord(n) \/ AddRecordFails(n)
    \/ BeginGet \/ EndGet
    \/ Crash

Spec == Init /\ [][Next]_vars

-----------------------------------------------------------------------------
\* Properties.

(***************************************************************************)
(* No table is deleted while it is needed: every table that the manifest   *)
(* on disk names exists, so that the database can be opened again, and so  *)
(* does every table of a version that a reader or a compaction still uses  *)
(* (DeleteObsoleteFiles, pending_outputs_, AddLiveFiles).                  *)
(***************************************************************************)
FilesPresent ==
    /\ disk.current # 0 => FilesOf(Described.version) \subseteq DOMAIN disk.table
    /\ \A v \in {versions.current} \cup ReaderVersions \cup CompactionVersions :
          FilesOf(v) \subseteq DOMAIN disk.table

(***************************************************************************)
(* A Get reads, without the mutex, the contents of the moment it took its  *)
(* snapshot, whatever is flushed, merged or deleted meanwhile.             *)
(***************************************************************************)
ReadsSnapshot ==
    reader # NoReader =>
        \A k \in Keys : Get(reader.mem, reader.imm, reader.version, reader.seq, k)
                            = reader.expected[k]
=============================================================================
