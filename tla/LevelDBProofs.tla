--------------------------- MODULE LevelDBProofs ----------------------------
(****************************************************************************)
(* The theorems about LevelDB, for any keys, levels, limits, writers and    *)
(* batches.                                                                 *)
(****************************************************************************)
EXTENDS LevelDBLemmas

\* The prover a leaf is given to unless it names one.
USE ZenonT(10)

-----------------------------------------------------------------------------
(* Numbers in use stay below the next one.                                  *)

LEMMA DescribedCounted ==
    ASSUME FInv, Stored, state \in {"open", "up"}
    PROVE  Counted(Described)
BY DEF FInv, Manifests, Stored, RecordsTyped, Described

LEMMA NumbersKept ==
    ASSUME FInv, Stored, Numbers, NumbersGrow
    PROVE  Numbers'
<1> USE DEF NumbersGrow
<1>1. CASE state \notin {"open", "up"}
  <2>1. bg = NoEdit
    BY <1>1 DEF FInv, Control
  <2> QED BY SMTT(20), <1>1, <2>1 DEF Numbers, HasEdit, NoEdit
<1>2. CASE state \in {"open", "up"}
  <2>1. PICK n \in Nat : n = versions.next_file
    BY <1>2 DEF Numbers
  <2>2. PICK m \in Nat : m = versions'.next_file
    BY <1>2
  <2>3. n <= m /\ Below(versions.current, n)
    BY <1>2, <2>1, <2>2 DEF Numbers
  <2>4. Below(versions'.current, versions'.next_file)
    BY <2>2, <2>3, BelowMore
  <2>5. Described' = Described
    BY DEF Described
  <2>6. PICK d \in Nat : d = Described.next_file
    BY <1>2, DescribedCounted DEF Counted
  <2>7. HasEdit => bg.edit.next_file \in Nat /\ bg.edit.next_file <= m
    BY SMTT(20), <2>1, <2>2, <2>3 DEF Numbers
  <2>8. d <= m
    BY SMTT(20), <1>2, <2>1, <2>2, <2>3, <2>6 DEF Numbers
  <2> QED BY SMTT(20), <1>2, <2>1, <2>2, <2>3, <2>4, <2>5, <2>6, <2>7, <2>8 DEF Numbers, HasEdit
<1> QED BY <1>1, <1>2

LEMMA NumbersDown ==
    ASSUME state' \in {"down", "create"}, bg' = NoEdit
    PROVE  Numbers'
BY SMTT(20) DEF Numbers, HasEdit, NoEdit

LEMMA RecoverNumbers ==
    ASSUME FInv, Stored, Numbers, Recover
    PROVE  Numbers'
<1>1. PICK next \in Nat : next = ReplayedLogs.next
  BY RecoverStep DEF Recovered
<1>2. PICK n \in Nat : n = Described.next_file
  BY RecoverStep DEF Recovered
<1>3. n < next /\ next + 1 \in Nat
  BY SMTT(20), <1>1, <1>2, RecoverStep DEF Recovered
<1>4. /\ state' = "open" /\ versions'.current = Described.version
      /\ versions'.next_file = next + 1 /\ versions'.manifest = n
      /\ versions'.last_sequence \in Nat /\ logfile' = next
      /\ bg' = [pc |-> "write", kind |-> "open", edit |-> OpenEdit]
      /\ Described' = Described
  BY SMTT(20), <1>1, <1>2, RecoverStep DEF Described, Recovered
<1>5. /\ HasEdit' /\ bg'.pc = "write" /\ bg'.edit = OpenEdit
      /\ bg'.edit.next_file = next + 1 /\ bg'.edit.last_sequence \in Nat
  BY <1>1, <1>4, RecoverStep DEF HasEdit, OpenEdit, Recovered
<1>6. Below(versions'.current, next + 1)
  <2>1. Counted(Described)
    BY RecoverStep DEF Stored, RecordsTyped, Described, Recovered
  <2>2. PICK v : v = Described.version
    OBVIOUS
  <2>3. Below(v, n)
    BY <1>2, <2>1, <2>2 DEF Counted
  <2>5. n <= next + 1
    BY SMTT(20), <1>2, <1>3
  <2>4. Below(v, next + 1)
    BY <1>3, <2>3, <2>5, BelowMore
  <2> QED BY <1>4, <2>2, <2>4
<1>7. ASSUME NEW x \in OpenEdit.new_files PROVE Named(x[2], next + 1)
  <2>1. OpenEdit.new_files = {<<0, FileMetaData(t[1], t[2])>> : t \in ReplayedLogs.tables}
    BY DEF OpenEdit
  <2>2. PICK t \in ReplayedLogs.tables : x = <<0, FileMetaData(t[1], t[2])>>
    BY <2>1
  <2>3. PICK m \in Nat : m = t[1] /\ m < next
    BY SMTT(20), <1>1, <1>2, <2>2, RecoverStep DEF Recovered
  <2>4. PICK E \in Block \ {{}} : E = t[2]
    BY <2>2, RecoverStep DEF Recovered
  <2>5. Named(FileMetaData(m, E), m + 1)
    BY FileNamed
  <2>6. PICK f : f = FileMetaData(m, E)
    OBVIOUS
  <2>8. m + 1 \in Nat /\ m + 1 <= next + 1
    BY SMTT(20), <1>3, <2>3
  <2>7. Named(f, next + 1)
    BY <1>3, <2>5, <2>6, <2>8, NamedMore
  <2> QED BY <2>2, <2>3, <2>4, <2>6, <2>7
<1> QED BY SMTT(20), <1>2, <1>3, <1>4, <1>5, <1>6, <1>7 DEF Numbers

LEMMA WriteManifestNumbers ==
    ASSUME FInv, FInv', Stored, Numbers, WriteManifest \/ WriteManifestFails
    PROVE  Numbers'
<1>1. /\ bg.pc = "write" /\ (disk' = disk \/ disk' = WithRecord)
      /\ UNCHANGED <<state, versions, logfile>>
  BY DEF WriteManifest, WriteManifestFails
<1>2. HasEdit /\ state \in {"open", "up"}
  BY SMTT(20), <1>1 DEF FInv, Control, NoEdit
<1>3. PICK next \in Nat : next = bg.edit.next_file
  BY <1>2 DEF Numbers
<1>4. WithRecord.manifest[versions.manifest].next_file = next
  <2>1. WithRecord.manifest = Put(disk.manifest, versions.manifest, Record(Base, bg.edit))
    BY DEF WithRecord, FInv, Control
  <2>2. Record(Base, bg.edit).next_file = next
    BY <1>3 DEF Record
  <2> QED BY <2>1, <2>2 DEF Put
<1>5. disk'.table = disk.table /\ disk'.current = disk.current
  BY <1>1, RecordWritten DEF RecordAdded
<1>6. Described'.next_file = next \/ Described' = Described
  <2>1. CASE disk' = disk
    BY <2>1 DEF Described
  <2>2. CASE disk' = WithRecord /\ disk.current = versions.manifest
    BY <1>4, <1>5, <2>2 DEF Described
  <2>3. CASE disk' = WithRecord /\ disk.current # versions.manifest
    <3>1. disk.current \in DOMAIN disk.manifest
      BY <1>2 DEF FInv, Manifests
    <3>2. \A n \in DOMAIN disk.manifest :
             n # versions.manifest => WithRecord.manifest[n] = disk.manifest[n]
      BY <1>1, RecordWritten DEF RecordAdded
    <3> QED BY <1>5, <2>3, <3>1, <3>2 DEF Described
  <2> QED BY <1>1, <2>1, <2>2, <2>3
<1>7. PICK d \in Nat : d = Described.next_file
  BY <1>2, DescribedCounted DEF Counted
<1>8. Described'.next_file <= next /\ next <= versions.next_file /\ versions.next_file \in Nat
      /\ Described'.next_file <= versions.next_file
  BY SMTT(20), <1>2, <1>3, <1>6, <1>7 DEF Numbers
<1>9. CASE WriteManifest
  <2>1. disk' = WithRecord /\ bg' = [bg EXCEPT !.pc = IF bg.kind = "open" THEN "current" ELSE "install"]
    BY <1>9 DEF WriteManifest
  <2>2. HasEdit' /\ bg'.edit = bg.edit
    BY <1>2, <2>1 DEF HasEdit
  <2> QED BY <1>1, <1>2, <1>3, <1>4, <1>5, <1>8, <2>1, <2>2 DEF Numbers
<1>10. CASE WriteManifestFails
  <2>1. bg' \in {NoEdit, [pc |-> "merge"]}
    BY <1>10 DEF WriteManifestFails, Resumed
  <2>2. ~HasEdit' /\ bg'.pc # "current"
    BY SMTT(20), <2>1 DEF HasEdit, NoEdit
  <2> QED BY <1>1, <1>2, <1>3, <1>5, <1>8, <2>2 DEF Numbers
<1> QED BY <1>9, <1>10

LEMMA SetCurrentNumbers ==
    ASSUME FInv, Stored, Numbers, SetCurrentFile
    PROVE  Numbers'
<1>1. /\ bg.pc = "current" /\ disk' = [disk EXCEPT !.current = versions.manifest]
      /\ bg' = [bg EXCEPT !.pc = "install"]
      /\ UNCHANGED <<state, versions, logfile>>
  BY DEF SetCurrentFile
<1>2. HasEdit /\ state = "open"
  BY SMTT(20), <1>1 DEF FInv, Control, NoEdit
<1>3. /\ HasEdit' /\ bg'.edit = bg.edit /\ bg'.pc = "install"
      /\ disk'.table = disk.table /\ disk'.manifest = disk.manifest
      /\ disk'.current = versions.manifest
  BY <1>1, <1>2 DEF HasEdit, FInv, Control
<1>4. Described'.next_file = bg.edit.next_file
  BY <1>1, <1>3 DEF Described, Numbers
<1> QED BY SMTT(20), <1>1, <1>2, <1>3, <1>4 DEF Numbers

\* After opening only the tables of the version are left.
LEMMA InstallNumbers ==
    ASSUME FInv, FInv', Stored, Numbers, Install
    PROVE  Numbers'
<1>1. /\ bg.pc = "install" /\ versions' = Installed /\ state' = "up" /\ logfile' = logfile
      /\ bg' \in {NoEdit, [pc |-> "merge"]}
  BY DEF Install, Resumed
<1>2. HasEdit /\ state \in {"open", "up"} /\ (state = "open" <=> bg.kind = "open")
  BY SMTT(20), <1>1 DEF FInv, Control, NoEdit
<1>3. ~HasEdit' /\ bg'.pc # "current"
  BY SMTT(20), <1>1 DEF HasEdit, NoEdit
<1>4. PICK next \in Nat : next = bg.edit.next_file
  BY <1>2 DEF Numbers
<1>5. PICK m \in Nat : m = versions.next_file
  BY <1>2 DEF Numbers
<1>6. next <= m
  BY <1>2, <1>4, <1>5 DEF Numbers
<1>7. /\ versions'.next_file = m /\ versions'.manifest = versions.manifest
      /\ versions'.last_sequence = versions.last_sequence
      /\ versions'.current = Apply(versions.current, bg.edit)
  BY <1>1, <1>5, InstalledVersion
<1>8. Below(versions'.current, m)
  <2>1. PICK v : v = versions.current
    OBVIOUS
  <2>2. PICK edit : edit = bg.edit
    OBVIOUS
  <2>3. Below(v, next) /\ \A x \in edit.new_files : Named(x[2], next)
    BY <1>2, <1>4, <2>1, <2>2 DEF Numbers
  <2>4. Below(Apply(v, edit), next)
    BY <2>3, ApplyBelow
  <2>5. PICK w : w = Apply(v, edit)
    OBVIOUS
  <2>6. Below(w, m)
    BY <1>6, <2>4, <2>5, BelowMore
  <2> QED BY <1>7, <2>1, <2>2, <2>5, <2>6
<1>9. Described' = Described
  <2>1. disk'.current \in DOMAIN disk'.manifest
    BY <1>1 DEF FInv, Manifests
  <2>2. disk'.current = disk.current /\ Fewer(disk'.manifest, disk.manifest)
    BY InstallDisk DEF FInv, OnlyDeleted
  <2> QED BY SMTT(20), <2>1, <2>2 DEF Described, Fewer
<1>10. DOMAIN disk'.table \subseteq 0..(m - 1)
  <2>1. CASE state = "up"
    BY <1>5, <2>1, InstallDisk DEF Numbers, FInv, Fewer, OnlyDeleted
  <2>2. CASE state = "open"
    <3> DEFINE gone == Obsolete(disk, Installed, StillPinned, StillPending)
    <3>1. bg.kind = "open" /\ ~bg_error /\ pending = {} /\ reader = NoReader
          /\ compaction = NoCompaction
      BY <1>2, <2>2 DEF FInv, Control
    <3>2. disk' = Without(disk, gone)
      BY <3>1 DEF Install, DeleteObsoleteFiles
    <3>3. StillPinned = {} /\ StillPending = {}
      BY <3>1 DEF StillPinned, StillPending, ReaderVersions, CompactionVersions
    <3>4. gone.table = DOMAIN disk.table \ FilesOf(Installed.current)
      BY <3>3 DEF Obsolete
    <3> HIDE DEF gone
    <3>5. disk'.table = Restrict(disk.table, DOMAIN disk.table \ gone.table)
      BY <3>2 DEF Without, FInv, Control
    <3>6. DOMAIN disk'.table \subseteq FilesOf(versions'.current)
      BY <1>1, <3>4, <3>5 DEF Restrict
    <3>7. FilesOf(versions'.current) \subseteq 0..(m - 1)
      BY SMTT(20), <1>8 DEF FilesOf, Below, Named
    <3> QED BY <3>6, <3>7
  <2> QED BY <1>2, <2>1, <2>2
<1> QED BY <1>1, <1>2, <1>3, <1>5, <1>7, <1>8, <1>9, <1>10 DEF Numbers

LEMMA FlushNumbers ==
    ASSUME FInv, Stored, Held, Numbers, CompactMemTable
    PROVE  Numbers'
<1>1. PICK n \in Nat : n = versions.next_file
  BY FlushStep DEF Flushed
<1>2. PICK f : f = FileMetaData(n, imm)
  OBVIOUS
<1>3. PICK level : level = PickLevelForMemTableOutput(versions.current, f.smallest, f.largest)
  OBVIOUS
<1>4. /\ state = "up" /\ state' = "up" /\ disk'.table = Put(disk.table, n, imm)
      /\ disk'.manifest = disk.manifest /\ disk'.current = disk.current
      /\ versions' = [versions EXCEPT !.next_file = n + 1]
      /\ bg' = [pc |-> "write", kind |-> "mem", edit |-> Edit({<<level, f>>}, {}, logfile, n + 1)]
      /\ logfile' = logfile /\ imm \in Block \ {{}}
  BY <1>1, <1>2, <1>3, FlushStep DEF Flushed
<1>5. /\ versions'.next_file = n + 1 /\ versions'.manifest = versions.manifest
      /\ versions'.last_sequence = versions.last_sequence
      /\ versions'.current = versions.current
  BY <1>4 DEF FInv, Control
<1>6. /\ bg'.pc = "write" /\ bg'.edit.next_file = n + 1
      /\ bg'.edit.last_sequence = versions.last_sequence /\ bg'.edit.new_files = {<<level, f>>}
  BY <1>4 DEF Edit
<1>7. Named(f, n + 1)
  BY <1>2, <1>4, FileNamed
<1>8. \A x \in bg'.edit.new_files : Named(x[2], n + 1)
  BY SMTT(20), <1>6, <1>7
<1>9. Below(versions.current, n + 1)
  <2>1. Below(versions.current, n)
    BY <1>1, <1>4 DEF Numbers
  <2>2. n + 1 \in Nat /\ n <= n + 1
    BY SMTT(20)
  <2> QED BY <2>1, <2>2, BelowMore
<1>10. DOMAIN disk'.table \subseteq 0..n
  <2>1. DOMAIN disk.table \subseteq 0..(n - 1)
    BY <1>1, <1>4 DEF Numbers
  <2> QED BY SMTT(20), <1>4, <2>1 DEF Put
<1>11. Described' = Described
  BY <1>4 DEF Described
<1>12. PICK d \in Nat : d = Described.next_file
  BY <1>4, DescribedCounted DEF Counted
<1>13. d <= n /\ logfile \in 0..(n - 1) /\ versions.manifest \in Nat /\ versions.last_sequence \in Nat
  BY <1>1, <1>4, <1>12 DEF Numbers
<1>14. /\ versions'.next_file \in Nat /\ versions'.manifest \in Nat
       /\ versions'.last_sequence \in Nat /\ logfile' \in 0..(versions'.next_file - 1)
       /\ Described'.next_file <= versions'.next_file
       /\ DOMAIN disk'.table \subseteq 0..(versions'.next_file - 1)
  BY SMTT(20), <1>4, <1>5, <1>10, <1>11, <1>12, <1>13
<1>15. /\ bg'.edit.next_file \in Nat /\ bg'.edit.last_sequence \in Nat
       /\ Described'.next_file <= bg'.edit.next_file /\ bg'.edit.next_file <= versions'.next_file
       /\ Below(versions'.current, bg'.edit.next_file)
       /\ \A x \in bg'.edit.new_files : Named(x[2], bg'.edit.next_file)
       /\ Below(versions'.current, versions'.next_file)
  BY SMTT(20), <1>5, <1>6, <1>8, <1>9, <1>11, <1>12, <1>13
<1> QED BY <1>4, <1>6, <1>14, <1>15 DEF Numbers

LEMMA OutputNumbers ==
    ASSUME FInv, Stored, Numbers, Merges, NEW last \in Keys, CompactionOutput(last)
    PROVE  Numbers'
<1>1. PICK n \in Nat : n = versions.next_file
  BY OutputStep DEF OutputMade
<1>2. PICK E : E = {e \in Rest(compaction) : e.key <= last}
  BY ZenonT(10)
<1>3. /\ state = "up" /\ state' = "up" /\ disk'.table = Put(disk.table, n, E)
      /\ disk'.manifest = disk.manifest /\ disk'.current = disk.current
      /\ versions' = [versions EXCEPT !.next_file = n + 1]
      /\ UNCHANGED <<logfile, bg>>
  BY <1>1, <1>2, OutputStep DEF OutputMade
<1>4. /\ versions'.next_file = n + 1 /\ versions'.manifest = versions.manifest
      /\ versions'.last_sequence = versions.last_sequence
      /\ versions'.current = versions.current
  BY <1>3 DEF FInv, Control
<1>5. DOMAIN disk'.table \subseteq 0..n /\ n = (n + 1) - 1
  <2>1. DOMAIN disk.table \subseteq 0..(n - 1)
    BY <1>1, <1>3 DEF Numbers
  <2> QED BY SMTT(20), <1>3, <2>1 DEF Put
<1>6. logfile \in 0..n /\ versions.last_sequence \in Nat
  BY SMTT(20), <1>1, <1>3 DEF Numbers
<1> QED BY SMTT(20), <1>1, <1>3, <1>4, <1>5, <1>6, NumbersKept DEF NumbersGrow

\* An edit made under the mutex, with the next file number of the moment.
LEMMA EditNumbers ==
    ASSUME FInv, Stored, Numbers, state = "up", NEW new_files, NEW deleted_files, NEW pc, NEW kind,
           pc # "current",
           bg' = [pc |-> pc, kind |-> kind,
                  edit |-> Edit(new_files, deleted_files, versions.log_number, versions.next_file)],
           \A x \in new_files : Named(x[2], versions.next_file),
           UNCHANGED <<disk, state, versions, logfile>>
    PROVE  Numbers'
<1>1. /\ bg'.pc # "current" /\ bg'.edit.next_file = versions.next_file
      /\ bg'.edit.last_sequence = versions.last_sequence /\ bg'.edit.new_files = new_files
  BY DEF Edit
<1>2. Described' = Described
  BY DEF Described
<1>3. PICK n \in Nat : n = versions.next_file
  BY DEF Numbers
<1> QED BY SMTT(20), <1>1, <1>2, <1>3 DEF Numbers

LEMMA MoveNumbers ==
    ASSUME FInv, Stored, Numbers, NEW level \in Nat, level < NumLevels - 1,
           NEW f \in versions.current[level], BackgroundCompaction(level, f)
    PROVE  Numbers'
<1> DEFINE c == PickCompaction(versions.current, level, f)
           new_files == {<<level + 1, g>> : g \in c.inputs[1]}
           deleted_files == {<<level, g.number>> : g \in c.inputs[1]}
<1>1. /\ state = "up" /\ UNCHANGED <<disk, state, versions, logfile>>
      /\ \/ bg' = [pc |-> "write", kind |-> "move",
                   edit |-> Edit(new_files, deleted_files, versions.log_number, versions.next_file)]
         \/ bg' = [pc |-> "merge"]
  BY DEF BackgroundCompaction, Working
<1>2. c.inputs[1] \subseteq versions.current[level]
  BY InputFiles
<1>3. level \in Levels
  BY SMTT(20), VersionSetAssumption DEF Levels
<1>4. \A g \in c.inputs[1] : Named(g, versions.next_file)
  <2> HIDE DEF c
  <2> QED BY <1>1, <1>2, <1>3 DEF Numbers, Below
<1>5. \A x \in new_files : Named(x[2], versions.next_file)
  <2> HIDE DEF c
  <2> QED BY SMTT(20), <1>4
<1> HIDE DEF c, new_files, deleted_files
<1>6. CASE bg' = [pc |-> "merge"]
  <2>1. ~HasEdit' /\ bg'.pc # "current"
    BY SMTT(20), <1>6 DEF HasEdit
  <2>2. Described' = Described
    BY <1>1 DEF Described
  <2> QED BY <1>1, <2>1, <2>2 DEF Numbers
<1> QED BY <1>1, <1>5, <1>6, EditNumbers, "write" # "current"

LEMMA ResultsNumbers ==
    ASSUME FInv, Stored, Numbers, Merges, InstallCompactionResults
    PROVE  Numbers'
<1> DEFINE new_files == {<<compaction.level + 1, f>> : f \in compaction.outputs}
           deleted_files == UNION {{<<compaction.level + i - 1, f.number>> :
                                        f \in compaction.inputs[i]} : i \in 1..2}
<1>1. /\ state = "up" /\ bg.pc = "merge" /\ UNCHANGED <<disk, state, versions, logfile>>
      /\ bg' = [pc |-> "write", kind |-> "merge",
                edit |-> Edit(new_files, deleted_files, versions.log_number, versions.next_file)]
  BY DEF InstallCompactionResults, Working
<1>2. compaction # NoCompaction
  BY SMTT(20), <1>1 DEF FInv, Control, NoEdit, HasEdit
<1>3. \A x \in new_files : Named(x[2], versions.next_file)
  BY SMTT(20), <1>2 DEF Merges
<1> HIDE DEF new_files, deleted_files
<1> QED BY <1>1, <1>3, EditNumbers, "write" # "current"

\* A number is used up and nothing else happens.
LEMMA FailedNumbers ==
    ASSUME FInv, Stored, Numbers, CompactMemTableFails \/ CompactionFails
    PROVE  Numbers'
<1>1. /\ state = "up" /\ versions' = [versions EXCEPT !.next_file = @ + 1]
      /\ UNCHANGED <<disk, state, logfile>> /\ (bg' = bg \/ bg' = NoEdit)
  BY DEF CompactMemTableFails, CompactionFails, FlushReady, Working
<1>2. PICK n \in Nat : n = versions.next_file
  BY <1>1 DEF Numbers
<1>3. /\ versions'.next_file = n + 1 /\ versions'.manifest = versions.manifest
      /\ versions'.last_sequence = versions.last_sequence
      /\ versions'.current = versions.current
  BY <1>1, <1>2 DEF FInv, Control
<1>4. logfile \in 0..((n + 1) - 1) /\ versions.last_sequence \in Nat /\ n + 1 \in Nat /\ n <= n + 1
  BY SMTT(20), <1>1, <1>2 DEF Numbers
<1>5. CASE bg' = bg
  BY <1>1, <1>2, <1>3, <1>4, <1>5, NumbersKept DEF NumbersGrow
<1>6. CASE bg' = NoEdit
  <2>1. ~HasEdit' /\ bg'.pc # "current"
    BY SMTT(20), <1>6 DEF HasEdit, NoEdit
  <2>2. Described' = Described
    BY <1>1 DEF Described
  <2>3. Below(versions.current, n + 1)
    BY <1>1, <1>2, <1>4, BelowMore DEF Numbers
  <2>4. PICK d \in Nat : d = Described.next_file
    BY <1>1, DescribedCounted DEF Counted
  <2>5. d <= n + 1 /\ versions.manifest \in Nat /\ DOMAIN disk.table \subseteq 0..((n + 1) - 1)
    BY SMTT(20), <1>1, <1>2, <2>4 DEF Numbers
  <2> QED BY <1>1, <1>3, <1>4, <2>1, <2>2, <2>3, <2>4, <2>5 DEF Numbers
<1> QED BY <1>1, <1>5, <1>6

LEMMA WriterNumbers ==
    ASSUME FInv, Stored, Held, Numbers,
           SwitchMemTable \/ FinishWrite \/ \E n \in 1..Len(writers) : AddRecord(n) \/ AddRecordFails(n)
    PROVE  Numbers'
<1>1. state = "up" /\ state' = state /\ bg' = bg
  BY DEF SwitchMemTable, FinishWrite, AddRecord, AddRecordFails, AtFront, Working
<1>2. disk'.manifest = disk.manifest /\ disk'.current = disk.current /\ disk'.table = disk.table
  BY DEF SwitchMemTable, FinishWrite, AddRecord, AddRecordFails, FInv, Control
<1>3. PICK n \in Nat : n = versions.next_file
  BY <1>1 DEF Numbers
<1>4. CASE SwitchMemTable
  <2>1. versions' = [versions EXCEPT !.next_file = n + 1] /\ logfile' = n
    BY <1>3, <1>4 DEF SwitchMemTable
  <2>2. /\ versions'.next_file = n + 1 /\ versions'.manifest = versions.manifest
        /\ versions'.last_sequence = versions.last_sequence /\ versions'.current = versions.current
    BY <2>1 DEF FInv, Control
  <2>3. n \in 0..((n + 1) - 1) /\ versions.last_sequence \in Nat /\ n + 1 \in Nat /\ n <= n + 1
    BY SMTT(20), <1>1, <1>3 DEF Numbers
  <2> QED BY <1>1, <1>2, <1>3, <2>1, <2>2, <2>3, NumbersKept DEF NumbersGrow
<1>5. ASSUME NEW m \in 0..Len(writers), logfile' = logfile,
             versions' = versions \/ versions' = [versions EXCEPT !.last_sequence = @ + Len(Ops(m))]
      PROVE  Numbers'
  <2>1. PICK l \in Nat : l = Len(Ops(m))
    BY SMTT(20), OpsTyped
  <2>2. /\ versions'.next_file = n /\ versions'.manifest = versions.manifest
        /\ versions'.last_sequence \in {versions.last_sequence, versions.last_sequence + l}
        /\ versions'.current = versions.current
    BY <1>3, <1>5, <2>1 DEF FInv, Control
  <2>3. logfile \in 0..(n - 1) /\ versions'.last_sequence \in Nat
    BY SMTT(20), <1>1, <1>3, <2>1, <2>2 DEF Numbers
  <2> QED BY SMTT(20), <1>1, <1>2, <1>3, <1>5, <2>2, <2>3, NumbersKept DEF NumbersGrow
<1>6. CASE FinishWrite
  BY <1>5, <1>6 DEF FinishWrite, Held
<1>7. ASSUME NEW m \in 1..Len(writers), AddRecord(m) \/ AddRecordFails(m) PROVE Numbers'
  <2>1. m \in 0..Len(writers)
    BY SMTT(20)
  <2> QED BY <1>5, <1>7, <2>1 DEF AddRecord, AddRecordFails
<1> QED BY <1>4, <1>6, <1>7

LEMMA NumbersStep ==
    ASSUME FInv, FInv', Stored, Held, Numbers, Merges, Next
    PROVE  Numbers'
<1>1. CASE NewDB \/ NewDBCurrent \/ Crash
  <2>1. state' \in {"down", "create"} /\ bg' = NoEdit
    BY <1>1 DEF NewDB, NewDBCurrent, Crash, process, FInv, Control
  <2> QED BY <2>1, NumbersDown
<1>2. CASE Recover
  BY <1>2, RecoverNumbers
<1>3. CASE SetCurrentFile
  BY <1>3, SetCurrentNumbers
<1>4. CASE WriteManifest \/ WriteManifestFails
  BY <1>4, WriteManifestNumbers
<1>5. CASE Install
  BY <1>5, InstallNumbers
<1>6. CASE CompactMemTable
  BY <1>6, FlushNumbers
<1>7. CASE CompactMemTableFails \/ CompactionFails
  BY <1>7, FailedNumbers
<1>8. ASSUME NEW level \in 0..NumLevels - 2, NEW f \in versions.current[level],
             BackgroundCompaction(level, f)
      PROVE  Numbers'
  <2>1. level \in Nat /\ level < NumLevels - 1
    BY SMTT(20), VersionSetAssumption
  <2> QED BY <1>8, <2>1, MoveNumbers
<1>9. ASSUME NEW last \in Keys, CompactionOutput(last) PROVE Numbers'
  BY <1>9, OutputNumbers
<1>10. CASE InstallCompactionResults
  BY <1>10, ResultsNumbers
<1>11. ASSUME UNCHANGED <<disk, state, versions, logfile, bg>> PROVE Numbers'
  BY <1>11 DEF Numbers, HasEdit, Described
<1>12. CASE MakeRoomFails \/ BeginGet \/ EndGet \/ \E w \in Writers, b \in Batches : Write(w, b)
  BY <1>11, <1>12 DEF MakeRoomFails, BeginGet, EndGet, Write
<1>13. CASE SwitchMemTable \/ FinishWrite
            \/ \E n \in 1..Len(writers) : AddRecord(n) \/ AddRecordFails(n)
  BY <1>13, WriterNumbers
<1> QED BY <1>1, <1>2, <1>3, <1>4, <1>5, <1>6, <1>7, <1>8, <1>9, <1>10, <1>12, <1>13 DEF Next

-----------------------------------------------------------------------------
(* Compactions.                                                             *)

LEMMA MergesKept ==
    ASSUME FInv, Numbers, Merges, compaction' = compaction,
           state = "up" => versions'.next_file \in Nat /\ versions.next_file <= versions'.next_file
    PROVE  Merges'
<1> SUFFICES ASSUME compaction # NoCompaction PROVE Merges'
  BY DEF Merges
<1>1. state = "up"
  BY DEF FInv, Control
<1>2. PICK n \in Nat : n = versions.next_file
  BY <1>1 DEF Numbers
<1>3. PICK m \in Nat : m = versions'.next_file
  BY <1>1
<1>4. \A f \in compaction.outputs : Named(f, m)
  BY <1>1, <1>2, <1>3, NamedMore DEF Merges
<1> QED BY <1>3, <1>4 DEF Merges

LEMMA MergesStep ==
    ASSUME FInv, Stored, Held, Numbers, Merges, Next
    PROVE  Merges'
<1>1. ASSUME compaction' = NoCompaction PROVE Merges'
  BY <1>1 DEF Merges
<1>2. state = "up" => versions.next_file \in Nat
  BY DEF Numbers
<1>3. ASSUME compaction' = compaction,
             versions' = versions \/ versions'.next_file = versions.next_file
                 \/ versions'.next_file = versions.next_file + 1
      PROVE  Merges'
  BY SMTT(20), <1>2, <1>3, MergesKept
<1>4. ASSUME state # "up", compaction' = compaction PROVE Merges'
  BY <1>1, <1>4 DEF FInv, Control
<1>5. CASE NewDB \/ NewDBCurrent
  BY <1>3, <1>5 DEF NewDB, NewDBCurrent, process
<1>6. CASE Recover
  <2>1. state = "down" /\ compaction' = compaction
    BY <1>6, ZenonT(20) DEF Recover
  <2> QED BY <1>4, <2>1
<1>7. CASE SetCurrentFile \/ WriteManifest \/ WriteManifestFails
  BY <1>1, <1>3, <1>7 DEF SetCurrentFile, WriteManifest, WriteManifestFails
<1>8. CASE Install
  <2>1. compaction' \in {NoCompaction, compaction} /\ versions' = Installed
    BY <1>8 DEF Install
  <2> QED BY <1>1, <1>3, <2>1, InstalledVersion
<1>9. CASE CompactMemTable
  <2>1. /\ compaction' = compaction
        /\ versions' = [versions EXCEPT !.next_file = versions.next_file + 1]
    BY <1>9, FlushStep DEF Flushed
  <2>2. versions'.next_file = versions.next_file + 1
    BY <2>1 DEF FInv, Control
  <2> QED BY <1>3, <2>1, <2>2
<1>10. CASE CompactMemTableFails \/ CompactionFails
  <2>1. /\ compaction' \in {NoCompaction, compaction}
        /\ versions' = [versions EXCEPT !.next_file = versions.next_file + 1]
    BY <1>10 DEF CompactMemTableFails, CompactionFails
  <2>2. versions'.next_file = versions.next_file + 1
    BY <2>1 DEF FInv, Control
  <2> QED BY <1>1, <1>3, <2>1, <2>2
<1>11. ASSUME NEW level \in 0..NumLevels - 2, NEW f \in versions.current[level],
              BackgroundCompaction(level, f)
       PROVE  Merges'
  <2> DEFINE c == PickCompaction(versions.current, level, f)
             start == [level |-> level, inputs |-> c.inputs, version |-> versions.current,
                       smallest_snapshot |-> versions.last_sequence,
                       from |-> Min(Keys), outputs |-> {}]
  <2>1. UNCHANGED versions /\ (compaction' = compaction \/ compaction' = start)
    BY <1>11 DEF BackgroundCompaction
  <2>2. level \in Nat /\ level < NumLevels - 1
    BY SMTT(20), VersionSetAssumption
  <2>3. /\ c.inputs[1] \subseteq versions.current[level]
        /\ c.inputs[2] \subseteq versions.current[level + 1]
    BY <2>2, InputFiles
  <2>4. CASE compaction' = start
    <3> HIDE DEF c
    <3>1. /\ compaction'.level = level /\ compaction'.inputs = c.inputs
          /\ compaction'.version = versions.current /\ compaction'.outputs = {}
      BY <2>4
    <3> QED BY <2>2, <2>3, <3>1 DEF Merges
  <2> QED BY <1>3, <2>1, <2>4
<1>12. ASSUME NEW last \in Keys, CompactionOutput(last) PROVE Merges'
  <2>1. PICK n \in Nat : n = versions.next_file
    BY <1>12, OutputStep DEF OutputMade
  <2>2. PICK E \in Block \ {{}} : E = {e \in Rest(compaction) : e.key <= last}
    BY <1>12, OutputStep DEF OutputMade
  <2>3. /\ versions' = [versions EXCEPT !.next_file = n + 1] /\ compaction # NoCompaction
        /\ compaction' = [compaction EXCEPT !.from = last + 1, !.outputs = @ \cup {FileMetaData(n, E)}]
    BY <1>12, <2>1, <2>2, OutputStep DEF OutputMade
  <2>4. versions'.next_file = n + 1
    BY <2>3 DEF FInv, Control
  <2>5. PICK f : f = FileMetaData(n, E)
    OBVIOUS
  <2>6. Named(f, n + 1)
    BY <2>5, FileNamed
  <2>7. /\ compaction'.level = compaction.level /\ compaction'.inputs = compaction.inputs
        /\ compaction'.version = compaction.version
        /\ compaction'.outputs = compaction.outputs \cup {f}
    BY <2>3, <2>5 DEF FInv, Control
  <2>9. n + 1 \in Nat /\ n <= n + 1
    BY SMTT(20)
  <2>8. \A g \in compaction.outputs : Named(g, n + 1)
    BY <2>1, <2>3, <2>9, NamedMore DEF Merges
  <2> QED BY <2>3, <2>4, <2>6, <2>7, <2>8 DEF Merges
<1>13. CASE InstallCompactionResults \/ MakeRoomFails \/ BeginGet \/ EndGet
            \/ \E w \in Writers, b \in Batches : Write(w, b)
  BY <1>3, <1>13 DEF InstallCompactionResults, MakeRoomFails, BeginGet, EndGet, Write
<1>14. CASE SwitchMemTable
  <2>1. /\ compaction' = compaction
        /\ versions' = [versions EXCEPT !.next_file = versions.next_file + 1]
    BY <1>14 DEF SwitchMemTable
  <2>2. versions'.next_file = versions.next_file + 1
    BY <2>1 DEF FInv, Control
  <2> QED BY <1>3, <2>1, <2>2
<1>15. CASE FinishWrite \/ \E n \in 1..Len(writers) : AddRecord(n) \/ AddRecordFails(n)
  <2>1. /\ compaction' = compaction
        /\ versions'.next_file = versions.next_file
    BY <1>15 DEF FinishWrite, AddRecord, AddRecordFails, FInv, Control
  <2> QED BY <1>3, <2>1
<1>16. CASE Crash
  BY <1>1, <1>16 DEF Crash
<1> QED BY <1>5, <1>6, <1>7, <1>8, <1>9, <1>10, <1>11, <1>12, <1>13, <1>14, <1>15, <1>16 DEF Next

-----------------------------------------------------------------------------
(* Readers.                                                                 *)

LEMMA ReadsStep ==
    ASSUME FInv, FInv', Stored, Held, Numbers, Merges, Reads, Next
    PROVE  Reads'
<1>1. ASSUME reader' = NoReader PROVE Reads'
  BY <1>1 DEF Reads
<1>2. state = "up" => versions.next_file \in Nat /\ versions.last_sequence \in Nat
  BY DEF Numbers
<1>3. ASSUME reader' = reader, logfile' = logfile, mem' = mem, disk'.table = disk.table,
             versions' = versions
               \/ (versions'.next_file = versions.next_file
                     /\ versions'.last_sequence = versions.last_sequence)
               \/ (versions'.next_file = versions.next_file + 1
                     /\ versions'.last_sequence = versions.last_sequence)
      PROVE  Reads'
  BY SMTT(20), <1>2, <1>3, ReaderKept DEF FInv, ReaderSame
<1>4. ASSUME reader # NoReader
      PROVE  /\ state = "up" /\ FilesOf(reader.version) \subseteq DOMAIN disk.table
             /\ DOMAIN disk.table \subseteq 0..(versions.next_file - 1)
             /\ versions.next_file \in Nat
  BY <1>4 DEF FInv, Control, Present, FilesPresent, ReaderVersions, Numbers
<1>5. CASE NewDB \/ NewDBCurrent \/ Recover \/ SetCurrentFile
  <2>1. reader' = reader /\ state # "up"
    <3>1. CASE NewDB \/ NewDBCurrent
      BY <3>1 DEF NewDB, NewDBCurrent, process
    <3>2. CASE Recover
      BY <3>2, ZenonT(20) DEF Recover
    <3>3. CASE SetCurrentFile
      <4>1. bg.pc = "current" /\ reader' = reader
        BY <3>3 DEF SetCurrentFile
      <4> QED BY SMTT(20), <4>1 DEF FInv, Control, NoEdit
    <3> QED BY <1>5, <3>1, <3>2, <3>3
  <2> QED BY <1>1, <1>4, <2>1
<1>6. CASE WriteManifest \/ WriteManifestFails
  <2>1. disk'.table = disk.table
    BY <1>6, RecordWritten DEF WriteManifest, WriteManifestFails, RecordAdded
  <2> QED BY <1>3, <1>6, <2>1 DEF WriteManifest, WriteManifestFails
<1>7. CASE Install
  <2>1. reader' = reader /\ UNCHANGED <<mem, logfile>> /\ versions' = Installed
    BY <1>7 DEF Install
  <2>2. versions'.next_file = versions.next_file /\ versions'.last_sequence = versions.last_sequence
    BY <2>1, InstalledVersion
  <2>3. ASSUME reader # NoReader, NEW n \in FilesOf(reader.version)
        PROVE  disk'.table[n] = disk.table[n]
    <3>1. n \in DOMAIN disk'.table
      BY <2>1, <2>3 DEF FInv, Present, FilesPresent, ReaderVersions
    <3> QED BY <1>7, <3>1, InstallDisk DEF Fewer, FInv, OnlyDeleted
  <2> QED BY SMTT(20), <1>2, <2>1, <2>2, <2>3, ReaderKept DEF FInv, ReaderSame
<1>8. ASSUME NEW E, disk'.table = Put(disk.table, versions.next_file, E), reader' = reader,
             UNCHANGED <<mem, logfile>>,
             versions' = [versions EXCEPT !.next_file = versions.next_file + 1]
      PROVE  Reads'
  <2>1. /\ versions'.next_file = versions.next_file + 1
        /\ versions'.last_sequence = versions.last_sequence
    BY <1>8 DEF FInv, Control
  <2>2. ASSUME reader # NoReader, NEW n \in FilesOf(reader.version)
        PROVE  disk'.table[n] = disk.table[n]
    <3>1. n \in DOMAIN disk.table /\ n # versions.next_file
      BY SMTT(20), <1>4, <2>2
    <3> QED BY <1>8, <3>1 DEF Put
  <2> QED BY SMTT(20), <1>2, <1>8, <2>1, <2>2, ReaderKept DEF FInv, ReaderSame
<1>9. CASE CompactMemTable
  BY <1>8, <1>9, FlushStep DEF Flushed
<1>10. CASE \E last \in Keys : CompactionOutput(last)
  BY <1>8, <1>10, OutputStep DEF OutputMade
<1>11. CASE CompactMemTableFails \/ CompactionFails
  <2>1. /\ versions' = [versions EXCEPT !.next_file = versions.next_file + 1]
        /\ UNCHANGED <<disk, reader, mem, logfile>>
    BY <1>11 DEF CompactMemTableFails, CompactionFails
  <2>2. /\ versions'.next_file = versions.next_file + 1
        /\ versions'.last_sequence = versions.last_sequence
    BY <2>1 DEF FInv, Control
  <2> QED BY <1>3, <2>1, <2>2
<1>12. CASE \/ \E level \in 0..NumLevels - 2 : \E f \in versions.current[level] :
                  BackgroundCompaction(level, f)
            \/ InstallCompactionResults \/ MakeRoomFails
            \/ \E w \in Writers, b \in Batches : Write(w, b)
  BY <1>3, <1>12 DEF BackgroundCompaction, InstallCompactionResults, MakeRoomFails, Write
<1>13. CASE SwitchMemTable
  <2>1. /\ logfile' = versions.next_file /\ reader' = reader /\ disk'.table = disk.table
        /\ versions' = [versions EXCEPT !.next_file = versions.next_file + 1]
    BY <1>13 DEF SwitchMemTable, FInv, Control
  <2>2. /\ versions'.next_file = versions.next_file + 1
        /\ versions'.last_sequence = versions.last_sequence
    BY <2>1 DEF FInv, Control
  <2> QED BY SMTT(20), <1>2, <2>1, <2>2, ReaderKept DEF FInv, ReaderSame
<1>14. ASSUME NEW n \in 1..Len(writers), AddRecord(n) \/ AddRecordFails(n) PROVE Reads'
  <2>1. PICK l \in Nat : l = Len(Ops(n))
    <3>1. n \in 0..Len(writers)
      BY SMTT(20)
    <3> QED BY SMTT(20), <3>1, OpsTyped
  <2>2. UNCHANGED <<reader, mem, logfile>> /\ disk'.table = disk.table
    BY <1>14 DEF AddRecord, AddRecordFails, FInv, Control
  <2>3. /\ versions'.next_file = versions.next_file
        /\ versions'.last_sequence \in {versions.last_sequence, versions.last_sequence + l}
    BY <1>14, <2>1 DEF AddRecord, AddRecordFails, FInv, Control
  <2> QED BY SMTT(20), <1>2, <2>1, <2>2, <2>3, ReaderKept DEF FInv, ReaderSame
<1>15. CASE FinishWrite
  <2>1. PICK ops \in Seq(Op) : ops = Ops(group)
    BY OpsTyped DEF Held
  <2>2. /\ state = "up" /\ mem' = mem \cup Entries(ops, versions.last_sequence)
        /\ versions' = [versions EXCEPT !.last_sequence = @ + Len(ops)]
        /\ reader' = (IF reader # NoReader /\ reader.log = logfile
                      THEN [reader EXCEPT !.mem = mem'] ELSE reader)
        /\ UNCHANGED <<disk, logfile, imm>>
    BY <1>15, <2>1 DEF FinishWrite, Working
  <2>3. PICK seq \in Nat : seq = versions.last_sequence
    BY <2>2 DEF Numbers
  <2>4. PICK E : E = Entries(ops, seq)
    OBVIOUS
  <2>5. \A e \in E : e.seq \in Nat /\ e.seq > seq
    BY <2>4, EntriesTyped DEF Block, Entry
  <2>6. /\ versions'.next_file = versions.next_file
        /\ versions'.last_sequence = seq + Len(ops)
    BY <2>2, <2>3 DEF FInv, Control
  <2>7. CASE reader = NoReader
    BY <1>1, <2>2, <2>7
  <2>8. CASE reader # NoReader /\ reader.log # logfile
    <3>1. reader' = reader
      BY <2>2, <2>8
    <3>2. /\ reader.seq \in Nat /\ reader.seq <= versions'.last_sequence
      BY SMTT(20), <2>3, <2>6, <2>8 DEF Reads
    <3>3. ReadsSnapshot'
      BY <2>2, <2>8, <3>1 DEF Reads, ReadsSnapshot, Get
    <3> QED BY <2>2, <2>6, <2>8, <3>1, <3>2, <3>3 DEF Reads
  <2>9. CASE reader # NoReader /\ reader.log = logfile
    <3>1. /\ reader' = [reader EXCEPT !.mem = mem'] /\ reader.mem = mem
          /\ mem' = mem \cup E /\ reader.seq \in Nat /\ reader.seq <= seq
      BY <2>2, <2>3, <2>4, <2>9 DEF Reads
    <3>2. /\ reader'.mem = mem' /\ reader'.imm = reader.imm /\ reader'.version = reader.version
          /\ reader'.seq = reader.seq /\ reader'.log = reader.log
          /\ reader'.expected = reader.expected
      BY <2>9, <3>1 DEF FInv, Control
    <3>3. ASSUME NEW k \in Keys
          PROVE  Visible(mem', k, reader.seq) = Visible(mem, k, reader.seq)
      BY SMTT(20), <2>3, <2>5, <3>1 DEF Visible
    <3>4. ReadsSnapshot'
      BY <2>2, <2>9, <3>1, <3>2, <3>3 DEF Reads, ReadsSnapshot, Get
    <3> QED BY SMTT(20), <2>2, <2>3, <2>6, <2>9, <3>1, <3>2, <3>4 DEF Reads
  <2> QED BY <2>7, <2>8, <2>9
<1>16. CASE BeginGet
  <2>1. /\ state = "up" /\ UNCHANGED <<disk, versions, mem, imm, logfile>>
        /\ reader' = [seq |-> versions.last_sequence, log |-> logfile, mem |-> mem, imm |-> imm,
                      version |-> versions.current, expected |-> Contents]
    BY <1>16 DEF BeginGet, Working
  <2>2. Contents = [k \in Keys |-> Get(mem, imm, versions.current, versions.last_sequence, k)]
    BY <2>1 DEF Contents, Working
  <2>3. /\ reader'.seq = versions.last_sequence /\ reader'.log = logfile /\ reader'.mem = mem
        /\ reader'.imm = imm /\ reader'.version = versions.current /\ reader'.expected = Contents
    BY <2>1
  <2>4. ReadsSnapshot'
    BY <2>1, <2>2, <2>3 DEF ReadsSnapshot, Get
  <2>5. versions.last_sequence <= versions.last_sequence
    BY SMTT(20), <1>2, <2>1
  <2> QED BY <2>1, <2>3, <2>4, <2>5 DEF Reads, Numbers
<1>17. CASE EndGet \/ Crash
  BY <1>1, <1>17 DEF EndGet, Crash
<1> QED BY <1>5, <1>6, <1>7, <1>9, <1>10, <1>11, <1>12, <1>13, <1>14, <1>15, <1>16, <1>17 DEF Next

-----------------------------------------------------------------------------
(* The theorems.                                                            *)

LEMMA InitInv ==
    ASSUME Init
    PROVE  IInv
<1>1. FilesOf(EmptyVersion) = {}
  BY DEF FilesOf, EmptyVersion
<1>2. DOMAIN <<>> = {}
  BY SMTT(20)
<1>3. /\ disk.table = <<>> /\ disk.log = <<>> /\ disk.manifest = <<>> /\ disk.current = 0
      /\ DOMAIN disk = {"log", "table", "manifest", "current"}
  BY DEF Init
<1>4. /\ state = "down" /\ bg = NoEdit /\ compaction = NoCompaction /\ reader = NoReader
      /\ pending = {} /\ bg_error = FALSE /\ versions = NoVersions
      /\ DOMAIN versions = {"current", "log_number", "next_file", "manifest", "last_sequence"}
      /\ versions.current = EmptyVersion
  BY DEF Init, NoVersions
<1>5. Control /\ Manifests
  BY <1>3, <1>4 DEF Control, Manifests, NoEdit
<1>6. Present
  BY SMTT(20), <1>1, <1>3, <1>4
  DEF Present, FilesPresent, ReaderVersions, CompactionVersions, HasEdit, NoEdit
<1>7. Stored
  <2>1. LogsTo(disk.log, 0)
    BY <1>2, <1>3 DEF LogsTo
  <2> QED BY SMTT(20), <1>2, <1>3, <2>1 DEF Stored, TablesTyped, LogsTyped, RecordsTyped
<1>8. Held
  BY SMTT(20) DEF Init, Held, Block
<1>9. Numbers /\ Merges /\ Reads
  BY SMTT(20), <1>4 DEF Numbers, Merges, Reads, HasEdit, NoEdit
<1> QED BY <1>5, <1>6, <1>7, <1>8, <1>9 DEF IInv, FInv

LEMMA NextInv ==
    ASSUME IInv, [Next]_vars
    PROVE  IInv'
<1>1. CASE Next
  BY <1>1, FilesStep, StoredStep, HeldStep, NumbersStep, MergesStep, ReadsStep DEF IInv
<1>2. CASE UNCHANGED vars
  <2>1. UNCHANGED <<disk, state, versions, mem, imm, logfile, bg_error, pending, writers, call,
                    group, bg, compaction, reader>>
    BY <1>2 DEF vars, process
  <2>2. FInv' /\ Held'
    BY <2>1, OtherSteps DEF IInv, Held, FilesKept
  <2>3. Stored' /\ Merges'
    BY <2>1 DEF IInv, Stored, TablesTyped, LogsTyped, RecordsTyped, Merges
  <2>4. Numbers'
    BY <2>1 DEF IInv, Numbers, HasEdit, Described
  <2>5. Reads'
    BY <2>1 DEF IInv, Reads, ReadsSnapshot, Get
  <2> QED BY <2>2, <2>3, <2>4, <2>5 DEF IInv
<1> QED BY <1>1, <1>2

LEMMA Inductive == Spec => []IInv
<1>1. Init => IInv
  BY InitInv
<1>2. IInv /\ [Next]_vars => IInv'
  BY NextInv
<1> QED BY <1>1, <1>2, PTL DEF Spec

\* The tables named by the manifest on disk, by the current version and by the versions
\* that a reader or a compaction still uses exist: through any flushes, compactions,
\* crashes and failed writes, DeleteObsoleteFiles removes none that is needed.
THEOREM FilesAlwaysPresent == Spec => []FilesPresent
<1>1. IInv => FilesPresent
  BY DEF IInv, FInv, Present
<1> QED BY <1>1, Inductive, PTL

\* However many memtables are flushed and compactions installed, and whatever files are
\* deleted, while DBImpl::Get looks without the mutex, it finds the value its key had
\* when it took its version and its memtables.
THEOREM ReadsAlwaysSnapshot == Spec => []ReadsSnapshot
<1>1. IInv => ReadsSnapshot
  BY DEF IInv, Reads, ReadsSnapshot
<1> QED BY <1>1, Inductive, PTL
=============================================================================
