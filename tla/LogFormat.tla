----------------------------- MODULE LogFormat ------------------------------
(***************************************************************************)
(* LevelDB's log files, for batches and for manifests alike:               *)
(* leveldb/db/log_writer.cc and log_reader.cc.  A record is cut into       *)
(* fragments so that none crosses the end of a block; every fragment has a *)
(* header with its checksum, length and type, and the end of a block that  *)
(* is too short for a header is filled up.                                 *)
(*                                                                         *)
(* Bytes are positions: a fragment is where it starts, how long its data   *)
(* is and how much of it reached the file.  A header read from a place     *)
(* where no whole fragment starts fails its checksum.                      *)
(***************************************************************************)
EXTENDS FiniteSetsExt, Integers, Sequences

CONSTANTS
    BlockSize,      \* kBlockSize
    HeaderSize,     \* kHeaderSize
    Lengths,        \* the lengths of records
    MaxRecords,     \* bound: records written
    MaxFailed       \* bound: appends that fail

VARIABLES
    file,           \* the fragments in the file: a sequence, by position
    size,           \* the length of the file
    block_offset,   \* the writer's block_offset_
    record,         \* the record being added: its number, what is left of it, and begin
    failed,         \* appends that failed
    pc,             \* "write", "read" or "eof"
    pos,            \* the reader's position: start of what is left in buffer_
    scratch,        \* the fragments in scratch, while in_fragmented_record
    out,            \* the records returned, each as its fragments
    reported        \* the reader reported a corruption

vars == <<file, size, block_offset, record, failed, pc, pos, scratch, out, reported>>
writing == <<file, size, block_offset, record, failed>>

Init ==
    /\ file = <<>> /\ size = 0 /\ block_offset = 0 /\ failed = 0
    /\ record = [number |-> 0, left |-> 0, begin |-> FALSE]
    /\ pc = "write" /\ pos = 0 /\ scratch = <<>> /\ out = <<>> /\ reported = FALSE

-----------------------------------------------------------------------------
\* Writer.

\* AddRecord is still emitting fragments: at least one, even of an empty record.
Adding == record.begin \/ record.left > 0

AddRecord(length) ==
    /\ pc = "write" /\ ~Adding /\ record.number < MaxRecords
    /\ record' = [number |-> record.number + 1, left |-> length, begin |-> TRUE]
    /\ UNCHANGED <<file, size, block_offset, failed, pc, pos, scratch, out, reported>>

\* The fill-up at the end of a block that has no room for a header.
Leftover == BlockSize - block_offset
Trailer == IF Leftover < HeaderSize THEN Leftover ELSE 0
Offset == IF Leftover < HeaderSize THEN 0 ELSE block_offset

FragmentLength == Min({record.left, BlockSize - Offset - HeaderSize})

FragmentType ==
    LET end == record.left = FragmentLength
    IN  IF record.begin /\ end THEN "full"
        ELSE IF record.begin THEN "first"
        ELSE IF end THEN "last" ELSE "middle"

\* EmitPhysicalRecord: "have" of the fragment's bytes reach the file.
Emit(have) ==
    /\ file' = Append(file, [at |-> size + Trailer, number |-> record.number,
                             type |-> FragmentType, length |-> FragmentLength, have |-> have])
    /\ size' = size + Trailer + have
    /\ block_offset' = Offset + HeaderSize + FragmentLength

AddFragment ==
    /\ pc = "write" /\ Adding
    /\ Emit(HeaderSize + FragmentLength)
    /\ record' = [record EXCEPT !.left = @ - FragmentLength, !.begin = FALSE]
    /\ UNCHANGED <<failed, pc, pos, scratch, out, reported>>

\* The append fails after some bytes and AddRecord returns the error.
AddFragmentFails(have) ==
    /\ pc = "write" /\ Adding /\ failed < MaxFailed
    /\ have < HeaderSize + FragmentLength
    /\ Emit(have)
    /\ record' = [record EXCEPT !.left = 0, !.begin = FALSE]
    /\ failed' = failed + 1
    /\ UNCHANGED <<pc, pos, scratch, out, reported>>

\* The process dies with the last fragment perhaps in part in the file; the
\* log is opened again and read.
Cut(have) ==
    LET n == Len(file)
    IN  /\ file' = [file EXCEPT ![n].have = have]
        /\ size' = file[n].at + have

Crash ==
    /\ pc = "write"
    /\ \/ file # <<>> /\ \E have \in 0..file[Len(file)].have : Cut(have)
       \/ UNCHANGED <<file, size>>
    /\ pc' = "read"
    /\ UNCHANGED <<block_offset, record, failed, pos, scratch, out, reported>>

-----------------------------------------------------------------------------
\* Reader.

NextBlock(p) == (p \div BlockSize + 1) * BlockSize
BufferEnd(p) == Min({NextBlock(p), size})
Eof(p) == size < NextBlock(p)

\* What is in the file at a position: the fragments whose header can be read
\* there, and the ones whose checksum holds and that end within the buffer.
Headers(p) == {i \in 1..Len(file) : file[i].at = p /\ file[i].have >= HeaderSize}
Whole(p) == {i \in Headers(p) : /\ file[i].have = HeaderSize + file[i].length
                                /\ p + file[i].have <= BufferEnd(p)}

\* ReadPhysicalRecord at a position: the type it returns, whether it drops
\* bytes with a report, and where it leaves the reader.
ReadPhysicalRecord(p) ==
    IF BufferEnd(p) - p < HeaderSize
    THEN IF Eof(p) THEN [type |-> "eof", next |-> p, drop |-> FALSE]
         ELSE [type |-> "trailer", next |-> NextBlock(p), drop |-> FALSE]
    ELSE IF Whole(p) # {}
    THEN LET i == CHOOSE i \in Whole(p) : TRUE
         IN  [type |-> file[i].type, next |-> p + file[i].have, drop |-> FALSE, fragment |-> file[i]]
    ELSE IF Eof(p) /\ \E i \in Headers(p) : p + HeaderSize + file[i].length > size
    THEN [type |-> "eof", next |-> size, drop |-> FALSE]
    ELSE [type |-> "bad", next |-> BufferEnd(p), drop |-> TRUE]

\* One turn of the loop of ReadRecord, given the physical record it reads.
Returned(r) == CASE r.type = "full" -> <<<<r.fragment>>>>
                 [] r.type = "last" /\ scratch # <<>> -> <<Append(scratch, r.fragment)>>
                 [] OTHER -> <<>>

\* Mutant of Kept: a bad fragment does not end the record being put together.
KeptOnBad(r) == CASE r.type = "first" -> <<r.fragment>>
                  [] r.type = "middle" /\ scratch # <<>> -> Append(scratch, r.fragment)
                  [] r.type \in {"trailer", "bad"} -> scratch
                  [] OTHER -> <<>>

Kept(r) == CASE r.type = "first" -> <<r.fragment>>
             [] r.type = "middle" /\ scratch # <<>> -> Append(scratch, r.fragment)
             [] r.type = "trailer" -> scratch
             [] OTHER -> <<>>

\* An empty first fragment, at the very end of a block, is dropped in silence.
Reports(r) == \/ r.drop
              \/ r.type \in {"full", "first"} /\ \E i \in 1..Len(scratch) : scratch[i].length > 0
              \/ r.type \in {"middle", "last"} /\ scratch = <<>>

ReadRecord ==
    /\ pc = "read"
    /\ LET r == ReadPhysicalRecord(pos)
       IN  /\ pos' = r.next
           /\ scratch' = Kept(r)
           /\ out' = out \o Returned(r)
           /\ reported' = (reported \/ Reports(r))
           /\ pc' = IF r.type = "eof" THEN "eof" ELSE "read"
    /\ UNCHANGED writing

Next ==
    \/ \E length \in Lengths : AddRecord(length)
    \/ AddFragment
    \/ \E have \in 0..BlockSize : AddFragmentFails(have)
    \/ Crash
    \/ ReadRecord

Spec == Init /\ [][Next]_vars

-----------------------------------------------------------------------------
\* Properties.

\* The fragments of a record in the file, and whether all of it is there.
FragmentsOf(n) == SelectSeq(file, LAMBDA f : f.number = n)
InFile(n) ==
    LET s == FragmentsOf(n)
    IN  /\ s # <<>> /\ s[Len(s)].type \in {"full", "last"}
        /\ \A i \in 1..Len(s) : s[i].have = HeaderSize + s[i].length

(***************************************************************************)
(* What log::Reader returns are records that were written, whole, in the   *)
(* order they were written and each once, even from a file in which a      *)
(* failed append left part of a record and shifted all that follows.  When *)
(* no append failed it returns every record that is in the file, and takes *)
(* a tail that a crash cut short for the end of the file, not for a        *)
(* corruption: VersionSet::Recover would refuse the database.              *)
(***************************************************************************)
ReplaysLog ==
    /\ \A i \in 1..Len(out) : InFile(out[i][1].number) /\ out[i] = FragmentsOf(out[i][1].number)
    /\ \A i, j \in 1..Len(out) : i < j => out[i][1].number < out[j][1].number
    /\ failed = 0 => /\ ~reported
                     /\ pc = "eof" => {o[1].number : o \in {out[i] : i \in 1..Len(out)}}
                                        = {n \in 1..record.number : InFile(n)}
=============================================================================
