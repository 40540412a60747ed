----------------------------- MODULE LogFormat ------------------------------
(***************************************************************************)
(* The format of logs and manifests (db/log_writer.cpp, db/log_reader.cpp). *)
(* A log is a record: the bytes of the file, and block_offset_ of its      *)
(* writer.  A header has three bytes: checksum, length, type.  A checksum  *)
(* is the pair of what it was computed from, so that it never agrees by    *)
(* accident.                                                               *)
(***************************************************************************)
EXTENDS Integers, Sequences, SequencesExt, FiniteSetsExt

CONSTANT kBlockSize

kHeaderSize == 3
kZeroType == 0
kFullType == 1
kFirstType == 2
kMiddleType == 3
kLastType == 4
kEof == 5
kBadRecord == 6

Byte(n) == [n |-> n, crc |-> <<>>]
Checksum(type, data) == [n |-> 0, crc |-> <<type, data>>]
Bytes(data) == [i \in DOMAIN data |-> Byte(data[i])]

Zeros(n) == [i \in 1 .. n |-> Byte(0)]

EmptyLog == [file |-> <<>>, block_offset_ |-> 0]
-----------------------------------------------------------------------------
(* log::Writer *)

EmitPhysicalRecord(log, type, data) ==
    [file |-> log.file \o <<Checksum(type, data), Byte(Len(data)), Byte(type)>> \o Bytes(data),
     block_offset_ |-> log.block_offset_ + kHeaderSize + Len(data)]

\* The trailer, when no header fits any more
SwitchBlock(log) ==
    LET leftover == kBlockSize - log.block_offset_
    IN  IF leftover >= kHeaderSize THEN log
        ELSE [file |-> log.file \o Zeros(leftover), block_offset_ |-> 0]

\* The fragments of a record, from the one that is next: the log after each of them
RECURSIVE Fragments(_, _, _)
Fragments(log, left, begin) ==
    LET l      == SwitchBlock(log)
        avail  == kBlockSize - l.block_offset_ - kHeaderSize
        length == Min({Len(left), avail})
        end    == Len(left) = length
        type   == CASE begin /\ end -> kFullType [] begin /\ ~end -> kFirstType
                    [] ~begin /\ end -> kLastType [] ~begin /\ ~end -> kMiddleType
        after  == EmitPhysicalRecord(l, type, SubSeq(left, 1, length))
    IN  <<after>> \o IF end THEN <<>> ELSE Fragments(after, SubSeq(left, length + 1, Len(left)), FALSE)

AddRecord(log, data) == Last(Fragments(log, data, TRUE))
-----------------------------------------------------------------------------
(* log::Reader.  Its state is a record: the buffer is the part of the file  *)
(* behind "at" up to end_of_buffer_offset_.                                *)

\* Mutant: a block in which exactly a header fits behind the offset is skipped.
SkipToInitialBlock_Early(initial_offset) ==
    LET in_block == initial_offset % kBlockSize
    IN  initial_offset - in_block + IF in_block >= kBlockSize - kHeaderSize THEN kBlockSize ELSE 0

SkipToInitialBlock(initial_offset) ==
    LET in_block == initial_offset % kBlockSize
    IN  initial_offset - in_block + IF in_block > kBlockSize - (kHeaderSize - 1) THEN kBlockSize ELSE 0

NewReader(initial_offset) ==
    [at |-> SkipToInitialBlock(initial_offset),
     end |-> SkipToInitialBlock(initial_offset), eof_ |-> FALSE,
     resyncing_ |-> initial_offset > 0, in_fragmented_record |-> FALSE, scratch |-> <<>>,
     out |-> <<>>, dropped |-> FALSE, type |-> kZeroType, fragment |-> <<>>]

\* The rest of the buffer is dropped.
Drop(r) == [r EXCEPT !.at = r.end, !.type = kBadRecord]
Ended(r) == [r EXCEPT !.at = r.end, !.type = kEof]

\* Mutant: a full block is taken for the last one.
ShortRead_Full(n) == n <= kBlockSize

ShortRead(n) == n < kBlockSize

\* Mutant: a bad length in the middle of the file is taken for a torn tail.
BadLength_Eof(r) == Ended(r)

\* A record that is longer than the buffer
BadLength(r) == IF r.eof_ THEN Ended(r) ELSE [Drop(r) EXCEPT !.dropped = TRUE]

\* Mutant: checksums are not looked at.
ChecksumOk_Ignored(crc, type, data) == TRUE

ChecksumOk(crc, type, data) == crc = <<type, data>>

RECURSIVE ReadPhysicalRecord(_, _, _, _)
ReadPhysicalRecord(r, file, checksum, initial_offset) ==
    LET length == file[r.at + 2].n
        type   == file[r.at + 3].n
        data   == [i \in 1 .. length |-> file[r.at + kHeaderSize + i].n]
        to     == Min({r.end + kBlockSize, Len(file)})
    IN  IF r.end - r.at < kHeaderSize THEN
            IF r.eof_ THEN Ended(r)
            ELSE ReadPhysicalRecord([r EXCEPT !.at = r.end, !.end = to, !.eof_ = ShortRead(to - r.end)],
                                    file, checksum, initial_offset)
        ELSE IF kHeaderSize + length > r.end - r.at THEN BadLength(r)
        ELSE IF type = kZeroType /\ length = 0 THEN Drop(r)
        ELSE IF checksum /\ ~ChecksumOk(file[r.at + 1].crc, type, data) THEN [Drop(r) EXCEPT !.dropped = TRUE]
        ELSE IF r.at < initial_offset
            THEN [r EXCEPT !.at = @ + kHeaderSize + length, !.type = kBadRecord]
        ELSE [r EXCEPT !.at = @ + kHeaderSize + length, !.type = type, !.fragment = data]

Restart(r) == [r EXCEPT !.in_fragmented_record = FALSE, !.scratch = <<>>]

\* ReadRecord returns a record; the next call begins anew.
Return(r, record) == [Restart(r) EXCEPT !.out = Append(@, record)]

\* A fragmented record that is interrupted by another one or by an error is reported,
\* unless nothing of it was read.
Interrupted(r) == [r EXCEPT !.dropped = @ \/ (r.in_fragmented_record /\ r.scratch # <<>>)]

BadRecord(r) == Restart([r EXCEPT !.dropped = @ \/ r.in_fragmented_record])

\* The switch of ReadRecord
Fragment(r) ==
    CASE r.type = kFullType -> Return(Interrupted(r), r.fragment)
      [] r.type = kFirstType -> [Interrupted(r) EXCEPT !.in_fragmented_record = TRUE, !.scratch = r.fragment]
      [] r.type \in {kMiddleType, kLastType} /\ ~r.in_fragmented_record -> [r EXCEPT !.dropped = TRUE]
      [] r.type = kMiddleType /\ r.in_fragmented_record -> [r EXCEPT !.scratch = @ \o r.fragment]
      [] r.type = kLastType /\ r.in_fragmented_record -> Return(r, r.scratch \o r.fragment)
      [] r.type = kBadRecord -> BadRecord(r)
      [] OTHER -> [Restart(r) EXCEPT !.dropped = TRUE]

\* ReadRecord until it returns false
RECURSIVE ReadRecords(_, _, _, _)
ReadRecords(r, file, checksum, initial_offset) ==
    LET p == ReadPhysicalRecord(r, file, checksum, initial_offset)
        q == IF p.resyncing_ /\ p.type = kMiddleType THEN p
             ELSE IF p.resyncing_ /\ p.type = kLastType THEN [p EXCEPT !.resyncing_ = FALSE]
             ELSE Fragment([p EXCEPT !.resyncing_ = FALSE])
    IN  IF p.type = kEof THEN p ELSE ReadRecords(q, file, checksum, initial_offset)

Read(file, checksum, initial_offset) ==
    ReadRecords(NewReader(initial_offset), file, checksum, initial_offset)
=============================================================================
