------------------------------ MODULE Records -------------------------------
(***************************************************************************)
(* A manifest or a log as its writer and its readers see it: records of    *)
(* VersionEdit or WriteBatch go through log::Writer into a file, appends   *)
(* may fail half-way, a byte may be damaged, and the file is read back.    *)
(***************************************************************************)
EXTENDS LogFormat

CONSTANTS
    Edits,          \* edits that may be logged
    Updates,        \* groups of batches of operations that may be logged
    kNumLevels,
    MaxRecords,     \* bound: records added
    Faults,         \* of "tear", "trailer" and "damage"
    DamagedBytes,   \* bound: what a damaged byte may become
    checksum        \* whether the reader verifies checksums: RecoverLogFile's does

E == INSTANCE VersionEdit
W == INSTANCE WriteBatch

VARIABLES
    kind,           \* "manifest" or "log"
    log,            \* the file and its writer
    added,          \* by record: what was added, its bytes in the file, and if all of them are
                    \* there; AddRecord returns OK for these and for one without its trailer
    fault           \* the block of a damaged byte, -1 for none

vars == <<kind, log, added, fault>>

Init == kind \in {"manifest", "log"} /\ log = EmptyLog /\ added = <<>> /\ fault = -1

\* A batch from its operations, and the batch that BuildBatchGroup makes of several
BatchOf(ops) ==
    FoldLeft(LAMBDA rep, op : IF op.value = <<>> THEN W!Delete(rep, op.key)
                              ELSE W!Put(rep, op.key, op.value[1]),
             W!EmptyBatch, ops)

BuildBatchGroup(group, seq) ==
    W!SetSequence(FoldLeft(LAMBDA rep, ops : W!BatchAppend(rep, BatchOf(ops)), W!EmptyBatch, group),
                  seq)

\* DBImpl::Write counts the operations of every group, also of one that fails.
NextSequence == 1 + FoldLeft(LAMBDA n, a : n + Len(FlattenSeq(a.of)), 0, added)

AllWhole == \A i \in DOMAIN added : added[i].whole

Data(x) == IF kind = "manifest" THEN E!EncodeTo(x) ELSE BuildBatchGroup(x, NextSequence)
Inputs == IF kind = "manifest" THEN Edits ELSE Updates

\* A record with the bytes that the file has now.
Added(x, end, whole) ==
    added' = Append(added, [data |-> Data(x), of |-> x, begin |-> Len(log.file), end |-> end,
                            whole |-> whole])

Add(x) ==
    /\ Len(added) < MaxRecords /\ fault = -1
    /\ log' = AddRecord(log, Data(x)) /\ Added(x, Len(log'.file), TRUE)
    /\ UNCHANGED <<kind, fault>>

\* An Append of EmitPhysicalRecord fails and leaves part of its bytes in the file; the
\* writer counts them all and AddRecord returns the error.  A later record goes behind it.
Tear(x) ==
    /\ Len(added) < MaxRecords /\ fault = -1 /\ "tear" \in Faults /\ AllWhole
    /\ \E i \in DOMAIN Fragments(log, Data(x), TRUE) :
        LET logs == <<log>> \o Fragments(log, Data(x), TRUE)
        IN  \E n \in Len(logs[i].file) .. Len(logs[i + 1].file) :
              log' = [logs[i + 1] EXCEPT !.file = SubSeq(@, 1, n)] /\ Added(x, n, FALSE)
    /\ UNCHANGED <<kind, fault>>

\* Only the Append of the trailer fails, whose status nobody looks at: the writer goes on as
\* if a block began here, and AddRecord returns OK.
LoseTrailer(x) ==
    LET leftover == kBlockSize - log.block_offset_
    IN  /\ Len(added) < MaxRecords /\ fault = -1 /\ "trailer" \in Faults /\ AllWhole
        /\ leftover \in 1 .. kHeaderSize - 1
        /\ \E n \in 0 .. leftover - 1 :
            log' = AddRecord([file |-> log.file \o Zeros(n), block_offset_ |-> 0], Data(x))
        /\ Added(x, Len(log'.file), FALSE)
        /\ UNCHANGED <<kind, fault>>

\* A byte of the file changes.
Damage(i, n) ==
    /\ "damage" \in Faults /\ fault = -1
    /\ log.file[i] # Byte(n)
    /\ log' = [log EXCEPT !.file[i] = Byte(n)]
    /\ fault' = (i - 1) \div kBlockSize
    /\ UNCHANGED <<kind, added>>

\* The loop of DBImpl::RecoverLogFile over what ReadRecord returns: the entries that reach
\* the memtable, and the largest sequence number.  A record that cannot be parsed is
\* ignored from where it is wrong.
RecoverLogFile(records) ==
    FoldLeft(LAMBDA m, rep :
                 IF Len(rep) < W!kHeader THEN m
                 ELSE LET last_seq == W!Sequence(rep) + W!Count(rep) - 1
                      IN  [mem |-> m.mem \o W!InsertInto(rep).added,
                           max_sequence |-> Max({m.max_sequence, last_seq})],
             [mem |-> <<>>, max_sequence |-> 0], records)

Next ==
    \/ \E x \in Inputs : Add(x) \/ Tear(x) \/ LoseTrailer(x)
    \/ \E i \in DOMAIN log.file, n \in DamagedBytes : Damage(i, n)

Spec == Init /\ [][Next]_vars
-----------------------------------------------------------------------------
(* Properties *)

Out(offset) == Read(log.file, checksum, offset).out
DataOf(records) == [i \in DOMAIN records |-> records[i].data]

TypeOK ==
    /\ kind \in {"manifest", "log"} /\ Len(added) <= MaxRecords
    /\ log.block_offset_ \in 0 .. kBlockSize
    /\ \A i \in DOMAIN added : \A j \in DOMAIN added[i].data : added[i].data[j] \in 0 .. 255
    /\ fault = -1 \/ fault \in 0 .. Len(log.file) \div kBlockSize

\* What the operations of a group are in the memtable
EntriesOf(a) ==
    LET ops == FlattenSeq(a.of)
    IN  [j \in DOMAIN ops |-> [seq |-> a.data[1] + j - 1, key |-> ops[j].key, value |-> ops[j].value]]

\* The header of a record, behind the trailer it may begin with
Start(a) ==
    LET left == kBlockSize - (a.begin % kBlockSize)
    IN  IF left < kHeaderSize THEN a.begin + left ELSE a.begin

\* log::Writer and log::Reader: wherever records end with respect to the blocks, exactly
\* those that begin at initial_offset or behind it come back, in order, without a report and
\* never the rest of one that begins before.  VersionEdit::DecodeFrom makes of them the
\* edits that were encoded, and WriteBatch::Iterate gives each operation of a group the
\* sequence number that DBImpl::Write counted for it.
ReadsBack ==
    /\ TypeOK
    /\ fault = -1 /\ AllWhole =>
        \A offset \in 0 .. Len(log.file) :
            LET r == Read(log.file, checksum, offset)
            IN  /\ r.out = DataOf(SelectSeq(added, LAMBDA a : Start(a) >= offset))
                /\ offset = 0 => ~r.dropped
    /\ \A i \in DOMAIN added :
        IF kind = "manifest"
        THEN E!DecodeFrom(E!NewEdit, added[i].data) = [ok |-> TRUE, edit |-> added[i].of]
        ELSE W!InsertInto(added[i].data) = [ok |-> TRUE, added |-> EntriesOf(added[i])]

\* Whether a sequence can be had from another by leaving elements out
RECURSIVE SubsequenceOf(_, _)
SubsequenceOf(s, t) ==
    IF s = <<>> THEN TRUE
    ELSE t # <<>> /\ SubsequenceOf(IF Head(s) = Head(t) THEN Tail(s) ELSE s, Tail(t))

\* log::Writer: an Append that fails half-way, in a record or in a trailer, costs nothing of
\* what was added before it, whatever goes behind.  What is added with the failing trailer
\* or later is not covered, although AddRecord returns OK for it.
TornTail ==
    fault = -1 =>
        LET before == SelectInSeq(added, LAMBDA a : ~a.whole)
        IN  IsPrefix(DataOf(IF before = 0 THEN added ELSE SubSeq(added, 1, before - 1)), Out(0))

BlocksOf(a) == a.begin \div kBlockSize .. (a.end - 1) \div kBlockSize

\* "Drop the rest of the buffer" (log_reader.cpp): damage costs at most the records that
\* have bytes in its block, and a loss is reported unless it is at the end of the file.
DamageContained ==
    fault # -1 /\ AllWhole =>
        LET r == Read(log.file, checksum, 0)
            spared == SelectSeq(added, LAMBDA a : fault \notin BlocksOf(a))
        IN  /\ SubsequenceOf(DataOf(spared), r.out)
            /\ r.out # DataOf(added) =>
                r.dropped \/ fault = (Len(log.file) - 1) \div kBlockSize

\* db_impl.cpp:413, the reader of RecoverLogFile verifies checksums "so that corruptions cause
\* entire commits to be skipped instead of propagating bad information (like overly large
\* sequence numbers)".  Whatever was torn, lost or damaged, it returns only records that
\* somebody added, in their order, none put together from fragments of two.  So a log brings
\* into the memtable the operations of some of the groups, each complete, and a sequence
\* number that was given out.
CommitsWhole ==
    /\ SubsequenceOf(Out(0), DataOf(added))
    /\ kind = "log" =>
        LET m == RecoverLogFile(Out(0))
        IN  /\ \E kept \in SUBSET DOMAIN added :
                m.mem = FoldLeft(LAMBDA s, i : IF i \in kept THEN s \o EntriesOf(added[i]) ELSE s,
                                 <<>>, [i \in DOMAIN added |-> i])
            /\ m.max_sequence < NextSequence
=============================================================================
