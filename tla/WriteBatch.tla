----------------------------- MODULE WriteBatch -----------------------------
(***************************************************************************)
(* The records of a log (db/write_batch.cpp): a sequence number, a count   *)
(* and the operations.  The fixed-width header fields are one byte each.   *)
(***************************************************************************)
EXTENDS Coding

kHeader == 2
EmptyBatch == <<0, 0>>

Sequence(rep) == rep[1]
SetSequence(rep, seq) == [rep EXCEPT ![1] = seq]
Count(rep) == rep[2]
SetCount(rep, n) == [rep EXCEPT ![2] = n]

Put(rep, key, value) ==
    SetCount(rep, Count(rep) + 1) \o <<1>> \o PutLengthPrefixedSlice(key)
                                  \o PutLengthPrefixedSlice(value)

Delete(rep, key) == SetCount(rep, Count(rep) + 1) \o <<0>> \o PutLengthPrefixedSlice(key)

\* WriteBatchInternal::Append
BatchAppend(dst, src) ==
    SetCount(dst, Count(dst) + Count(src)) \o SubSeq(src, kHeader + 1, Len(src))

\* What MemTableInserter adds: each operation with its sequence number.  It has added the
\* operations before the one that cannot be parsed, when the batch is found to be corrupt.
RECURSIVE Operations(_, _)
Operations(input, seq) ==
    LET key   == GetLengthPrefixedSlice(Tail(input))
        value == GetLengthPrefixedSlice(key.rest)
        put   == Head(input) = 1
        Then(op, rest) == LET more == Operations(rest, seq + 1)
                          IN  [more EXCEPT !.added = <<op>> \o @]
    IN  IF input = <<>> THEN [ok |-> TRUE, added |-> <<>>]
        ELSE IF Head(input) \notin {0, 1} \/ ~key.ok \/ (put /\ ~value.ok)
             THEN [ok |-> FALSE, added |-> <<>>]
        ELSE IF put THEN Then([seq |-> seq, key |-> key.value, value |-> <<value.value>>], value.rest)
        ELSE Then([seq |-> seq, key |-> key.value, value |-> <<>>], key.rest)

\* WriteBatchInternal::InsertInto and WriteBatch::Iterate
InsertInto(rep) ==
    LET all == Operations(SubSeq(rep, kHeader + 1, Len(rep)), Sequence(rep))
    IN  [all EXCEPT !.ok = @ /\ Len(all.added) = Count(rep)]
=============================================================================
