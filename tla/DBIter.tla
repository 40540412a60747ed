------------------------------- MODULE DBIter -------------------------------
(***************************************************************************)
(* Reading a snapshot (db/db_iter.cpp, DBImpl::NewInternalIterator,        *)
(* Version::AddIterators): a user moves an iterator over a memtable, a     *)
(* table of level 0 and the tables of level 1, while others write to the   *)
(* memtable.  A step is one operation of the merging iterator.             *)
(***************************************************************************)
EXTENDS Iterators

CONSTANTS
    UserKeys,       \* keys, as strings
    Histories,      \* what was written before: sequences of operations on keys
    MaxWrites,      \* bound: writes during the iteration
    MaxAppends,     \* bound: more appends than a table takes
    Failing         \* bound: how many blocks cannot be read

VARIABLES
    history,        \* the operations, in the order of their sequence numbers
    level1,         \* the files of level 1, in order
    oldest,         \* how many entries are in level 1
    flushed,        \* how many are in tables
    sequence_,      \* the snapshot
    iter,           \* DBIter::iter_
    direction_, valid_, saved_key_, saved_value_,
    call,           \* the call that has not returned, and its target
    loop,           \* where it is: a loop and whether it skips
    at              \* what the user has seen last: a key and a value, or nothing

data == <<history, level1, oldest, flushed, sequence_, files, bad>>
cursor == <<iter, direction_, valid_, saved_key_, saved_value_>>
vars == <<mem, data, cursor, call, loop, at>>
-----------------------------------------------------------------------------
(* What is in the database: the entry of an operation has its place in the *)
(* history as sequence number, and as value unless it is a deletion.       *)

EntryKey(i) == AppendInternalKey(history[i].key, i, history[i].type)
ValueOf(seq, type) == IF type = kTypeDeletion THEN <<>> ELSE <<seq>>
Sorted(seqs) ==
    SetToSortSeq({[key |-> EntryKey(i), value |-> ValueOf(i, history[i].type)] : i \in seqs}, LAMBDA a, b : Less(a.key, b.key))

\* The oldest entries are in level 1, in one file or in two, the next ones in a file of
\* level 0, the newest ones in the memtable.  The tables are written without an error.
Place(old, middle, cut) ==
    LET n    == Len(history)
        low  == Sorted(1 .. old)
        one  == SubSeq(low, 1, cut)
        two  == SubSeq(low, cut + 1, old)
        Tables == (1 :> one) @@ (2 :> two) @@ (3 :> Sorted(old + 1 .. middle))
        used == {t \in DOMAIN Tables : Tables[t] # <<>>}
    IN  /\ oldest = old /\ flushed = middle
        /\ files = [t \in used |-> BuildTable(Tables[t], MaxAppends)]
        /\ level1 = [i \in 1 .. Cardinality(used \ {3}) |->
                        LET t == i + 2 - Cardinality(used \ {3})
                        IN  [number |-> t, largest |-> Tables[t][Len(Tables[t])].key]]
        /\ mem = [k \in {EntryKey(i) : i \in middle + 1 .. n} |-> ValueOf(SequenceOf(k), TypeOf(k))]

\* Version::AddIterators and DBImpl::NewInternalIterator
AddIterators ==
    (IF 3 \in DOMAIN files THEN <<NewTableIterator(3)>> ELSE <<>>)
    \o (IF level1 # <<>> THEN <<NewConcatenatingIterator(level1)>> ELSE <<>>)

NewInternalIterator == NewMergingIterator(<<NewMemIterator>> \o AddIterators)

Init ==
    /\ history \in Histories
    /\ \E old \in 0 .. Len(history) : \E middle \in old .. Len(history) :
          \E cut \in 0 .. Max({0, old - 1}) : Place(old, middle, cut)
    /\ bad \in {b \in SUBSET UNION {{<<t, o>> : o \in DOMAIN files[t].blocks} : t \in DOMAIN files} :
                    Cardinality(b) <= Failing}
    /\ sequence_ \in {Len(history) - 1, Len(history)}
    /\ iter = NewInternalIterator
    /\ direction_ = "kForward" /\ valid_ = FALSE /\ saved_key_ = <<>> /\ saved_value_ = <<>>
    /\ call = <<>> /\ loop = <<>> /\ at = <<>>
-----------------------------------------------------------------------------
(* DBIter *)

\* The call returns, and the user looks at key() and value().
Return(valid, key, value) ==
    /\ valid_' = valid
    /\ at' = IF valid THEN <<key, value>> ELSE <<>>
    /\ call' = <<>> /\ loop' = <<>>

\* FindNextUserEntry is entered with an iterator, or the call ends.
EnterFindNext(it, skipping, skip) ==
    /\ iter' = it /\ direction_' = "kForward"
    /\ IF MergeValid(it)
       THEN /\ loop' = <<"FindNextUserEntry", skipping>>
            /\ saved_key_' = skip
            /\ UNCHANGED <<valid_, call, at>>
       ELSE /\ Return(FALSE, <<>>, 0)
            /\ saved_key_' = IF skipping THEN <<>> ELSE skip

SeekToFirst ==
    /\ call = <<"SeekToFirst">> /\ loop = <<>>
    /\ saved_value_' = <<>>
    /\ EnterFindNext(MergeSeekToFirst(iter), FALSE, saved_key_)
    /\ UNCHANGED <<mem, data>>

Seek ==
    /\ call # <<>> /\ call[1] = "Seek" /\ loop = <<>>
    /\ saved_value_' = <<>>
    /\ LET target == AppendInternalKey(call[2], sequence_, kValueTypeForSeek)
       IN  EnterFindNext(MergeSeek(iter, target), FALSE, target)
    /\ UNCHANGED <<mem, data>>

SeekToLast ==
    /\ call = <<"SeekToLast">> /\ loop = <<>>
    /\ direction_' = "kReverse" /\ saved_value_' = <<>>
    /\ iter' = MergeSeekToLast(iter)
    /\ loop' = <<"FindPrevUserEntry", kTypeDeletion>>
    /\ UNCHANGED <<mem, data, valid_, saved_key_, call, at>>

\* Into the entries for this key, when the direction was kReverse
NextOf(it) == IF MergeValid(it) THEN MergeNext(it) ELSE MergeSeekToFirst(it)

IterNext ==
    /\ call = <<"Next">> /\ loop = <<>>
    /\ IF direction_ = "kReverse" THEN EnterFindNext(NextOf(iter), TRUE, saved_key_)
       ELSE EnterFindNext(iter, TRUE, ExtractUserKey(MergeKey(iter)))
    /\ UNCHANGED <<mem, data, saved_value_>>

Visible(key) == SequenceOf(key) <= sequence_

Hidden(user_key, skipping) == skipping /\ ~UserLess(saved_key_, user_key)

\* An entry is not shown, and the loop goes on with the next one, if any.
PassOver(next, deletes) ==
    /\ iter' = next
    /\ \/ /\ MergeValid(next)
          /\ saved_key_' = IF deletes THEN ExtractUserKey(MergeKey(iter)) ELSE saved_key_
          /\ loop' = <<"FindNextUserEntry", loop[2] \/ deletes>>
          /\ UNCHANGED <<valid_, call, at>>
       \/ /\ ~MergeValid(next)
          /\ Return(FALSE, <<>>, 0) /\ saved_key_' = <<>>

\* One round of FindNextUserEntry
FindNextUserEntry ==
    /\ loop # <<>> /\ loop[1] = "FindNextUserEntry"
    /\ LET key      == MergeKey(iter)
           deletes  == Visible(key) /\ TypeOf(key) = kTypeDeletion
           shows    == Visible(key) /\ ~deletes /\ ~Hidden(ExtractUserKey(key), loop[2])
       IN  \/ /\ shows
              /\ Return(TRUE, ExtractUserKey(key), MergeValue(iter))
              /\ saved_key_' = <<>> /\ UNCHANGED iter
           \/ /\ ~shows
              /\ PassOver(MergeNext(iter), deletes)
    /\ UNCHANGED <<mem, data, direction_, saved_value_>>

\* Prev when the direction was kForward: back to an entry of an earlier key
IterPrev ==
    /\ call = <<"Prev">> /\ loop = <<>>
    /\ IF direction_ = "kForward"
       THEN loop' = <<"Prev">> /\ saved_key_' = ExtractUserKey(MergeKey(iter))
       ELSE loop' = <<"FindPrevUserEntry", kTypeDeletion>> /\ UNCHANGED saved_key_
    /\ UNCHANGED <<mem, data, iter, direction_, valid_, saved_value_, call, at>>

\* One round of the loop of Prev: iter_ is at an entry before
SteppedTo(prev) ==
    /\ iter' = prev
    /\ \/ /\ ~MergeValid(prev)
          /\ Return(FALSE, <<>>, 0)
          /\ saved_key_' = <<>> /\ saved_value_' = <<>> /\ UNCHANGED direction_
       \/ /\ MergeValid(prev) /\ ~UserLess(ExtractUserKey(MergeKey(prev)), saved_key_)
          /\ UNCHANGED <<direction_, valid_, saved_key_, saved_value_, call, loop, at>>
       \/ /\ MergeValid(prev) /\ UserLess(ExtractUserKey(MergeKey(prev)), saved_key_)
          /\ direction_' = "kReverse" /\ loop' = <<"FindPrevUserEntry", kTypeDeletion>>
          /\ UNCHANGED <<valid_, saved_key_, saved_value_, call, at>>

PrevScan ==
    /\ loop = <<"Prev">>
    /\ SteppedTo(MergePrev(iter))
    /\ UNCHANGED <<mem, data>>

\* Mutant: the scan ends at the first value it meets.
EndsScan_AtValue(key, value_type) == value_type # kTypeDeletion

\* An entry of an earlier key, when a value was found
EndsScan(key, value_type) ==
    Visible(key) /\ value_type # kTypeDeletion /\ UserLess(ExtractUserKey(key), saved_key_)

\* One round of FindPrevUserEntry.  loop[2] is value_type.
FindPrevUserEntry ==
    /\ loop # <<>> /\ loop[1] = "FindPrevUserEntry"
    /\ LET key  == MergeKey(iter)
           ends == MergeValid(iter) => EndsScan(key, loop[2])
       IN  \/ /\ ends /\ loop[2] = kTypeDeletion
              /\ Return(FALSE, <<>>, 0)
              /\ saved_key_' = <<>> /\ saved_value_' = <<>> /\ direction_' = "kForward"
              /\ UNCHANGED iter
           \/ /\ ends /\ loop[2] # kTypeDeletion
              /\ Return(TRUE, saved_key_, saved_value_)
              /\ UNCHANGED <<iter, direction_, saved_key_, saved_value_>>
           \/ /\ ~ends
              /\ iter' = MergePrev(iter)
              /\ IF ~Visible(key) THEN UNCHANGED <<loop, saved_key_, saved_value_>>
                 ELSE /\ loop' = <<"FindPrevUserEntry", TypeOf(key)>>
                      /\ saved_key_' = IF TypeOf(key) = kTypeDeletion THEN <<>> ELSE ExtractUserKey(key)
                      /\ saved_value_' = IF TypeOf(key) = kTypeDeletion THEN <<>> ELSE MergeValue(iter)
              /\ UNCHANGED <<direction_, valid_, call, at>>
    /\ UNCHANGED <<mem, data>>
-----------------------------------------------------------------------------
\* The user.  Next and Prev need a valid iterator.
Call(c) ==
    /\ call = <<>>
    /\ c[1] \in {"Next", "Prev"} => valid_
    /\ call' = c
    /\ UNCHANGED <<mem, data, cursor, loop, at>>

Calls == {<<"SeekToFirst">>, <<"SeekToLast">>, <<"Next">>, <<"Prev">>}
         \cup {<<"Seek", k>> : k \in UserKeys}

\* Another thread writes to the memtable.
Write(k, t) ==
    LET newest == Max({Len(history)} \cup {SequenceOf(e) : e \in DOMAIN mem})
    IN  /\ newest < Len(history) + MaxWrites
        /\ mem' = mem @@ (AppendInternalKey(k, newest + 1, t) :> ValueOf(newest + 1, t))
        /\ UNCHANGED <<data, cursor, call, loop, at>>

Step == SeekToFirst \/ Seek \/ SeekToLast \/ IterNext \/ FindNextUserEntry
        \/ IterPrev \/ PrevScan \/ FindPrevUserEntry

Next ==
    \/ Step
    \/ \E c \in Calls : Call(c)
    \/ \E k \in UserKeys, t \in {kTypeDeletion, kTypeValue} : Write(k, t)

Spec == Init /\ [][Next]_vars
-----------------------------------------------------------------------------
(* Properties *)

TypeOK ==
    /\ direction_ \in {"kForward", "kReverse"} /\ valid_ \in BOOLEAN
    /\ call # <<>> => call \in Calls
    /\ loop # <<>> => call # <<>> /\ loop[1] \in {"FindNextUserEntry", "Prev", "FindPrevUserEntry"}
    /\ loop = <<"FindNextUserEntry", TRUE>> \/ loop = <<"FindNextUserEntry", FALSE>> =>
           MergeValid(iter) /\ direction_ = "kForward"

\* The newest entry of a key in the snapshot, if any
Newest(k, seq) == Max({0} \cup {i \in 1 .. seq : history[i].key = k})

\* The file of level 1 that has an entry
FileOf(key) == FilesValue(FilesSeek(NewFilesIterator(level1), key))

\* The file that has an entry of a table
TableOf(i) == IF i > oldest THEN 3 ELSE FileOf(EntryKey(i))

\* The value of an entry where it is: as it was put, or as BuildTable stored it
Held(i) ==
    LET value == ValueOf(i, history[i].type) IN IF i > flushed THEN value ELSE StoredValue(value)

\* The database at the snapshot
View ==
    LET alive == {k \in UserKeys : Newest(k, sequence_) # 0
                                   /\ history[Newest(k, sequence_)].type = kTypeValue}
    IN  [k \in alive |-> Held(Newest(k, sequence_))]

Abstract == INSTANCE SnapshotCursor
    WITH Before <- UserLess, view <- View, ok <- MergeOk(iter)

\* DBIter (include/leveldb/iterator.h): between calls the iterator stands at a key of the
\* snapshot, the next one in the direction of the call, with its value as it is held in a
\* memtable or a table; concurrent writes do not show.  When a block could not be read, the
\* status says so.
WalksSnapshot == Abstract!Spec

\* The loops of DBIter: every round that does not end the call moves iter_ in its direction,
\* past at least one entry, so that no call runs forever; FindNextUserEntry finds what it
\* asserts, a valid iter_ and the direction kForward.
LoopsAdvance ==
    []TypeOK /\ [][loop # <<>> /\ loop' # <<>> /\ mem' = mem =>
        IF loop[1] = "FindNextUserEntry" THEN Less(MergeKey(iter), MergeKey(iter'))
        ELSE MergeValid(iter') => Less(MergeKey(iter'), MergeKey(iter))]_vars

\* The tables do not change: what they hold is looked at before the first call.
Unused == call = <<>> /\ iter = NewInternalIterator

\* Table::InternalGet, with its filter and index: the saver sees the newest entry of the
\* key that the snapshot shows, or no entry of the key if there is none; or the status
\* says that a block could not be read.  For every entry ApproximateOffsetOf is where its
\* block is: an index key is ">= all entries in the first block and < all entries in
\* subsequent blocks" (TableBuilder).
GetExact ==
    Unused =>
        /\ \A t \in DOMAIN files, u \in UserKeys, seq \in 0 .. Len(history) :
            LET inside == {i \in 1 .. Min({seq, flushed}) : history[i].key = u /\ t = TableOf(i)}
                g == InternalGet(t, AppendInternalKey(u, seq, kValueTypeForSeek))
            IN  g.ok => IF inside = {} THEN g.entry = <<>> \/ ExtractUserKey(g.entry[1].key) # u
                        ELSE g.entry = <<[key |-> EntryKey(Max(inside)), value |-> Held(Max(inside))]>>
        /\ \A i \in 1 .. flushed :
            LET key    == EntryKey(i)
                offset == ApproximateOffsetOf(TableOf(i), key)
                blocks == files[TableOf(i)].blocks
            IN  offset # files[TableOf(i)].metaindex_handle
                /\ BlockSeek(NewBlockIterator(blocks[offset]), key).key_ = key

\* TableBuilder::Finish: wherever an append or a flush fails, the status of the whole table
\* is the error; a table without an error is complete.
FailureNoticed ==
    Unused =>
        LET entries == Sorted(DOMAIN history)
            whole   == BuildTable(entries, MaxAppends)
        IN  whole.ok /\ \A n \in 0 .. MaxAppends :
                LET t == BuildTable(entries, n)
                IN  IF t.ok THEN t.blocks = whole.blocks /\ t.file_size = whole.file_size
                    ELSE DOMAIN t.blocks \subseteq DOMAIN whole.blocks /\ t.file_size < whole.file_size
=============================================================================
