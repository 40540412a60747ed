----------------------------- MODULE Iterators ------------------------------
(***************************************************************************)
(* The iterators that a read is made of (table/block.cpp, two_level_       *)
(* iterator.cpp, merger.cpp, table.cpp, db/memtable.cpp, version_set.cpp). *)
(* An iterator is a record whose field "class" says which operations it    *)
(* has; an operation maps an iterator to the iterator after it.            *)
(***************************************************************************)
EXTENDS TableBuilder

VARIABLES
    mem,        \* the memtable: the value of each internal key
    files,      \* the tables, by number
    bad         \* the blocks that cannot be read: pairs of a number and an offset

\* An iterator that is never valid
NewErrorIterator == [class |-> "empty", ok |-> FALSE]
-----------------------------------------------------------------------------
(* Block::Iter.  current_ is the index of an entry, behind the last one if  *)
(* the iterator is not valid; "next" is where value_ ends.                 *)

NewBlockIterator(block) ==
    [class |-> "block", block |-> block, current_ |-> Len(block.entries) + 1,
     restart_index_ |-> Len(block.restarts) + 1, key_ |-> <<>>, next |-> 0, ok |-> TRUE]

Invalid(it) == [it EXCEPT !.current_ = Len(it.block.entries) + 1,
                          !.restart_index_ = Len(it.block.restarts) + 1]
CorruptionError(it) == [Invalid(it) EXCEPT !.ok = FALSE, !.key_ = <<>>]

SeekToRestartPoint(it, index) ==
    [it EXCEPT !.key_ = <<>>, !.restart_index_ = index, !.next = it.block.restarts[index]]

BlockValid(it) == it.class = "block" /\ it.current_ <= Len(it.block.entries)
BlockOk(it) == it.ok
BlockValue(it) == it.block.entries[it.current_].value

TakeEntry(it, e, restarts) ==
    IF Len(it.key_) < e.shared THEN CorruptionError(it)
    ELSE [it EXCEPT !.current_ = it.next, !.next = it.next + 1,
                    !.key_ = SubSeq(it.key_, 1, e.shared) \o e.delta,
                    !.restart_index_ = Max({@} \cup {i \in DOMAIN restarts :
                                                        i > @ /\ restarts[i] < it.next})]

ParseNextKey(it) ==
    IF it.next > Len(it.block.entries) THEN Invalid(it)
    ELSE TakeEntry(it, it.block.entries[it.next], it.block.restarts)

\* ParseNextKey until it fails or the end of the entry has come to a given entry
RECURSIVE ParseUpTo(_, _)
ParseUpTo(it, limit) ==
    IF BlockValid(it) /\ it.next < limit THEN ParseUpTo(ParseNextKey(it), limit) ELSE it

\* The last entry before the given one, from a restart point before it
ScanFrom(it, points, limit) ==
    IF points = {} THEN Invalid(it)
    ELSE ParseUpTo(ParseNextKey(SeekToRestartPoint(it, Max(points))), limit)

BlockPrev(it) ==
    ScanFrom(it, {i \in DOMAIN it.block.restarts : i <= it.restart_index_
                                                  /\ it.block.restarts[i] < it.current_},
             it.current_)

BlockNext(it) == ParseNextKey(it)

BlockSeekToFirst(it) ==
    IF it.class = "empty" THEN it ELSE ParseNextKey(SeekToRestartPoint(it, 1))
BlockSeekToLast(it) ==
    IF it.class = "empty" THEN it
    ELSE ScanFrom(it, DOMAIN it.block.restarts, Len(it.block.entries) + 1)

\* The last restart point with a key before the target, 0 if one of them has a prefix
RECURSIVE SearchRestarts(_, _, _, _)
SearchRestarts(block, target, left, right) ==
    LET mid == (left + right + 1) \div 2
        e   == block.entries[block.restarts[mid]]
    IN  IF left >= right THEN left
        ELSE IF e.shared # 0 THEN 0
        ELSE IF Less(e.delta, target) THEN SearchRestarts(block, target, mid, right)
        ELSE SearchRestarts(block, target, left, mid - 1)

RECURSIVE ParseUntil(_, _)
ParseUntil(it, target) ==
    IF BlockValid(it) /\ Less(it.key_, target) THEN ParseUntil(ParseNextKey(it), target) ELSE it

SeekFrom(it, left, target) ==
    IF left = 0 THEN CorruptionError(it)
    ELSE ParseUntil(ParseNextKey(SeekToRestartPoint(it, left)), target)

BlockSeek(it, target) ==
    IF it.class = "empty" THEN it
    ELSE SeekFrom(it, SearchRestarts(it.block, target, 1, Len(it.block.restarts)), target)
-----------------------------------------------------------------------------
(* Tables *)

ReadBlockOk(number, offset) == <<number, offset>> \notin bad

\* Table::BlockReader
BlockReader(number, handle) ==
    IF ReadBlockOk(number, handle.offset) THEN NewBlockIterator(files[number].blocks[handle.offset])
    ELSE NewErrorIterator

\* Table::Open
IndexBlock(number) == files[number].blocks[files[number].index_handle]
Opens(number) == files[number].ok /\ ReadBlockOk(number, files[number].index_handle)

T == INSTANCE TwoLevelIterator
    WITH IndexValid <- BlockValid, IndexValue <- BlockValue, IndexOk <- BlockOk,
         IndexSeek <- BlockSeek, IndexSeekToFirst <- BlockSeekToFirst,
         IndexSeekToLast <- BlockSeekToLast, IndexNext <- BlockNext, IndexPrev <- BlockPrev,
         DataValid <- BlockValid, DataOk <- BlockOk, DataSeek <- BlockSeek,
         DataSeekToFirst <- BlockSeekToFirst, DataSeekToLast <- BlockSeekToLast,
         DataNext <- BlockNext, DataPrev <- BlockPrev, block_function_ <- BlockReader

\* TableCache::NewIterator and Table::NewIterator
NewTableIterator(number) ==
    IF Opens(number) THEN T!NewTwoLevelIterator("table", number, NewBlockIterator(IndexBlock(number)))
    ELSE NewErrorIterator

TableValid(it) == it.class = "table" /\ T!Valid(it)
TableOk(it) == IF it.class = "empty" THEN it.ok ELSE T!StatusOk(it)
TableSeek(it, target) == IF it.class = "empty" THEN it ELSE T!Seek(it, target)
TableSeekToFirst(it) == IF it.class = "empty" THEN it ELSE T!SeekToFirst(it)
TableSeekToLast(it) == IF it.class = "empty" THEN it ELSE T!SeekToLast(it)

\* Table::ReadMeta and ReadFilter: the filter, at most one.  An error is no filter.
ReadMeta(number) ==
    LET meta == files[number].metaindex_handle
        filter == files[number].blocks[meta]
    IN  IF ReadBlockOk(number, meta) /\ filter # <<>> /\ ReadBlockOk(number, filter[1])
        THEN <<files[number].blocks[filter[1]]>> ELSE <<>>

IndexEntry(number, key) == BlockSeek(NewBlockIterator(IndexBlock(number)), key)

\* Table::InternalGet: the entry that the saver is called with, if any
Saved(b) == [ok |-> b.ok, entry |-> IF BlockValid(b) THEN <<[key |-> b.key_, value |-> BlockValue(b)]>>
                                    ELSE <<>>]
InternalGet(number, k) ==
    LET iiter  == IndexEntry(number, k)
        filter == ReadMeta(number)
    IN  IF ~Opens(number) THEN [ok |-> FALSE, entry |-> <<>>]
        ELSE IF ~BlockValid(iiter)
             \/ (filter # <<>> /\ ~KeyMayMatch(filter[1], BlockValue(iiter).offset, k))
        THEN [ok |-> iiter.ok, entry |-> <<>>]
        ELSE Saved(BlockSeek(BlockReader(number, BlockValue(iiter)), k))

\* Table::ApproximateOffsetOf
ApproximateOffsetOf(number, key) ==
    LET iiter == IndexEntry(number, key)
    IN  IF BlockValid(iiter) THEN BlockValue(iiter).offset ELSE files[number].metaindex_handle
-----------------------------------------------------------------------------
(* MemTableIterator, on a list that grows: the entry it is at, if any       *)

NewMemIterator == [class |-> "mem", at |-> <<>>, ok |-> TRUE]

Smallest(keys) ==
    IF keys = {} THEN <<>> ELSE CHOOSE k \in keys : \A l \in keys : ~Less(l, k)
Largest(keys) ==
    IF keys = {} THEN <<>> ELSE CHOOSE k \in keys : \A l \in keys : ~Less(k, l)

(* Version::LevelFileNumIterator, over the files of a level in key order    *)

NewFilesIterator(flist) ==
    [class |-> "files", flist |-> flist, index_ |-> Len(flist) + 1, ok |-> TRUE]

FilesValid(it) == it.index_ <= Len(it.flist)
FilesValue(it) == it.flist[it.index_].number
FilesSeek(it, target) ==
    [it EXCEPT !.index_ = Min({i \in DOMAIN it.flist : ~Less(it.flist[i].largest, target)}
                              \cup {Len(it.flist) + 1})]
FilesSeekToFirst(it) == [it EXCEPT !.index_ = 1]
FilesSeekToLast(it) == [it EXCEPT !.index_ = Max({1, Len(it.flist)})]
FilesNext(it) == [it EXCEPT !.index_ = @ + 1]
FilesPrev(it) == [it EXCEPT !.index_ = IF @ = 1 THEN Len(it.flist) + 1 ELSE @ - 1]

GetFileIterator(of, number) == NewTableIterator(number)

\* Version::NewConcatenatingIterator
L == INSTANCE TwoLevelIterator
    WITH IndexValid <- FilesValid, IndexValue <- FilesValue, IndexOk <- BlockOk,
         IndexSeek <- FilesSeek, IndexSeekToFirst <- FilesSeekToFirst,
         IndexSeekToLast <- FilesSeekToLast, IndexNext <- FilesNext, IndexPrev <- FilesPrev,
         DataValid <- TableValid, DataOk <- TableOk, DataSeek <- TableSeek,
         DataSeekToFirst <- TableSeekToFirst, DataSeekToLast <- TableSeekToLast,
         DataNext <- T!Next, DataPrev <- T!Prev, block_function_ <- GetFileIterator

NewConcatenatingIterator(flist) == L!NewTwoLevelIterator("level", 0, NewFilesIterator(flist))
-----------------------------------------------------------------------------
(* The children of the merging iterator: a memtable, a table or a level     *)

ChildValid(it) ==
    CASE it.class = "mem"   -> it.at # <<>>
      [] it.class = "table" -> T!Valid(it)
      [] it.class = "level" -> L!Valid(it)
      [] it.class = "empty" -> FALSE

\* The block iterator a child stands on
Innermost(it) == IF it.class = "level" THEN it.data_iter_.data_iter_ ELSE it.data_iter_

Key(it) == IF it.class = "mem" THEN it.at ELSE Innermost(it).key_
ChildValue(it) == IF it.class = "mem" THEN mem[it.at] ELSE BlockValue(Innermost(it))

ChildOk(it) ==
    CASE it.class = "table" -> T!StatusOk(it)
      [] it.class = "level" -> L!StatusOk(it)
      [] OTHER -> it.ok

ChildSeek(it, target) ==
    CASE it.class = "mem"   -> [it EXCEPT !.at = Smallest({k \in DOMAIN mem : ~Less(k, target)})]
      [] it.class = "table" -> T!Seek(it, target)
      [] it.class = "level" -> L!Seek(it, target)
      [] it.class = "empty" -> it

ChildSeekToFirst(it) ==
    CASE it.class = "mem"   -> [it EXCEPT !.at = Smallest(DOMAIN mem)]
      [] it.class = "table" -> T!SeekToFirst(it)
      [] it.class = "level" -> L!SeekToFirst(it)
      [] it.class = "empty" -> it

ChildSeekToLast(it) ==
    CASE it.class = "mem"   -> [it EXCEPT !.at = Largest(DOMAIN mem)]
      [] it.class = "table" -> T!SeekToLast(it)
      [] it.class = "level" -> L!SeekToLast(it)
      [] it.class = "empty" -> it

ChildNext(it) ==
    CASE it.class = "mem"   -> [it EXCEPT !.at = Smallest({k \in DOMAIN mem : Less(it.at, k)})]
      [] it.class = "table" -> T!Next(it)
      [] it.class = "level" -> L!Next(it)

ChildPrev(it) ==
    CASE it.class = "mem"   -> [it EXCEPT !.at = Largest({k \in DOMAIN mem : Less(k, it.at)})]
      [] it.class = "table" -> T!Prev(it)
      [] it.class = "level" -> L!Prev(it)
-----------------------------------------------------------------------------
(* MergingIterator.  With one child NewMergingIterator returns that child,  *)
(* which behaves in the same way.                                          *)

NewMergingIterator(children) ==
    [children_ |-> children, current_ |-> 0, direction_ |-> "kForward"]

MergeValid(it) == it.current_ # 0
MergeKey(it) == Key(it.children_[it.current_])
MergeValue(it) == ChildValue(it.children_[it.current_])
MergeOk(it) == \A i \in DOMAIN it.children_ : ChildOk(it.children_[i])

ValidChildren(it) == {i \in DOMAIN it.children_ : ChildValid(it.children_[i])}

\* The first of the children with the smallest key, the last of those with the largest
FindSmallest(it) ==
    LET smallest == {i \in ValidChildren(it) : \A j \in ValidChildren(it) :
                        ~Less(Key(it.children_[j]), Key(it.children_[i]))}
    IN  [it EXCEPT !.current_ = IF smallest = {} THEN 0 ELSE Min(smallest)]

FindLargest(it) ==
    LET largest == {i \in ValidChildren(it) : \A j \in ValidChildren(it) :
                        ~Less(Key(it.children_[i]), Key(it.children_[j]))}
    IN  [it EXCEPT !.current_ = IF largest = {} THEN 0 ELSE Max(largest)]

\* The other children are put behind the key, or before it, when the direction changes.
SkipKey(child, key) == IF ChildValid(child) /\ Key(child) = key THEN ChildNext(child) ELSE child
AfterKey(child, key) == SkipKey(ChildSeek(child, key), key)

\* Mutant: a child stays at its first entry at the key or behind it.
StepBack_NoPrev(child) == IF ChildValid(child) THEN child ELSE ChildSeekToLast(child)

StepBack(child) == IF ChildValid(child) THEN ChildPrev(child) ELSE ChildSeekToLast(child)
BeforeKey(child, key) == StepBack(ChildSeek(child, key))

Turn(it, direction, others) ==
    IF it.direction_ = direction THEN it
    ELSE [it EXCEPT !.direction_ = direction,
                    !.children_ = [others EXCEPT ![it.current_] = it.children_[it.current_]]]

AfterKeys(it) == [i \in DOMAIN it.children_ |-> AfterKey(it.children_[i], MergeKey(it))]
BeforeKeys(it) == [i \in DOMAIN it.children_ |-> BeforeKey(it.children_[i], MergeKey(it))]

Positioned(it, direction, children) ==
    [it EXCEPT !.children_ = children, !.direction_ = direction]

MergeSeek(it, target) ==
    FindSmallest(Positioned(it, "kForward",
                     [i \in DOMAIN it.children_ |-> ChildSeek(it.children_[i], target)]))
MergeSeekToFirst(it) ==
    FindSmallest(Positioned(it, "kForward",
                     [i \in DOMAIN it.children_ |-> ChildSeekToFirst(it.children_[i])]))
MergeSeekToLast(it) ==
    FindLargest(Positioned(it, "kReverse",
                    [i \in DOMAIN it.children_ |-> ChildSeekToLast(it.children_[i])]))
MergeNext(it) ==
    FindSmallest([Turn(it, "kForward", AfterKeys(it)) EXCEPT !.children_[it.current_] = ChildNext(@)])
MergePrev(it) ==
    FindLargest([Turn(it, "kReverse", BeforeKeys(it)) EXCEPT !.children_[it.current_] = ChildPrev(@)])
=============================================================================
