-------------------------- MODULE TwoLevelIterator --------------------------
(***************************************************************************)
(* An iterator over the data that an index iterator points to (table/      *)
(* two_level_iterator.cpp), for any kind of index and of data.  It is a    *)
(* record: the file it is of, the index and the data iterator, the handle  *)
(* the latter was made from, and status_.                                  *)
(***************************************************************************)
CONSTANTS
    IndexValid(_), IndexValue(_), IndexOk(_), IndexSeek(_, _), IndexSeekToFirst(_),
    IndexSeekToLast(_), IndexNext(_), IndexPrev(_),
    DataValid(_), DataOk(_), DataSeek(_, _), DataSeekToFirst(_), DataSeekToLast(_),
    DataNext(_), DataPrev(_),
    block_function_(_, _)

Null == [class |-> "null"]

NewTwoLevelIterator(class, of, index_iter) ==
    [class |-> class, of |-> of, index_iter_ |-> index_iter, data_iter_ |-> Null,
     data_block_handle_ |-> <<>>, ok |-> TRUE]

Valid(it) == it.data_iter_ # Null /\ DataValid(it.data_iter_)

StatusOk(it) ==
    IndexOk(it.index_iter_) /\ (it.data_iter_ # Null => DataOk(it.data_iter_)) /\ it.ok

\* SetDataIterator and SaveError
SetDataIterator(it, data_iter) ==
    [it EXCEPT !.ok = @ /\ (it.data_iter_ # Null => DataOk(it.data_iter_)), !.data_iter_ = data_iter]

OpenBlock(it, handle) ==
    IF it.data_iter_ # Null /\ handle = it.data_block_handle_ THEN it
    ELSE [SetDataIterator(it, block_function_(it.of, handle[1])) EXCEPT !.data_block_handle_ = handle]

InitDataBlock(it) ==
    IF IndexValid(it.index_iter_) THEN OpenBlock(it, <<IndexValue(it.index_iter_)>>)
    ELSE SetDataIterator(it, Null)

\* What is asked of the data iterator, if there is one
DataToFirst(it) == IF it.data_iter_ = Null THEN it ELSE [it EXCEPT !.data_iter_ = DataSeekToFirst(@)]
DataToLast(it) == IF it.data_iter_ = Null THEN it ELSE [it EXCEPT !.data_iter_ = DataSeekToLast(@)]
DataTo(it, target) ==
    IF it.data_iter_ = Null THEN it ELSE [it EXCEPT !.data_iter_ = DataSeek(@, target)]

RECURSIVE SkipEmptyDataBlocksForward(_), SkipEmptyDataBlocksBackward(_)
SkipEmptyDataBlocksForward(it) ==
    IF Valid(it) THEN it
    ELSE IF ~IndexValid(it.index_iter_) THEN SetDataIterator(it, Null)
    ELSE SkipEmptyDataBlocksForward(
            DataToFirst(InitDataBlock([it EXCEPT !.index_iter_ = IndexNext(@)])))

SkipEmptyDataBlocksBackward(it) ==
    IF Valid(it) THEN it
    ELSE IF ~IndexValid(it.index_iter_) THEN SetDataIterator(it, Null)
    ELSE SkipEmptyDataBlocksBackward(
            DataToLast(InitDataBlock([it EXCEPT !.index_iter_ = IndexPrev(@)])))

Seek(it, target) ==
    SkipEmptyDataBlocksForward(
        DataTo(InitDataBlock([it EXCEPT !.index_iter_ = IndexSeek(@, target)]), target))

SeekToFirst(it) ==
    SkipEmptyDataBlocksForward(
        DataToFirst(InitDataBlock([it EXCEPT !.index_iter_ = IndexSeekToFirst(@)])))

SeekToLast(it) ==
    SkipEmptyDataBlocksBackward(
        DataToLast(InitDataBlock([it EXCEPT !.index_iter_ = IndexSeekToLast(@)])))

Next(it) == SkipEmptyDataBlocksForward([it EXCEPT !.data_iter_ = DataNext(@)])
Prev(it) == SkipEmptyDataBlocksBackward([it EXCEPT !.data_iter_ = DataPrev(@)])
=============================================================================
