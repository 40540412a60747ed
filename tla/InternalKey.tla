---------------------------- MODULE InternalKey -----------------------------
(***************************************************************************)
(* Internal keys and their order (db/dbformat.cpp, util/comparator.cpp).   *)
(* A string is a sequence of bytes.  An internal key is a user key with    *)
(* one more element, the packed sequence number and type.                  *)
(***************************************************************************)
EXTENDS Integers, Sequences, SequencesExt, FiniteSetsExt

CONSTANTS
    MaxByte,                \* 0xff
    kMaxSequenceNumber

kTypeDeletion == 0
kTypeValue == 1
kValueTypeForSeek == kTypeValue

PackSequenceAndType(seq, t) == 2 * seq + t
AppendInternalKey(user_key, seq, t) == Append(user_key, PackSequenceAndType(seq, t))
ExtractUserKey(key) == Front(key)
SequenceOf(key) == Last(key) \div 2
TypeOf(key) == Last(key) % 2

Differing(a, b) == {i \in 1 .. Min({Len(a), Len(b)}) : a[i] # b[i]}

\* BytewiseComparatorImpl::Compare(a, b) < 0
UserLess(a, b) ==
    LET d == Differing(a, b)
    IN  IF d = {} THEN Len(a) < Len(b) ELSE a[Min(d)] < b[Min(d)]

\* InternalKeyComparator::Compare(a, b) < 0: the newest entry of a user key comes first.
Less(a, b) ==
    \/ UserLess(ExtractUserKey(a), ExtractUserKey(b))
    \/ ExtractUserKey(a) = ExtractUserKey(b) /\ Last(a) > Last(b)

\* BytewiseComparatorImpl::FindShortestSeparator
UserSeparator(start, limit) ==
    LET d == Differing(start, limit)
        i == Min(d)
    IN  IF d # {} /\ start[i] < MaxByte /\ start[i] + 1 < limit[i]
        THEN Append(SubSeq(start, 1, i - 1), start[i] + 1)
        ELSE start

\* BytewiseComparatorImpl::FindShortSuccessor
UserSuccessor(key) ==
    LET small == {i \in DOMAIN key : key[i] # MaxByte}
        i     == Min(small)
    IN  IF small = {} THEN key ELSE Append(SubSeq(key, 1, i - 1), key[i] + 1)

\* A user key that became shorter and larger gets the earliest possible number.
Shortened(key, user_key) ==
    IF Len(user_key) < Len(ExtractUserKey(key)) /\ UserLess(ExtractUserKey(key), user_key)
    THEN AppendInternalKey(user_key, kMaxSequenceNumber, kValueTypeForSeek)
    ELSE key

FindShortSuccessor(key) == Shortened(key, UserSuccessor(ExtractUserKey(key)))

FindShortestSeparator(start, limit) ==
    Shortened(start, UserSeparator(ExtractUserKey(start), ExtractUserKey(limit)))
=============================================================================
