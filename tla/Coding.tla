------------------------------- MODULE Coding -------------------------------
(***************************************************************************)
(* Variable-length integers and length-prefixed strings (util/coding.cpp). *)
(* A string is a sequence of bytes, a byte a number.  A Get operator       *)
(* returns whether it succeeded, the value, and the rest of the input.     *)
(***************************************************************************)
EXTENDS Naturals, Sequences, SequencesExt, FiniteSetsExt

Failed(input) == [ok |-> FALSE, value |-> 0, rest |-> input]

\* EncodeVarint32 and EncodeVarint64: 7 bits a byte, the least significant first
RECURSIVE EncodeVarint(_)
EncodeVarint(v) ==
    IF v < 128 THEN <<v>> ELSE <<128 + (v % 128)>> \o EncodeVarint(v \div 128)

\* GetVarint32Ptr (limit 5) and GetVarint64Ptr (limit 10)
GetVarint(input, limit) ==
    LET ends == {i \in DOMAIN input : input[i] < 128 /\ i <= limit}
        n    == Min(ends)
    IN  IF ends = {} THEN Failed(input)
        ELSE [ok |-> TRUE, rest |-> SubSeq(input, n + 1, Len(input)),
              value |-> FoldRight(LAMBDA byte, v : (byte % 128) + 128 * v, SubSeq(input, 1, n), 0)]

GetVarint32(input) == GetVarint(input, 5)
GetVarint64(input) == GetVarint(input, 10)

PutLengthPrefixedSlice(value) == EncodeVarint(Len(value)) \o value

GetLengthPrefixedSlice(input) ==
    LET len == GetVarint32(input)
    IN  IF ~len.ok \/ Len(len.rest) < len.value THEN Failed(input)
        ELSE [ok |-> TRUE, value |-> SubSeq(len.rest, 1, len.value),
              rest |-> SubSeq(len.rest, len.value + 1, Len(len.rest))]
=============================================================================
