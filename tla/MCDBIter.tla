------------------------------ MODULE MCDBIter ------------------------------
(* DBIter on three keys, two of which share a prefix: a deleted key, one that is *)
(* overwritten, and one that is written after a deletion of nothing              *)
EXTENDS DBIter

Keys3 == {<<1>>, <<1, 3>>, <<3>>}

PutOp(k) == [key |-> k, type |-> kTypeValue]
DeleteOp(k) == [key |-> k, type |-> kTypeDeletion]

SomeHistories ==
    {<<PutOp(<<1>>), PutOp(<<1, 3>>), PutOp(<<3>>), DeleteOp(<<1, 3>>)>>,
     <<PutOp(<<1, 3>>), PutOp(<<1, 3>>), DeleteOp(<<3>>), PutOp(<<3>>)>>}
=============================================================================
