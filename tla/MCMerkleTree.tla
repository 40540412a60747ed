---------------------------- MODULE MCMerkleTree ----------------------------
(* MerkleTree with hashes that never agree by accident: a hash is the sequence of the *)
(* messages below it.                                                                *)
EXTENDS MerkleTree

R(value) == [key |-> <<1>>, value |-> value]

\* Two values as the buffers assume, a deletion, a value that is too short, one that is
\* too long, and one that does not fit
Full == {R(<<0, 1>>), R(<<1, 1>>)}
Odd == {R(<<>>), R(<<1>>), R(<<0, 1, 0>>), R([b \in 1 .. 19 |-> 0])}

Runs(contents, lengths) == UNION {[1 .. n -> contents] : n \in lengths}

\* Few records of all kinds, up to more full ones than the tree has leaves, and up to more
\* than the array has nodes
SmallMemtables ==
    Runs(Full \cup Odd, 0 .. 3) \cup Runs(Full, 4 .. N + 2) \cup Runs({R(<<0, 1>>)}, N + 3 .. 2 * N + 2)

Garbage == {<<<<2>>>>}
HashOf(message) == <<message>>
HashOfPair(l, r) == l \o r
=============================================================================
