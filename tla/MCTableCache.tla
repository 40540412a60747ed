---------------------------- MODULE MCTableCache ----------------------------
(* TableCache with hashes that put two of three keys in one bucket *)
EXTENDS TableCache, TLC

ModHash(n) == [k \in 1 .. n |-> k % 2]
TableHash3 == ModHash(3)
BlockHash4 == ModHash(MaxOpens)
Symmetric == Permutations(Threads)
=============================================================================
