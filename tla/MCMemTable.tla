----------------------------- MODULE MCMemTable -----------------------------
(* MemTable with sizes that make entries and nodes cross the blocks of the arena *)
EXTENDS MemTable

Sizes == [Deletion |-> 3, Value |-> 9]
=============================================================================
