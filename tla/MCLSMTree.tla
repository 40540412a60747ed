------------------------------ MODULE MCLSMTree ------------------------------
(* Instances of LSMTree for TLC. *)
EXTENDS LSMTree

Both == {"value", "deletion"}

Setup(writes, keys, types, outputs, snapshots, manual) ==
    [writes |-> writes, keys |-> keys, types |-> types, outputs |-> outputs,
     snapshots |-> snapshots, manual |-> manual]

\* Outputs cut in two without snapshots, snapshots without cut outputs, these with
\* CompactRange, and CompactRange with room for a table between its inputs
Apart == {Setup(4, 1 .. 3, Both, 2, FALSE, FALSE), Setup(4, {1, 2}, Both, 1, TRUE, FALSE),
          Setup(3, {1, 2}, Both, 1, TRUE, TRUE), Setup(5, 1 .. 3, {"value"}, 1, FALSE, TRUE)}

\* One key, a snapshot, and outputs cut in two
CutBetween == {Setup(4, {1}, Both, 2, TRUE, FALSE)}
=============================================================================
