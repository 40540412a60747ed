------------------------------ MODULE MCRepair ------------------------------
(* RepairDB on up to three files, called twice; the lower key has the newer entry. *)
EXTENDS Repair

NewerBelow == {<<1, 2>>, <<2, 1>>}
=============================================================================
