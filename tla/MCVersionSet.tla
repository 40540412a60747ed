---------------------------- MODULE MCVersionSet ----------------------------
(* Instances of VersionSet for TLC. *)
EXTENDS VersionSet
=============================================================================
