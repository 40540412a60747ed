------------------------------ MODULE MCDBImpl ------------------------------
(* Small instances of DBImpl for TLC. *)
EXTENDS DBImpl

\* Level 0 reaches its trigger at two files, deeper levels at one more each.
MCLevelLimit == [l \in Levels |-> l + 2]

=============================================================================
