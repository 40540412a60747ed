------------------------------- MODULE Repair -------------------------------
(***************************************************************************)
(* RepairDB (db/repair.cpp) on a directory of the database, with deaths of *)
(* the process between its steps.  Every call is in a process of its own,  *)
(* so the listing of the directory is what the directory holds.            *)
(*                                                                         *)
(* The database writes plain files through ocalls.  NewSequentialFile and  *)
(* NewWritableFile are those of the protected file system of the enclave:  *)
(* the first opens no plain file, and what the second writes is no table   *)
(* and no log to a reader of plain files.                                  *)
(***************************************************************************)
EXTENDS FiniteSetsExt, Integers

CONSTANTS
    Entries,        \* keys with their sequence numbers
    Numbers,        \* the numbers of the files that are there before
    MaxTables,      \* bound: tables that are there before
    MaxRuns         \* bound: calls of RepairDB

\* A death leaves at most a copy more, and so does a damaged table in every run.
MaxNumber == Max(Numbers) + 1 + MaxRuns * (Cardinality(Numbers) + MaxRuns)

\* File numbers, keys and sequence numbers are numbers, and finitely many.
ASSUME RepairAssumption ==
    /\ Numbers \subseteq Nat /\ \E n \in Numbers : \A m \in Numbers : m <= n
    /\ \A e \in Entries : e[1] \in Nat /\ e[2] \in Nat
    /\ Entries # {} /\ \E e \in Entries : \A d \in Entries : d[2] <= e[2]
    /\ MaxTables \in Nat /\ MaxRuns \in Nat \ {0}

VARIABLES
    files,          \* the directory and lost/: contents by name
    start,          \* history: the files before the first call
    runs,           \* how often RepairDB was called
    logs_, table_numbers_, manifests_, tables_, next_file_number_,
    src,            \* the table that RepairTable copies: its meta, entries and copy
    pc

repairer == <<logs_, table_numbers_, manifests_, tables_, next_file_number_, src>>
vars == <<files, start, runs, repairer, pc>>

\* Names: the directory, the type and the number
Log(n) == <<"db", "log", n>>
Table(n) == <<"db", "table", n>>
Manifest(n) == <<"db", "manifest", n>>
Temp == <<"db", "temp", 1>>
Current == <<"db", "current", 0>>
Lost(name) == <<"lost", name[2], name[3]>>
OfType(type) == {n \in {name[3] : name \in DOMAIN files} : <<"db", type, n>> \in DOMAIN files}

Contents(protected, entries, whole) ==
    [protected |-> protected, entries |-> entries, whole |-> whole]
Partial == Contents(TRUE, {}, FALSE)

\* The file operations; a file that is not there is not renamed, and nobody is told.
Renamed(from, to) ==
    IF from \in DOMAIN files
    THEN [name \in (DOMAIN files \ {from}) \cup {to} |->
            IF name = to THEN files[from] ELSE files[name]]
    ELSE files
Created(name, contents) ==
    [n \in DOMAIN files \cup {name} |-> IF n = name THEN contents ELSE files[n]]
Deleted(name) == [n \in DOMAIN files \ {name} |-> files[n]]
ArchiveFile(name) == files' = Renamed(name, Lost(name))

NewRepairer ==
    /\ logs_' = {} /\ table_numbers_' = {} /\ manifests_' = {} /\ tables_' = {}
    /\ next_file_number_' = 1 /\ src' = <<>>

\* What the database left: plain tables, some of them damaged, a log, and a descriptor or none
Left(tables, logs, described, readable, whole) ==
    [name \in {Table(n) : n \in tables} \cup {Log(n) : n \in logs}
              \cup {Manifest(n) : n \in described} |->
        CASE name[2] = "table" -> Contents(FALSE, readable[name[3]], whole[name[3]])
          [] name[2] = "log" -> Contents(FALSE, Entries, TRUE)
          [] name[2] = "manifest" -> Contents(FALSE, {}, FALSE)]

Init ==
    /\ \E tables \in SUBSET Numbers, logs \in SUBSET Numbers :
        /\ tables \cap logs = {} /\ Cardinality(tables) \in 1 .. MaxTables /\ Cardinality(logs) <= 1
        /\ \E readable \in [tables -> SUBSET Entries], whole \in [tables -> BOOLEAN],
              described \in {{}, {1}, {1, Max(Numbers) + 1}} :
            /\ \A n \in tables : whole[n] => readable[n] # {}
            /\ start = Left(tables, logs, described, readable, whole)
    /\ files = start
    /\ runs = 0 /\ logs_ = {} /\ table_numbers_ = {} /\ manifests_ = {} /\ tables_ = {}
    /\ next_file_number_ = 1 /\ src = <<>> /\ pc = "idle"
-----------------------------------------------------------------------------
\* Mutant: the largest number that was found is taken for a copy.
FindFiles_Largest ==
    /\ pc = "idle" /\ runs < MaxRuns
    /\ runs' = runs + 1
    /\ logs_' = OfType("log") /\ table_numbers_' = OfType("table")
    /\ manifests_' = OfType("manifest")
    /\ next_file_number_' = Max({1} \cup {name[3] : name \in {x \in DOMAIN files : x[1] = "db" /\ x[2] # "manifest"}})
    /\ pc' = "run"
    /\ UNCHANGED <<files, start, tables_, src>>

FindFiles ==
    /\ pc = "idle" /\ runs < MaxRuns
    /\ runs' = runs + 1
    /\ logs_' = OfType("log") /\ table_numbers_' = OfType("table")
    /\ manifests_' = OfType("manifest")
    /\ next_file_number_' = Max({1} \cup {name[3] + 1 :
            name \in {x \in DOMAIN files : x[1] = "db" /\ x[2] # "manifest"}})
    /\ pc' = "run"
    /\ UNCHANGED <<files, start, tables_, src>>

\* ConvertLogToTable opens the log as a protected file, fails, and the log is archived.
ConvertLogToTable(log) ==
    /\ pc = "run" /\ log \in logs_
    /\ ~files[Log(log)].protected
    /\ ArchiveFile(Log(log)) /\ logs_' = logs_ \ {log}
    /\ UNCHANGED <<start, runs, table_numbers_, manifests_, tables_, next_file_number_, src, pc>>

\* NewTableIterator: the entries that it yields, and whether its status is OK at the end
Scanned(n) ==
    IF files[Table(n)].protected THEN [entries |-> {}, ok |-> FALSE]
    ELSE [entries |-> files[Table(n)].entries, ok |-> files[Table(n)].whole]

\* smallest and largest are keys, if there are any.
TableInfo(n, entries) ==
    LET keys == {e[1] : e \in entries}
    IN  [number |-> n,
         smallest |-> {k \in keys : \A other \in keys : k <= other},
         largest |-> {k \in keys : \A other \in keys : k >= other},
         max_sequence |-> Max({0} \cup {e[2] : e \in entries})]

\* A table that is read to its end without an error is one of the result; RepairTable begins
\* to copy the others, unless the copy cannot be created.
ScanTable(n) ==
    /\ pc = "run" /\ logs_ = {} /\ n \in table_numbers_
    /\ table_numbers_' = table_numbers_ \ {n}
    /\ LET s == Scanned(n) IN
        \/ /\ s.ok /\ tables_' = tables_ \cup {TableInfo(n, s.entries)}
           /\ UNCHANGED <<files, next_file_number_, src, pc>>
        \/ /\ ~s.ok
           /\ next_file_number_' = next_file_number_ + 1
           /\ \/ /\ files' = Created(Table(next_file_number_), Partial)
                 /\ src' = [meta |-> TableInfo(n, s.entries), entries |-> s.entries,
                            copy |-> Table(next_file_number_)]
                 /\ pc' = "copied"
              \/ UNCHANGED <<files, src, pc>>
           /\ UNCHANGED tables_
    /\ UNCHANGED <<start, runs, logs_, manifests_>>

\* Mutant: the input of the copy is left where it is.
RepairTable_Archive_Not ==
    /\ pc = "copied"
    /\ pc' = "archived" /\ UNCHANGED files
    /\ UNCHANGED <<start, runs, repairer>>

RepairTable_Archive ==
    /\ pc = "copied"
    /\ ArchiveFile(Table(src.meta.number)) /\ pc' = "archived"
    /\ UNCHANGED <<start, runs, repairer>>

\* Mutant: a copy without an entry is finished too.
RepairTable_Finish_Empty ==
    /\ pc = "archived"
    /\ files' = Created(src.copy, Contents(TRUE, src.entries, src.entries # {}))
    /\ pc' = "finished"
    /\ UNCHANGED <<start, runs, repairer>>

\* Finish and Close; a copy without an entry is abandoned and stays in the directory, unless
\* one of them fails.
RepairTable_Finish ==
    /\ pc = "archived"
    /\ \/ src.entries = {} /\ pc' = "run" /\ UNCHANGED files
       \/ /\ src.entries # {}
          /\ files' = Created(src.copy, Contents(TRUE, src.entries, TRUE)) /\ pc' = "finished"
       \/ files' = Deleted(src.copy) /\ pc' = "run"
    /\ UNCHANGED <<start, runs, repairer>>

RepairTable_Rename ==
    /\ pc = "finished"
    /\ files' = Renamed(src.copy, Table(src.meta.number))
    /\ tables_' = tables_ \cup {src.meta} /\ pc' = "run"
    /\ UNCHANGED <<start, runs, logs_, table_numbers_, manifests_, next_file_number_, src>>
-----------------------------------------------------------------------------
Edit ==
    [files |-> tables_, next_file |-> next_file_number_,
     last_sequence |-> Max({0} \cup {t.max_sequence : t \in tables_})]

\* The descriptor is written under a temporary name; an error leaves the old one.
WriteDescriptor ==
    /\ pc = "run" /\ logs_ = {} /\ table_numbers_ = {}
    /\ \/ files' = Created(Temp, [protected |-> TRUE, edit |-> Edit]) /\ pc' = "described"
       \/ files' \in {files, Deleted(Temp)} /\ pc' = "failed"
    /\ UNCHANGED <<start, runs, repairer>>

\* "Discard older manifests", and "Install new manifest"
ArchiveManifest(n) ==
    /\ pc = "described" /\ n \in manifests_
    /\ ArchiveFile(Manifest(n)) /\ manifests_' = manifests_ \ {n}
    /\ UNCHANGED <<start, runs, logs_, table_numbers_, tables_, next_file_number_, src, pc>>

InstallManifest ==
    /\ pc = "described" /\ manifests_ = {}
    /\ files' = Renamed(Temp, Manifest(1)) /\ pc' = "installed"
    /\ UNCHANGED <<start, runs, repairer>>

SetCurrentFile ==
    /\ \/ /\ pc = "installed"
          /\ \/ files' = Created(Temp, [protected |-> FALSE, manifest |-> 1]) /\ pc' = "named"
             \/ files' = Deleted(Temp) /\ pc' = "failed"
       \/ pc = "named" /\ files' = Renamed(Temp, Current) /\ pc' = "ok"
    /\ UNCHANGED <<start, runs, repairer>>

\* The process ends, in the middle of RepairDB or after it.
Exit ==
    /\ pc # "idle" /\ pc' = "idle" /\ NewRepairer
    /\ UNCHANGED <<files, start, runs>>

Next ==
    \/ FindFiles \/ RepairTable_Archive \/ RepairTable_Finish \/ RepairTable_Rename
    \/ WriteDescriptor \/ InstallManifest \/ SetCurrentFile \/ Exit
    \/ \E n \in 0 .. MaxNumber : ConvertLogToTable(n) \/ ScanTable(n) \/ ArchiveManifest(n)

Spec == Init /\ [][Next]_vars
-----------------------------------------------------------------------------
(* Properties *)

TypeOK ==
    /\ \A name \in DOMAIN files :
        /\ name \in {"db", "lost"} \X {"log", "table", "manifest", "temp", "current"} \X (0 .. MaxNumber)
        /\ name[2] \in {"log", "table"} => files[name] \in
                [protected : BOOLEAN, entries : SUBSET Entries, whole : BOOLEAN]
    /\ logs_ \cup table_numbers_ \cup manifests_ \subseteq 0 .. MaxNumber
    /\ next_file_number_ \in 1 .. MaxNumber
    /\ {t.number : t \in tables_} \subseteq 0 .. MaxNumber
    /\ runs \in 0 .. MaxRuns

\* Repairer, "next_file_number_ = number + 1" and RepairTable: whatever dies or fails, in
\* whatever run, a table that can be read to its end stays what and where it is, and a
\* repair that returns OK has it in the new descriptor.
IntactStay ==
    \A n \in Numbers : Table(n) \in DOMAIN start /\ start[Table(n)].whole =>
        /\ Table(n) \in DOMAIN files /\ files[Table(n)] = start[Table(n)]
        /\ pc = "ok" => TableInfo(n, start[Table(n)].entries) \in files[Manifest(1)].edit.files

\* WriteDescriptor: numbers stay below the bound of a repair, and when RepairDB returns OK,
\* CURRENT names the new descriptor; that lists whole tables of the directory, in the first
\* run all of them, with their ranges and sequence numbers, and its next file number is
\* above every table and log of the directory.
DescriptorExact ==
    /\ TypeOK
    /\ pc = "ok" =>
        LET edit == files[Manifest(files[Current].manifest)].edit
            listed == {t.number : t \in edit.files}
            whole == {n \in OfType("table") : files[Table(n)].whole}
        IN  /\ listed \subseteq whole /\ (runs = 1 => listed = whole)
            /\ \A t \in edit.files :
                /\ t = TableInfo(t.number, files[Table(t.number)].entries)
                /\ t.max_sequence <= edit.last_sequence
            /\ \A n \in OfType("table") \cup OfType("log") : n < edit.next_file

\* ArchiveFile and "RepairTable archives input file": until RepairDB is called again, each
\* table and log of before is in the directory or in lost/, with all that can be read of it.
FirstRunKeeps ==
    runs <= 1 => \A name \in DOMAIN start :
        name[2] \in {"log", "table"} =>
            \E kept \in {name, Lost(name)} : kept \in DOMAIN files /\ files[kept] = start[name]
=============================================================================
