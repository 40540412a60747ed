----------------------------- MODULE VersionSet -----------------------------
(***************************************************************************)
(* The files of a database (db/version_set.cpp and the parts of            *)
(* db/db_impl.cpp that create, log and delete files): versions and their   *)
(* reference counts, LogAndApply and the manifest, memtable and table      *)
(* compactions as far as files go, DeleteObsoleteFiles, and what is found  *)
(* when the process dies at any step and DB::Open recovers.                *)
(*                                                                         *)
(* An entry is its sequence number; a table holds a set of entries and a   *)
(* merge keeps all of those of its inputs.  A manifest is what the replay  *)
(* of its records gives.  The death of the process loses the memory and    *)
(* keeps the files as the operating system has them: log::Writer flushes   *)
(* each record, and log::Reader passes over a torn one at the end.  Write  *)
(* appends nothing to the log file (the AddRecord is commented out), so    *)
(* log files are empty.  Each Open is the first of its process.            *)
(***************************************************************************)
EXTENDS Naturals, FiniteSets

CONSTANTS
    NULL,
    Readers,            \* threads inside Get, and iterators
    MaxFileNumber,      \* bound: file numbers
    MaxSequence,        \* bound: writes
    MaxVersions,        \* bound: versions that exist at one time
    MaxCrashes,         \* bound: deaths of the process
    NumLevels,          \* config::kNumLevels
    MaxMemCompactLevel, \* config::kMaxMemCompactLevel
    Failures            \* what may fail: I/O of BuildTable ("build"), of a merge
                        \* ("merge"), of Open ("open"), rename ("rename"), an append
                        \* to the manifest that leaves nothing ("manifest") or a part
                        \* of the record ("torn")

Number  == 0 .. MaxFileNumber
Entry   == 1 .. MaxSequence
Versions == 1 .. MaxVersions

ASSUME FilesAssumption ==
    /\ NULL \notin Nat /\ \A entries \in SUBSET Entry : NULL # entries
    /\ MaxFileNumber \in Nat /\ MaxFileNumber > 1
    /\ MaxSequence \in Nat /\ MaxVersions \in Nat \ {0} /\ MaxCrashes \in Nat
    /\ IsFiniteSet(Readers)
    /\ NumLevels \in Nat \ {0, 1} /\ MaxMemCompactLevel \in 0 .. NumLevels - 1
    /\ Failures \subseteq {"build", "merge", "open", "rename", "manifest", "torn"}

VARIABLES
    \* the directory
    table,          \* contents of each table file; NULL: no such file
    logs,           \* numbers of the log files
    manifest,       \* what each manifest replays to
    current,        \* the manifest CURRENT names, or NULL
    temps,          \* numbers of the temporary files
    \* the memory of the process
    db,             \* "down", a step of DB::Open, or "open"
    next_file_number_, manifest_file_number_, log_number_, logfile_number_, last_sequence_,
    vfiles, refs,   \* the files and the reference count of each version
    current_,       \* the current version
    mem_, imm_,     \* entries of the memtables; imm_ = NULL: none
    pending_outputs_,
    edit,           \* the edit that LogAndApply is given
    flush,          \* CompactMemTable
    compact,        \* the compaction that is running
    garbage,        \* files DeleteObsoleteFiles is about to delete
    bg_error_,
    reader,         \* the version each reader holds, or NULL
    \* history
    crashes,
    flushed,        \* entries of memtables that were compacted and dropped
    missed          \* a rename failed, which nobody noticed

dirVars  == <<table, logs, manifest, current, temps>>
numVars  == <<next_file_number_, manifest_file_number_, log_number_, logfile_number_>>
verVars  == <<vfiles, refs, current_>>
memVars  == <<mem_, imm_, last_sequence_>>
jobVars  == <<edit, flush, compact, pending_outputs_>>
histVars == <<crashes, flushed, missed>>

vars == <<dirVars, db, numVars, verVars, memVars, jobVars, garbage, bg_error_, reader,
          histVars>>
-----------------------------------------------------------------------------
FileMetaData == [level : 0 .. NumLevels - 1, number : Number, data : SUBSET Entry]

\* What the records of a manifest amount to: nothing ("none") if there is no such
\* file, or none of the records that Recover asks for.  A part of a record at the end is
\* passed over ("torn"); with records after it, its checksum does not match.
Snapshot == [files : SUBSET FileMetaData, log : Number, next : Number, last : 0 .. MaxSequence,
             state : {"none", "good", "torn", "damaged"}]

VersionEdit == [del : SUBSET FileMetaData, add : SUBSET FileMetaData, log : Number,
                next : Number, last : 0 .. MaxSequence]

FlushState == [pc : {"idle", "build", "created", "log", "logged"}, number : Number,
               base : Versions \cup {NULL}]

CompactionState == [pc : {"idle", "merge", "output", "log", "logged"},
                    level : 0 .. NumLevels - 1, inputs : SUBSET FileMetaData,
                    version : Versions \cup {NULL}, move : BOOLEAN, left : SUBSET Entry,
                    number : Number, outputs : SUBSET FileMetaData]

NoManifest == [files |-> {}, log |-> 0, next |-> 0, last |-> 0, state |-> "none"]
NoEdit    == [del |-> {}, add |-> {}, log |-> 0, next |-> 0, last |-> 0]
NoFlush   == [pc |-> "idle", number |-> 0, base |-> NULL]
NoCompact == [pc |-> "idle", level |-> 0, inputs |-> {}, version |-> NULL, move |-> FALSE,
              left |-> {}, number |-> 0, outputs |-> {}]

\* No process, and an empty directory.
Init ==
    /\ table = [n \in Number |-> NULL] /\ manifest = [n \in Number |-> NoManifest]
    /\ logs = {} /\ current = NULL /\ temps = {}
    /\ db = "down"
    /\ next_file_number_ = 2 /\ manifest_file_number_ = 0
    /\ log_number_ = 0 /\ logfile_number_ = 0 /\ last_sequence_ = 0
    /\ vfiles = [v \in Versions |-> {}] /\ refs = [v \in Versions |-> 0] /\ current_ = NULL
    /\ mem_ = {} /\ imm_ = NULL /\ pending_outputs_ = {}
    /\ edit = NoEdit /\ flush = NoFlush /\ compact = NoCompact
    /\ garbage = {} /\ bg_error_ = FALSE
    /\ reader = [r \in Readers |-> NULL]
    /\ crashes = 0 /\ flushed = {} /\ missed = FALSE

\* The bound on file numbers leaves two to each Open that is still to come.
NumbersLeft == next_file_number_ + 2 * (MaxCrashes - crashes) < MaxFileNumber
-----------------------------------------------------------------------------
(* Versions *)

Ref(rs, v) == [rs EXCEPT ![v] = @ + 1]

Unref(rs, v) == [rs EXCEPT ![v] = @ - 1]

\* A version whose count is 0 is deleted, and its place is free.
Surviving(vf, rs) == [v \in Versions |-> IF rs[v] > 0 THEN vf[v] ELSE {}]

\* Builder::Apply and Builder::SaveTo: the files after an edit.
Apply(files, e) == (files \ e.del) \cup e.add

\* AppendVersion makes a version with these files current, v, in the first free
\* place; rs are the counts once the old current version is released.
AppendVersion(rs, v, files) ==
    /\ rs[v] = 0 /\ \A u \in Versions : u < v => rs[u] > 0
    /\ current_' = v
    /\ refs' = Ref(rs, v)
    /\ vfiles' = [Surviving(vfiles, rs) EXCEPT ![v] = files]

\* Mutant: only the tables of the current version.
LiveFiles_Current(vf, rs) == {f.number : f \in vf[current_']}

\* AddLiveFiles: tables of the versions that exist.
LiveFiles(vf, rs) == {f.number : f \in UNION {vf[v] : v \in {u \in Versions : rs[u] > 0}}}
-----------------------------------------------------------------------------
(* LogAndApply: the edit gets the counters and the new version is built under
   the mutex; the record is appended without it; the version is installed
   under it again. *)

\* Mutant: the edit does not bring the sequence number up to date.
NewEdit_LastStale(del, add, log) ==
    [del |-> del, add |-> add, log |-> log, next |-> next_file_number_,
     last |-> manifest[manifest_file_number_].last]

NewEdit(del, add, log) ==
    [del |-> del, add |-> add, log |-> log, next |-> next_file_number_, last |-> last_sequence_]

\* Mutant: the version is built from the one the compaction started from.
NewVersion_OfInputs ==
    Apply(vfiles[IF compact.version = NULL THEN current_ ELSE compact.version], edit)

\* Files of the version that LogAndApply builds from the current one.
NewVersion == Apply(vfiles[current_], edit)

\* What Recover's loop makes of one more record.
Replay(s, e) ==
    [files |-> Apply(s.files, e), log |-> e.log, next |-> e.next, last |-> e.last,
     state |-> IF s.state = "good" THEN "good" ELSE "damaged"]

AppendRecord ==
    manifest' = [manifest EXCEPT ![manifest_file_number_] = Replay(@, edit)]

\* An append that fails may leave the beginning of the record.
AppendFails ==
    \/ "manifest" \in Failures /\ UNCHANGED manifest
    \/ /\ "torn" \in Failures
       /\ manifest' = [manifest EXCEPT ![manifest_file_number_].state =
                            IF @ = "good" THEN "torn" ELSE @]

\* DeleteObsoleteFiles, called with these counters and versions: the names of
\* the directory that nothing needs any more.
Obsolete(error, log, vf, rs, pending, tmp) ==
    LET live == LiveFiles(vf, rs) \cup pending
    IN  IF error THEN {} ELSE
        {<<"table", n>> : n \in {m \in Number : table[m] # NULL /\ m \notin live}}
        \cup {<<"temp", n>> : n \in tmp \ live}
        \cup {<<"log", n>> : n \in {m \in logs : m < log}}
        \cup {<<"manifest", n>> :
                n \in {m \in Number : manifest[m] # NoManifest /\ m < manifest_file_number_}}

\* The mutex is held from the listing of the directory to the last deletion.
MutexFree == db = "open" /\ garbage = {}

DeleteObsolete ==
    /\ \E f \in garbage :
        /\ garbage' = garbage \ {f}
        /\ table' = IF f[1] = "table" THEN [table EXCEPT ![f[2]] = NULL] ELSE table
        /\ temps' = IF f[1] = "temp" THEN temps \ {f[2]} ELSE temps
        /\ logs' = IF f[1] = "log" THEN logs \ {f[2]} ELSE logs
        /\ manifest' = IF f[1] = "manifest" THEN [manifest EXCEPT ![f[2]] = NoManifest] ELSE manifest
    /\ UNCHANGED <<current, db, numVars, verVars, memVars, jobVars, bg_error_, reader, histVars>>
-----------------------------------------------------------------------------
(* DB::Open *)

\* NewDB, when there is no CURRENT: manifest 1 with its one record.
NewDB ==
    /\ db = "down" /\ current = NULL
    /\ manifest' = [manifest EXCEPT ![1] = [files |-> {}, log |-> 0, next |-> 2, last |-> 0,
                                            state |-> "good"]]
    /\ manifest_file_number_' = 1
    /\ db' = "new_temp"
    /\ UNCHANGED <<table, logs, current, temps, next_file_number_, log_number_, logfile_number_,
                   verVars, memVars, jobVars, garbage, bg_error_, reader, histVars>>

\* SetCurrentFile writes a temporary file ...
SetCurrentFile_Temp ==
    /\ db \in {"new_temp", "open_temp"}
    /\ temps' = temps \cup {manifest_file_number_}
    /\ db' = IF db = "new_temp" THEN "new_current" ELSE "open_current"
    /\ UNCHANGED <<table, logs, manifest, current, numVars, verVars, memVars, jobVars, garbage,
                   bg_error_, reader, histVars>>

\* Mutant: the temporary file is removed and never becomes CURRENT.
Rename_Missing == temps' = temps \ {manifest_file_number_} /\ UNCHANGED <<current, missed>>

\* ... and renames it; RenameFile returns OK whatever rename does.
Rename ==
    \/ /\ temps' = temps \ {manifest_file_number_} /\ current' = manifest_file_number_
       /\ UNCHANGED missed
    \/ "rename" \in Failures /\ missed' = TRUE /\ UNCHANGED <<temps, current>>

NewDB_Current ==
    /\ db = "new_current"
    /\ Rename
    /\ db' = "down"
    /\ UNCHANGED <<table, logs, manifest, numVars, verVars, memVars, jobVars, garbage, bg_error_,
                   reader, crashes, flushed>>

\* Recover gives up when the number of a table the manifest lists is not that of
\* a file in the directory, of whatever type.
MissingFiles(s) ==
    {f \in s.files : /\ table[f.number] = NULL /\ manifest[f.number] = NoManifest
                     /\ f.number \notin logs \cup temps}

\* MarkFileNumberUsed, for each log that RecoverLogFile reads.
NextAfterLogs(s) ==
    LET used == {s.next} \cup {n \in logs : n >= s.log}
    IN  1 + CHOOSE n \in used : \A m \in used : m <= n

\* VersionSet::Recover, RecoverLogFile for each log (they are empty), and the
\* new log file.
Recover ==
    /\ db = "down" /\ current # NULL
    /\ manifest[current].state \in {"good", "torn"}
    /\ LET s == manifest[current] IN
        /\ MissingFiles(s) = {}
        /\ NextAfterLogs(s) < MaxFileNumber
        /\ logfile_number_' = NextAfterLogs(s)
        /\ next_file_number_' = NextAfterLogs(s) + 1
        /\ manifest_file_number_' = s.next
        /\ log_number_' = s.log
        /\ last_sequence_' = s.last
        /\ current_' = 1
        /\ vfiles' = [vfiles EXCEPT ![1] = s.files]
        /\ refs' = [refs EXCEPT ![1] = 1]
        /\ logs' = logs \cup {logfile_number_'}
    /\ db' = "open_manifest"
    /\ UNCHANGED <<table, manifest, current, temps, mem_, imm_, jobVars, garbage, bg_error_,
                   reader, histVars>>

\* Mutant: CURRENT is set before the manifest has its records.
Open_Create_CurrentFirst ==
    /\ db = "open_manifest"
    /\ manifest' = [manifest EXCEPT ![manifest_file_number_] = NoManifest]
    /\ db' = "open_temp"
    /\ UNCHANGED <<table, logs, current, temps, numVars, verVars, memVars, jobVars, garbage,
                   bg_error_, reader, histVars>>

\* The first LogAndApply of a process starts a manifest, whatever the file held, ...
Open_Create ==
    /\ db = "open_manifest"
    /\ manifest' = [manifest EXCEPT ![manifest_file_number_] = NoManifest]
    /\ db' = "open_record"
    /\ UNCHANGED <<table, logs, current, temps, numVars, verVars, memVars, jobVars, garbage,
                   bg_error_, reader, histVars>>

\* ... with WriteSnapshot, then the edit that has the new log number.
Open_Record ==
    /\ db = "open_record"
    /\ manifest' = [manifest EXCEPT ![manifest_file_number_] =
                        [files |-> vfiles[current_], log |-> logfile_number_,
                         next |-> next_file_number_, last |-> last_sequence_,
                         state |-> "good"]]
    /\ db' = "open_temp"
    /\ UNCHANGED <<table, logs, current, temps, numVars, verVars, memVars, jobVars, garbage,
                   bg_error_, reader, histVars>>

\* CURRENT names the new manifest; the version is installed, obsolete files go.
Open_Current ==
    /\ db = "open_current"
    /\ Rename
    /\ \E v \in Versions : AppendVersion(Unref(refs, current_), v, vfiles[current_])
    /\ log_number_' = logfile_number_
    /\ garbage' = Obsolete(bg_error_, logfile_number_, vfiles', refs', {}, temps')
    /\ db' = "open"
    /\ UNCHANGED <<table, logs, manifest, next_file_number_, manifest_file_number_,
                   logfile_number_, memVars, jobVars, bg_error_, reader, crashes, flushed>>

\* The process, or the attempt to open, is over: nothing in memory is left.
MemoryLost ==
    /\ db' = "down"
    /\ next_file_number_' = 2 /\ manifest_file_number_' = 0
    /\ log_number_' = 0 /\ logfile_number_' = 0 /\ last_sequence_' = 0
    /\ vfiles' = [v \in Versions |-> {}] /\ refs' = [v \in Versions |-> 0] /\ current_' = NULL
    /\ mem_' = {} /\ imm_' = NULL /\ pending_outputs_' = {}
    /\ edit' = NoEdit /\ flush' = NoFlush /\ compact' = NoCompact
    /\ garbage' = {} /\ bg_error_' = FALSE
    /\ reader' = [r \in Readers |-> NULL]

\* A file of Open cannot be written: the new manifest is removed.
Open_Fails ==
    /\ "open" \in Failures /\ crashes < MaxCrashes
    /\ db \in {"new_temp", "open_record", "open_temp"}
    /\ manifest' = IF db = "new_temp" THEN manifest
                   ELSE [manifest EXCEPT ![manifest_file_number_] = NoManifest]
    /\ MemoryLost
    /\ crashes' = crashes + 1
    /\ UNCHANGED <<table, logs, current, temps, flushed, missed>>

\* The process dies, or closes the database: ~DBImpl writes nothing.
Crash ==
    /\ db # "down" /\ crashes < MaxCrashes
    /\ MemoryLost
    /\ crashes' = crashes + 1
    /\ UNCHANGED <<dirVars, flushed, missed>>
-----------------------------------------------------------------------------
(* Writers and readers *)

\* A batch of one operation: applied to the memtable, logged nowhere.
Write ==
    /\ MutexFree /\ ~bg_error_ /\ last_sequence_ < MaxSequence
    /\ last_sequence_' = last_sequence_ + 1
    /\ mem_' = mem_ \cup {last_sequence_'}
    /\ UNCHANGED <<dirVars, db, numVars, verVars, imm_, jobVars, garbage, bg_error_, reader,
                   histVars>>

\* MakeRoomForWrite starts a log and a memtable.
SwitchMemTable ==
    /\ MutexFree /\ ~bg_error_ /\ imm_ = NULL /\ NumbersLeft
    /\ logs' = logs \cup {next_file_number_}
    /\ logfile_number_' = next_file_number_
    /\ next_file_number_' = next_file_number_ + 1
    /\ imm_' = mem_ /\ mem_' = {}
    /\ UNCHANGED <<table, manifest, current, temps, db, manifest_file_number_, log_number_,
                   verVars, last_sequence_, jobVars, garbage, bg_error_, reader, histVars>>

\* Get and NewInternalIterator hold the current version while they read.
Read_Begin(r) ==
    /\ MutexFree /\ reader[r] = NULL
    /\ reader' = [reader EXCEPT ![r] = current_]
    /\ refs' = Ref(refs, current_)
    /\ UNCHANGED <<dirVars, db, numVars, vfiles, current_, memVars, jobVars, garbage, bg_error_,
                   histVars>>

\* The end of Get, CleanupIteratorState
Read_End(r) ==
    /\ MutexFree /\ reader[r] # NULL
    /\ reader' = [reader EXCEPT ![r] = NULL]
    /\ refs' = Unref(refs, reader[r])
    /\ vfiles' = Surviving(vfiles, refs')
    /\ UNCHANGED <<dirVars, db, numVars, current_, memVars, jobVars, garbage, bg_error_, histVars>>
-----------------------------------------------------------------------------
(* CompactMemTable, from the background call or nested in a merge *)

\* BackgroundCall does nothing after an error; DoCompactionWork does not ask.
FlushDue ==
    /\ flush.pc = "idle" /\ imm_ # NULL
    /\ \/ compact.pc = "idle" /\ ~bg_error_
       \/ compact.pc = "merge" /\ compact.left # {}
       \/ compact.pc = "output"

\* WriteLevel0Table takes a number, and the base version stays.
Flush_Begin ==
    /\ MutexFree /\ FlushDue /\ NumbersLeft
    /\ flush' = [pc |-> "build", number |-> next_file_number_, base |-> current_]
    /\ refs' = Ref(refs, current_)
    /\ pending_outputs_' = pending_outputs_ \cup {next_file_number_}
    /\ next_file_number_' = next_file_number_ + 1
    /\ UNCHANGED <<dirVars, db, manifest_file_number_, log_number_, logfile_number_, vfiles,
                   current_, memVars, edit, compact, garbage, bg_error_, reader, histVars>>

\* BuildTable creates the file (an empty memtable has none) ...
Flush_Create ==
    /\ db = "open" /\ flush.pc = "build" /\ imm_ # {}
    /\ table' = [table EXCEPT ![flush.number] = {}]
    /\ flush' = [flush EXCEPT !.pc = "created"]
    /\ UNCHANGED <<logs, manifest, current, temps, db, numVars, verVars, memVars, edit, compact,
                   pending_outputs_, garbage, bg_error_, reader, histVars>>

\* ... and fills it.  The number is no longer pending and the base version is
\* released before LogAndApply starts.
Flush_Built ==
    /\ MutexFree
    /\ flush.pc = "created" \/ (flush.pc = "build" /\ imm_ = {})
    /\ table' = IF imm_ = {} THEN table ELSE [table EXCEPT ![flush.number] = imm_]
    /\ pending_outputs_' = pending_outputs_ \ {flush.number}
    /\ refs' = Unref(refs, flush.base)
    /\ vfiles' = Surviving(vfiles, refs')
    /\ \E level \in 0 .. MaxMemCompactLevel :
        edit' = NewEdit({}, IF imm_ = {} THEN {}
                            ELSE {[level |-> level, number |-> flush.number, data |-> imm_]},
                        logfile_number_)
    /\ flush' = [flush EXCEPT !.pc = "log", !.base = NULL]
    /\ UNCHANGED <<logs, manifest, current, temps, db, numVars, current_, memVars, compact,
                   garbage, bg_error_, reader, histVars>>

Flush_Record ==
    /\ db = "open" /\ flush.pc = "log"
    /\ AppendRecord
    /\ flush' = [flush EXCEPT !.pc = "logged"]
    /\ UNCHANGED <<table, logs, current, temps, db, numVars, verVars, memVars, edit, compact,
                   pending_outputs_, garbage, bg_error_, reader, histVars>>

\* The memtable is dropped once its table is in the version.
Flush_Install ==
    /\ MutexFree /\ flush.pc = "logged"
    /\ \E v \in Versions : AppendVersion(Unref(refs, current_), v, NewVersion)
    /\ log_number_' = edit.log
    /\ imm_' = NULL /\ flushed' = flushed \cup imm_
    /\ garbage' = Obsolete(bg_error_, edit.log, vfiles', refs', pending_outputs_, temps)
    /\ flush' = NoFlush /\ edit' = NoEdit
    /\ UNCHANGED <<dirVars, db, next_file_number_, manifest_file_number_, logfile_number_, mem_,
                   last_sequence_, compact, pending_outputs_, bg_error_, reader, crashes, missed>>

\* After an error of any step: the memtable stays.
Flush_Failed ==
    /\ pending_outputs_' = pending_outputs_ \ {flush.number}
    /\ bg_error_' = TRUE
    /\ flush' = NoFlush /\ edit' = NoEdit
    /\ UNCHANGED <<logs, current, temps, db, numVars, current_, memVars, compact, garbage,
                   reader, histVars>>

\* BuildTable fails, and removes its file.
Flush_BuildFail ==
    /\ MutexFree /\ flush.pc \in {"build", "created"} /\ "build" \in Failures
    /\ table' = [table EXCEPT ![flush.number] = NULL]
    /\ refs' = Unref(refs, flush.base)
    /\ vfiles' = Surviving(vfiles, refs')
    /\ Flush_Failed
    /\ UNCHANGED manifest

\* The edit cannot be appended to the manifest.
Flush_RecordFail ==
    /\ MutexFree /\ flush.pc = "log"
    /\ AppendFails
    /\ Flush_Failed
    /\ UNCHANGED <<table, vfiles, refs>>
-----------------------------------------------------------------------------
(* BackgroundCompaction, DoCompactionWork *)

Entries(files) == UNION {f.data : f \in files}

\* PickCompaction and CompactRange choose files of a level and of the next; the
\* version they are chosen from stays.  One file with none below it may be moved.
Compact_Begin ==
    /\ MutexFree /\ flush.pc = "idle" /\ compact.pc = "idle" /\ imm_ = NULL /\ ~bg_error_
    /\ \E inputs \in SUBSET vfiles[current_], level \in 0 .. NumLevels - 2 :
        /\ \E f \in inputs : f.level = level
        /\ \A f \in inputs : f.level \in {level, level + 1}
        /\ compact' = [NoCompact EXCEPT !.pc = "merge", !.level = level, !.inputs = inputs,
                                        !.version = current_, !.left = Entries(inputs)]
    /\ refs' = Ref(refs, current_)
    /\ UNCHANGED <<dirVars, db, numVars, vfiles, current_, memVars, edit, flush,
                   pending_outputs_, garbage, bg_error_, reader, histVars>>

\* The compaction is one that only moves its file: LogAndApply at once.
Compact_Move ==
    /\ MutexFree /\ flush.pc = "idle" /\ compact.pc = "idle" /\ imm_ = NULL /\ ~bg_error_
    /\ \E f \in vfiles[current_] :
        /\ f.level < NumLevels - 1
        /\ edit' = NewEdit({f}, {[f EXCEPT !.level = @ + 1]}, log_number_)
        /\ compact' = [NoCompact EXCEPT !.pc = "log", !.level = f.level, !.inputs = {f},
                                        !.version = current_, !.move = TRUE]
    /\ refs' = Ref(refs, current_)
    /\ UNCHANGED <<dirVars, db, numVars, vfiles, current_, memVars, flush, pending_outputs_,
                   garbage, bg_error_, reader, histVars>>

\* OpenCompactionOutputFile
Compact_Open ==
    /\ MutexFree /\ flush.pc = "idle" /\ compact.pc = "merge" /\ compact.left # {}
    /\ NumbersLeft
    /\ pending_outputs_' = pending_outputs_ \cup {next_file_number_}
    /\ table' = [table EXCEPT ![next_file_number_] = {}]
    /\ next_file_number_' = next_file_number_ + 1
    /\ compact' = [compact EXCEPT !.pc = "output", !.number = next_file_number_]
    /\ UNCHANGED <<logs, manifest, current, temps, db, manifest_file_number_, log_number_,
                   logfile_number_, verVars, memVars, edit, flush, garbage, bg_error_, reader,
                   histVars>>

Output(part) ==
    [level |-> compact.level + 1, number |-> compact.number, data |-> part]

\* FinishCompactionOutputFile, after some of the entries that are left.
Compact_Finish ==
    /\ db = "open" /\ flush.pc = "idle" /\ compact.pc = "output"
    /\ \E part \in SUBSET compact.left \ {{}} :
        /\ table' = [table EXCEPT ![compact.number] = part]
        /\ compact' = [compact EXCEPT
                         !.pc = "merge", !.left = @ \ part,
                         !.outputs = @ \cup {Output(part)}]
    /\ UNCHANGED <<logs, manifest, current, temps, db, numVars, verVars, memVars, edit, flush,
                   pending_outputs_, garbage, bg_error_, reader, histVars>>

\* AddInputDeletions
InputDeletions == compact.inputs

\* InstallCompactionResults
Compact_Done ==
    /\ MutexFree /\ flush.pc = "idle" /\ compact.pc = "merge" /\ compact.left = {}
    /\ edit' = NewEdit(InputDeletions, compact.outputs, log_number_)
    /\ compact' = [compact EXCEPT !.pc = "log"]
    /\ UNCHANGED <<dirVars, db, numVars, verVars, memVars, flush, pending_outputs_, garbage,
                   bg_error_, reader, histVars>>

Compact_Record ==
    /\ db = "open" /\ compact.pc = "log"
    /\ AppendRecord
    /\ compact' = [compact EXCEPT !.pc = "logged"]
    /\ UNCHANGED <<table, logs, current, temps, db, numVars, verVars, memVars, edit, flush,
                   pending_outputs_, garbage, bg_error_, reader, histVars>>

\* CleanupCompaction: numbers of the outputs, an unfinished one included.
OutputNumbers == {f.number : f \in compact.outputs} \cup {compact.number}

\* Mutant: the version of the inputs is kept.
ReleaseInputs_Never(rs) == rs

ReleaseInputs(rs) == Unref(rs, compact.version)

\* The version is installed; CleanupCompaction, ReleaseInputs and
\* DeleteObsoleteFiles follow, unless the file was only moved.
Compact_Install ==
    /\ MutexFree /\ compact.pc = "logged"
    /\ \E v \in Versions :
        AppendVersion(Unref(ReleaseInputs(refs), current_), v, NewVersion)
    /\ pending_outputs_' = pending_outputs_ \ OutputNumbers
    /\ garbage' = IF compact.move THEN {}
                  ELSE Obsolete(bg_error_, log_number_, vfiles', refs', pending_outputs_', temps)
    /\ compact' = NoCompact /\ edit' = NoEdit
    /\ UNCHANGED <<dirVars, db, numVars, memVars, flush, bg_error_, reader, histVars>>

\* An input, an output or the manifest fails: the outputs stay as they are, and
\* DeleteObsoleteFiles finds the error.
Compact_Failed ==
    /\ refs' = ReleaseInputs(refs)
    /\ vfiles' = Surviving(vfiles, refs')
    /\ pending_outputs_' = pending_outputs_ \ OutputNumbers
    /\ bg_error_' = TRUE
    /\ garbage' = IF compact.move THEN {}
                  ELSE Obsolete(TRUE, log_number_, vfiles', refs', pending_outputs_', temps)
    /\ compact' = NoCompact /\ edit' = NoEdit
    /\ UNCHANGED <<table, logs, current, temps, db, numVars, current_, memVars, flush, reader,
                   histVars>>

Compact_MergeFail ==
    /\ MutexFree /\ flush.pc = "idle" /\ compact.pc \in {"merge", "output"}
    /\ "merge" \in Failures
    /\ Compact_Failed
    /\ UNCHANGED manifest

Compact_RecordFail ==
    /\ MutexFree /\ compact.pc = "log"
    /\ AppendFails
    /\ Compact_Failed
-----------------------------------------------------------------------------
Open ==
    \/ NewDB \/ SetCurrentFile_Temp \/ NewDB_Current \/ Recover
    \/ Open_Create \/ Open_Record \/ Open_Current

Background ==
    \/ Flush_Begin \/ Flush_Create \/ Flush_Built \/ Flush_Record \/ Flush_Install
    \/ Flush_BuildFail \/ Flush_RecordFail
    \/ Compact_Begin \/ Compact_Move \/ Compact_Open \/ Compact_Finish \/ Compact_Done
    \/ Compact_Record \/ Compact_Install \/ Compact_MergeFail \/ Compact_RecordFail

Next ==
    \/ Open \/ Open_Fails \/ Crash
    \/ DeleteObsolete
    \/ Write \/ SwitchMemTable
    \/ \E r \in Readers : Read_Begin(r) \/ Read_End(r)
    \/ Background

\* The thread that opens the database and deletes files runs on.
Fairness == WF_vars(Open) /\ WF_vars(DeleteObsolete)

Spec == Init /\ [][Next]_vars /\ Fairness
-----------------------------------------------------------------------------
(* Properties *)

DirTypes ==
    /\ table \in [Number -> {NULL} \cup SUBSET Entry]
    /\ manifest \in [Number -> Snapshot]
    /\ logs \subseteq Number /\ temps \subseteq Number
    /\ current \in Number \cup {NULL}

MemoryTypes ==
    /\ db \in {"down", "new_temp", "new_current", "open_manifest", "open_record", "open_temp",
               "open_current", "open"}
    /\ next_file_number_ \in Number /\ manifest_file_number_ \in Number
    /\ log_number_ \in Number /\ logfile_number_ \in Number
    /\ last_sequence_ \in 0 .. MaxSequence
    /\ mem_ \subseteq Entry /\ imm_ \in {NULL} \cup SUBSET Entry
    /\ bg_error_ \in BOOLEAN
    /\ crashes \in 0 .. MaxCrashes /\ flushed \subseteq Entry /\ missed \in BOOLEAN

VersionTypes ==
    /\ vfiles \in [Versions -> SUBSET FileMetaData] /\ refs \in [Versions -> Nat]
    /\ current_ \in Versions \cup {NULL}
    /\ reader \in [Readers -> Versions \cup {NULL}]

JobTypes ==
    /\ pending_outputs_ \subseteq Number
    /\ edit \in VersionEdit
    /\ flush \in FlushState /\ compact \in CompactionState
    /\ garbage \subseteq {"table", "temp", "log", "manifest"} \X Number

\* Type correctness.
TypeOK == DirTypes /\ MemoryTypes /\ VersionTypes /\ JobTypes

OnDisk(files) == \A f \in files : table[f.number] = f.data

\* A table of a version that a reader, a compaction or the database holds is in
\* the directory, whole, whatever DeleteObsoleteFiles and the compactions do.
VersionsOnDisk == \A v \in Versions : refs[v] > 0 => OnDisk(vfiles[v])

\* No rename was missed, and no record stands behind a torn one.
Intact == ~missed /\ \A n \in Number : manifest[n].state # "damaged"

\* Wherever the process may die, Recover will find the manifest CURRENT names, can replay
\* it, and finds every table it lists, whole; and what CompactMemTable wrote before it
\* dropped a memtable is in these tables, through all compactions, failures and crashes
\* after that.
Recoverable ==
    Intact /\ current # NULL =>
        /\ manifest[current].state \in {"good", "torn"}
        /\ OnDisk(manifest[current].files)
        /\ flushed \subseteq Entries(manifest[current].files)

\* The counters Recover resumes from are above everything that is there: new writes never
\* get the sequence number of an entry in the tables, and new files never that of a
\* listed table or of the manifest that was read.
CountersResume ==
    Intact /\ current # NULL =>
        /\ \A e \in Entries(manifest[current].files) : e <= manifest[current].last
        /\ current < manifest[current].next
        /\ \A f \in manifest[current].files : f.number < manifest[current].next

\* Outside of LogAndApply the manifest replays to the version in memory, after
\* failures too ("both saved to persistent state and installed").
InstalledIsSaved ==
    Intact /\ db = "open" /\ flush.pc # "logged" /\ compact.pc # "logged" =>
        /\ current = manifest_file_number_
        /\ manifest[current].state \in {"good", "torn"}
        /\ manifest[current].files = vfiles[current_]

\* The members have their types and reference counts are exact: each version is kept by
\* those that use it, the database, readers, the compaction and the memtable compaction,
\* and no others.
RefsMatchHolders ==
    TypeOK /\ \A v \in Versions :
        refs[v] = Cardinality({r \in Readers : reader[r] = v})
                  + Cardinality({h \in {<<"db", current_>>, <<"compact", compact.version>>,
                                        <<"flush", flush.base>>} : h[2] = v})

\* Open ends: recovery gets to work on whatever a death of the process left.
OpenCompletes == db # "open" ~> db = "open" \/ ~Intact
=============================================================================
