-------------------------- MODULE VersionSetTheorems ------------------------
(***************************************************************************)
(* Crash safety of VersionSet: the background work keeps the tables that   *)
(* are listed (FilesInv), and the directory always has what DB::Open       *)
(* needs, and nothing of it is lost (DiskInv), for any number of readers,  *)
(* writes, files, versions and crashes, and any failures of the I/O.       *)
(***************************************************************************)
EXTENDS VersionSetFiles

(* The tables that are listed: CompactMemTable *)

\* A step of the background work takes at most the next number, writes the tables that are
\* being written and the manifest, and lists what is whole.
LEMMA JobFiles ==
    ASSUME IInv, Control', db = "open",
           next_file_number_ <= next_file_number_', log_number_' < next_file_number_',
           UNCHANGED <<logs, temps, manifest_file_number_, logfile_number_, last_sequence_>>,
           \A n \in Number : n # manifest_file_number_ => manifest'[n] = manifest[n],
           \A n \in Number : Writing(n)' =>
               Writing(n) \/ (n = next_file_number_ /\ n < next_file_number_'),
           \A n \in Number : table'[n] = table[n] \/ Writing(n) \/ n = next_file_number_,
           \A f \in FileMetaData : Listed(f)' => Listed(f) \/ Whole(f)'
    PROVE  ListedWhole' /\ Numbered'
<1>1. /\ next_file_number_ \in Nat /\ next_file_number_' \in Nat /\ last_sequence_ \in Nat
      /\ manifest_file_number_ \in Nat /\ logfile_number_ \in Nat /\ Number \subseteq Nat
    BY NumberNat DEF IInv, Control, TypeOK, MemoryTypes
<1>2. /\ manifest_file_number_ < next_file_number_ /\ logfile_number_ < next_file_number_
      /\ \A n \in Number : Used(n) => n < next_file_number_
      /\ \A n \in Number : Writing(n) => /\ n < next_file_number_ /\ ~Used(n)
                                         /\ manifest_file_number_ < n
    BY DEF IInv, FilesInv, Numbered, Running
<1>3. \A n \in Number : Used(n)' => Used(n) \/ n = manifest_file_number_  BY DEF Used
<1>4. ListedWhole'
    <2>1. ASSUME NEW f \in FileMetaData, Whole(f)
          PROVE  /\ table'[f.number] = table[f.number] /\ f.number # manifest_file_number_'
                 /\ ~Used(f.number)' /\ ~Writing(f.number)'
        <3>1. f.number \in Number /\ f.number \in Nat  BY NumberNat DEF FileMetaData
        <3>2. f.number < next_file_number_ /\ f.number # manifest_file_number_
              /\ ~Used(f.number) /\ ~Writing(f.number)
            BY <2>1 DEF Whole
        <3>3. f.number # next_file_number_  BY <1>1, <3>1, <3>2, BelowDiffers, Zenon
        <3>4. table'[f.number] = table[f.number]  BY <3>1, <3>2, <3>3, Zenon
        <3>5. ~Used(f.number)'  BY <1>3, <3>1, <3>2, Zenon
        <3>6. ~Writing(f.number)'  BY <3>1, <3>2, <3>3, Zenon
        <3>7. manifest_file_number_' = manifest_file_number_  OBVIOUS
        <3>8. QED  BY <3>2, <3>4, <3>5, <3>6, <3>7, Zenon
    <2>2. ListedWhole  BY Zenon DEF IInv, FilesInv
    <2>3. \A f \in FileMetaData : Listed(f) /\ Whole(f) =>
              /\ table'[f.number] = table[f.number] /\ f.number # manifest_file_number_'
              /\ ~Used(f.number)' /\ ~Writing(f.number)'
        BY <2>1, Zenon
    <2>4. last_sequence_' \in Nat /\ last_sequence_ <= last_sequence_'
        <3>1. last_sequence_' = last_sequence_  BY Zenon
        <3>2. QED  BY <1>1, <3>1, SelfBelow, Zenon
    <2>5. QED  BY <1>1, <2>2, <2>3, <2>4, ListedFrame, Zenon
<1>5. Numbered'
    <2>1. ASSUME NEW n \in Number, Used(n)' PROVE n < next_file_number_'
        <3>1. Used(n) \/ n = manifest_file_number_  BY <1>3, <2>1, Zenon
        <3>2. n < next_file_number_  BY <1>2, <3>1, Zenon
        <3>3. n \in Nat  BY <1>1, Zenon
        <3>4. QED  BY <1>1, <3>2, <3>3, BelowLater, Zenon
    <2>2. ASSUME NEW n \in Number, Writing(n)'
          PROVE  n < next_file_number_' /\ ~Used(n)' /\ manifest_file_number_' < n
        BY <1>1, <1>2, <1>3, <2>2
    <2>3. manifest_file_number_' < next_file_number_' /\ logfile_number_' < next_file_number_'
        <3>1. manifest_file_number_' = manifest_file_number_ /\ logfile_number_' = logfile_number_
            BY Zenon
        <3>2. manifest_file_number_ < next_file_number_' /\ logfile_number_ < next_file_number_'
            BY <1>1, <1>2, BelowLater, Zenon
        <3>3. QED  BY <3>1, <3>2, Zenon
    <2>4. QED  BY <2>1, <2>2, <2>3, Zenon DEF Numbered
<1>6. QED  BY <1>4, <1>5

\* The numbers the database has are below the counter.
LEMMA BelowNext ==
    ASSUME IInv, db = "open"
    PROVE  /\ next_file_number_ \in Nat /\ log_number_ < next_file_number_
           /\ logfile_number_ < next_file_number_
           /\ \A f : Listed(f) => f.number < next_file_number_
           /\ \A n \in Number : Writing(n) => n < next_file_number_
BY NumberNat, ListedTyped
DEF IInv, Control, TypeOK, MemoryTypes, FilesInv, Numbered, Running, ListedWhole, Whole

\* The same for a step that leaves the counters alone
LEMMA JobFilesSame ==
    ASSUME IInv, Control', db = "open", logs' = logs, temps' = temps, last_sequence_' = last_sequence_,
           UNCHANGED numVars,
           \A n \in Number : n # manifest_file_number_ => manifest'[n] = manifest[n],
           \A n \in Number : Writing(n)' => Writing(n),
           \A n \in Number : table'[n] = table[n] \/ Writing(n),
           \A f \in FileMetaData : Listed(f)' => Listed(f) \/ Whole(f)'
    PROVE  ListedWhole' /\ Numbered'
<1>1. UNCHANGED <<next_file_number_, log_number_, manifest_file_number_, logfile_number_>>
    BY Zenon DEF numVars
<1>2. next_file_number_ \in Nat /\ log_number_ < next_file_number_  BY BelowNext, Zenon
<1>3. next_file_number_ <= next_file_number_' /\ log_number_' < next_file_number_'
    <2>1. next_file_number_' = next_file_number_ /\ log_number_' = log_number_  BY <1>1, Zenon
    <2>2. QED  BY <1>2, <2>1, SelfBelow, Zenon
<1>4. UNCHANGED <<logs, temps, manifest_file_number_, logfile_number_, last_sequence_>>
    BY <1>1, Zenon
<1>5. QED  BY <1>3, <1>4, JobFiles, Zenon

LEMMA FlushBeginFiles == ASSUME IInv, Control', Flush_Begin PROVE FilesInv'
<1>1. /\ flush' = [pc |-> "build", number |-> next_file_number_, base |-> current_]
      /\ refs' = Ref(refs, current_) /\ flush.pc = "idle"
      /\ pending_outputs_' = pending_outputs_ \cup {next_file_number_}
      /\ next_file_number_' = next_file_number_ + 1 /\ db = "open" /\ garbage = {}
      /\ UNCHANGED <<dirVars, manifest_file_number_, log_number_, logfile_number_, vfiles,
                     current_, memVars, edit, compact, garbage>>
    BY DEF Flush_Begin, FlushDue, MutexFree
<1>2. current_ \in Versions /\ refs[current_] > 0
    <2>1. current_ \in Versions  BY <1>1, OpenCurrent DEF IInv
    <2>2. QED  BY <2>1, HeldIsCounted DEF IInv, Control
<1>3. \A f : Listed(f)' => Listed(f)  BY <1>1, <1>2, HeldOnce DEF IInv, Listed
<1>4. \A n : Writing(n)' => Writing(n) \/ n = next_file_number_  BY <1>1 DEF Writing
<1>5. next_file_number_ \in Nat /\ log_number_ < next_file_number_ /\ log_number_ \in Nat
      /\ Number \subseteq Nat
    BY <1>1, BelowNext, NumberNat DEF IInv, Control, TypeOK, MemoryTypes
<1>6. ListedWhole' /\ Numbered'
    BY <1>1, <1>3, <1>4, <1>5, JobFiles DEF dirVars, memVars
<1>7. EntriesBelow'  BY <1>1 DEF IInv, FilesInv, EntriesBelow, memVars
<1>8. Pending'
    <2>1. compact.pc = "output" => compact.number < next_file_number_
        BY <1>1, BelowNext DEF Writing, IInv, Control, TypeOK, JobTypes, CompactionState
    <2>2. \A f \in compact.outputs : f.number < next_file_number_ /\ f.number \in Nat
        BY <1>1, BelowNext, NumberNat
        DEF Listed, IInv, Control, TypeOK, JobTypes, CompactionState, FileMetaData
    <2>3. compact.number \in Nat
        BY NumberNat DEF IInv, Control, TypeOK, JobTypes, CompactionState
    <2>4. /\ compact.pc = "output" => next_file_number_ # compact.number
          /\ \A f \in compact.outputs : f.number # next_file_number_
        BY <1>5, <2>1, <2>2, <2>3
    <2>5. flush'.number = next_file_number_ /\ compact' = compact  BY <1>1
    <2>6. Pending  BY Zenon DEF IInv, FilesInv
    <2>7. \A n : n \in pending_outputs_ \/ n = next_file_number_ => n \in pending_outputs_'
        BY <1>1
    <2>8. QED  BY <2>4, <2>5, <2>6, <2>7, Zenon DEF Pending
<1>9. GarbageFree'  BY <1>1 DEF GarbageFree
<1>10. QED  BY <1>6, <1>7, <1>8, <1>9 DEF FilesInv

LEMMA FlushCreateFiles == ASSUME IInv, Control', Flush_Create PROVE FilesInv'
<1>1. /\ flush.pc = "build" /\ table' = [table EXCEPT ![flush.number] = {}]
      /\ flush' = [flush EXCEPT !.pc = "created"] /\ db = "open"
      /\ UNCHANGED <<logs, manifest, temps, numVars, verVars, memVars, edit, compact,
                     pending_outputs_, garbage>>
    BY DEF Flush_Create
<1>2. flush'.pc = "created" /\ flush'.number = flush.number /\ garbage = {}
    BY <1>1 DEF IInv, Control, TypeOK, JobTypes, FlushState, Jobs
<1>3. \A f : Listed(f)' => Listed(f)  BY <1>1 DEF Listed, InVersion, verVars
<1>4. \A n : Writing(n)' <=> Writing(n)  BY <1>1, <1>2 DEF Writing
<1>5. \A n \in Number : table'[n] = table[n] \/ Writing(n)
    BY <1>1 DEF IInv, Control, TypeOK, DirTypes, Writing
<1>6. ListedWhole' /\ Numbered'
    BY <1>1, <1>3, <1>4, <1>5, JobFilesSame, Zenon DEF memVars
<1>7. EntriesBelow'  BY <1>1 DEF IInv, FilesInv, EntriesBelow, memVars
<1>8. Pending'  BY <1>1, <1>2 DEF IInv, FilesInv, Pending
<1>9. GarbageFree'  BY <1>1, <1>2 DEF GarbageFree
<1>10. QED  BY <1>6, <1>7, <1>8, <1>9 DEF FilesInv

LEMMA FlushBuiltFiles == ASSUME IInv, Control', Flush_Built PROVE FilesInv'
<1>1. /\ flush.pc \in {"build", "created"} /\ db = "open" /\ garbage = {}
      /\ table' = IF imm_ = {} THEN table ELSE [table EXCEPT ![flush.number] = imm_]
      /\ pending_outputs_' = pending_outputs_ \ {flush.number}
      /\ refs' = Unref(refs, flush.base) /\ vfiles' = Surviving(vfiles, refs')
      /\ flush' = [flush EXCEPT !.pc = "log", !.base = NULL]
      /\ UNCHANGED <<logs, manifest, temps, numVars, current_, memVars, compact, garbage>>
    BY DEF Flush_Built, MutexFree
<1>2. PICK level \in 0 .. MaxMemCompactLevel :
        edit' = NewEdit({}, IF imm_ = {} THEN {}
                            ELSE {[level |-> level, number |-> flush.number, data |-> imm_]},
                        logfile_number_)
    BY DEF Flush_Built
<1>3. /\ flush'.pc = "log" /\ flush'.number = flush.number /\ flush.number \in Number
      /\ flush.base \in Versions /\ imm_ # NULL
    BY <1>1 DEF IInv, Control, TypeOK, JobTypes, FlushState, Jobs
<1>4. \A n : Writing(n)' => Writing(n) /\ n # flush.number
    BY <1>1, <1>3 DEF Writing, IInv, FilesInv, Pending
<1>5. Writing(flush.number)  BY <1>1 DEF Writing
<1>6. \A n \in Number : table'[n] = table[n] \/ Writing(n)
    BY <1>1, <1>5 DEF IInv, Control, TypeOK, DirTypes
<1>7. ASSUME NEW f, f \in edit'.add PROVE Whole(f)'
    <2>1. imm_ # {} /\ f = [level |-> level, number |-> flush.number, data |-> imm_]
        BY <1>2, <1>7 DEF NewEdit
    <2>2. /\ flush.number < next_file_number_ /\ ~Used(flush.number)
          /\ manifest_file_number_ < flush.number
        BY <1>1, <1>3, <1>5 DEF IInv, FilesInv, Numbered, Running
    <2>3. flush.number # manifest_file_number_
        BY <1>3, <2>2, NumberNat DEF IInv, Control, TypeOK, MemoryTypes
    <2>4. table'[flush.number] = imm_
        BY <1>1, <1>3, <2>1 DEF IInv, Control, TypeOK, DirTypes
    <2>5. \A n : n = flush.number => ~Used(n)' /\ ~Writing(n)'  BY <1>1, <1>4, <2>2 DEF Used
    <2>6. \A e \in imm_ : e <= last_sequence_'
        BY <1>1, <1>3 DEF IInv, FilesInv, EntriesBelow, memVars
    <2>7. f.number = flush.number /\ f.data = imm_  BY <2>1
    <2>8. UNCHANGED <<next_file_number_, manifest_file_number_>>  BY <1>1 DEF numVars
    <2>9. f.number < next_file_number_' /\ f.number # manifest_file_number_'
        BY <2>2, <2>3, <2>7, <2>8
    <2>10. table'[f.number] = f.data /\ \A e \in f.data : e <= last_sequence_'
        BY <2>4, <2>6, <2>7
    <2>11. ~Used(f.number)' /\ ~Writing(f.number)'  BY <2>5, <2>7
    <2>12. QED  BY <2>9, <2>10, <2>11 DEF Whole
<1>8. \A f : Listed(f)' => Listed(f) \/ Whole(f)'
    <2>1. \A f : InVersion(f)' => InVersion(f)  BY <1>1, <1>3, Released DEF IInv
    <2>2. QED  BY <1>1, <1>7, <2>1 DEF Listed
<1>9. ListedWhole' /\ Numbered'
    BY <1>1, <1>4, <1>6, <1>8, JobFilesSame, Zenon DEF memVars
<1>10. EntriesBelow'  BY <1>1 DEF IInv, FilesInv, EntriesBelow, memVars
<1>11. Pending'  BY <1>1, <1>3 DEF IInv, FilesInv, Pending
<1>12. GarbageFree'  BY <1>1 DEF GarbageFree
<1>13. QED  BY <1>9, <1>10, <1>11, <1>12 DEF FilesInv

\* An append, whole or not, touches the manifest that is written and no other.
LEMMA AppendOne ==
    ASSUME Control, AppendRecord \/ AppendFails
    PROVE  \A n \in Number : n # manifest_file_number_ => manifest'[n] = manifest[n]
BY DEF Control, TypeOK, DirTypes, AppendRecord, AppendFails

LEMMA FlushRecordFiles == ASSUME IInv, Control', Flush_Record PROVE FilesInv'
<1>1. /\ flush.pc = "log" /\ AppendRecord /\ db = "open"
      /\ flush' = [flush EXCEPT !.pc = "logged"]
      /\ UNCHANGED <<table, logs, temps, numVars, verVars, memVars, edit, compact,
                     pending_outputs_, garbage>>
    BY DEF Flush_Record
<1>2. flush'.pc = "logged" /\ flush'.number = flush.number /\ garbage = {}
    BY <1>1 DEF IInv, Control, TypeOK, JobTypes, FlushState, Jobs
<1>3. \A f : Listed(f)' => Listed(f)  BY <1>1 DEF Listed, InVersion, verVars
<1>4. \A n : Writing(n)' <=> Writing(n)  BY <1>1, <1>2 DEF Writing
<1>5. ListedWhole' /\ Numbered'
    <2>1. \A n \in Number : n # manifest_file_number_ => manifest'[n] = manifest[n]
        BY <1>1, AppendOne DEF IInv
    <2>2. QED  BY <1>1, <1>3, <1>4, <2>1, JobFilesSame, Zenon DEF memVars
<1>6. EntriesBelow'  BY <1>1 DEF IInv, FilesInv, EntriesBelow, memVars
<1>7. Pending'  BY <1>1, <1>2 DEF IInv, FilesInv, Pending
<1>8. GarbageFree'  BY <1>1, <1>2 DEF GarbageFree
<1>9. QED  BY <1>5, <1>6, <1>7, <1>8 DEF FilesInv

\* The new version lists nothing new.
LEMMA NewIsListed ==
    ASSUME IInv, db = "open" PROVE \A f \in NewVersion : Listed(f)
<1>1. current_ \in Versions  BY OpenCurrent DEF IInv
<1>2. refs[current_] > 0  BY <1>1, HeldIsCounted DEF IInv, Control
<1>3. QED  BY <1>1, <1>2 DEF NewVersion, Apply, Listed, InVersion

\* LogAndApply's edit has numbers below the counter.
LEMMA EditBelow ==
    ASSUME IInv, Editing PROVE edit.log < next_file_number_
<1>1. edit.log \in Nat /\ edit.next \in Nat /\ next_file_number_ \in Nat
    BY NumberNat DEF IInv, Control, TypeOK, MemoryTypes, JobTypes, VersionEdit
<1>2. QED  BY <1>1 DEF IInv, DiskInv, EditAbove

LEMMA FlushInstallFiles == ASSUME IInv, Control', Flush_Install PROVE FilesInv'
<1>1. /\ flush.pc = "logged" /\ db = "open" /\ log_number_' = edit.log /\ imm_' = NULL
      /\ garbage' = Obsolete(bg_error_, edit.log, vfiles', refs', pending_outputs_, temps)
      /\ flush' = NoFlush /\ edit' = NoEdit
      /\ UNCHANGED <<dirVars, next_file_number_, manifest_file_number_, logfile_number_, mem_,
                     last_sequence_, compact, pending_outputs_>>
    BY DEF Flush_Install, MutexFree
<1>2. PICK v \in Versions : AppendVersion(Unref(refs, current_), v, NewVersion)
    BY DEF Flush_Install
<1>3. current_ \in Versions /\ refs \in [Versions -> Nat]
    BY <1>1, OpenCurrent DEF IInv, Control, TypeOK, VersionTypes
<1>4. \A f : InVersion(f)' => Listed(f)
    <2>1. Unref(refs, current_) = [u \in Versions |-> IF u = current_ THEN refs[u] - 1 ELSE refs[u]]
        BY <1>3, RefAt
    <2>2. \A u \in Versions : Unref(refs, current_)[u] > 0 => refs[u] > 0  BY <1>3, <2>1
    <2>3. \A f : InVersion(f)' => InVersion(f) \/ f \in NewVersion
        BY <1>2, <2>1, <2>2, Appended
    <2>4. QED  BY <1>1, <2>3, NewIsListed, Zenon DEF Listed
<1>5. \A f : Listed(f)' => InVersion(f)' \/ f \in compact.outputs
    BY <1>1 DEF Listed, NoEdit
<1>6. \A f : Listed(f)' => Listed(f)  BY <1>4, <1>5 DEF Listed
<1>7. \A n : Writing(n)' => Writing(n) /\ compact.pc = "output" /\ n = compact.number
    BY <1>1 DEF Writing, NoFlush
<1>8. ListedWhole' /\ Numbered'
    <2>1. log_number_' < next_file_number_  BY <1>1, EditBelow DEF Editing
    <2>2. QED  BY <1>1, <1>6, <1>7, <2>1, BelowNext, JobFiles DEF dirVars
<1>9. EntriesBelow'  BY <1>1 DEF IInv, FilesInv, EntriesBelow
<1>10. Pending'  BY <1>1 DEF IInv, FilesInv, Pending, NoFlush
<1>11. GarbageFree'
    <2>1. compact.pc \in {"merge", "output"} \/ compact.outputs = {}
        <3>1. flush.pc # "idle"  BY <1>1
        <3>2. /\ flush.pc # "idle" => compact.pc \in {"idle", "merge", "output"}
              /\ compact.pc = "idle" => compact = NoCompact
            BY Zenon DEF IInv, Control, Jobs
        <3>3. NoCompact.outputs = {}  BY DEF NoCompact
        <3>4. CASE compact.pc = "idle"  BY <3>2, <3>3, <3>4, Zenon
        <3>5. CASE compact.pc # "idle"
            <4>1. compact.pc \in {"idle", "merge", "output"}  BY <3>1, <3>2, Zenon
            <4>2. QED  BY <3>5, <4>1
        <3>6. QED  BY <3>4, <3>5
    <2>2. \A f \in compact.outputs : f.number \in pending_outputs_
        BY <2>1 DEF IInv, FilesInv, Pending
    <2>3. compact.pc = "output" => compact.number \in pending_outputs_
        BY DEF IInv, FilesInv, Pending
    <2>4. \A n : /\ <<"table", n>> \in garbage' =>
                        n \notin LiveFiles(vfiles', refs') /\ n \notin pending_outputs_
                 /\ <<"manifest", n>> \in garbage' => n < manifest_file_number_'
        BY <1>1, ObsoleteSafe
    <2>5. \A f : Listed(f)' => f.number \in LiveFiles(vfiles', refs') \cup pending_outputs_
        BY <1>5, <2>2, LiveAfter
    <2>6. \A n : Writing(n)' => n \in pending_outputs_  BY <1>7, <2>3
    <2>7. \A n : <<"table", n>> \in garbage' => ~Writing(n)' /\ \A f : Listed(f)' => f.number # n
        BY <2>4, <2>5, <2>6
    <2>8. QED  BY <2>4, <2>7 DEF GarbageFree
<1>12. QED  BY <1>8, <1>9, <1>10, <1>11 DEF FilesInv

LEMMA FlushFailFiles ==
    ASSUME IInv, Control', Flush_BuildFail \/ Flush_RecordFail PROVE FilesInv'
<1>1. /\ flush.pc # "idle" /\ db = "open" /\ garbage = {}
      /\ pending_outputs_' = pending_outputs_ \ {flush.number}
      /\ flush' = NoFlush /\ edit' = NoEdit
      /\ UNCHANGED <<logs, temps, numVars, memVars, compact, garbage>>
    BY DEF Flush_BuildFail, Flush_RecordFail, Flush_Failed, MutexFree
<1>2. \A n : Writing(n)' => Writing(n)  BY <1>1 DEF Writing, NoFlush
<1>3. /\ \A f : InVersion(f)' => InVersion(f)
      /\ \A n \in Number : table'[n] = table[n] \/ Writing(n)
      /\ \A n \in Number : n # manifest_file_number_ => manifest'[n] = manifest[n]
    <2>1. CASE Flush_BuildFail
        <3>1. flush.base \in Versions
            BY <2>1 DEF IInv, Control, TypeOK, JobTypes, FlushState, Jobs, Flush_BuildFail
        <3>2. \A f : InVersion(f)' => InVersion(f)
            BY <2>1, <3>1, Released DEF IInv, Flush_BuildFail
        <3>3. \A n \in Number : table'[n] = table[n] \/ Writing(n)
            BY <2>1 DEF IInv, Control, TypeOK, DirTypes, Flush_BuildFail, Writing
        <3>4. QED  BY <2>1, <3>2, <3>3 DEF Flush_BuildFail
    <2>2. CASE Flush_RecordFail
        BY <2>2, AppendOne DEF IInv, Flush_RecordFail, InVersion
    <2>3. QED  BY <2>1, <2>2
<1>4. \A f : Listed(f)' => Listed(f)  BY <1>1, <1>3 DEF Listed, NoEdit
<1>5. ListedWhole' /\ Numbered'
    BY <1>1, <1>2, <1>3, <1>4, JobFilesSame, Zenon DEF memVars
<1>6. EntriesBelow'  BY <1>1 DEF IInv, FilesInv, EntriesBelow, memVars
<1>7. Pending'  BY <1>1 DEF IInv, FilesInv, Pending, NoFlush
<1>8. GarbageFree'  BY <1>1 DEF GarbageFree
<1>9. QED  BY <1>5, <1>6, <1>7, <1>8 DEF FilesInv
-----------------------------------------------------------------------------
(* The tables that are listed: BackgroundCompaction, DoCompactionWork *)

LEMMA CompactBeginFiles == ASSUME IInv, Control', Compact_Begin PROVE FilesInv'
<1>1. PICK inputs \in SUBSET vfiles[current_], level \in 0 .. NumLevels - 2 :
        compact' = [NoCompact EXCEPT !.pc = "merge", !.level = level, !.inputs = inputs,
                                     !.version = current_, !.left = Entries(inputs)]
    BY Zenon DEF Compact_Begin
<1>2. /\ db = "open" /\ garbage = {} /\ flush.pc = "idle" /\ refs' = Ref(refs, current_)
      /\ UNCHANGED <<dirVars, numVars, vfiles, current_, memVars, edit, flush, garbage>>
    BY DEF Compact_Begin, MutexFree
<1>3. compact'.pc = "merge" /\ compact'.left = Entries(inputs) /\ compact'.outputs = {}
    BY <1>1 DEF NoCompact
<1>4. current_ \in Versions /\ refs[current_] > 0
    <2>1. current_ \in Versions  BY <1>2, OpenCurrent DEF IInv
    <2>2. QED  BY <2>1, HeldIsCounted DEF IInv, Control
<1>5. \A f : Listed(f)' => Listed(f)  BY <1>2, <1>3, <1>4, HeldOnce DEF IInv, Listed
<1>6. \A n : ~Writing(n)'  BY <1>2, <1>3 DEF Writing
<1>7. ListedWhole' /\ Numbered'
    BY <1>2, <1>5, <1>6, JobFilesSame, Zenon DEF dirVars, memVars
<1>8. EntriesBelow'
    <2>1. \A f \in inputs : Listed(f)  BY <1>4 DEF Listed, InVersion
    <2>2. \A f \in inputs : Whole(f)  BY <2>1, ListedTyped DEF IInv, FilesInv, ListedWhole
    <2>3. \A e \in Entries(inputs) : e <= last_sequence_  BY <2>2 DEF Entries, Whole
    <2>4. QED  BY <1>2, <1>3, <2>3 DEF IInv, FilesInv, EntriesBelow, memVars
<1>9. Pending'  BY <1>2, <1>3 DEF Pending
<1>10. GarbageFree'  BY <1>2 DEF GarbageFree
<1>11. QED  BY <1>7, <1>8, <1>9, <1>10 DEF FilesInv

LEMMA CompactMoveFiles == ASSUME IInv, Control', Compact_Move PROVE FilesInv'
<1>1. PICK f \in vfiles[current_] :
        /\ edit' = NewEdit({f}, {[f EXCEPT !.level = @ + 1]}, log_number_)
        /\ compact' = [NoCompact EXCEPT !.pc = "log", !.level = f.level, !.inputs = {f},
                                        !.version = current_, !.move = TRUE]
    BY Zenon DEF Compact_Move
<1>2. /\ db = "open" /\ garbage = {} /\ flush.pc = "idle" /\ compact.pc = "idle"
      /\ refs' = Ref(refs, current_)
      /\ UNCHANGED <<dirVars, numVars, vfiles, current_, memVars, flush, garbage>>
    BY DEF Compact_Move, MutexFree
<1>3. compact'.pc = "log" /\ compact'.left = {} /\ compact'.outputs = {}  BY <1>1 DEF NoCompact
<1>4. current_ \in Versions /\ refs[current_] > 0
    <2>1. current_ \in Versions  BY <1>2, OpenCurrent DEF IInv
    <2>2. QED  BY <2>1, HeldIsCounted DEF IInv, Control
<1>5. \A n : ~Writing(n)'  BY <1>2, <1>3 DEF Writing
<1>6. ASSUME NEW g, g \in edit'.add PROVE Whole(g)'
    <2>1. f \in FileMetaData /\ Listed(f)
        <3>1. Listed(f)  BY <1>4 DEF Listed, InVersion
        <3>2. QED  BY <3>1, ListedTyped DEF IInv
    <2>2. Whole(f)  BY <2>1 DEF IInv, FilesInv, ListedWhole
    <2>3. g.number = f.number /\ g.data = f.data  BY <1>1, <1>6, <2>1 DEF NewEdit, FileMetaData
    <2>4. Whole(g)  BY <2>2, <2>3 DEF Whole
    <2>5. QED  BY <1>2, <1>5, <2>4 DEF Whole, Used, dirVars, numVars, memVars
<1>7. \A g : Listed(g)' => Listed(g) \/ Whole(g)'
    <2>1. \A g : InVersion(g)' => InVersion(g)  BY <1>2, <1>4, HeldOnce DEF IInv
    <2>2. QED  BY <1>3, <1>6, <2>1 DEF Listed
<1>8. ListedWhole' /\ Numbered'
    BY <1>2, <1>5, <1>7, JobFilesSame, Zenon DEF dirVars, memVars
<1>9. EntriesBelow'  BY <1>2, <1>3 DEF IInv, FilesInv, EntriesBelow, memVars
<1>10. Pending'  BY <1>2, <1>3 DEF Pending
<1>11. GarbageFree'  BY <1>2 DEF GarbageFree
<1>12. QED  BY <1>8, <1>9, <1>10, <1>11 DEF FilesInv

LEMMA CompactOpenFiles == ASSUME IInv, Control', Compact_Open PROVE FilesInv'
<1>1. /\ db = "open" /\ garbage = {} /\ flush.pc = "idle" /\ compact.pc = "merge"
      /\ pending_outputs_' = pending_outputs_ \cup {next_file_number_}
      /\ table' = [table EXCEPT ![next_file_number_] = {}]
      /\ next_file_number_' = next_file_number_ + 1
      /\ compact' = [compact EXCEPT !.pc = "output", !.number = next_file_number_]
      /\ UNCHANGED <<logs, manifest, temps, manifest_file_number_, log_number_, logfile_number_,
                     verVars, memVars, edit, flush, garbage>>
    BY DEF Compact_Open, MutexFree
<1>2. compact'.pc = "output" /\ compact'.number = next_file_number_
      /\ compact'.outputs = compact.outputs /\ compact'.left = compact.left
    BY <1>1 DEF IInv, Control, TypeOK, JobTypes, CompactionState
<1>3. \A f : Listed(f)' => Listed(f)  BY <1>1, <1>2 DEF Listed, InVersion, verVars
<1>4. \A n : Writing(n)' => Writing(n) \/ n = next_file_number_  BY <1>1, <1>2 DEF Writing
<1>5. next_file_number_ \in Nat /\ log_number_ < next_file_number_ /\ log_number_ \in Nat
    BY <1>1, BelowNext, NumberNat DEF IInv, Control, TypeOK, MemoryTypes
<1>6. \A n \in Number : table'[n] = table[n] \/ n = next_file_number_
    BY <1>1 DEF IInv, Control, TypeOK, DirTypes
<1>7. ListedWhole' /\ Numbered'
    BY <1>1, <1>3, <1>4, <1>5, <1>6, JobFiles DEF memVars
<1>8. EntriesBelow'  BY <1>1, <1>2 DEF IInv, FilesInv, EntriesBelow, memVars
<1>9. Pending'  BY <1>1, <1>2 DEF IInv, FilesInv, Pending
<1>10. GarbageFree'  BY <1>1 DEF GarbageFree
<1>11. QED  BY <1>7, <1>8, <1>9, <1>10 DEF FilesInv

LEMMA CompactFinishFiles == ASSUME IInv, Control', Compact_Finish PROVE FilesInv'
<1>1. PICK part \in SUBSET compact.left \ {{}} :
        /\ table' = [table EXCEPT ![compact.number] = part]
        /\ compact' = [compact EXCEPT !.pc = "merge", !.left = @ \ part,
                                      !.outputs = @ \cup {Output(part)}]
    BY Zenon DEF Compact_Finish
<1>2. /\ compact.pc = "output" /\ flush.pc = "idle" /\ db = "open"
      /\ UNCHANGED <<logs, manifest, temps, numVars, verVars, memVars, edit, flush,
                     pending_outputs_, garbage>>
    BY DEF Compact_Finish
<1>3. /\ compact'.pc = "merge" /\ compact'.left = compact.left \ part
      /\ compact'.outputs = compact.outputs \cup {Output(part)} /\ compact.number \in Number
    BY <1>1 DEF IInv, Control, TypeOK, JobTypes, CompactionState
<1>4. \A n : ~Writing(n)'  BY <1>2, <1>3 DEF Writing
<1>5. Writing(compact.number)  BY <1>2 DEF Writing
<1>6. \A n \in Number : table'[n] = table[n] \/ Writing(n)
    BY <1>1, <1>5 DEF IInv, Control, TypeOK, DirTypes
<1>7. Output(part).number = compact.number /\ Output(part).data = part  BY DEF Output
<1>8. ASSUME NEW f, f = Output(part) PROVE Whole(f)'
    <2>1. /\ compact.number < next_file_number_ /\ ~Used(compact.number)
          /\ manifest_file_number_ < compact.number
        BY <1>2, <1>3, <1>5 DEF IInv, FilesInv, Numbered, Running
    <2>2. f.number < next_file_number_' /\ f.number # manifest_file_number_'
        <3>1. f.number = compact.number  BY <1>7, <1>8, Zenon
        <3>2. next_file_number_' = next_file_number_ /\ manifest_file_number_' = manifest_file_number_
            BY <1>2, Zenon DEF numVars
        <3>3. manifest_file_number_ \in Nat /\ compact.number \in Nat
            BY <1>3, NumberNat DEF IInv, Control, TypeOK, MemoryTypes
        <3>4. compact.number # manifest_file_number_  BY <2>1, <3>3
        <3>5. QED  BY <2>1, <3>1, <3>2, <3>4, Zenon
    <2>3. table'[f.number] = f.data
        BY <1>1, <1>3, <1>7, <1>8 DEF IInv, Control, TypeOK, DirTypes
    <2>4. ~Used(f.number)' /\ ~Writing(f.number)'  BY <1>2, <1>4, <1>7, <1>8, <2>1 DEF Used
    <2>5. \A e \in f.data : e <= last_sequence_'
        BY <1>1, <1>2, <1>7, <1>8 DEF IInv, FilesInv, EntriesBelow, memVars
    <2>6. QED  BY <2>2, <2>3, <2>4, <2>5 DEF Whole
<1>9. \A f : Listed(f)' => Listed(f) \/ f = Output(part)
    BY <1>2, <1>3 DEF Listed, InVersion, verVars
<1>10. ListedWhole' /\ Numbered'
    <2>1. next_file_number_ \in Nat /\ log_number_ < next_file_number_  BY <1>2, BelowNext
    <2>2. UNCHANGED <<logs, temps, next_file_number_, manifest_file_number_, log_number_,
                      logfile_number_, last_sequence_, manifest>>
        BY <1>2 DEF numVars, memVars
    <2>3. next_file_number_ <= next_file_number_' /\ log_number_' < next_file_number_'
        BY <2>1, <2>2
    <2>4. \A f \in FileMetaData : Listed(f)' => Listed(f) \/ Whole(f)'  BY <1>8, <1>9
    <2>5. QED  BY <1>2, <1>4, <1>6, <2>2, <2>3, <2>4, JobFiles
<1>11. EntriesBelow'  BY <1>2, <1>3, Zenon DEF IInv, FilesInv, EntriesBelow, memVars
<1>12. Pending'
    BY <1>2, <1>3, <1>7, Zenon DEF IInv, FilesInv, Pending
<1>13. GarbageFree'
    <2>1. \A n \in Number : <<"table", n>> \in garbage => n # compact.number
        BY <1>5 DEF IInv, FilesInv, GarbageFree
    <2>2. QED  BY <1>2, <1>4, <1>7, <1>9, <2>1 DEF IInv, FilesInv, GarbageFree, numVars
<1>14. QED  BY <1>10, <1>11, <1>12, <1>13 DEF FilesInv

LEMMA CompactDoneFiles == ASSUME IInv, Control', Compact_Done PROVE FilesInv'
<1>1. /\ db = "open" /\ garbage = {} /\ flush.pc = "idle" /\ compact.pc = "merge"
      /\ edit' = NewEdit(InputDeletions, compact.outputs, log_number_)
      /\ compact' = [compact EXCEPT !.pc = "log"]
      /\ UNCHANGED <<dirVars, numVars, verVars, memVars, flush, pending_outputs_, garbage>>
    BY DEF Compact_Done, MutexFree
<1>2. compact'.pc = "log" /\ compact'.outputs = compact.outputs /\ compact'.left = compact.left
    BY <1>1 DEF IInv, Control, TypeOK, JobTypes, CompactionState
<1>3. edit'.add = compact.outputs  BY <1>1 DEF NewEdit
<1>4. \A f : Listed(f)' => Listed(f)  BY <1>1, <1>2, <1>3 DEF Listed, InVersion, verVars
<1>5. \A n : ~Writing(n)'  BY <1>1, <1>2 DEF Writing
<1>6. ListedWhole' /\ Numbered'
    BY <1>1, <1>4, <1>5, JobFilesSame, Zenon DEF dirVars, memVars
<1>7. EntriesBelow'  BY <1>1, <1>2 DEF IInv, FilesInv, EntriesBelow, memVars
<1>8. Pending'  BY <1>1, <1>2 DEF Pending
<1>9. GarbageFree'  BY <1>1 DEF GarbageFree
<1>10. QED  BY <1>6, <1>7, <1>8, <1>9 DEF FilesInv

LEMMA CompactRecordFiles == ASSUME IInv, Control', Compact_Record PROVE FilesInv'
<1>1. /\ compact.pc = "log" /\ AppendRecord /\ db = "open"
      /\ compact' = [compact EXCEPT !.pc = "logged"]
      /\ UNCHANGED <<table, logs, temps, numVars, verVars, memVars, edit, flush,
                     pending_outputs_, garbage>>
    BY DEF Compact_Record
<1>2. /\ compact'.pc = "logged" /\ compact'.outputs = compact.outputs
      /\ compact'.left = compact.left /\ flush.pc = "idle" /\ garbage = {}
    BY <1>1 DEF IInv, Control, TypeOK, JobTypes, CompactionState, Jobs
<1>3. \A f : Listed(f)' => Listed(f)  BY <1>1, <1>2 DEF Listed, InVersion, verVars
<1>4. \A n : ~Writing(n)'  BY <1>1, <1>2 DEF Writing
<1>5. ListedWhole' /\ Numbered'
    <2>1. \A n \in Number : n # manifest_file_number_ => manifest'[n] = manifest[n]
        BY <1>1, AppendOne DEF IInv
    <2>2. QED  BY <1>1, <1>3, <1>4, <2>1, JobFilesSame, Zenon DEF memVars
<1>6. EntriesBelow'  BY <1>1, <1>2 DEF IInv, FilesInv, EntriesBelow, memVars
<1>7. Pending'  BY <1>1, <1>2 DEF Pending
<1>8. GarbageFree'  BY <1>1, <1>2 DEF GarbageFree
<1>9. QED  BY <1>5, <1>6, <1>7, <1>8 DEF FilesInv

LEMMA CompactInstallFiles == ASSUME IInv, Control', Compact_Install PROVE FilesInv'
<1> DEFINE released == Unref(ReleaseInputs(refs), current_)
<1>1. /\ compact.pc = "logged" /\ db = "open"
      /\ garbage' = IF compact.move THEN {}
                    ELSE Obsolete(bg_error_, log_number_, vfiles', refs', pending_outputs_', temps)
      /\ compact' = NoCompact /\ edit' = NoEdit
      /\ UNCHANGED <<dirVars, numVars, memVars, flush>>
    BY DEF Compact_Install, MutexFree
<1>2. PICK v \in Versions : AppendVersion(released, v, NewVersion)  BY DEF Compact_Install
<1>3. current_ \in Versions /\ refs \in [Versions -> Nat] /\ compact.version \in Versions
      /\ flush.pc = "idle"
    BY <1>1, OpenCurrent DEF IInv, Control, TypeOK, VersionTypes, JobTypes, CompactionState, Jobs
<1>4. \A f : InVersion(f)' => Listed(f)
    <2>1. ReleaseInputs(refs)
            = [u \in Versions |-> IF u = compact.version THEN refs[u] - 1 ELSE refs[u]]
        BY <1>3, RefAt DEF ReleaseInputs
    <2>2. released = [u \in Versions |-> IF u = current_ THEN ReleaseInputs(refs)[u] - 1
                                         ELSE ReleaseInputs(refs)[u]]
        <3>1. ReleaseInputs(refs) = [u \in Versions |-> ReleaseInputs(refs)[u]]  BY <2>1
        <3>2. QED  BY <1>3, <3>1, RefAt
    <2>3. \A u \in Versions : released[u] > 0 => refs[u] > 0  BY <1>3, <2>1, <2>2
    <2>4. released = [u \in Versions |-> released[u]]  BY <2>2
    <2> HIDE DEF released
    <2>5. \A f : InVersion(f)' => InVersion(f) \/ f \in NewVersion
        BY <1>2, <2>3, <2>4, Appended
    <2>6. QED  BY <1>1, <2>5, NewIsListed, Zenon DEF Listed
<1>5. \A f : Listed(f)' => InVersion(f)'  BY <1>1 DEF Listed, NoEdit, NoCompact
<1>6. \A n : ~Writing(n)'  BY <1>1, <1>3 DEF Writing, NoCompact
<1>7. ListedWhole' /\ Numbered'
    BY <1>1, <1>4, <1>5, <1>6, JobFilesSame, Zenon DEF dirVars, memVars
<1>8. EntriesBelow'  BY <1>1 DEF IInv, FilesInv, EntriesBelow, memVars, NoCompact
<1>9. Pending'  BY <1>1, <1>3 DEF Pending, NoCompact
<1>10. GarbageFree'
    <2>1. UNCHANGED manifest_file_number_  BY <1>1 DEF numVars
    <2>2. \A n : /\ <<"table", n>> \in garbage' => n \notin LiveFiles(vfiles', refs')
                 /\ <<"manifest", n>> \in garbage' => n < manifest_file_number_'
        BY <1>1, <2>1, ObsoleteSafe
    <2>3. \A f : Listed(f)' => f.number \in LiveFiles(vfiles', refs')  BY <1>5, LiveAfter
    <2>4. QED  BY <1>6, <2>2, <2>3 DEF GarbageFree
<1>11. QED  BY <1>7, <1>8, <1>9, <1>10 DEF FilesInv

LEMMA CompactFailFiles ==
    ASSUME IInv, Control', Compact_MergeFail \/ Compact_RecordFail PROVE FilesInv'
<1>1. Compact_Failed /\ db = "open" /\ compact.pc # "idle"
    BY DEF Compact_MergeFail, Compact_RecordFail, MutexFree
<1>2. /\ garbage' = {} /\ compact' = NoCompact /\ edit' = NoEdit
      /\ refs' = Unref(refs, compact.version) /\ vfiles' = Surviving(vfiles, refs')
      /\ UNCHANGED <<table, logs, temps, numVars, memVars, flush>>
    BY <1>1 DEF Compact_Failed, ReleaseInputs, Obsolete
<1>3. compact.version \in Versions /\ flush.pc = "idle"
    BY <1>1 DEF IInv, Control, TypeOK, JobTypes, CompactionState, Jobs, Compact_MergeFail,
                Compact_RecordFail
<1>4. \A f : Listed(f)' => Listed(f)
    <2>1. \A f : InVersion(f)' => InVersion(f)  BY <1>2, <1>3, Released DEF IInv
    <2>2. QED  BY <1>2, <2>1 DEF Listed, NoEdit, NoCompact
<1>5. \A n : ~Writing(n)'  BY <1>2, <1>3 DEF Writing, NoCompact
<1>6. \A n \in Number : n # manifest_file_number_ => manifest'[n] = manifest[n]
    BY AppendOne DEF IInv, Compact_MergeFail, Compact_RecordFail
<1>7. ListedWhole' /\ Numbered'
    <2>1. next_file_number_ \in Nat /\ log_number_ < next_file_number_  BY <1>1, BelowNext
    <2>2. UNCHANGED <<logs, temps, next_file_number_, manifest_file_number_, log_number_,
                      logfile_number_, last_sequence_, table>>
        BY <1>2 DEF numVars, memVars
    <2>3. next_file_number_ <= next_file_number_' /\ log_number_' < next_file_number_'
        BY <2>1, <2>2
    <2>4. QED  BY <1>1, <1>4, <1>5, <1>6, <2>2, <2>3, JobFiles
<1>8. EntriesBelow'  BY <1>2 DEF IInv, FilesInv, EntriesBelow, memVars, NoCompact
<1>9. Pending'  BY <1>2, <1>3 DEF Pending, NoCompact
<1>10. GarbageFree'  BY <1>2 DEF GarbageFree
<1>11. QED  BY <1>7, <1>8, <1>9, <1>10 DEF FilesInv
-----------------------------------------------------------------------------
LEMMA StutterFiles == ASSUME FilesInv, UNCHANGED vars PROVE FilesInv'
<1>1. UNCHANGED <<dirVars, db, numVars, verVars, memVars, jobVars, garbage>>  BY DEF vars
<1>2. ListedWhole'
    BY <1>1, Zenon DEF FilesInv, ListedWhole, Listed, InVersion, Whole, Used, Writing, dirVars, numVars,
                verVars, memVars, jobVars
<1>3. Numbered'
    BY <1>1 DEF FilesInv, Numbered, Running, Used, Writing, dirVars, numVars, jobVars
<1>4. EntriesBelow' /\ Pending'
    BY <1>1 DEF FilesInv, EntriesBelow, Pending, memVars, jobVars
<1>5. GarbageFree'
    BY <1>1 DEF FilesInv, GarbageFree, Listed, InVersion, Writing, numVars, verVars, jobVars
<1>6. QED  BY <1>2, <1>3, <1>4, <1>5 DEF FilesInv

LEMMA NextFiles == ASSUME IInv, Control', [Next]_vars PROVE FilesInv'
<1>1. CASE Open  BY <1>1, OpenFiles
<1>2. CASE Open_Fails \/ Crash  BY <1>2, DownFiles DEF Open_Fails, Crash, MemoryLost
<1>3. CASE Background
    BY <1>3, FlushBeginFiles, FlushCreateFiles, FlushBuiltFiles, FlushRecordFiles,
       FlushInstallFiles, FlushFailFiles, CompactBeginFiles, CompactMoveFiles, CompactOpenFiles,
       CompactFinishFiles, CompactDoneFiles, CompactRecordFiles, CompactInstallFiles,
       CompactFailFiles
    DEF Background
<1>4. CASE UNCHANGED vars  BY <1>4, StutterFiles DEF IInv
<1>5. QED
    BY <1>1, <1>2, <1>3, <1>4, DeleteFiles, WriteFiles, SwitchFiles, ReadFiles DEF Next
-----------------------------------------------------------------------------
(* What the directory has: facts about it *)

\* Without work there is no edit.
LEMMA IdleEdits == Idle' => Covered' /\ EditAbove' /\ ~Logged' /\ ~Editing'
<1>1. SUFFICES ASSUME Idle' PROVE Covered' /\ EditAbove' /\ ~Logged' /\ ~Editing'  OBVIOUS
<1>2. flush'.pc = "idle" /\ compact'.pc = "idle" /\ edit'.del = {} /\ edit'.add = {}
    BY <1>1 DEF Idle, NoFlush, NoCompact, NoEdit
<1>3. ~Logged' /\ ~Editing'  BY <1>2 DEF Logged, Editing
<1>4. EditAbove'  BY <1>3 DEF EditAbove
<1>5. Covered'  BY <1>2 DEF Covered
<1>6. QED  BY <1>3, <1>4, <1>5

\* A table of the manifest that Recover would replay is not written to.
LEMMA SavedSafe ==
    ASSUME IInv, db = "open", Readable, NEW f \in Saved.files
    PROVE  /\ f \in FileMetaData /\ f.number \in Number
           /\ f.number < next_file_number_ /\ f.number # manifest_file_number_
           /\ ~Writing(f.number)
           /\ current = manifest_file_number_ => Listed(f) /\ Whole(f)
<1>1. current \in Number /\ Saved \in Snapshot  BY OpenCurrent DEF IInv, Control, TypeOK, DirTypes, Saved
<1>2. f \in FileMetaData /\ f.number \in Number /\ f.number \in Nat
    BY <1>1, NumberNat DEF Snapshot, FileMetaData
<1>3. next_file_number_ \in Nat /\ manifest_file_number_ \in Nat
    BY NumberNat DEF IInv, Control, TypeOK, MemoryTypes
<1>4. CASE current = manifest_file_number_
    <2>1. f \in NewVersion \/ f \in vfiles[current_]  BY <1>4 DEF IInv, DiskInv, InStep
    <2>2. Listed(f)
        <3>1. current_ \in Versions  BY OpenCurrent DEF IInv
        <3>2. refs[current_] > 0  BY <3>1, HeldIsCounted DEF IInv, Control
        <3>3. QED  BY <2>1, <3>1, <3>2, NewIsListed DEF Listed, InVersion
    <2>3. Whole(f)  BY <1>2, <2>2 DEF IInv, FilesInv, ListedWhole
    <2>4. QED  BY <1>2, <2>2, <2>3 DEF Whole
<1>5. CASE current # manifest_file_number_
    <2>1. f.number < manifest_file_number_
        BY <1>5 DEF IInv, DiskInv, SavedWhole, Reopened, Running
    <2>2. /\ manifest_file_number_ < next_file_number_
          /\ Writing(f.number) => manifest_file_number_ < f.number
        BY <1>2 DEF IInv, FilesInv, Numbered, Running
    <2>3. QED  BY <1>2, <1>3, <1>5, <2>1, <2>2
<1>6. QED  BY <1>4, <1>5

\* The database is open and stays open: the manifest that is written and the counters
\* bound what there is.
LEMMA OpenReopened ==
    ASSUME IInv, Control', db = "open", db' = "open",
           UNCHANGED <<current, manifest_file_number_>>, temps' \subseteq temps,
           \A n \in Number : \/ n = manifest_file_number_ \/ manifest'[n] = manifest[n]
                             \/ manifest'[n] = NoManifest
    PROVE  Reopened' /\ Fresh'
<1>1. current \in Number /\ current' # NULL /\ manifest_file_number_ \in Nat
    BY OpenCurrent, NumberNat DEF IInv, Control, TypeOK, MemoryTypes
<1>2. Running /\ db' \notin Opening /\ db' \notin Creating  BY DEF Running, Opening, Creating
<1>3. \A n \in Number :
        n \in temps' \/ manifest'[n] # NoManifest => n <= manifest_file_number_
    BY <1>1, <1>2 DEF IInv, DiskInv, Reopened
<1>4. ASSUME Readable', current # manifest_file_number_ PROVE Saved'.next = manifest_file_number_
    <2>1. Saved' = Saved /\ Readable
        BY <1>1, <1>4 DEF Readable, Saved, NoManifest
    <2>2. QED  BY <1>2, <1>4, <2>1 DEF IInv, DiskInv, Reopened
<1>5. Reopened'  BY <1>2, <1>3, <1>4 DEF Reopened
<1>6. Fresh'  BY <1>1, <1>2 DEF Fresh
<1>7. QED  BY <1>5, <1>6

\* A step that leaves the manifests alone and writes no table but those that are being
\* written, or have the next number
LEMMA OpenDisk ==
    ASSUME IInv, Control', db = "open", db' = "open",
           UNCHANGED <<manifest, current, temps, manifest_file_number_, missed>>,
           logs' \subseteq logs \cup {next_file_number_},
           \A n \in Number : table'[n] = table[n] \/ Writing(n) \/ n = next_file_number_,
           flushed' \subseteq flushed \cup (IF Logged THEN Entries(NewVersion) ELSE {}),
           (IF Logged THEN NewVersion ELSE vfiles[current_])
             = (IF Logged' THEN NewVersion' ELSE vfiles'[current_'])
    PROVE  SavedWhole' /\ Fresh' /\ Reopened' /\ InStep' /\ Kept'
<1>1. Reopened' /\ Fresh'  BY OpenReopened
<1>2. Saved' = Saved /\ (Readable' <=> Readable)  BY DEF Saved, Readable
<1>3. next_file_number_ \in Nat /\ Number \subseteq Nat
    BY NumberNat DEF IInv, Control, TypeOK, MemoryTypes
<1>4. ASSUME Readable, NEW f \in Saved.files
      PROVE  table'[f.number] = table[f.number] /\ (Used(f.number)' => Used(f.number))
    <2>1. f.number \in Number /\ f.number < next_file_number_ /\ ~Writing(f.number)
        BY <1>4, SavedSafe
    <2>2. f.number # next_file_number_  BY <1>3, <2>1
    <2>3. QED  BY <2>1, <2>2 DEF Used
<1>5. SavedWhole'
    BY <1>2, <1>4 DEF IInv, DiskInv, SavedWhole
<1>6. InStep'  BY <1>2 DEF IInv, DiskInv, InStep
<1>7. Kept'
    <2>1. SUFFICES ASSUME ~missed, Readable
                   PROVE  OnDisk(Saved.files)' /\ flushed' \subseteq Entries(Saved.files)
        BY <1>2 DEF IInv, DiskInv, Kept, Entries
    <2>2. /\ current = manifest_file_number_ /\ OnDisk(Saved.files)
          /\ flushed \subseteq Entries(Saved.files)
        BY <2>1 DEF IInv, DiskInv, Kept, Readable
    <2>3. Logged => Saved.files = NewVersion  BY <2>1, <2>2 DEF IInv, DiskInv, InStep
    <2>4. OnDisk(Saved.files)'  BY <1>2, <1>4, <2>1, <2>2 DEF OnDisk
    <2>5. QED  BY <2>2, <2>3, <2>4
<1>8. QED  BY <1>1, <1>5, <1>6, <1>7

\* The database holds its current version, ...
LEMMA CurrentHeld == ASSUME Control', current_' \in Versions PROVE refs'[current_'] > 0
<1>1. ASSUME NEW v \in Versions, current_' = v PROVE refs'[v] > 0
    <2>1. Cardinality(ReadersOf(v)') \in Nat  BY ReadersFinite
    <2>2. QED  BY <1>1, <2>1 DEF Control, RefsExact, Holders, One
<1>2. QED  BY <1>1

\* ... which keeps its tables when another one is released.
LEMMA CurrentKept ==
    ASSUME Control', UNCHANGED current_, current_ \in Versions, vfiles' = Surviving(vfiles, refs')
    PROVE  vfiles'[current_'] = vfiles[current_]
<1>1. refs'[current_'] > 0  BY CurrentHeld
<1>2. QED  BY <1>1 DEF Surviving

\* An edit that is made now has the counters, which are above all there is ...
LEMMA EditNew ==
    ASSUME IInv, Control', FilesInv', db' = "open", edit'.next = next_file_number_',
           edit'.last = last_sequence_', edit'.log \in {log_number_', logfile_number_'}
    PROVE  EditAbove'
<1>1. current_' \in Versions  BY DEF Control, TypeOK, VersionTypes, Phases, Creating
<1>2. refs'[current_'] > 0  BY <1>1, CurrentHeld
<1>3. \A f \in vfiles'[current_'] \cup edit'.add : f \in FileMetaData /\ Listed(f)'
    BY <1>1, <1>2
    DEF Listed, InVersion, Control, TypeOK, VersionTypes, JobTypes, VersionEdit
<1>4. \A f \in vfiles'[current_'] \cup edit'.add :
        f.number < next_file_number_' /\ \A e \in f.data : e <= last_sequence_'
    BY <1>3 DEF FilesInv, ListedWhole, Whole
<1>5. /\ manifest_file_number_' < next_file_number_' /\ log_number_' < next_file_number_'
      /\ logfile_number_' < next_file_number_'
    BY DEF FilesInv, Numbered, Running
<1>6. next_file_number_' \in Nat  BY NumberNat DEF Control, TypeOK, MemoryTypes
<1>7. QED  BY <1>4, <1>5, <1>6 DEF EditAbove

\* ... and stay above it.
LEMMA EditKept ==
    ASSUME IInv, Control', Editing' => Editing, UNCHANGED <<edit, manifest_file_number_>>,
           next_file_number_ <= next_file_number_', vfiles'[current_'] = vfiles[current_]
    PROVE  EditAbove'
<1>1. next_file_number_ \in Nat /\ next_file_number_' \in Nat /\ edit.next \in Nat
    BY NumberNat DEF IInv, Control, TypeOK, MemoryTypes, JobTypes, VersionEdit
<1>2. QED  BY <1>1 DEF IInv, DiskInv, EditAbove
-----------------------------------------------------------------------------
(* DB::Open *)

LEMMA InitDisk == Init => FilesInv /\ DiskInv
<1> SUFFICES ASSUME Init PROVE FilesInv /\ DiskInv  OBVIOUS
<1>1. /\ db = "down" /\ current = NULL /\ garbage = {} /\ mem_ = {} /\ imm_ = NULL
      /\ flush.pc = "idle" /\ compact.pc = "idle" /\ compact.left = {} /\ compact.outputs = {}
      /\ edit.add = {} /\ edit.del = {}
    BY DEF Init, NoFlush, NoCompact, NoEdit
<1>2. ~Running /\ ~Readable /\ ~Editing /\ db \notin Opening /\ db \notin Creating
      /\ \A n : ~Writing(n)
    BY <1>1 DEF Running, Readable, Editing, Opening, Creating, Writing
<1>3. ListedWhole
    <2>1. \A v \in Versions : refs[v] = 0  BY DEF Init
    <2>2. QED  BY <1>1, <2>1 DEF ListedWhole, Listed, InVersion
<1>4. FilesInv
    BY <1>1, <1>2, <1>3 DEF FilesInv, Numbered, EntriesBelow, Pending, GarbageFree
<1>5. Fresh  BY <1>2 DEF Init, Fresh, Used
<1>6. Covered  BY <1>1 DEF Covered, Entries
<1>7. QED
    BY <1>1, <1>2, <1>4, <1>5, <1>6 DEF DiskInv, EditAbove, SavedWhole, Reopened, InStep, Kept

\* Before there is a CURRENT
LEMMA CreatingDisk ==
    ASSUME Control', db' \in {"down"} \cup Creating, current' = NULL, Fresh'
    PROVE  DiskInv'
<1>1. Idle' /\ ~Running' /\ ~Readable' /\ db' \notin Opening /\ db' # "open"
    BY DEF Control, Phases, Running, Readable, Creating, Opening
<1>2. Covered' /\ EditAbove'  BY <1>1, IdleEdits
<1>3. db' \notin {"open_temp", "open_current"}  BY <1>1 DEF Opening
<1>4. SavedWhole' /\ Kept'  BY <1>1 DEF SavedWhole, Kept
<1>5. Reopened' /\ InStep'  BY <1>1, <1>3 DEF Reopened, InStep
<1>6. QED  BY <1>2, <1>4, <1>5, Zenon DEF DiskInv

LEMMA NewDBDisk == ASSUME IInv, Control', NewDB PROVE DiskInv'
<1>1. /\ current = NULL /\ current' = NULL /\ db' = "new_temp" /\ 1 \in Number
      /\ manifest' = [manifest EXCEPT ![1] = [files |-> {}, log |-> 0, next |-> 2, last |-> 0,
                                              state |-> "good"]]
      /\ UNCHANGED <<table, logs, temps, flushed>>
    BY FilesAssumption DEF NewDB, Number, histVars
<1>2. Fresh  BY DEF IInv, DiskInv
<1>3. manifest'[1] = [files |-> {}, log |-> 0, next |-> 2, last |-> 0, state |-> "good"]
      /\ \A n \in Number : n # 1 => manifest'[n] = manifest[n]
    BY <1>1 DEF IInv, Control, TypeOK, DirTypes
<1>4. \A n \in Number : Used(n)' => n <= 1
    <2>1. 1 <= 1  OBVIOUS
    <2>2. QED  BY <1>1, <1>2, <1>3, <2>1 DEF Used, Fresh
<1>5. Fresh'  BY <1>1, <1>2, <1>3, <1>4 DEF Fresh
<1>6. QED  BY <1>1, <1>5, CreatingDisk DEF Creating

LEMMA NewDBTempDisk ==
    ASSUME IInv, Control', SetCurrentFile_Temp, db = "new_temp" PROVE DiskInv'
<1>1. /\ manifest_file_number_ = 1 /\ current = NULL /\ current' = NULL /\ db' = "new_current"
      /\ temps' = temps \cup {1} /\ UNCHANGED <<table, logs, manifest, flushed>>
      /\ db \in Creating
    BY DEF IInv, Control, Phases, SetCurrentFile_Temp, Creating, histVars
<1>2. Fresh  BY DEF IInv, DiskInv
<1>3. \A n \in Number : Used(n)' => n <= 1
    <2>1. 1 <= 1  OBVIOUS
    <2>2. QED  BY <1>1, <1>2, <2>1 DEF Used, Fresh
<1>4. Fresh'  BY <1>1, <1>2, <1>3 DEF Fresh
<1>5. QED  BY <1>1, <1>4, CreatingDisk DEF Creating

LEMMA NewDBCurrentDisk == ASSUME IInv, Control', NewDB_Current PROVE DiskInv'
<1>1. /\ db = "new_current" /\ db \in Creating /\ db' = "down" /\ manifest_file_number_ = 1
      /\ current = NULL /\ temps' \subseteq temps
      /\ UNCHANGED <<table, logs, manifest, flushed>>
    BY DEF IInv, Control, Phases, NewDB_Current, Creating, Rename
<1>2. /\ \A n \in Number : table[n] = NULL /\ (Used(n) => n <= 1)
      /\ logs = {} /\ flushed = {}
      /\ manifest[1] = [files |-> {}, log |-> 0, next |-> 2, last |-> 0, state |-> "good"]
    BY <1>1 DEF IInv, DiskInv, Fresh
<1>3. \A n \in Number : Used(n)' => n <= 1  BY <1>1, <1>2 DEF Used
<1>4. CASE current' = NULL
    <2>1. Fresh'  BY <1>1, <1>2, <1>3 DEF Fresh, Creating
    <2>2. QED  BY <1>1, <1>4, <2>1, CreatingDisk
<1>5. CASE current' = 1
    <2>1. /\ Saved'.files = {} /\ Saved'.log = 0 /\ Saved'.next = 2 /\ Saved'.last = 0
          /\ Saved'.state = "good"
        BY <1>1, <1>2, <1>5 DEF Saved
    <2>2. Idle' /\ ~Running' /\ db' \notin Opening /\ db' \notin Creating /\ 1 # NULL
        BY <1>1, FilesAssumption DEF Control, Phases, Running, Creating, Opening
    <2>3. SavedWhole'
        <3>1. \A n \in Number : n \in temps' \/ manifest'[n] # NoManifest => n <= Saved'.next
            <4> SUFFICES ASSUME NEW n \in Number, Used(n)' PROVE n <= 2  BY <2>1 DEF Used
            <4>1. QED  BY <1>3, NumberNat
        <3>2. QED  BY <1>5, <2>1, <3>1 DEF SavedWhole
    <2>4. Fresh' /\ Reopened' /\ InStep'  BY <1>1, <1>5, <2>2 DEF Fresh, Reopened, InStep
    <2>5. Kept'  BY <1>1, <1>2, <2>1 DEF Kept, OnDisk, Entries
    <2>6. QED  BY <2>2, <2>3, <2>4, <2>5, IdleEdits DEF DiskInv
<1>6. QED  BY <1>1, <1>4, <1>5 DEF NewDB_Current, Rename

\* The tables of the manifest Open has read are those of the version.
LEMMA OpeningSaved ==
    ASSUME IInv, db \in Opening
    PROVE  /\ Readable /\ Idle /\ current \in Number /\ current_ \in Versions
           /\ current # manifest_file_number_ /\ manifest_file_number_ \in Number
           /\ Saved.next = manifest_file_number_ /\ Saved.files = vfiles[current_]
           /\ \A f \in Saved.files : /\ f.number \in Number /\ f.number # manifest_file_number_
                                     /\ Listed(f) /\ Whole(f)
<1>1. /\ Readable /\ Saved.files = vfiles[current_] /\ current # manifest_file_number_
      /\ Saved.next = manifest_file_number_
    BY DEF IInv, DiskInv, Reopened, Running
<1>2. /\ Idle /\ current \in Number /\ current_ \in Versions /\ manifest_file_number_ \in Number
      /\ vfiles[current_] \in SUBSET FileMetaData
    BY DEF IInv, Control, TypeOK, DirTypes, MemoryTypes, VersionTypes, Phases, Creating, Opening
<1>3. refs[current_] > 0  BY <1>2, HeldIsCounted DEF IInv, Control
<1>4. \A f \in Saved.files : Listed(f) /\ f \in FileMetaData
    BY <1>1, <1>2, <1>3 DEF Listed, InVersion
<1>5. \A f \in Saved.files : Whole(f)  BY <1>4 DEF IInv, FilesInv, ListedWhole
<1>6. QED  BY <1>1, <1>2, <1>4, <1>5 DEF Whole, FileMetaData

\* While Open is at work on its new manifest
LEMMA OpeningDisk ==
    ASSUME IInv, Control', db \in Opening, db' \in Opening,
           UNCHANGED <<table, logs, current, numVars, verVars, memVars, flushed, missed>>,
           temps' \subseteq temps \cup {manifest_file_number_},
           \A n \in Number : n # manifest_file_number_ => manifest'[n] = manifest[n],
           db' \in {"open_temp", "open_current"} =>
               manifest'[manifest_file_number_] =
                   [files |-> vfiles[current_], log |-> logfile_number_,
                    next |-> next_file_number_, last |-> last_sequence_, state |-> "good"]
    PROVE  DiskInv'
<1>1. /\ Readable /\ current \in Number
      /\ current # manifest_file_number_ /\ manifest_file_number_ \in Number
      /\ Saved.next = manifest_file_number_ /\ Saved.files = vfiles[current_]
      /\ \A f \in Saved.files : f.number \in Number /\ f.number # manifest_file_number_
    BY OpeningSaved
<1>2. Saved' = Saved /\ Readable'  BY <1>1 DEF Saved, Readable
<1>3. \A n \in Number : n # manifest_file_number_ => (Used(n)' => Used(n))  BY DEF Used
<1>4. /\ Running /\ Running' /\ db' # "open" /\ current' # NULL /\ db' \notin Creating /\ Idle'
      /\ UNCHANGED <<manifest_file_number_, logfile_number_, next_file_number_, last_sequence_>>
      /\ vfiles'[current_'] = vfiles[current_]
    BY <1>1, NullApart
    DEF Running, Creating, Opening, Control, Phases, numVars, memVars, verVars
<1>5. \A n \in Number :
        n \in temps' \/ manifest'[n] # NoManifest => n <= manifest_file_number_
    <2>1. manifest_file_number_ <= manifest_file_number_  BY <1>1, NumberNat
    <2>2. QED  BY <1>4, <2>1 DEF IInv, DiskInv, Reopened
<1>6. SavedWhole'
    BY <1>1, <1>2, <1>3, <1>5 DEF IInv, DiskInv, SavedWhole
<1>7. Fresh' /\ InStep'  BY <1>4 DEF Fresh, InStep
<1>8. Reopened'
    <2>1. Saved.last = last_sequence_  BY DEF IInv, DiskInv, Reopened
    <2>2. db' \in Opening =>
            /\ Readable' /\ Saved'.files = vfiles'[current_'] /\ Saved'.last = last_sequence_'
            /\ current' # manifest_file_number_'
        BY <1>1, <1>2, <1>4, <2>1
    <2>3. db' \in {"open_temp", "open_current"} =>
            manifest'[manifest_file_number_'] =
                [files |-> vfiles'[current_'], log |-> logfile_number_',
                 next |-> next_file_number_', last |-> last_sequence_', state |-> "good"]
        BY <1>4
    <2>4. QED  BY <1>1, <1>2, <1>4, <1>5, <2>2, <2>3 DEF Reopened
<1>9. Kept'
    BY <1>1, <1>2, <1>4 DEF IInv, DiskInv, Kept, OnDisk, Entries
<1>10. QED  BY <1>4, <1>6, <1>7, <1>8, <1>9, IdleEdits DEF DiskInv

LEMMA RecoverDisk == ASSUME IInv, Control', Recover PROVE DiskInv'
<1>1. /\ Readable /\ current \in Number /\ db = "down" /\ db' = "open_manifest"
      /\ manifest_file_number_' = Saved.next /\ last_sequence_' = Saved.last
      /\ vfiles' = [vfiles EXCEPT ![1] = Saved.files] /\ current_' = 1
      /\ logs' = logs \cup {NextAfterLogs(Saved)}
      /\ UNCHANGED <<table, manifest, current, temps, flushed, missed>>
    BY DEF IInv, Control, TypeOK, DirTypes, Recover, Readable, Saved, histVars
<1>2. Saved \in Snapshot /\ Saved.next \in Nat /\ current \in Nat
    BY <1>1, NumberNat DEF IInv, Control, TypeOK, DirTypes, Saved, Snapshot
<1>3. NextAfterLogs(Saved) \in Nat /\ Saved.next < NextAfterLogs(Saved)
    BY <1>2, NextAfterAll DEF IInv, Control, TypeOK
<1>4. Saved' = Saved /\ Readable'  BY <1>1 DEF Saved, Readable
<1>5. /\ current < Saved.next /\ Saved.log <= Saved.next
      /\ \A f \in Saved.files :
            /\ f.number < Saved.next /\ table[f.number] \in {NULL, f.data} /\ ~Used(f.number)
            /\ \A e \in f.data : e <= Saved.last
      /\ \A n \in Number : n \in temps \/ manifest[n] # NoManifest => n <= Saved.next
    BY <1>1 DEF IInv, DiskInv, SavedWhole
<1>6. ASSUME NEW f \in Saved.files PROVE ~Used(f.number)'
    <2>1. f.number \in Nat  BY <1>2, NumberNat DEF Snapshot, FileMetaData
    <2>2. f.number # NextAfterLogs(Saved)  BY <1>2, <1>3, <1>5, <2>1
    <2>3. ~Used(f.number)  BY <1>5
    <2>4. QED  BY <1>1, <2>2, <2>3 DEF Used
<1>7. SavedWhole'  BY <1>1, <1>4, <1>5, <1>6 DEF SavedWhole
<1>8. /\ db' # "open" /\ current' # NULL /\ db' \notin Creating /\ Idle' /\ db' \in Opening
      /\ db' \notin {"open_temp", "open_current"}
    BY <1>1, NullApart DEF Creating, Opening, Control, Phases
<1>9. Fresh' /\ InStep'  BY <1>8 DEF Fresh, InStep
<1>10. vfiles'[current_'] = Saved.files
    <2>1. 1 \in Versions  BY FilesAssumption DEF Versions
    <2>2. QED  BY <1>1, <2>1 DEF IInv, Control, TypeOK, VersionTypes
<1>11. Reopened'
    <2>1. current' # manifest_file_number_'
        <3>1. current' = current /\ manifest_file_number_' = Saved.next  BY <1>1
        <3>2. current # Saved.next  BY <1>2, <1>5
        <3>3. QED  BY <3>1, <3>2
    <2>2. QED  BY <1>1, <1>4, <1>5, <1>8, <1>10, <2>1 DEF Reopened
<1>12. Kept'  BY <1>1, <1>4, <1>8 DEF IInv, DiskInv, Kept, OnDisk, Entries
<1>13. QED  BY <1>7, <1>8, <1>9, <1>11, <1>12, IdleEdits DEF DiskInv

\* CURRENT is renamed, or not, and the version is installed.
LEMMA OpenCurrentDisk == ASSUME IInv, Control', Open_Current PROVE DiskInv'
<1>1. /\ db = "open_current" /\ db \in Opening /\ db' = "open" /\ Rename
      /\ UNCHANGED <<table, logs, manifest, next_file_number_, manifest_file_number_,
                     logfile_number_, last_sequence_, jobVars, flushed>>
    BY DEF Open_Current, Opening, memVars
<1>2. /\ Readable /\ Idle /\ current \in Number /\ current_ \in Versions
      /\ current # manifest_file_number_ /\ manifest_file_number_ \in Number
      /\ Saved.next = manifest_file_number_ /\ Saved.files = vfiles[current_]
      /\ \A f \in Saved.files : Listed(f) /\ Whole(f)
    BY <1>1, OpeningSaved
<1>3. vfiles'[current_'] = vfiles[current_]
    <2>1. PICK v \in Versions : AppendVersion(Unref(refs, current_), v, vfiles[current_])
        BY DEF Open_Current
    <2>2. refs \in [Versions -> Nat]  BY DEF IInv, Control, TypeOK, VersionTypes
    <2>3. Unref(refs, current_) = [u \in Versions |-> IF u = current_ THEN refs[u] - 1 ELSE refs[u]]
        BY <1>2, <2>2, RefAt
    <2>4. \A u \in Versions : Unref(refs, current_)[u] > 0 => refs[u] > 0  BY <1>2, <2>2, <2>3
    <2>5. QED  BY <2>1, <2>3, <2>4, Appended
<1>4. temps' \subseteq temps /\ \A n : Used(n)' => Used(n)  BY <1>1 DEF Rename, Used
<1>5. /\ current' # NULL /\ db' \notin Opening /\ db' \notin Creating
      /\ db' \notin {"open_temp", "open_current"}
    BY <1>1, <1>2, NullApart DEF Opening, Creating, Rename
<1>6. ~Logged' /\ Covered' /\ EditAbove'
    BY <1>1, <1>2
    DEF Idle, Logged, Covered, EditAbove, Editing, NoFlush, NoCompact, NoEdit, Entries, jobVars
<1>7. \A n \in Number :
        n \in temps' \/ manifest'[n] # NoManifest => n <= manifest_file_number_'
    BY <1>1, <1>4, Zenon DEF IInv, DiskInv, Reopened, Running
<1>8. Fresh'  BY <1>5 DEF Fresh
<1>9. CASE current' = manifest_file_number_ /\ UNCHANGED missed
    <2>1. Saved' = [files |-> vfiles[current_], log |-> logfile_number_, next |-> next_file_number_,
                    last |-> last_sequence_, state |-> "good"]
        BY <1>1, <1>9 DEF IInv, DiskInv, Reopened, Saved
    <2>2. /\ Saved'.files = vfiles[current_] /\ Saved'.log = logfile_number_
          /\ Saved'.next = next_file_number_ /\ Saved'.last = last_sequence_
          /\ Saved'.state = "good"
        BY <2>1
    <2>3. /\ next_file_number_ \in Nat /\ logfile_number_ \in Nat /\ manifest_file_number_ \in Nat
          /\ Number \subseteq Nat
        BY NumberNat DEF IInv, Control, TypeOK, MemoryTypes
    <2>4. manifest_file_number_ < next_file_number_ /\ logfile_number_ < next_file_number_
        BY <1>1 DEF IInv, FilesInv, Numbered, Running
    <2>5. SavedWhole'
        <3>1. \A f \in Saved'.files :
                /\ f.number < Saved'.next /\ table'[f.number] \in {NULL, f.data}
                /\ ~Used(f.number)' /\ \A e \in f.data : e <= Saved'.last
            BY <1>1, <1>2, <1>4, <2>2 DEF Whole
        <3>2. \A n \in Number : n \in temps' \/ manifest'[n] # NoManifest => n <= Saved'.next
            BY <1>1, <1>7, <2>2, <2>3, <2>4
        <3>3. current' < Saved'.next /\ Saved'.log <= Saved'.next  BY <1>9, <2>2, <2>3, <2>4
        <3>4. QED  BY <3>1, <3>2, <3>3 DEF SavedWhole
    <2>6. Reopened'  BY <1>1, <1>5, <1>7, <1>9 DEF Reopened
    <2>7. InStep'  BY <1>3, <1>6, <2>2 DEF InStep
    <2>8. Kept'
        <3>1. OnDisk(Saved.files)'  BY <1>1, <1>2, <2>2 DEF OnDisk, Whole
        <3>2. ~missed => flushed \subseteq Entries(vfiles[current_])
            BY <1>2 DEF IInv, DiskInv, Kept, Readable
        <3>3. QED  BY <1>1, <1>9, <2>2, <3>1, <3>2 DEF Kept, Entries
    <2>9. QED  BY <1>6, <1>8, <2>5, <2>6, <2>7, <2>8 DEF DiskInv
<1>10. CASE missed' = TRUE /\ current' = current
    <2>1. Saved' = Saved /\ Readable'  BY <1>1, <1>2, <1>10 DEF Saved, Readable
    <2>2. SavedWhole'
        BY <1>1, <1>2, <1>4, <1>10, <2>1, Zenon DEF IInv, DiskInv, SavedWhole
    <2>3. Reopened'  BY <1>1, <1>2, <1>5, <1>7, <2>1 DEF Reopened
    <2>4. InStep' /\ Kept'  BY <1>1, <1>2, <1>10 DEF InStep, Kept
    <2>5. QED  BY <1>6, <1>8, <2>2, <2>3, <2>4 DEF DiskInv
<1>11. QED  BY <1>1, <1>9, <1>10 DEF Rename

LEMMA OpenStepDisk == ASSUME IInv, Control', Open PROVE DiskInv'
<1>1. CASE SetCurrentFile_Temp /\ db = "open_temp"
    <2>1. manifest[manifest_file_number_] =
            [files |-> vfiles[current_], log |-> logfile_number_, next |-> next_file_number_,
             last |-> last_sequence_, state |-> "good"]
        BY <1>1 DEF IInv, DiskInv, Reopened
    <2>2. QED  BY <1>1, <2>1, OpeningDisk DEF SetCurrentFile_Temp, Opening, histVars
<1>2. CASE Open_Create
    <2>1. \A n \in Number : n # manifest_file_number_ => manifest'[n] = manifest[n]
        BY <1>2 DEF IInv, Control, TypeOK, DirTypes, Open_Create
    <2>2. QED  BY <1>2, <2>1, OpeningDisk DEF Open_Create, Opening, histVars
<1>3. CASE Open_Record
    <2>1. /\ \A n \in Number : n # manifest_file_number_ => manifest'[n] = manifest[n]
          /\ manifest'[manifest_file_number_] =
                [files |-> vfiles[current_], log |-> logfile_number_, next |-> next_file_number_,
                 last |-> last_sequence_, state |-> "good"]
        BY <1>3 DEF IInv, Control, TypeOK, DirTypes, MemoryTypes, Open_Record
    <2>2. QED  BY <1>3, <2>1, OpeningDisk DEF Open_Record, Opening, histVars
<1>4. QED
    BY <1>1, <1>2, <1>3, NewDBDisk, NewDBTempDisk, NewDBCurrentDisk, RecoverDisk, OpenCurrentDisk
    DEF Open, SetCurrentFile_Temp

\* The process dies, or Open gives up.
LEMMA DownDisk ==
    ASSUME IInv, Control', db' = "down", UNCHANGED <<table, logs, current, temps, flushed, missed>>,
           \/ UNCHANGED manifest
           \/ db \in Opening /\ manifest' = [manifest EXCEPT ![manifest_file_number_] = NoManifest]
    PROVE  DiskInv'
<1>1. Idle' /\ ~Running' /\ db' \notin Opening /\ db' # "open" /\ db' \notin Creating
      /\ db' \notin {"open_temp", "open_current"}
    BY DEF Control, Phases, Running, Creating, Opening
<1>2. current # NULL => current \in Number /\ Saved' = Saved /\ (Readable' <=> Readable)
    <2>1. db \in Opening => current # manifest_file_number_  BY OpeningSaved
    <2>2. QED  BY <2>1 DEF IInv, Control, TypeOK, DirTypes, Saved, Readable
<1>3. \A n \in Number : manifest'[n] = manifest[n] \/ manifest'[n] = NoManifest
    BY DEF IInv, Control, TypeOK, DirTypes
<1>4. \A n \in Number : Used(n)' => Used(n)  BY <1>3 DEF Used
<1>5. SavedWhole'
    <2>1. SUFFICES ASSUME Readable, current # NULL, Saved' = Saved PROVE SavedWhole'
        BY <1>2 DEF SavedWhole, Readable
    <2>2. \A f \in Saved.files : f.number \in Number
        BY <1>2, <2>1 DEF IInv, Control, TypeOK, DirTypes, Saved, Snapshot, FileMetaData
    <2>3. QED  BY <1>3, <1>4, <2>1, <2>2 DEF IInv, DiskInv, SavedWhole
<1>6. Fresh'  BY <1>1, <1>4 DEF IInv, DiskInv, Fresh
<1>7. Reopened' /\ InStep'  BY <1>1 DEF Reopened, InStep
<1>8. Kept'  BY <1>1, <1>2 DEF IInv, DiskInv, Kept, OnDisk, Entries
<1>9. QED  BY <1>1, <1>5, <1>6, <1>7, <1>8, IdleEdits DEF DiskInv
-----------------------------------------------------------------------------
(* Deletions, writers and readers *)

LEMMA DeleteDisk == ASSUME IInv, Control', DeleteObsolete PROVE DiskInv'
<1>1. PICK g \in garbage :
        /\ table' = IF g[1] = "table" THEN [table EXCEPT ![g[2]] = NULL] ELSE table
        /\ temps' = IF g[1] = "temp" THEN temps \ {g[2]} ELSE temps
        /\ logs' = IF g[1] = "log" THEN logs \ {g[2]} ELSE logs
        /\ manifest' = IF g[1] = "manifest" THEN [manifest EXCEPT ![g[2]] = NoManifest] ELSE manifest
    BY DEF DeleteObsolete
<1>2. /\ g \in {"table", "temp", "log", "manifest"} \X Number
      /\ UNCHANGED <<current, db, numVars, verVars, memVars, jobVars, flushed, missed>>
    BY DEF IInv, Control, TypeOK, JobTypes, DeleteObsolete, histVars
<1>3. g[2] \in Number /\ g = <<g[1], g[2]>>  BY <1>2
<1>4. db = "open" /\ flush.pc = "idle" /\ compact.pc \in {"idle", "merge", "output"}
    BY <1>1 DEF IInv, Control, Phases, Idle, Jobs
<1>5. current \in Number  BY <1>4, OpenCurrent DEF IInv
<1>6. \A n \in Number : /\ manifest'[n] = manifest[n] \/ manifest'[n] = NoManifest
                        /\ table'[n] = table[n] \/ table'[n] = NULL
                        /\ Used(n)' => Used(n)
    <2>1. \A n \in Number : /\ manifest'[n] = manifest[n] \/ manifest'[n] = NoManifest
                            /\ table'[n] = table[n] \/ table'[n] = NULL
        BY <1>1, <1>3 DEF IInv, Control, TypeOK, DirTypes
    <2>2. temps' \subseteq temps /\ logs' \subseteq logs  BY <1>1
    <2>3. QED  BY <2>1, <2>2 DEF Used
<1>7. Reopened' /\ Fresh'
    <2>1. temps' \subseteq temps /\ UNCHANGED manifest_file_number_ /\ db' = "open"
        BY <1>1, <1>2, <1>4 DEF numVars
    <2>2. QED  BY <1>2, <1>4, <1>6, <2>1, OpenReopened
<1>8. Readable' => Saved' = Saved /\ Readable
    BY <1>2, <1>5, <1>6 DEF Readable, Saved, NoManifest
<1>9. SavedWhole'
    <2>1. SUFFICES ASSUME Readable', Readable, Saved' = Saved PROVE SavedWhole'
        BY <1>8 DEF SavedWhole
    <2>2. \A f \in Saved.files : f.number \in Number  BY <1>4, <2>1, SavedSafe
    <2>3. \A n \in Number :
            n \in temps' \/ manifest'[n] # NoManifest => n \in temps \/ manifest[n] # NoManifest
        BY <1>1, <1>6
    <2>4. QED  BY <1>2, <1>6, <2>1, <2>2, <2>3 DEF IInv, DiskInv, SavedWhole
<1>10. InStep'
    <2>1. Logged' <=> Logged  BY <1>2 DEF Logged, jobVars
    <2>2. NewVersion' = NewVersion /\ vfiles'[current_'] = vfiles[current_]
        BY <1>2 DEF NewVersion, verVars, jobVars
    <2>3. UNCHANGED <<db, manifest_file_number_, current>>  BY <1>2 DEF numVars
    <2>4. QED  BY <1>8, <2>1, <2>2, <2>3 DEF IInv, DiskInv, InStep
<1>11. Kept'
    <2>1. SUFFICES ASSUME ~missed PROVE Kept'  BY <1>2 DEF Kept
    <2>2. current = manifest_file_number_ /\ Saved.state # "none"
          /\ (Readable => OnDisk(Saved.files) /\ flushed \subseteq Entries(Saved.files))
        BY <1>4, <1>5, <2>1, NullApart DEF IInv, DiskInv, Kept
    <2>3. Saved' = Saved
        <3>1. g[1] = "manifest" => g[2] < manifest_file_number_
            BY <1>1, <1>3 DEF IInv, FilesInv, GarbageFree
        <3>2. g[1] = "manifest" => g[2] # current
            BY <1>3, <1>5, <2>2, <3>1, NumberNat
        <3>3. QED  BY <1>1, <1>2, <1>3, <1>5, <3>2 DEF IInv, Control, TypeOK, DirTypes, Saved
    <2>4. Readable => OnDisk(Saved.files)'
        <3>1. SUFFICES ASSUME Readable, NEW f \in Saved.files PROVE table'[f.number] = f.data
            BY <2>3 DEF OnDisk
        <3>2. f \in FileMetaData /\ f.number \in Number /\ Listed(f) /\ Whole(f)
            BY <1>4, <2>2, <3>1, SavedSafe
        <3>3. g[1] = "table" => f.number # g[2]
            BY <1>1, <1>3, <3>2 DEF IInv, FilesInv, GarbageFree
        <3>4. table'[f.number] = table[f.number]
            BY <1>1, <1>3, <3>2, <3>3 DEF IInv, Control, TypeOK, DirTypes
        <3>5. QED  BY <3>2, <3>4 DEF Whole
    <2>5. QED  BY <1>2, <2>2, <2>3, <2>4 DEF Kept, Readable, Entries, numVars
<1>12. Covered' /\ EditAbove'
    <2>1. Covered'  BY <1>2 DEF IInv, DiskInv, Covered, Entries, memVars, jobVars
    <2>2. EditAbove'  BY <1>2 DEF IInv, DiskInv, EditAbove, Editing, numVars, verVars, jobVars
    <2>3. QED  BY <2>1, <2>2
<1>13. QED  BY <1>7, <1>9, <1>10, <1>11, <1>12 DEF DiskInv

LEMMA WritersDisk ==
    ASSUME IInv, Control', Write \/ SwitchMemTable \/ \E r \in Readers : Read_Begin(r) \/ Read_End(r)
    PROVE  DiskInv'
<1>1. /\ db = "open" /\ db' = "open"
      /\ logs' \subseteq logs \cup {next_file_number_}
      /\ UNCHANGED <<table, manifest, current, temps, manifest_file_number_, missed, flushed,
                     current_, edit, flush, compact>>
    BY DEF Write, SwitchMemTable, Read_Begin, Read_End, MutexFree, dirVars, numVars, verVars,
           jobVars, histVars
<1>2. next_file_number_ <= next_file_number_' /\ (flush.pc # "idle" => UNCHANGED imm_)
    <2>1. next_file_number_ \in Nat  BY NumberNat DEF IInv, Control, TypeOK, MemoryTypes
    <2>2. flush.pc # "idle" => imm_ # NULL  BY DEF IInv, Control, Jobs
    <2>3. CASE Write  BY <2>1, <2>3 DEF Write, numVars
    <2>4. CASE SwitchMemTable
        <3>1. imm_ = NULL /\ next_file_number_' = next_file_number_ + 1  BY <2>4 DEF SwitchMemTable
        <3>2. QED  BY <2>1, <2>2, <3>1
    <2>5. CASE \E r \in Readers : Read_Begin(r) \/ Read_End(r)
        <3>1. UNCHANGED <<next_file_number_, imm_>>
            BY <2>5 DEF Read_Begin, Read_End, numVars, memVars
        <3>2. QED  BY <2>1, <3>1
    <2>6. QED  BY <2>3, <2>4, <2>5
<1>3. current_ \in Versions  BY <1>1, OpenCurrent DEF IInv
<1>4. vfiles'[current_'] = vfiles[current_]
    <2>1. vfiles' = vfiles \/ vfiles' = Surviving(vfiles, refs')
        BY DEF Write, SwitchMemTable, Read_Begin, Read_End, verVars
    <2>2. QED  BY <1>1, <1>3, <2>1, CurrentKept
<1>5. (Logged' <=> Logged) /\ NewVersion' = NewVersion /\ (Editing' <=> Editing)
    BY <1>1, <1>4 DEF Logged, NewVersion, Apply, Editing
<1>6. Covered'  BY <1>1, <1>2, Zenon DEF IInv, DiskInv, Covered, Entries
<1>7. EditAbove'  BY <1>1, <1>2, <1>4, <1>5, EditKept
<1>8. SavedWhole' /\ Fresh' /\ Reopened' /\ InStep' /\ Kept'
    BY <1>1, <1>4, <1>5, OpenDisk
<1>9. QED  BY <1>6, <1>7, <1>8 DEF DiskInv
-----------------------------------------------------------------------------
(* LogAndApply's record *)

\* The edit loses no entry of the version it is applied to.
LEMMA ApplyKeeps ==
    ASSUME NEW files, Entries(edit.del) \subseteq Entries(edit.add)
    PROVE  /\ Entries(files) \subseteq Entries(Apply(files, edit))
           /\ Entries(edit.add) \subseteq Entries(Apply(files, edit))
<1>1. Entries(edit.add) \subseteq Entries(Apply(files, edit))  BY DEF Entries, Apply
<1>2. ASSUME NEW e \in Entries(files) PROVE e \in Entries(Apply(files, edit))
    <2>1. PICK f \in files : e \in f.data  BY DEF Entries
    <2>2. CASE f \in edit.del
        <3>1. e \in Entries(edit.del)  BY <2>1, <2>2 DEF Entries
        <3>2. QED  BY <1>1, <3>1
    <2>3. CASE f \notin edit.del
        <3>1. f \in Apply(files, edit)  BY <2>3 DEF Apply
        <3>2. QED  BY <2>1, <3>1 DEF Entries
    <2>4. QED  BY <2>2, <2>3
<1>3. QED  BY <1>1, <1>2

\* The record is in the manifest: what Recover would replay is the new version.
LEMMA RecordDisk ==
    ASSUME IInv, Control', db = "open", db' = "open", AppendRecord, Editing, ~Logged, Logged',
           UNCHANGED <<table, logs, current, temps, numVars, verVars, edit, flushed, missed>>
    PROVE  SavedWhole' /\ Fresh' /\ Reopened' /\ InStep' /\ Kept'
<1>1. /\ current \in Number /\ manifest_file_number_ \in Number /\ current' = current
      /\ manifest_file_number_' = manifest_file_number_
      /\ manifest' = [manifest EXCEPT ![manifest_file_number_] =
                        Replay(manifest[manifest_file_number_], edit)]
    BY OpenCurrent DEF IInv, Control, TypeOK, MemoryTypes, AppendRecord, numVars
<1>2. \A n \in Number : n # manifest_file_number_ => manifest'[n] = manifest[n]
    BY AppendOne DEF IInv
<1>3. Reopened' /\ Fresh'  BY <1>1, <1>2, OpenReopened
<1>4. NewVersion' = NewVersion  BY DEF NewVersion, verVars
<1>5. CASE current # manifest_file_number_
    <2>1. Saved' = Saved /\ (Readable' <=> Readable)  BY <1>1, <1>2, <1>5 DEF Saved, Readable
    <2>2. \A f \in Saved.files : Readable => (Used(f.number)' => Used(f.number))
        BY <1>2, SavedSafe DEF Used
    <2>3. SavedWhole'
        <3>1. SUFFICES ASSUME Readable PROVE SavedWhole'  BY <2>1 DEF SavedWhole
        <3>2. Saved.next = manifest_file_number_
            BY <1>5, <3>1 DEF IInv, DiskInv, Reopened, Running
        <3>3. \A n \in Number : n \in temps' \/ manifest'[n] # NoManifest => n <= Saved.next
            BY <1>1, <1>3, <3>2 DEF Reopened, Running
        <3>4. QED  BY <1>1, <2>1, <2>2, <3>1, <3>3 DEF IInv, DiskInv, SavedWhole
    <2>4. InStep'  BY <1>1, <1>5 DEF InStep
    <2>5. Kept'  BY <1>1, <1>5, NullApart DEF IInv, DiskInv, Kept
    <2>6. QED  BY <1>3, <2>3, <2>4, <2>5
<1>6. CASE current = manifest_file_number_
    <2>1. Saved' = Replay(Saved, edit)
        BY <1>1, <1>6 DEF IInv, Control, TypeOK, DirTypes, Saved
    <2>2. /\ Saved'.files = Apply(Saved.files, edit) /\ Saved'.log = edit.log
          /\ Saved'.next = edit.next /\ Saved'.last = edit.last
          /\ Saved'.state = IF Saved.state = "good" THEN "good" ELSE "damaged"
        BY <2>1 DEF Replay
    <2>3. Readable' => Readable  BY <1>1, <2>2 DEF Readable
    <2>4. Readable => Saved.files = vfiles[current_]  BY <1>6 DEF IInv, DiskInv, InStep
    <2>5. Readable' => Saved'.files = NewVersion  BY <2>2, <2>3, <2>4 DEF NewVersion
    <2>6. \A f \in NewVersion : /\ f \in vfiles[current_] \cup edit.add /\ Whole(f)
                                /\ f.number \in Number
        <3>1. \A f \in NewVersion : f \in FileMetaData /\ Listed(f)
            BY NewIsListed, ListedTyped DEF IInv
        <3>2. QED  BY <3>1 DEF IInv, FilesInv, ListedWhole, NewVersion, Apply, FileMetaData
    <2>7. /\ manifest_file_number_ < edit.next /\ edit.log < edit.next
          /\ \A f \in vfiles[current_] \cup edit.add :
                f.number < edit.next /\ \A e \in f.data : e <= edit.last
        BY DEF IInv, DiskInv, EditAbove
    <2>8. edit.next \in Nat /\ edit.log \in Nat /\ manifest_file_number_ \in Nat
          /\ Number \subseteq Nat
        BY <1>1, NumberNat DEF IInv, Control, TypeOK, JobTypes, VersionEdit
    <2>9. SavedWhole'
        <3>1. SUFFICES ASSUME Readable' PROVE SavedWhole'  BY DEF SavedWhole
        <3>2. \A f \in Saved'.files :
                /\ f.number < Saved'.next /\ table'[f.number] \in {NULL, f.data}
                /\ \A e \in f.data : e <= Saved'.last
            BY <2>2, <2>5, <2>6, <2>7, <3>1 DEF Whole
        <3>3. \A f \in Saved'.files : ~Used(f.number)'
            BY <1>2, <2>5, <2>6, <3>1 DEF Whole, Used
        <3>4. \A n \in Number : n \in temps' \/ manifest'[n] # NoManifest => n <= Saved'.next
            <4>1. \A n \in Number :
                    n \in temps' \/ manifest'[n] # NoManifest => n <= manifest_file_number_
                BY <1>1, <1>3 DEF Reopened, Running
            <4>2. QED  BY <2>2, <2>7, <2>8, <4>1
        <3>5. current' < Saved'.next /\ Saved'.log <= Saved'.next
            <4>1. current' = manifest_file_number_  BY <1>1, <1>6
            <4>2. manifest_file_number_ < edit.next /\ edit.log <= edit.next  BY <2>7, <2>8
            <4>3. QED  BY <2>2, <4>1, <4>2, Zenon
        <3>6. QED  BY <3>2, <3>3, <3>4, <3>5 DEF SavedWhole
    <2>10. InStep'  BY <1>4, <2>5 DEF InStep
    <2>11. Kept'
        <3>1. SUFFICES ASSUME ~missed PROVE Kept'  BY DEF Kept
        <3>2. Readable => flushed \subseteq Entries(Saved.files)
            BY <1>1, <3>1, NullApart DEF IInv, DiskInv, Kept
        <3>3. Readable' => flushed' \subseteq Entries(Saved'.files)
            BY <2>2, <2>3, <3>2, ApplyKeeps, Zenon DEF IInv, DiskInv, Covered
        <3>4. Readable' => OnDisk(Saved.files)'  BY <2>5, <2>6 DEF OnDisk, Whole
        <3>5. Saved'.state # "none"  BY <2>2
        <3>6. QED  BY <1>1, <1>6, <3>3, <3>4, <3>5, Zenon DEF Kept, Entries
    <2>12. QED  BY <1>3, <2>9, <2>10, <2>11
<1>7. QED  BY <1>5, <1>6

\* The record is not in the manifest, or in part: what Recover would replay is the same.
LEMMA RecordFailDisk ==
    ASSUME IInv, Control', db = "open", db' = "open", AppendFails, ~Logged, ~Logged',
           UNCHANGED <<table, logs, current, temps, numVars, flushed, missed>>,
           vfiles'[current_'] = vfiles[current_]
    PROVE  SavedWhole' /\ Fresh' /\ Reopened' /\ InStep' /\ Kept'
<1>1. /\ current \in Number /\ manifest_file_number_ \in Number /\ current' = current
      /\ manifest_file_number_' = manifest_file_number_
    BY OpenCurrent DEF IInv, Control, TypeOK, MemoryTypes, numVars
<1>2. \A n \in Number : n # manifest_file_number_ => manifest'[n] = manifest[n]
    BY AppendOne DEF IInv
<1>3. Reopened' /\ Fresh'  BY <1>1, <1>2, OpenReopened
<1>4. /\ Saved'.files = Saved.files /\ Saved'.next = Saved.next /\ Saved'.log = Saved.log
      /\ Saved'.last = Saved.last
      /\ Saved'.state = Saved.state \/ (Saved.state = "good" /\ Saved'.state = "torn")
    <2>1. CASE manifest' = manifest  BY <1>1, <2>1 DEF Saved
    <2>2. CASE manifest' = [manifest EXCEPT ![manifest_file_number_].state =
                                IF @ = "good" THEN "torn" ELSE @]
        <3> DEFINE m == manifest_file_number_
                   t == IF manifest[m].state = "good" THEN "torn" ELSE manifest[m].state
        <3>1. manifest' = [manifest EXCEPT ![m] = [manifest[m] EXCEPT !.state = t]]  BY <2>2
        <3>2. manifest \in [Number -> Snapshot]  BY DEF IInv, Control, TypeOK, DirTypes
        <3>3. manifest'[m] = [manifest[m] EXCEPT !.state = t] /\ manifest[m] \in Snapshot
            BY <1>1, <3>1, <3>2
        <3>4. /\ manifest'[m].files = manifest[m].files /\ manifest'[m].next = manifest[m].next
              /\ manifest'[m].log = manifest[m].log /\ manifest'[m].last = manifest[m].last
              /\ manifest'[m].state = t
            BY <3>3 DEF Snapshot
        <3>5. QED  BY <1>1, <1>2, <3>4 DEF Saved
    <2>3. QED  BY <2>1, <2>2 DEF AppendFails
<1>5. Readable' <=> Readable  BY <1>1, <1>4 DEF Readable
<1>6. SavedWhole'
    <2>1. SUFFICES ASSUME Readable PROVE SavedWhole'  BY <1>5, Zenon DEF SavedWhole
    <2>2. \A f \in Saved.files : f.number \in Number /\ f.number # manifest_file_number_
        BY <2>1, SavedSafe
    <2>3. \A f \in Saved.files : Used(f.number)' => Used(f.number)  BY <1>2, <2>2 DEF Used
    <2>4. \A n \in Number : n \in temps' \/ manifest'[n] # NoManifest => n <= Saved.next
        <3>1. manifest_file_number_ <= Saved.next
            <4>1. current < Saved.next  BY <2>1 DEF IInv, DiskInv, SavedWhole
            <4>2. current # manifest_file_number_ => Saved.next = manifest_file_number_
                BY <2>1 DEF IInv, DiskInv, Reopened, Running
            <4>3. current \in Nat /\ Saved.next \in Nat
                BY <1>1, NumberNat DEF IInv, Control, TypeOK, DirTypes, Saved, Snapshot
            <4>4. QED  BY <4>1, <4>2, <4>3
        <3>2. QED  BY <1>2, <2>1, <3>1 DEF IInv, DiskInv, SavedWhole
    <2>5. QED  BY <1>1, <1>4, <2>1, <2>3, <2>4 DEF IInv, DiskInv, SavedWhole
<1>7. InStep'  BY <1>1, <1>4, <1>5 DEF IInv, DiskInv, InStep
<1>8. Kept'  BY <1>1, <1>4, <1>5 DEF IInv, DiskInv, Kept, OnDisk, Entries
<1>9. QED  BY <1>3, <1>6, <1>7, <1>8
-----------------------------------------------------------------------------
(* CompactMemTable *)

\* No edit is made or in the manifest before or after the step.
LEMMA UneditedDisk ==
    ASSUME IInv, Control', db = "open", db' = "open", ~Logged, ~Logged', Covered', EditAbove',
           UNCHANGED <<manifest, current, temps, logs, manifest_file_number_, missed, flushed>>,
           \A n \in Number : table'[n] = table[n] \/ Writing(n) \/ n = next_file_number_,
           vfiles'[current_'] = vfiles[current_]
    PROVE  DiskInv'
<1>1. SavedWhole' /\ Fresh' /\ Reopened' /\ InStep' /\ Kept'  BY OpenDisk
<1>2. QED  BY <1>1 DEF DiskInv

LEMMA FlushBeginDisk == ASSUME IInv, Control', Flush_Begin PROVE DiskInv'
<1>1. /\ db = "open" /\ db' = "open" /\ flush'.pc = "build" /\ flush.pc = "idle"
      /\ compact.pc \in {"idle", "merge", "output"}
      /\ UNCHANGED <<dirVars, manifest_file_number_, vfiles, current_, edit, compact, histVars>>
    BY DEF Flush_Begin, FlushDue, MutexFree
<1>2. ~Logged /\ ~Logged' /\ ~Editing'  BY <1>1 DEF Logged, Editing
<1>3. EditAbove'  BY <1>2 DEF EditAbove
<1>4. Covered'  BY <1>1, Zenon DEF IInv, DiskInv, Covered, Entries
<1>5. QED  BY <1>1, <1>2, <1>3, <1>4, UneditedDisk DEF dirVars, histVars

LEMMA FlushCreateDisk == ASSUME IInv, Control', Flush_Create PROVE DiskInv'
<1>1. /\ db = "open" /\ db' = "open" /\ flush.pc = "build"
      /\ table' = [table EXCEPT ![flush.number] = {}]
      /\ flush' = [flush EXCEPT !.pc = "created"]
      /\ UNCHANGED <<logs, manifest, current, temps, numVars, verVars, edit, compact, histVars>>
    BY DEF Flush_Create
<1>2. flush'.pc = "created" /\ compact.pc \in {"idle", "merge", "output"}
    BY <1>1 DEF IInv, Control, TypeOK, JobTypes, FlushState, Jobs
<1>3. ~Logged /\ ~Logged' /\ ~Editing'  BY <1>1, <1>2 DEF Logged, Editing
<1>4. \A n \in Number : table'[n] = table[n] \/ Writing(n)
    BY <1>1 DEF IInv, Control, TypeOK, DirTypes, Writing
<1>5. EditAbove'  BY <1>3 DEF EditAbove
<1>6. Covered'  BY <1>1, <1>2 DEF IInv, DiskInv, Covered, Entries
<1>7. QED  BY <1>1, <1>3, <1>4, <1>5, <1>6, UneditedDisk DEF numVars, verVars, histVars

LEMMA FlushBuiltDisk == ASSUME IInv, Control', FilesInv', Flush_Built PROVE DiskInv'
<1>1. /\ db = "open" /\ db' = "open" /\ flush.pc \in {"build", "created"}
      /\ table' = IF imm_ = {} THEN table ELSE [table EXCEPT ![flush.number] = imm_]
      /\ vfiles' = Surviving(vfiles, refs')
      /\ flush' = [flush EXCEPT !.pc = "log", !.base = NULL]
      /\ UNCHANGED <<logs, manifest, current, temps, numVars, current_, memVars, compact, histVars>>
    BY DEF Flush_Built, MutexFree
<1>2. PICK level \in 0 .. MaxMemCompactLevel :
        edit' = NewEdit({}, IF imm_ = {} THEN {}
                            ELSE {[level |-> level, number |-> flush.number, data |-> imm_]},
                        logfile_number_)
    BY DEF Flush_Built
<1>3. flush'.pc = "log" /\ compact.pc \in {"idle", "merge", "output"} /\ imm_ # NULL
    BY <1>1 DEF IInv, Control, TypeOK, JobTypes, FlushState, Jobs
<1>4. ~Logged /\ ~Logged'  BY <1>1, <1>3 DEF Logged
<1>5. \A n \in Number : table'[n] = table[n] \/ Writing(n)
    BY <1>1 DEF IInv, Control, TypeOK, DirTypes, Writing
<1>6. vfiles'[current_'] = vfiles[current_]
    BY <1>1, OpenCurrent, CurrentKept DEF IInv
<1>7. EditAbove'
    <2>1. edit'.next = next_file_number_' /\ edit'.last = last_sequence_'
          /\ edit'.log = logfile_number_'
        BY <1>1, <1>2 DEF NewEdit, numVars, memVars
    <2>2. QED  BY <1>1, <2>1, EditNew
<1>8. Covered'
    <2>1. edit'.del = {} /\ (imm_ # {} =>
            edit'.add = {[level |-> level, number |-> flush.number, data |-> imm_]})
        BY <1>2 DEF NewEdit
    <2>2. imm_ \subseteq Entries(edit'.add)
        <3>1. CASE imm_ = {}  BY <3>1
        <3>2. CASE imm_ # {}
            <4> DEFINE f == [level |-> level, number |-> flush.number, data |-> imm_]
            <4>1. f \in edit'.add  BY <2>1, <3>2
            <4>2. f.data = imm_  OBVIOUS
            <4> HIDE DEF f
            <4>3. QED  BY <4>1, <4>2 DEF Entries
        <3>3. QED  BY <3>1, <3>2
    <2>3. Entries(edit'.del) = {}  BY <2>1 DEF Entries
    <2>4. imm_' = imm_ /\ compact' = compact  BY <1>1 DEF memVars
    <2>5. QED  BY <2>2, <2>3, <2>4 DEF IInv, DiskInv, Covered, Entries
<1>9. QED  BY <1>1, <1>4, <1>5, <1>6, <1>7, <1>8, UneditedDisk DEF numVars, histVars

LEMMA FlushRecordDisk == ASSUME IInv, Control', Flush_Record PROVE DiskInv'
<1>1. /\ db = "open" /\ db' = "open" /\ flush.pc = "log" /\ AppendRecord
      /\ flush' = [flush EXCEPT !.pc = "logged"]
      /\ UNCHANGED <<table, logs, current, temps, numVars, verVars, memVars, edit, compact, histVars>>
    BY DEF Flush_Record
<1>2. flush'.pc = "logged" /\ compact.pc \in {"idle", "merge", "output"}
    BY <1>1 DEF IInv, Control, TypeOK, JobTypes, FlushState, Jobs
<1>3. ~Logged /\ Logged' /\ Editing  BY <1>1, <1>2 DEF Logged, Editing
<1>4. SavedWhole' /\ Fresh' /\ Reopened' /\ InStep' /\ Kept'
    BY <1>1, <1>3, RecordDisk DEF histVars
<1>5. EditAbove'
    BY <1>1, <1>3 DEF IInv, DiskInv, EditAbove, numVars, verVars
<1>6. Covered'  BY <1>1, <1>2 DEF IInv, DiskInv, Covered, Entries, memVars
<1>7. QED  BY <1>4, <1>5, <1>6 DEF DiskInv

LEMMA FlushInstallDisk == ASSUME IInv, Control', Flush_Install PROVE DiskInv'
<1>1. /\ db = "open" /\ db' = "open" /\ flush.pc = "logged" /\ flush' = NoFlush /\ edit' = NoEdit
      /\ flushed' = flushed \cup imm_
      /\ UNCHANGED <<dirVars, manifest_file_number_, compact, missed>>
    BY DEF Flush_Install, MutexFree
<1>2. compact.pc \in {"idle", "merge", "output"}  BY <1>1 DEF IInv, Control, Jobs
<1>3. Logged /\ ~Logged' /\ ~Editing'  BY <1>1, <1>2 DEF Logged, Editing, NoFlush
<1>4. vfiles'[current_'] = NewVersion
    <2>1. PICK v \in Versions : AppendVersion(Unref(refs, current_), v, NewVersion)
        BY DEF Flush_Install
    <2>2. current_ \in Versions /\ refs \in [Versions -> Nat]
        BY <1>1, OpenCurrent DEF IInv, Control, TypeOK, VersionTypes
    <2>3. Unref(refs, current_) = [u \in Versions |-> IF u = current_ THEN refs[u] - 1 ELSE refs[u]]
        BY <2>2, RefAt
    <2>4. \A u \in Versions : Unref(refs, current_)[u] > 0 => refs[u] > 0  BY <2>2, <2>3
    <2>5. QED  BY <2>1, <2>3, <2>4, Appended
<1>5. imm_ \subseteq Entries(NewVersion)
    BY <1>1, ApplyKeeps DEF IInv, DiskInv, Covered, NewVersion
<1>6. SavedWhole' /\ Fresh' /\ Reopened' /\ InStep' /\ Kept'
    BY <1>1, <1>3, <1>4, <1>5, OpenDisk DEF dirVars
<1>7. EditAbove'  BY <1>3 DEF EditAbove
<1>8. Covered'  BY <1>1 DEF IInv, DiskInv, Covered, Entries, NoFlush, NoEdit
<1>9. QED  BY <1>6, <1>7, <1>8 DEF DiskInv

LEMMA FlushFailDisk ==
    ASSUME IInv, Control', Flush_BuildFail \/ Flush_RecordFail PROVE DiskInv'
<1>1. /\ db = "open" /\ db' = "open" /\ flush.pc \in {"build", "created", "log"}
      /\ flush' = NoFlush /\ edit' = NoEdit
      /\ UNCHANGED <<logs, current, temps, numVars, current_, compact, histVars>>
    BY DEF Flush_BuildFail, Flush_RecordFail, Flush_Failed, MutexFree
<1>2. compact.pc \in {"idle", "merge", "output"}  BY <1>1 DEF IInv, Control, Jobs
<1>3. ~Logged /\ ~Logged' /\ ~Editing'  BY <1>1, <1>2 DEF Logged, Editing, NoFlush
<1>4. EditAbove'  BY <1>3 DEF EditAbove
<1>5. Covered'  BY <1>1 DEF IInv, DiskInv, Covered, Entries, NoFlush, NoEdit
<1>6. CASE Flush_BuildFail
    <2>1. vfiles'[current_'] = vfiles[current_]
        BY <1>1, <1>6, OpenCurrent, CurrentKept DEF IInv, Flush_BuildFail
    <2>2. \A n \in Number : table'[n] = table[n] \/ Writing(n)
        BY <1>6 DEF IInv, Control, TypeOK, DirTypes, Flush_BuildFail, Writing
    <2>3. UNCHANGED manifest  BY <1>6 DEF Flush_BuildFail
    <2>4. QED  BY <1>1, <1>3, <1>4, <1>5, <2>1, <2>2, <2>3, UneditedDisk DEF numVars, histVars
<1>7. CASE Flush_RecordFail
    <2>1. AppendFails /\ UNCHANGED <<table, vfiles, refs>>  BY <1>7 DEF Flush_RecordFail
    <2>2. SavedWhole' /\ Fresh' /\ Reopened' /\ InStep' /\ Kept'
        BY <1>1, <1>3, <2>1, RecordFailDisk DEF histVars
    <2>3. QED  BY <1>4, <1>5, <2>2 DEF DiskInv
<1>8. QED  BY <1>6, <1>7
-----------------------------------------------------------------------------
(* BackgroundCompaction, DoCompactionWork *)

LEMMA CompactBeginDisk == ASSUME IInv, Control', Compact_Begin PROVE DiskInv'
<1>1. PICK inputs \in SUBSET vfiles[current_], level \in 0 .. NumLevels - 2 :
        compact' = [NoCompact EXCEPT !.pc = "merge", !.level = level, !.inputs = inputs,
                                     !.version = current_, !.left = Entries(inputs)]
    BY Zenon DEF Compact_Begin
<1>2. /\ db = "open" /\ db' = "open" /\ flush.pc = "idle" /\ compact.pc = "idle"
      /\ UNCHANGED <<dirVars, numVars, vfiles, current_, memVars, edit, flush, histVars>>
    BY DEF Compact_Begin, MutexFree
<1>3. compact'.pc = "merge" /\ compact'.left = Entries(inputs) /\ compact'.inputs = inputs
    BY <1>1 DEF NoCompact
<1>4. ~Logged /\ ~Logged' /\ ~Editing'  BY <1>2, <1>3 DEF Logged, Editing
<1>5. EditAbove'  BY <1>4 DEF EditAbove
<1>6. Covered'
    <2>1. Entries(compact.inputs)' = compact'.left  BY <1>3 DEF Entries
    <2>2. QED  BY <1>2, <2>1 DEF IInv, DiskInv, Covered, Entries
<1>7. QED  BY <1>2, <1>4, <1>5, <1>6, UneditedDisk DEF dirVars, numVars, histVars

LEMMA CompactMoveDisk == ASSUME IInv, Control', FilesInv', Compact_Move PROVE DiskInv'
<1>1. PICK f \in vfiles[current_] :
        /\ edit' = NewEdit({f}, {[f EXCEPT !.level = @ + 1]}, log_number_)
        /\ compact' = [NoCompact EXCEPT !.pc = "log", !.level = f.level, !.inputs = {f},
                                        !.version = current_, !.move = TRUE]
    BY Zenon DEF Compact_Move
<1>2. /\ db = "open" /\ db' = "open" /\ flush.pc = "idle" /\ compact.pc = "idle"
      /\ UNCHANGED <<dirVars, numVars, vfiles, current_, memVars, flush, histVars>>
    BY DEF Compact_Move, MutexFree
<1>3. compact'.pc = "log"  BY <1>1 DEF NoCompact
<1>4. ~Logged /\ ~Logged'  BY <1>2, <1>3 DEF Logged
<1>5. EditAbove'
    <2>1. edit'.next = next_file_number_' /\ edit'.last = last_sequence_'
          /\ edit'.log = log_number_'
        BY <1>1, <1>2 DEF NewEdit, numVars, memVars
    <2>2. QED  BY <1>2, <2>1, EditNew
<1>6. Covered'
    <2>1. edit'.del = {f} /\ edit'.add = {[f EXCEPT !.level = @ + 1]}  BY <1>1 DEF NewEdit
    <2>2. f \in FileMetaData  BY <1>2, OpenCurrent DEF IInv
    <2>3. [f EXCEPT !.level = @ + 1].data = f.data  BY <2>2 DEF FileMetaData
    <2>4. \A g \in edit'.del : \E h \in edit'.add : g.data = h.data  BY <2>1, <2>3
    <2>5. Entries(edit'.del) \subseteq Entries(edit'.add)  BY <2>4 DEF Entries
    <2>6. QED  BY <1>2, <1>3, <2>5 DEF Covered, Entries
<1>7. QED  BY <1>2, <1>4, <1>5, <1>6, UneditedDisk DEF dirVars, numVars, histVars

LEMMA CompactOpenDisk == ASSUME IInv, Control', Compact_Open PROVE DiskInv'
<1>1. /\ db = "open" /\ db' = "open" /\ flush.pc = "idle" /\ compact.pc = "merge"
      /\ table' = [table EXCEPT ![next_file_number_] = {}]
      /\ compact' = [compact EXCEPT !.pc = "output", !.number = next_file_number_]
      /\ UNCHANGED <<logs, manifest, current, temps, manifest_file_number_, verVars, memVars, edit,
                     flush, histVars>>
    BY DEF Compact_Open, MutexFree
<1>2. /\ compact'.pc = "output" /\ compact'.inputs = compact.inputs
      /\ compact'.outputs = compact.outputs /\ compact'.left = compact.left
    BY <1>1 DEF IInv, Control, TypeOK, JobTypes, CompactionState
<1>3. ~Logged /\ ~Logged' /\ ~Editing'  BY <1>1, <1>2 DEF Logged, Editing
<1>4. \A n \in Number : table'[n] = table[n] \/ n = next_file_number_
    BY <1>1 DEF IInv, Control, TypeOK, DirTypes
<1>5. EditAbove'  BY <1>3 DEF EditAbove
<1>6. Covered'  BY <1>1, <1>2 DEF IInv, DiskInv, Covered, Entries
<1>7. QED  BY <1>1, <1>3, <1>4, <1>5, <1>6, UneditedDisk DEF verVars, histVars

LEMMA CompactFinishDisk == ASSUME IInv, Control', Compact_Finish PROVE DiskInv'
<1>1. PICK part \in SUBSET compact.left \ {{}} :
        /\ table' = [table EXCEPT ![compact.number] = part]
        /\ compact' = [compact EXCEPT !.pc = "merge", !.left = @ \ part,
                                      !.outputs = @ \cup {Output(part)}]
    BY Zenon DEF Compact_Finish
<1>2. /\ db = "open" /\ db' = "open" /\ flush.pc = "idle" /\ compact.pc = "output"
      /\ UNCHANGED <<logs, manifest, current, temps, numVars, verVars, memVars, edit, flush, histVars>>
    BY DEF Compact_Finish
<1>3. /\ compact'.pc = "merge" /\ compact'.left = compact.left \ part
      /\ compact'.outputs = compact.outputs \cup {Output(part)}
      /\ compact'.inputs = compact.inputs
    BY <1>1 DEF IInv, Control, TypeOK, JobTypes, CompactionState
<1>4. ~Logged /\ ~Logged' /\ ~Editing'  BY <1>2, <1>3 DEF Logged, Editing
<1>5. \A n \in Number : table'[n] = table[n] \/ Writing(n)
    BY <1>1, <1>2 DEF IInv, Control, TypeOK, DirTypes, Writing
<1>6. EditAbove'  BY <1>4 DEF EditAbove
<1>7. Covered'
    <2>1. Entries(compact.inputs) \subseteq compact.left \cup Entries(compact.outputs)
        BY <1>2 DEF IInv, DiskInv, Covered
    <2>2. part \subseteq Entries(compact'.outputs)
        <3>1. Output(part) \in compact'.outputs /\ Output(part).data = part  BY <1>3 DEF Output
        <3>2. QED  BY <3>1 DEF Entries
    <2>3. Entries(compact.outputs) \subseteq Entries(compact'.outputs)  BY <1>3 DEF Entries
    <2>4. Entries(compact.inputs) \subseteq compact'.left \cup Entries(compact'.outputs)
        BY <1>3, <2>1, <2>2, <2>3
    <2>5. Entries(compact'.inputs) \subseteq compact'.left \cup Entries(compact'.outputs)
        BY <1>3, <2>4
    <2>6. QED  BY <1>2, <2>5 DEF IInv, DiskInv, Covered, Entries
<1>8. QED  BY <1>2, <1>4, <1>5, <1>6, <1>7, UneditedDisk DEF numVars, verVars, histVars

LEMMA CompactDoneDisk == ASSUME IInv, Control', FilesInv', Compact_Done PROVE DiskInv'
<1>1. /\ db = "open" /\ db' = "open" /\ flush.pc = "idle" /\ compact.pc = "merge"
      /\ compact.left = {} /\ edit' = NewEdit(InputDeletions, compact.outputs, log_number_)
      /\ compact' = [compact EXCEPT !.pc = "log"]
      /\ UNCHANGED <<dirVars, numVars, verVars, memVars, flush, histVars>>
    BY DEF Compact_Done, MutexFree
<1>2. compact'.pc = "log"  BY <1>1 DEF IInv, Control, TypeOK, JobTypes, CompactionState
<1>3. ~Logged /\ ~Logged'  BY <1>1, <1>2 DEF Logged
<1>4. EditAbove'
    <2>1. edit'.next = next_file_number_' /\ edit'.last = last_sequence_'
          /\ edit'.log = log_number_'
        BY <1>1 DEF NewEdit, numVars, memVars
    <2>2. QED  BY <1>1, <2>1, EditNew
<1>5. Covered'
    <2>1. edit'.del = compact.inputs /\ edit'.add = compact.outputs
        BY <1>1 DEF NewEdit, InputDeletions
    <2>2. Entries(compact.inputs) \subseteq compact.left \cup Entries(compact.outputs)
        BY <1>1 DEF IInv, DiskInv, Covered
    <2>3. Entries(edit'.del) \subseteq Entries(edit'.add)  BY <1>1, <2>1, <2>2
    <2>4. QED  BY <1>1, <1>2, <2>3 DEF Covered, Entries
<1>6. QED  BY <1>1, <1>3, <1>4, <1>5, UneditedDisk DEF dirVars, numVars, verVars, histVars

LEMMA CompactRecordDisk == ASSUME IInv, Control', Compact_Record PROVE DiskInv'
<1>1. /\ db = "open" /\ db' = "open" /\ compact.pc = "log" /\ AppendRecord
      /\ compact' = [compact EXCEPT !.pc = "logged"]
      /\ UNCHANGED <<table, logs, current, temps, numVars, verVars, memVars, edit, flush, histVars>>
    BY DEF Compact_Record
<1>2. compact'.pc = "logged" /\ flush.pc = "idle"
    BY <1>1 DEF IInv, Control, TypeOK, JobTypes, CompactionState, Jobs
<1>3. ~Logged /\ Logged' /\ Editing  BY <1>1, <1>2 DEF Logged, Editing
<1>4. SavedWhole' /\ Fresh' /\ Reopened' /\ InStep' /\ Kept'
    BY <1>1, <1>3, RecordDisk DEF histVars
<1>5. EditAbove'
    BY <1>1, <1>3 DEF IInv, DiskInv, EditAbove, numVars, verVars
<1>6. Covered'  BY <1>1, <1>2 DEF IInv, DiskInv, Covered, Entries
<1>7. QED  BY <1>4, <1>5, <1>6 DEF DiskInv

LEMMA CompactInstallDisk == ASSUME IInv, Control', Compact_Install PROVE DiskInv'
<1> DEFINE released == Unref(ReleaseInputs(refs), current_)
<1>1. /\ db = "open" /\ db' = "open" /\ compact.pc = "logged"
      /\ compact' = NoCompact /\ edit' = NoEdit
      /\ UNCHANGED <<dirVars, numVars, memVars, flush, histVars>>
    BY DEF Compact_Install, MutexFree
<1>2. current_ \in Versions /\ refs \in [Versions -> Nat] /\ compact.version \in Versions
      /\ flush.pc = "idle"
    BY <1>1, OpenCurrent DEF IInv, Control, TypeOK, VersionTypes, JobTypes, CompactionState, Jobs
<1>3. Logged /\ ~Logged' /\ ~Editing'  BY <1>1, <1>2 DEF Logged, Editing, NoCompact
<1>4. vfiles'[current_'] = NewVersion
    <2>1. PICK v \in Versions : AppendVersion(released, v, NewVersion)  BY DEF Compact_Install
    <2>2. ReleaseInputs(refs)
            = [u \in Versions |-> IF u = compact.version THEN refs[u] - 1 ELSE refs[u]]
        BY <1>2, RefAt DEF ReleaseInputs
    <2>3. released = [u \in Versions |-> IF u = current_ THEN ReleaseInputs(refs)[u] - 1
                                         ELSE ReleaseInputs(refs)[u]]
        <3>1. ReleaseInputs(refs) = [u \in Versions |-> ReleaseInputs(refs)[u]]  BY <2>2
        <3>2. QED  BY <1>2, <3>1, RefAt
    <2>4. released = [u \in Versions |-> released[u]]  BY <2>3
    <2>5. \A u \in Versions : released[u] > 0 => refs[u] > 0  BY <1>2, <2>2, <2>3
    <2> HIDE DEF released
    <2>6. QED  BY <2>1, <2>4, <2>5, Appended
<1>5. SavedWhole' /\ Fresh' /\ Reopened' /\ InStep' /\ Kept'
    BY <1>1, <1>3, <1>4, OpenDisk, Zenon DEF dirVars, numVars, histVars
<1>6. EditAbove'  BY <1>3 DEF EditAbove
<1>7. Covered'  BY <1>1, <1>2, Zenon DEF Covered, Entries, NoCompact, NoEdit
<1>8. QED  BY <1>5, <1>6, <1>7 DEF DiskInv

LEMMA CompactFailDisk ==
    ASSUME IInv, Control', Compact_MergeFail \/ Compact_RecordFail PROVE DiskInv'
<1>1. /\ db = "open" /\ db' = "open" /\ compact.pc \in {"merge", "output", "log"}
      /\ compact' = NoCompact /\ edit' = NoEdit /\ vfiles' = Surviving(vfiles, refs')
      /\ UNCHANGED <<table, logs, current, temps, numVars, current_, flush, histVars>>
    BY DEF Compact_MergeFail, Compact_RecordFail, Compact_Failed, MutexFree
<1>2. flush.pc = "idle"
    BY DEF IInv, Control, Jobs, Compact_MergeFail, Compact_RecordFail
<1>3. ~Logged /\ ~Logged' /\ ~Editing'  BY <1>1, <1>2 DEF Logged, Editing, NoCompact
<1>4. EditAbove'  BY <1>3 DEF EditAbove
<1>5. Covered'  BY <1>1, <1>2 DEF Covered, Entries, NoCompact, NoEdit
<1>6. vfiles'[current_'] = vfiles[current_]
    BY <1>1, OpenCurrent, CurrentKept DEF IInv
<1>7. CASE Compact_MergeFail
    <2>1. UNCHANGED manifest  BY <1>7 DEF Compact_MergeFail
    <2>2. QED  BY <1>1, <1>3, <1>4, <1>5, <1>6, <2>1, UneditedDisk DEF numVars, histVars
<1>8. CASE Compact_RecordFail
    <2>1. SavedWhole' /\ Fresh' /\ Reopened' /\ InStep' /\ Kept'
        BY <1>1, <1>3, <1>6, <1>8, RecordFailDisk DEF Compact_RecordFail, histVars
    <2>2. QED  BY <1>4, <1>5, <2>1 DEF DiskInv
<1>9. QED  BY <1>7, <1>8
-----------------------------------------------------------------------------
LEMMA StutterDisk == ASSUME DiskInv, UNCHANGED vars PROVE DiskInv'
<1>1. UNCHANGED <<dirVars, db, numVars, verVars, memVars, jobVars, histVars>>  BY DEF vars
<1>2. Covered' /\ EditAbove'
    BY <1>1 DEF DiskInv, Covered, EditAbove, Editing, Entries, numVars, verVars, memVars, jobVars
<1>3. Saved' = Saved /\ (Readable' <=> Readable) /\ \A n : Used(n)' <=> Used(n)
    BY <1>1 DEF Saved, Readable, Used, dirVars
<1>4. SavedWhole'  BY <1>1, <1>3 DEF DiskInv, SavedWhole, dirVars
<1>5. Fresh'  BY <1>1, <1>3, Zenon DEF DiskInv, Fresh, dirVars, histVars
<1>6. Reopened'
    BY <1>1, <1>3, Zenon DEF DiskInv, Reopened, Running, dirVars, numVars, verVars, memVars
<1>7. InStep'
    BY <1>1, <1>3, Zenon DEF DiskInv, InStep, Logged, NewVersion, Apply, dirVars, numVars, verVars, jobVars
<1>8. Kept'
    BY <1>1, <1>3 DEF DiskInv, Kept, OnDisk, Entries, dirVars, numVars, histVars
<1>9. QED  BY <1>2, <1>4, <1>5, <1>6, <1>7, <1>8 DEF DiskInv

LEMMA NextDisk == ASSUME IInv, Control', FilesInv', [Next]_vars PROVE DiskInv'
<1>1. CASE Open  BY <1>1, OpenStepDisk
<1>2. CASE Crash  BY <1>2, DownDisk DEF Crash, MemoryLost, dirVars
<1>3. CASE Open_Fails  BY <1>3, DownDisk DEF Open_Fails, MemoryLost, Opening
<1>4. CASE Background
    BY <1>4, FlushBeginDisk, FlushCreateDisk, FlushBuiltDisk, FlushRecordDisk, FlushInstallDisk,
       FlushFailDisk, CompactBeginDisk, CompactMoveDisk, CompactOpenDisk, CompactFinishDisk,
       CompactDoneDisk, CompactRecordDisk, CompactInstallDisk, CompactFailDisk
    DEF Background
<1>5. CASE UNCHANGED vars  BY <1>5, StutterDisk DEF IInv
<1>6. QED  BY <1>1, <1>2, <1>3, <1>4, <1>5, DeleteDisk, WritersDisk DEF Next
-----------------------------------------------------------------------------
\* The inductive invariant: no step of DB::Open, of writers, readers and the two
\* compactions, no failure and no death of the process breaks it.
THEOREM Invariant == Spec => []IInv
<1>1. Init => IInv  BY InitControl, InitDisk DEF IInv
<1>2. IInv /\ [Next]_vars => IInv'
    <2> SUFFICES ASSUME IInv, [Next]_vars PROVE IInv'  OBVIOUS
    <2>1. Control'  BY NextControl DEF IInv
    <2>2. FilesInv'  BY <2>1, NextFiles
    <2>3. DiskInv'  BY <2>1, <2>2, NextDisk
    <2>4. QED  BY <2>1, <2>2, <2>3 DEF IInv
<1>3. QED  BY <1>1, <1>2, PTL DEF Spec

\* The tables of every version that is held are in the directory, whole: neither
\* DeleteObsoleteFiles nor a compaction takes one away from a reader.
THEOREM TablesStay == Spec => []VersionsOnDisk
<1>1. IInv => VersionsOnDisk
    <2> SUFFICES ASSUME IInv, NEW v \in Versions, refs[v] > 0, NEW f \in vfiles[v]
                 PROVE  table[f.number] = f.data
        BY DEF VersionsOnDisk, OnDisk
    <2>1. Listed(f)  BY DEF Listed, InVersion
    <2>2. f \in FileMetaData  BY <2>1, ListedTyped DEF IInv
    <2>3. QED  BY <2>1, <2>2 DEF IInv, FilesInv, ListedWhole, Whole
<1>2. QED  BY <1>1, Invariant, PTL

\* An intact directory has a manifest that Recover can replay.
LEMMA IntactReadable ==
    ASSUME IInv, Intact, current # NULL PROVE Readable /\ Saved.state \in {"good", "torn"}
<1>1. current \in Number /\ Saved \in Snapshot  BY DEF IInv, Control, TypeOK, DirTypes, Saved
<1>2. Saved.state # "none" /\ Saved.state # "damaged"
    BY <1>1 DEF IInv, DiskInv, Kept, Intact, Saved
<1>3. Saved.state \in {"none", "good", "torn", "damaged"}  BY <1>1 DEF Snapshot
<1>4. QED  BY <1>2, <1>3 DEF Readable

\* Wherever the process dies, DB::Open finds a manifest that it can replay and its tables,
\* and no entry whose memtable CompactMemTable has dropped is lost.
THEOREM CrashSafety == Spec => []Recoverable
<1>1. IInv => Recoverable
    <2> SUFFICES ASSUME IInv, Intact, current # NULL
                 PROVE  /\ Saved.state \in {"good", "torn"}
                        /\ OnDisk(Saved.files) /\ flushed \subseteq Entries(Saved.files)
        BY DEF Recoverable, Saved
    <2>1. Readable /\ Saved.state \in {"good", "torn"}  BY IntactReadable
    <2>2. QED  BY <2>1 DEF IInv, DiskInv, Kept, Intact
<1>2. QED  BY <1>1, Invariant, PTL

\* DB::Open resumes from counters above every sequence number and file number that the
\* tables and the manifest have.
THEOREM CountersAbove == Spec => []CountersResume
<1>1. IInv => CountersResume
    <2> SUFFICES ASSUME IInv, Intact, current # NULL
                 PROVE  /\ \A e \in Entries(Saved.files) : e <= Saved.last
                        /\ current < Saved.next /\ \A f \in Saved.files : f.number < Saved.next
        BY DEF CountersResume, Saved
    <2>1. Readable  BY IntactReadable
    <2>2. QED  BY <2>1 DEF IInv, DiskInv, SavedWhole, Entries
<1>2. QED  BY <1>1, Invariant, PTL

\* Outside of LogAndApply the manifest has the version in memory, after failures too.
THEOREM SavedThenInstalled == Spec => []InstalledIsSaved
<1>1. IInv => InstalledIsSaved
    <2> SUFFICES ASSUME IInv, Intact, db = "open", flush.pc # "logged", compact.pc # "logged"
                 PROVE  /\ current = manifest_file_number_ /\ Saved.state \in {"good", "torn"}
                        /\ Saved.files = vfiles[current_]
        BY DEF InstalledIsSaved, Saved
    <2>1. current # NULL  BY OpenCurrent DEF IInv
    <2>2. Readable /\ Saved.state \in {"good", "torn"}  BY <2>1, IntactReadable
    <2>3. current = manifest_file_number_  BY <2>1 DEF IInv, DiskInv, Kept, Intact
    <2>4. QED  BY <2>2, <2>3 DEF IInv, DiskInv, InStep, Logged
<1>2. QED  BY <1>1, Invariant, PTL

\* The reference count of every version is the number of those that use it.
THEOREM ExactCounts == Spec => []RefsMatchHolders
<1>1. Control => RefsMatchHolders
    <2> SUFFICES ASSUME Control, NEW v \in Versions
                 PROVE  refs[v] = Cardinality(ReadersOf(v))
                          + Cardinality({h \in {<<"db", current_>>, <<"compact", compact.version>>,
                                                <<"flush", flush.base>>} : h[2] = v})
        BY DEF RefsMatchHolders, Control, ReadersOf
    <2> DEFINE A == IF current_ = v THEN {<<"db", current_>>} ELSE {}
               B == IF compact.version = v THEN A \cup {<<"compact", compact.version>>} ELSE A
               C == IF flush.base = v THEN B \cup {<<"flush", flush.base>>} ELSE B
    <2>1. {h \in {<<"db", current_>>, <<"compact", compact.version>>,
                  <<"flush", flush.base>>} : h[2] = v} = C
        OBVIOUS
    <2>2. IsFiniteSet(A) /\ Cardinality(A) = One(current_ = v)
        BY FS_EmptySet, FS_Singleton DEF One
    <2>3. IsFiniteSet(B) /\ Cardinality(B) = One(current_ = v) + One(compact.version = v)
        <3>1. <<"compact", compact.version>> \notin A  OBVIOUS
        <3> HIDE DEF A
        <3>2. QED  BY <2>2, <3>1, FS_AddElement DEF One
    <2>4. Cardinality(C) = One(current_ = v) + One(compact.version = v) + One(flush.base = v)
        <3>1. <<"flush", flush.base>> \notin B  OBVIOUS
        <3> HIDE DEF A, B
        <3>2. Cardinality(B \cup {<<"flush", flush.base>>}) = Cardinality(B) + 1
            BY <2>3, <3>1, FS_AddElement
        <3>3. Cardinality(C) = IF flush.base = v THEN Cardinality(B) + 1 ELSE Cardinality(B)
            BY <3>2
        <3> HIDE DEF C
        <3>4. QED  BY <2>3, <3>3 DEF One
    <2> HIDE DEF A, B, C
    <2>5. refs[v] = Holders(v) /\ Cardinality(ReadersOf(v)) \in Nat
        BY ReadersFinite DEF Control, RefsExact
    <2>6. Cardinality({h \in {<<"db", current_>>, <<"compact", compact.version>>,
                              <<"flush", flush.base>>} : h[2] = v}) = Cardinality(C)
        BY <2>1, Zenon
    <2>7. refs[v] = Cardinality(ReadersOf(v)) + Cardinality(C)
        BY <2>4, <2>5 DEF Holders, One
    <2>8. QED  BY <2>6, <2>7, Zenon
<1>2. QED  BY <1>1, ControlAlways, PTL
=============================================================================
