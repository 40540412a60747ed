--------------------------- MODULE VersionSetFiles --------------------------
(***************************************************************************)
(* Types, reference counts and tables of VersionSet.                       *)
(*                                                                         *)
(* TypeOK is not inductive alone: that a count which goes down was not 0   *)
(* needs RefsExact, and who holds a version needs the order of the steps   *)
(* of Open (Phases) and of the background work (Jobs).                     *)
(*                                                                         *)
(* The tables that a version, an edit or a compaction lists are in the     *)
(* directory, whole, and nothing that is written, created or deleted has   *)
(* the number of one of them (FilesInv).  What Recover lists comes from    *)
(* the directory, so this rests on what the directory has (DiskInv), which *)
(* VersionSetTheorems keeps; it also has the steps of the background work. *)
(***************************************************************************)
EXTENDS VersionSet, FiniteSetTheorems, TLAPS

One(p) == IF p THEN 1 ELSE 0

ReadersOf(v) == {r \in Readers : reader[r] = v}

\* Those that hold a version: readers, the database, and the two compactions.
Holders(v) ==
    Cardinality(ReadersOf(v)) + One(current_ = v) + One(compact.version = v) + One(flush.base = v)

\* Reference counts are exact.
RefsExact == \A v \in Versions : refs[v] = Holders(v)

\* No work is going on.
Idle ==
    /\ flush = NoFlush /\ compact = NoCompact /\ edit = NoEdit
    /\ pending_outputs_ = {} /\ garbage = {} /\ mem_ = {} /\ imm_ = NULL
    /\ reader = [r \in Readers |-> NULL]

Creating == {"new_temp", "new_current"}
Opening  == {"open_manifest", "open_record", "open_temp", "open_current"}

\* What there is at each step of Open: work starts when the database is open, and there
\* is a current version from Recover on.
Phases ==
    /\ db # "open" => Idle
    /\ current_ = NULL <=> db \in {"down"} \cup Creating
    /\ db \in Creating => current = NULL /\ manifest_file_number_ = 1
    /\ db \in Opening \cup {"open"} => current # NULL

\* LogAndApply has its edit.
Editing == flush.pc \in {"log", "logged"} \/ compact.pc \in {"log", "logged"}

\* A memtable compaction runs alone or inside of a merge, never with LogAndApply of the
\* compaction; files are deleted at the end of one of the two.
Jobs ==
    /\ flush.pc # "idle" => compact.pc \in {"idle", "merge", "output"} /\ imm_ # NULL
    /\ flush.pc \in {"build", "created"} <=> flush.base # NULL
    /\ compact.pc # "idle" <=> compact.version # NULL
    /\ compact.pc = "idle" => compact = NoCompact
    /\ compact.pc \in {"merge", "output"} => compact.level < NumLevels - 1
    /\ garbage # {} => flush.pc = "idle" /\ compact.pc \in {"idle", "merge", "output"}
    /\ ~Editing => edit = NoEdit

Control == TypeOK /\ RefsExact /\ Phases /\ Jobs
-----------------------------------------------------------------------------
LEMMA NullApart ==
    /\ NULL \notin Number /\ NULL \notin Versions
    /\ \A entries \in SUBSET Entry : entries # NULL
BY FilesAssumption DEF Number, Versions

LEMMA ReadersFinite ==
    /\ \A v : IsFiniteSet(ReadersOf(v)) /\ Cardinality(ReadersOf(v)) \in Nat
    /\ \A v : IsFiniteSet(ReadersOf(v)') /\ Cardinality(ReadersOf(v)') \in Nat
<1>1. ASSUME NEW S \in SUBSET Readers PROVE IsFiniteSet(S) /\ Cardinality(S) \in Nat
    <2>1. IsFiniteSet(S)  BY FS_Subset, FilesAssumption
    <2>2. QED  BY <2>1, FS_CardinalityType
<1>2. \A v : ReadersOf(v) \in SUBSET Readers /\ ReadersOf(v)' \in SUBSET Readers  BY DEF ReadersOf
<1>3. QED  BY <1>1, <1>2

\* Exact counts are natural numbers.
LEMMA CountsNatural ==
    ASSUME RefsExact', refs' = [v \in Versions |-> refs'[v]]
    PROVE  refs' \in [Versions -> Nat]
<1>1. ASSUME NEW v \in Versions PROVE refs'[v] \in Nat
    <2>1. Cardinality(ReadersOf(v)') \in Nat  BY ReadersFinite
    <2>2. QED  BY <2>1 DEF RefsExact, Holders, One
<1>2. QED  BY <1>1

\* Whoever holds a version is counted.
LEMMA HeldIsCounted ==
    ASSUME RefsExact, NEW v \in Versions,
           current_ = v \/ compact.version = v \/ flush.base = v \/ \E r \in Readers : reader[r] = v
    PROVE  refs[v] > 0
<1>1. Cardinality(ReadersOf(v)) \in Nat  BY ReadersFinite
<1>2. CASE \E r \in Readers : reader[r] = v
    <2>1. ReadersOf(v) # {}  BY <1>2 DEF ReadersOf
    <2>2. Cardinality(ReadersOf(v)) # 0  BY <2>1, ReadersFinite, FS_EmptySet
    <2>3. QED  BY <1>1, <2>2 DEF RefsExact, Holders, One
<1>3. CASE current_ = v \/ compact.version = v \/ flush.base = v
    BY <1>1, <1>3 DEF RefsExact, Holders, One
<1>4. QED  BY <1>2, <1>3

LEMMA RefAt ==
    ASSUME NEW rs, rs = [v \in Versions |-> rs[v]], NEW u \in Versions
    PROVE  /\ Ref(rs, u) = [v \in Versions |-> IF v = u THEN rs[v] + 1 ELSE rs[v]]
           /\ Unref(rs, u) = [v \in Versions |-> IF v = u THEN rs[v] - 1 ELSE rs[v]]
BY DEF Ref, Unref

\* What the counts are when a version is released and another one is appended.
LEMMA AppendCounts ==
    ASSUME NEW rs, rs = [u \in Versions |-> rs[u]], NEW v \in Versions, NEW files,
           AppendVersion(rs, v, files)
    PROVE  /\ refs' = [u \in Versions |-> IF u = v THEN 1 ELSE rs[u]]
           /\ vfiles' = [u \in Versions |-> IF u = v THEN files
                                            ELSE IF rs[u] > 0 THEN vfiles[u] ELSE {}]
           /\ current_' = v /\ rs[v] = 0
<1>1. rs[v] = 0 /\ current_' = v  BY DEF AppendVersion
<1>2. refs' = [u \in Versions |-> IF u = v THEN rs[u] + 1 ELSE rs[u]]  BY RefAt DEF AppendVersion
<1>3. vfiles' = [[u \in Versions |-> IF rs[u] > 0 THEN vfiles[u] ELSE {}] EXCEPT ![v] = files]
    BY DEF AppendVersion, Surviving
<1>4. refs' = [u \in Versions |-> IF u = v THEN 1 ELSE rs[u]]  BY <1>1, <1>2
<1>5. vfiles' = [u \in Versions |-> IF u = v THEN files
                                    ELSE IF rs[u] > 0 THEN vfiles[u] ELSE {}]
    BY <1>3, Zenon
<1>6. QED  BY <1>1, <1>4, <1>5

\* As long as no work is going on, only the database holds a version.
LEMMA IdleHolders ==
    /\ Idle => \A v \in Versions : Holders(v) = One(current_ = v)
    /\ Idle' => \A v \in Versions : Holders(v)' = One(current_' = v)
<1>1. ASSUME Idle, NEW v \in Versions PROVE Holders(v) = One(current_ = v)
    <2>1. ReadersOf(v) = {}  BY <1>1, NullApart DEF ReadersOf, Idle
    <2>2. compact.version # v /\ flush.base # v
        BY <1>1, NullApart DEF Idle, NoFlush, NoCompact
    <2>3. QED  BY <2>1, <2>2, FS_EmptySet DEF Holders, One
<1>2. ASSUME Idle', NEW v \in Versions PROVE Holders(v)' = One(current_' = v)
    <2>1. ReadersOf(v)' = {}  BY <1>2, NullApart DEF ReadersOf, Idle
    <2>2. compact'.version # v /\ flush'.base # v
        BY <1>2, NullApart DEF Idle, NoFlush, NoCompact
    <2>3. QED  BY <2>1, <2>2, FS_EmptySet DEF Holders, One
<1>3. QED  BY <1>1, <1>2

\* The types of the records of the two compactions and of an edit, when there is none.
LEMMA NoJobTypes ==
    /\ NoFlush \in FlushState
    /\ NoCompact \in CompactionState
    /\ NoEdit \in VersionEdit
<1>1. 0 \in Number /\ 0 \in 0 .. NumLevels - 1 /\ 0 \in 0 .. MaxSequence
    BY FilesAssumption DEF Number
<1>2. QED  BY <1>1 DEF NoFlush, NoCompact, NoEdit, VersionEdit, FlushState, CompactionState

LEMMA IdleTypes ==
    /\ Idle => JobTypes /\ Jobs /\ mem_ \subseteq Entry /\ imm_ \in {NULL} \cup SUBSET Entry
               /\ reader \in [Readers -> Versions \cup {NULL}]
    /\ Idle' => JobTypes' /\ Jobs' /\ mem_' \subseteq Entry /\ imm_' \in {NULL} \cup SUBSET Entry
                /\ reader' \in [Readers -> Versions \cup {NULL}]
<1>1. NoFlush.pc = "idle" /\ NoFlush.base = NULL  BY DEF NoFlush
<1>2. NoCompact.pc = "idle" /\ NoCompact.version = NULL  BY DEF NoCompact
<1>3. Idle => JobTypes /\ Jobs  BY <1>1, <1>2, NoJobTypes DEF Idle, JobTypes, Jobs, Editing
<1>4. Idle' => JobTypes' /\ Jobs'  BY <1>1, <1>2, NoJobTypes DEF Idle, JobTypes, Jobs, Editing
<1>5. QED  BY <1>3, <1>4 DEF Idle

LEMMA NoManifestType == NoManifest \in Snapshot
<1>1. 0 \in Number /\ 0 \in 0 .. MaxSequence  BY FilesAssumption DEF Number
<1>2. QED  BY <1>1 DEF NoManifest, Snapshot

LEMMA InitControl == Init => Control
<1> SUFFICES ASSUME Init PROVE Control  OBVIOUS
<1>1. Idle  BY DEF Init, Idle
<1>2. DirTypes  BY NoManifestType DEF Init, DirTypes
<1>3. MemoryTypes
    <2>1. 0 \in Number /\ 2 \in Number /\ 0 \in 0 .. MaxCrashes /\ 0 \in 0 .. MaxSequence
        BY FilesAssumption DEF Number
    <2>2. QED  BY <2>1 DEF Init, MemoryTypes
<1>4. VersionTypes  BY <1>1, IdleTypes DEF Init, VersionTypes
<1>5. RefsExact  BY <1>1, IdleHolders, NullApart DEF Init, RefsExact, One
<1>6. Phases  BY <1>1 DEF Init, Phases, Creating, Opening
<1>7. QED  BY <1>1, <1>2, <1>3, <1>4, <1>5, <1>6, IdleTypes DEF Control, TypeOK

\* The death of the process, and an Open that fails
LEMMA MemoryLostControl ==
    ASSUME Control, MemoryLost, DirTypes', crashes' \in 0 .. MaxCrashes,
           UNCHANGED <<current, flushed, missed>>
    PROVE  Control'
<1>1. Idle'  BY DEF MemoryLost, Idle
<1>2. MemoryTypes'
    <2>1. 0 \in Number /\ 2 \in Number /\ 0 \in 0 .. MaxSequence  BY FilesAssumption DEF Number
    <2>2. QED  BY <2>1 DEF Control, TypeOK, MemoryLost, MemoryTypes
<1>3. VersionTypes'  BY <1>1, IdleTypes DEF MemoryLost, VersionTypes
<1>4. RefsExact'  BY <1>1, IdleHolders, NullApart DEF MemoryLost, RefsExact, One
<1>5. Phases'  BY <1>1 DEF MemoryLost, Phases, Creating, Opening
<1>6. QED  BY <1>1, <1>2, <1>3, <1>4, <1>5, IdleTypes DEF Control, TypeOK
-----------------------------------------------------------------------------
(* DB::Open *)

\* As long as Open is not done, a step that leaves the versions and their readers alone
\* leaves the counts exact.
LEMMA OpenRefs ==
    ASSUME Control, db # "open", Idle', UNCHANGED verVars
    PROVE  RefsExact'
BY IdleHolders DEF Control, Phases, RefsExact, verVars

LEMMA NewDBControl == ASSUME Control, NewDB PROVE Control'
<1>1. Idle'  BY DEF Control, Phases, NewDB, Idle, memVars, jobVars
<1>2. DirTypes'
    <2>1. [files |-> {}, log |-> 0, next |-> 2, last |-> 0, state |-> "good"] \in Snapshot
        <3>1. {0, 2} \subseteq Number /\ 0 \in 0 .. MaxSequence  BY FilesAssumption DEF Number
        <3>2. QED  BY <3>1 DEF Snapshot
    <2>2. QED  BY <2>1 DEF Control, TypeOK, DirTypes, NewDB
<1>3. MemoryTypes'
    BY FilesAssumption DEF Control, TypeOK, MemoryTypes, NewDB, memVars, histVars, Number
<1>4. VersionTypes'  BY DEF Control, TypeOK, VersionTypes, NewDB, verVars
<1>5. RefsExact'  BY <1>1, OpenRefs DEF NewDB
<1>6. Phases'  BY <1>1 DEF Control, Phases, NewDB, verVars, Creating, Opening
<1>7. QED  BY <1>1, <1>2, <1>3, <1>4, <1>5, <1>6, IdleTypes DEF Control, TypeOK

LEMMA TempControl == ASSUME Control, SetCurrentFile_Temp PROVE Control'
<1>1. Idle'  BY DEF Control, Phases, SetCurrentFile_Temp, Idle, memVars, jobVars
<1>2. DirTypes'
    BY DEF Control, TypeOK, DirTypes, MemoryTypes, SetCurrentFile_Temp
<1>3. MemoryTypes'
    BY DEF Control, TypeOK, MemoryTypes, SetCurrentFile_Temp, numVars, memVars, histVars
<1>4. VersionTypes'  BY DEF Control, TypeOK, VersionTypes, SetCurrentFile_Temp, verVars
<1>5. RefsExact'  BY <1>1, OpenRefs DEF SetCurrentFile_Temp
<1>6. Phases'
    BY <1>1 DEF Control, Phases, SetCurrentFile_Temp, numVars, verVars, Creating, Opening
<1>7. QED  BY <1>1, <1>2, <1>3, <1>4, <1>5, <1>6, IdleTypes DEF Control, TypeOK

LEMMA NewDBCurrentControl == ASSUME Control, NewDB_Current PROVE Control'
<1>1. Idle'  BY DEF Control, Phases, NewDB_Current, Idle, memVars, jobVars
<1>2. DirTypes'  BY DEF Control, TypeOK, DirTypes, MemoryTypes, NewDB_Current, Rename
<1>3. MemoryTypes'
    BY DEF Control, TypeOK, MemoryTypes, NewDB_Current, Rename, numVars, memVars
<1>4. VersionTypes'  BY DEF Control, TypeOK, VersionTypes, NewDB_Current, verVars
<1>5. RefsExact'  BY <1>1, OpenRefs DEF NewDB_Current
<1>6. Phases'  BY <1>1 DEF Control, Phases, NewDB_Current, numVars, verVars, Creating, Opening
<1>7. QED  BY <1>1, <1>2, <1>3, <1>4, <1>5, <1>6, IdleTypes DEF Control, TypeOK

\* A set of numbers with a bound has a largest one.
LEMMA LargestNumber ==
    ASSUME NEW S \in SUBSET Nat, S # {}, NEW b \in Nat, \A n \in S : n <= b
    PROVE  \E n \in S : \A m \in S : m <= n
<1> DEFINE R == OpToRel(<, Nat)
           T == {k \in Nat : \E n \in S : k = b - n}
<1>1. IsWellFoundedOn(R, Nat)  BY NatLessThanWellFounded
<1>2. T # {}
    <2>1. PICK n \in S : TRUE  OBVIOUS
    <2>2. b - n \in Nat  BY <2>1
    <2>3. QED  BY <2>1, <2>2
<1>3. PICK k \in T : \A y \in T : <<y, k>> \notin R
    <2> HIDE DEF R
    <2>1. T \subseteq Nat  OBVIOUS
    <2> HIDE DEF T
    <2>2. QED  BY <1>1, <1>2, <2>1, WFMin
<1>4. \A y \in T : ~(y < k)  BY <1>3 DEF OpToRel
<1>5. PICK n \in S : k = b - n  OBVIOUS
<1>6. ASSUME NEW m \in S PROVE m <= n
    <2>1. b - m \in T  OBVIOUS
    <2>2. ~(b - m < b - n)  BY <1>4, <1>5, <2>1
    <2>3. QED  BY <2>2
<1>7. QED  BY <1>6

LEMMA NextAfterAll ==
    ASSUME DirTypes, NEW s \in Snapshot
    PROVE  /\ NextAfterLogs(s) \in Nat /\ s.next < NextAfterLogs(s)
           /\ \A n \in logs : n >= s.log => n < NextAfterLogs(s)
<1> DEFINE used == {s.next} \cup {n \in logs : n >= s.log}
<1>1. used \in SUBSET Nat /\ s.next \in Nat /\ logs \subseteq Number
    <2>1. s.next \in Number /\ logs \subseteq Number  BY DEF DirTypes, Snapshot
    <2>2. Number \subseteq Nat  BY FilesAssumption DEF Number
    <2>3. QED  BY <2>1, <2>2
<1>2. \A n \in used : n <= s.next + MaxFileNumber
    BY <1>1, FilesAssumption DEF Number
<1>3. \E n \in used : \A m \in used : m <= n
    <2>1. s.next + MaxFileNumber \in Nat /\ used # {}  BY <1>1, FilesAssumption
    <2> HIDE DEF used
    <2>2. QED  BY <1>1, <1>2, <2>1, LargestNumber
<1> DEFINE top == CHOOSE n \in used : \A m \in used : m <= n
<1>4. top \in used /\ \A m \in used : m <= top
    <2> HIDE DEF used
    <2>1. QED  BY <1>3
<1>5. NextAfterLogs(s) = 1 + top  BY DEF NextAfterLogs
<1> HIDE DEF top
<1>6. QED  BY <1>1, <1>4, <1>5

LEMMA RecoverControl == ASSUME Control, Recover PROVE Control'
<1> DEFINE s == manifest[current]
<1>1. Idle'  BY DEF Control, Phases, Recover, Idle, jobVars
<1>2. s \in Snapshot  BY DEF Control, TypeOK, DirTypes, Recover
<1>3. s.next \in Number /\ s.log \in Number /\ s.last \in 0 .. MaxSequence /\ s.files \in SUBSET FileMetaData
      /\ NextAfterLogs(s) \in Number /\ NextAfterLogs(s) + 1 \in Number
    <2>1. NextAfterLogs(s) \in Nat /\ s.next < NextAfterLogs(s) /\ NextAfterLogs(s) < MaxFileNumber
        BY <1>2, NextAfterAll DEF Control, TypeOK, Recover
    <2>2. QED  BY <1>2, <2>1, FilesAssumption DEF Snapshot, Number
<1>4. DirTypes'  BY <1>3 DEF Control, TypeOK, DirTypes, Recover
<1>5. MemoryTypes'  BY <1>3 DEF Control, TypeOK, MemoryTypes, Recover, histVars
<1>6. 1 \in Versions  BY FilesAssumption DEF Versions
<1>7. VersionTypes'  BY <1>3, <1>6 DEF Control, TypeOK, VersionTypes, Recover
<1>8. RefsExact'
    <2>1. \A v \in Versions : refs[v] = 0
        BY IdleHolders, NullApart DEF Control, RefsExact, Phases, Recover, One
    <2>2. \A v \in Versions : refs'[v] = IF v = 1 THEN 1 ELSE 0
        BY <2>1 DEF Control, TypeOK, VersionTypes, Recover
    <2>3. QED  BY <1>1, <2>2, IdleHolders DEF RefsExact, Recover, One
<1>9. Phases'  BY <1>1, <1>6, NullApart DEF Phases, Recover, Creating, Opening
<1>10. QED  BY <1>1, <1>4, <1>5, <1>7, <1>8, <1>9, IdleTypes DEF Control, TypeOK

LEMMA OpenCreateControl == ASSUME Control, Open_Create PROVE Control'
<1>1. Idle'  BY DEF Control, Phases, Open_Create, Idle, memVars, jobVars
<1>2. DirTypes'  BY NoManifestType DEF Control, TypeOK, DirTypes, Open_Create
<1>3. MemoryTypes'
    BY DEF Control, TypeOK, MemoryTypes, Open_Create, numVars, memVars, histVars
<1>4. VersionTypes'  BY DEF Control, TypeOK, VersionTypes, Open_Create, verVars
<1>5. RefsExact'  BY <1>1, OpenRefs DEF Open_Create
<1>6. Phases'  BY <1>1 DEF Control, Phases, Open_Create, numVars, verVars, Creating, Opening
<1>7. QED  BY <1>1, <1>2, <1>3, <1>4, <1>5, <1>6, IdleTypes DEF Control, TypeOK

LEMMA OpenRecordControl == ASSUME Control, Open_Record PROVE Control'
<1>1. Idle'  BY DEF Control, Phases, Open_Record, Idle, memVars, jobVars
<1>2. DirTypes'
    <2>1. vfiles[current_] \in SUBSET FileMetaData
        BY DEF Control, TypeOK, VersionTypes, Phases, Open_Record, Creating
    <2>2. [files |-> vfiles[current_], log |-> logfile_number_, next |-> next_file_number_,
           last |-> last_sequence_, state |-> "good"] \in Snapshot
        BY <2>1 DEF Control, TypeOK, MemoryTypes, Snapshot
    <2>3. QED  BY <2>2 DEF Control, TypeOK, DirTypes, Open_Record
<1>3. MemoryTypes'
    BY DEF Control, TypeOK, MemoryTypes, Open_Record, numVars, memVars, histVars
<1>4. VersionTypes'  BY DEF Control, TypeOK, VersionTypes, Open_Record, verVars
<1>5. RefsExact'  BY <1>1, OpenRefs DEF Open_Record
<1>6. Phases'  BY <1>1 DEF Control, Phases, Open_Record, numVars, verVars, Creating, Opening
<1>7. QED  BY <1>1, <1>2, <1>3, <1>4, <1>5, <1>6, IdleTypes DEF Control, TypeOK

LEMMA ObsoleteTypes ==
    ASSUME DirTypes, NEW error, NEW log, NEW vf, NEW rs, NEW pending, NEW tmp \in SUBSET Number
    PROVE  Obsolete(error, log, vf, rs, pending, tmp) \subseteq {"table", "temp", "log", "manifest"} \X Number
BY DEF Obsolete, DirTypes

\* The counts are exact after AppendVersion if those it starts from are, but for the
\* database itself.
LEMMA AppendExact ==
    ASSUME NEW rs, rs = [u \in Versions |-> rs[u]], NEW v \in Versions, NEW files,
           AppendVersion(rs, v, files), UNCHANGED reader,
           \A u \in Versions : rs[u] = Cardinality(ReadersOf(u)) + One(compact'.version = u)
                                       + One(flush'.base = u)
    PROVE  RefsExact'
<1>1. /\ refs' = [u \in Versions |-> IF u = v THEN 1 ELSE rs[u]]
      /\ current_' = v /\ rs[v] = 0
    BY AppendCounts
<1>2. ASSUME NEW u \in Versions PROVE refs'[u] = Holders(u)'
    <2>1. ReadersOf(u)' = ReadersOf(u)  BY DEF ReadersOf
    <2>2. Cardinality(ReadersOf(u)) \in Nat  BY ReadersFinite
    <2>3. refs'[u] = rs[u] + One(v = u)  BY <1>1, <2>2 DEF One
    <2>4. QED  BY <1>1, <2>1, <2>2, <2>3 DEF Holders, One
<1>3. QED  BY <1>2 DEF RefsExact

LEMMA AppendTypes ==
    ASSUME VersionTypes, NEW rs, rs = [u \in Versions |-> rs[u]], NEW v \in Versions,
           NEW files \in SUBSET FileMetaData,
           AppendVersion(rs, v, files), UNCHANGED reader, RefsExact'
    PROVE  VersionTypes'
<1>1. /\ refs' = [u \in Versions |-> IF u = v THEN 1 ELSE rs[u]]
      /\ vfiles' = [u \in Versions |-> IF u = v THEN files
                                       ELSE IF rs[u] > 0 THEN vfiles[u] ELSE {}]
      /\ current_' = v
    BY AppendCounts
<1>2. refs' = [u \in Versions |-> refs'[u]]  BY <1>1
<1>3. refs' \in [Versions -> Nat]  BY <1>2, CountsNatural
<1>4. QED  BY <1>1, <1>3 DEF VersionTypes

LEMMA OpenCurrentControl == ASSUME Control, Open_Current PROVE Control'
<1>1. PICK v \in Versions : AppendVersion(Unref(refs, current_), v, vfiles[current_])
    BY DEF Open_Current
<1>2. current_ \in Versions /\ current_ # NULL /\ Idle
    BY DEF Control, TypeOK, VersionTypes, Phases, Open_Current, Creating
<1>3. refs = [u \in Versions |-> refs[u]]  BY DEF Control, TypeOK, VersionTypes
<1>4. Unref(refs, current_) = [u \in Versions |-> IF u = current_ THEN refs[u] - 1 ELSE refs[u]]
    BY <1>2, <1>3, RefAt
<1>5. Unref(refs, current_) = [u \in Versions |-> Unref(refs, current_)[u]]  BY <1>4
<1>6. UNCHANGED <<reader, flush, compact, edit, pending_outputs_, mem_, imm_>>
    BY DEF Open_Current, memVars, jobVars
<1>7. RefsExact'
    <2>1. ASSUME NEW u \in Versions
          PROVE  Unref(refs, current_)[u]
                  = Cardinality(ReadersOf(u)) + One(compact'.version = u) + One(flush'.base = u)
        <3>1. refs[u] = Cardinality(ReadersOf(u)) + One(current_ = u) + One(compact.version = u)
                        + One(flush.base = u)
            BY DEF Control, RefsExact, Holders
        <3>2. Cardinality(ReadersOf(u)) \in Nat  BY ReadersFinite
        <3>3. QED  BY <1>4, <1>6, <3>1, <3>2 DEF One
    <2>2. QED  BY <1>1, <1>5, <1>6, <2>1, AppendExact
<1>8. VersionTypes'
    <2>1. vfiles[current_] \in SUBSET FileMetaData  BY <1>2 DEF Control, TypeOK, VersionTypes
    <2>2. QED  BY <1>1, <1>5, <1>6, <1>7, <2>1, AppendTypes DEF Control, TypeOK
<1>9. DirTypes'  BY DEF Control, TypeOK, DirTypes, MemoryTypes, Open_Current, Rename
<1>10. MemoryTypes'
    BY DEF Control, TypeOK, MemoryTypes, Open_Current, Rename, memVars
<1>11. JobTypes'
    <2>1. garbage' \subseteq {"table", "temp", "log", "manifest"} \X Number
        BY <1>9, ObsoleteTypes DEF Control, TypeOK, Open_Current, DirTypes
    <2>2. QED  BY <1>6, <2>1 DEF Control, TypeOK, JobTypes
<1>12. current_' = v /\ db' = "open" /\ current' # NULL
    BY <1>1, NullApart
    DEF Control, TypeOK, MemoryTypes, Phases, Open_Current, Rename, AppendVersion, Opening
<1>13. Phases'  BY <1>12, NullApart DEF Phases, Creating, Opening
<1>14. Jobs'
    BY <1>2, <1>6 DEF Control, Jobs, Editing, Idle, NoFlush, NoCompact
<1>15. QED  BY <1>7, <1>8, <1>9, <1>10, <1>11, <1>13, <1>14 DEF Control, TypeOK

LEMMA OpenFailsControl == ASSUME Control, Open_Fails PROVE Control'
<1>1. DirTypes'  BY NoManifestType DEF Control, TypeOK, DirTypes, Open_Fails
<1>2. crashes' \in 0 .. MaxCrashes
    BY FilesAssumption DEF Control, TypeOK, MemoryTypes, Open_Fails
<1>3. QED  BY <1>1, <1>2, MemoryLostControl DEF Open_Fails

LEMMA CrashControl == ASSUME Control, Crash PROVE Control'
<1>1. DirTypes'  BY DEF Control, TypeOK, DirTypes, Crash, dirVars
<1>2. crashes' \in 0 .. MaxCrashes  BY FilesAssumption DEF Control, TypeOK, MemoryTypes, Crash
<1>3. QED  BY <1>1, <1>2, MemoryLostControl DEF Crash, dirVars
-----------------------------------------------------------------------------
(* Deletions, writers and readers *)

\* Steps that change neither the versions nor who holds them
LEMMA SameHolders ==
    ASSUME Control, UNCHANGED <<verVars, reader>>,
           compact'.version = compact.version, flush'.base = flush.base
    PROVE  RefsExact' /\ VersionTypes'
<1>1. \A v : ReadersOf(v)' = ReadersOf(v)  BY DEF ReadersOf
<1>2. QED  BY <1>1 DEF Control, TypeOK, VersionTypes, RefsExact, Holders, verVars

LEMMA DeleteControl == ASSUME Control, DeleteObsolete PROVE Control'
<1>1. PICK f \in garbage :
        /\ garbage' = garbage \ {f}
        /\ table' = IF f[1] = "table" THEN [table EXCEPT ![f[2]] = NULL] ELSE table
        /\ temps' = IF f[1] = "temp" THEN temps \ {f[2]} ELSE temps
        /\ logs' = IF f[1] = "log" THEN logs \ {f[2]} ELSE logs
        /\ manifest' = IF f[1] = "manifest" THEN [manifest EXCEPT ![f[2]] = NoManifest] ELSE manifest
    BY DEF DeleteObsolete
<1>2. DirTypes'  BY <1>1, NoManifestType DEF Control, TypeOK, DirTypes, DeleteObsolete
<1>3. UNCHANGED <<current, db, numVars, verVars, memVars, jobVars, bg_error_, reader, histVars>>
    BY DEF DeleteObsolete
<1>4. MemoryTypes'  BY <1>3 DEF Control, TypeOK, MemoryTypes, numVars, memVars, histVars
<1>5. RefsExact' /\ VersionTypes'  BY <1>3, SameHolders DEF jobVars
<1>6. JobTypes'  BY <1>1, <1>3 DEF Control, TypeOK, JobTypes, jobVars
<1>7. Phases'
    <2>1. db = "open" BY <1>1 DEF Control, Phases, Idle
    <2>2. QED  BY <1>3, <2>1 DEF Control, Phases, numVars, verVars, Creating, Opening
<1>8. Jobs'  BY <1>1, <1>3 DEF Control, Jobs, Editing, jobVars, memVars
<1>9. QED  BY <1>2, <1>4, <1>5, <1>6, <1>7, <1>8 DEF Control, TypeOK

LEMMA WriteControl == ASSUME Control, Write PROVE Control'
<1>1. DirTypes'  BY DEF Control, TypeOK, DirTypes, Write, dirVars
<1>2. MemoryTypes'
    <2>1. last_sequence_' \in 0 .. MaxSequence /\ last_sequence_' \in Entry
        BY FilesAssumption DEF Control, TypeOK, MemoryTypes, Write, Entry
    <2>2. QED  BY <2>1 DEF Control, TypeOK, MemoryTypes, Write, numVars, histVars
<1>3. RefsExact' /\ VersionTypes'  BY SameHolders DEF Write, jobVars
<1>4. JobTypes' /\ Jobs'  BY DEF Control, TypeOK, JobTypes, Jobs, Editing, Write, jobVars
<1>5. Phases'
    BY DEF Control, Phases, Write, MutexFree, dirVars, numVars, verVars, Creating, Opening
<1>6. QED  BY <1>1, <1>2, <1>3, <1>4, <1>5 DEF Control, TypeOK

\* A new number is one of those the bound allows.
LEMMA NumberTaken ==
    ASSUME MemoryTypes, NumbersLeft
    PROVE  next_file_number_ + 1 \in Number
BY FilesAssumption DEF MemoryTypes, NumbersLeft, Number

LEMMA SwitchControl == ASSUME Control, SwitchMemTable PROVE Control'
<1>1. DirTypes'  BY DEF Control, TypeOK, DirTypes, MemoryTypes, SwitchMemTable
<1>2. MemoryTypes'
    <2>1. next_file_number_ + 1 \in Number  BY NumberTaken DEF Control, TypeOK, SwitchMemTable
    <2>2. QED  BY <2>1 DEF Control, TypeOK, MemoryTypes, SwitchMemTable, histVars
<1>3. RefsExact' /\ VersionTypes'  BY SameHolders DEF SwitchMemTable, jobVars
<1>4. JobTypes' BY DEF Control, TypeOK, JobTypes, SwitchMemTable, jobVars
<1>5. Jobs'  BY NullApart DEF Control, TypeOK, MemoryTypes, Jobs, Editing, SwitchMemTable, jobVars
<1>6. Phases'
    BY DEF Control, Phases, SwitchMemTable, MutexFree, numVars, verVars, Creating, Opening
<1>7. QED  BY <1>1, <1>2, <1>3, <1>4, <1>5, <1>6 DEF Control, TypeOK

LEMMA ReadBeginControl ==
    ASSUME Control, NEW r \in Readers, Read_Begin(r) PROVE Control'
<1>1. current_ \in Versions
    BY DEF Control, TypeOK, VersionTypes, Phases, Read_Begin, MutexFree, Creating
<1>2. refs' = [v \in Versions |-> IF v = current_ THEN refs[v] + 1 ELSE refs[v]]
    <2>1. refs = [v \in Versions |-> refs[v]]  BY DEF Control, TypeOK, VersionTypes
    <2>2. QED  BY <1>1, <2>1, RefAt DEF Read_Begin
<1>3. reader' \in [Readers -> Versions \cup {NULL}]
    BY <1>1 DEF Control, TypeOK, VersionTypes, Read_Begin
<1>4. ASSUME NEW v \in Versions PROVE refs'[v] = Holders(v)'
    <2>1. refs[v] = Holders(v)  BY DEF Control, RefsExact
    <2>2. Cardinality(ReadersOf(v)) \in Nat /\ IsFiniteSet(ReadersOf(v))  BY ReadersFinite
    <2>3. Cardinality(ReadersOf(v)') = Cardinality(ReadersOf(v)) + One(v = current_)
        <3>1. CASE v = current_
            <4>1. ReadersOf(v)' = ReadersOf(v) \cup {r}
                BY <1>1, <3>1 DEF Control, TypeOK, VersionTypes, Read_Begin, ReadersOf
            <4>2. r \notin ReadersOf(v)  BY NullApart DEF Read_Begin, ReadersOf
            <4>3. QED  BY <2>2, <3>1, <4>1, <4>2, FS_AddElement DEF One
        <3>2. CASE v # current_
            <4>1. ReadersOf(v)' = ReadersOf(v)
                BY <3>2, NullApart DEF Control, TypeOK, VersionTypes, Read_Begin, ReadersOf
            <4>2. QED  BY <2>2, <3>2, <4>1 DEF One
        <3>3. QED  BY <3>1, <3>2
    <2>4. UNCHANGED <<current_, compact, flush>>  BY DEF Read_Begin, jobVars
    <2>5. QED  BY <1>2, <2>1, <2>2, <2>3, <2>4 DEF Holders, One
<1>5. RefsExact'  BY <1>4 DEF RefsExact
<1>6. VersionTypes'
    <2>1. refs' \in [Versions -> Nat]  BY <1>2, <1>5, CountsNatural
    <2>2. QED  BY <1>3, <2>1 DEF Control, TypeOK, VersionTypes, Read_Begin
<1>7. DirTypes' /\ MemoryTypes'
    BY DEF Control, TypeOK, DirTypes, MemoryTypes, Read_Begin, dirVars, numVars, memVars, histVars
<1>8. JobTypes' /\ Jobs'
    BY DEF Control, TypeOK, JobTypes, Jobs, Editing, Read_Begin, jobVars, memVars
<1>9. Phases'
    BY DEF Control, Phases, Read_Begin, MutexFree, dirVars, numVars, Creating, Opening
<1>10. QED  BY <1>5, <1>6, <1>7, <1>8, <1>9 DEF Control, TypeOK

\* A version is released: its files stay as long as others hold it.
LEMMA ReleaseTypes ==
    ASSUME VersionTypes, NEW u \in Versions, refs' = Unref(refs, u),
           vfiles' = Surviving(vfiles, refs'), UNCHANGED current_,
           reader' \in [Readers -> Versions \cup {NULL}], RefsExact'
    PROVE  VersionTypes'
<1>1. refs' = [v \in Versions |-> IF v = u THEN refs[v] - 1 ELSE refs[v]]
    BY RefAt DEF VersionTypes
<1>2. refs' \in [Versions -> Nat]  BY <1>1, CountsNatural
<1>3. QED  BY <1>2 DEF VersionTypes, Surviving

LEMMA ReadEndControl ==
    ASSUME Control, NEW r \in Readers, Read_End(r) PROVE Control'
<1> DEFINE u == reader[r]
<1>1. u \in Versions  BY DEF Control, TypeOK, VersionTypes, Read_End
<1>2. refs' = [v \in Versions |-> IF v = u THEN refs[v] - 1 ELSE refs[v]]
    <2>1. refs = [v \in Versions |-> refs[v]]  BY DEF Control, TypeOK, VersionTypes
    <2>2. QED  BY <1>1, <2>1, RefAt DEF Read_End
<1>3. reader' \in [Readers -> Versions \cup {NULL}]
    BY DEF Control, TypeOK, VersionTypes, Read_End
<1>4. ASSUME NEW v \in Versions PROVE refs'[v] = Holders(v)'
    <2>1. refs[v] = Holders(v)  BY DEF Control, RefsExact
    <2>2. Cardinality(ReadersOf(v)) \in Nat /\ IsFiniteSet(ReadersOf(v))  BY ReadersFinite
    <2>3. Cardinality(ReadersOf(v)') = Cardinality(ReadersOf(v)) - One(v = u)
        <3>1. CASE v = u
            <4>1. ReadersOf(v)' = ReadersOf(v) \ {r}
                BY <1>1, <3>1, NullApart DEF Control, TypeOK, VersionTypes, Read_End, ReadersOf
            <4>2. r \in ReadersOf(v)  BY <3>1 DEF ReadersOf
            <4>3. QED  BY <2>2, <3>1, <4>1, <4>2, FS_RemoveElement DEF One
        <3>2. CASE v # u
            <4>1. ReadersOf(v)' = ReadersOf(v)
                BY <3>2, NullApart DEF Control, TypeOK, VersionTypes, Read_End, ReadersOf
            <4>2. QED  BY <2>2, <3>2, <4>1 DEF One
        <3>3. QED  BY <3>1, <3>2
    <2>4. UNCHANGED <<current_, compact, flush>>  BY DEF Read_End, jobVars
    <2>5. QED  BY <1>2, <2>1, <2>2, <2>3, <2>4 DEF Holders, One
<1>5. RefsExact'  BY <1>4 DEF RefsExact
<1>6. VersionTypes'  BY <1>1, <1>3, <1>5, ReleaseTypes DEF Control, TypeOK, Read_End
<1>7. DirTypes' /\ MemoryTypes'
    BY DEF Control, TypeOK, DirTypes, MemoryTypes, Read_End, dirVars, numVars, memVars, histVars
<1>8. JobTypes' /\ Jobs'
    BY DEF Control, TypeOK, JobTypes, Jobs, Editing, Read_End, jobVars, memVars
<1>9. Phases'
    BY DEF Control, Phases, Read_End, MutexFree, dirVars, numVars, Creating, Opening
<1>10. QED  BY <1>5, <1>6, <1>7, <1>8, <1>9 DEF Control, TypeOK
-----------------------------------------------------------------------------
(* CompactMemTable *)

\* A step of the background work leaves Phases: the database is open and stays so.
LEMMA OpenPhases ==
    ASSUME Control, db = "open", db' = "open", current_' \in Versions, UNCHANGED current
    PROVE  Phases'
BY NullApart DEF Control, Phases, Creating, Opening

\* Work goes on only when the database is open.
LEMMA BusyIsOpen ==
    ASSUME Control, flush.pc # "idle" \/ compact.pc # "idle"
    PROVE  db = "open" /\ current_ \in Versions
<1>1. db = "open"  BY DEF Control, Phases, Idle, NoFlush, NoCompact
<1>2. QED  BY <1>1 DEF Control, TypeOK, VersionTypes, Phases, Creating

LEMMA OpenCurrent ==
    ASSUME Control, db = "open"
    PROVE  current_ \in Versions /\ vfiles[current_] \in SUBSET FileMetaData /\ current # NULL
           /\ current \in Number
BY DEF Control, TypeOK, DirTypes, VersionTypes, Phases, Creating, Opening

LEMMA FlushBeginControl == ASSUME Control, Flush_Begin PROVE Control'
<1>1. db = "open" /\ flush.pc = "idle" /\ imm_ # NULL  BY Zenon DEF Flush_Begin, MutexFree, FlushDue
<1>2. current_ \in Versions  BY <1>1, OpenCurrent
<1>3. flush.base = NULL  BY <1>1 DEF Control, Jobs
<1>4. next_file_number_ + 1 \in Number  BY NumberTaken DEF Control, TypeOK, Flush_Begin
<1>5. refs' = [v \in Versions |-> IF v = current_ THEN refs[v] + 1 ELSE refs[v]]
    <2>1. refs = [v \in Versions |-> refs[v]]  BY DEF Control, TypeOK, VersionTypes
    <2>2. QED  BY <1>2, <2>1, RefAt DEF Flush_Begin
<1>6. ASSUME NEW v \in Versions PROVE refs'[v] = Holders(v)'
    <2>1. refs[v] = Holders(v)  BY DEF Control, RefsExact
    <2>2. ReadersOf(v)' = ReadersOf(v)  BY DEF Flush_Begin, ReadersOf
    <2>3. Cardinality(ReadersOf(v)) \in Nat  BY ReadersFinite
    <2>4. UNCHANGED <<current_, compact>> /\ flush'.base = current_  BY DEF Flush_Begin
    <2>5. flush.base # v  BY <1>3, NullApart, Zenon
    <2>6. refs[v] = Cardinality(ReadersOf(v)) + One(current_ = v) + One(compact.version = v)
        BY <2>1, <2>3, <2>5 DEF Holders, One
    <2>7. Holders(v)' = Cardinality(ReadersOf(v)) + One(current_ = v) + One(compact.version = v)
                        + One(current_ = v)
        BY <2>2, <2>4 DEF Holders
    <2>8. refs'[v] = refs[v] + One(current_ = v)
        BY <1>5, <2>3, <2>6 DEF One
    <2>9. QED  BY <2>6, <2>7, <2>8
<1>7. RefsExact'  BY <1>6 DEF RefsExact
<1>8. VersionTypes'
    <2>1. refs' \in [Versions -> Nat]  BY <1>5, <1>7, CountsNatural
    <2>2. QED  BY <2>1 DEF Control, TypeOK, VersionTypes, Flush_Begin
<1>9. DirTypes'  BY DEF Control, TypeOK, DirTypes, Flush_Begin, dirVars
<1>10. MemoryTypes'  BY <1>4 DEF Control, TypeOK, MemoryTypes, Flush_Begin, memVars, histVars
<1>11. JobTypes'  BY <1>2 DEF Control, TypeOK, JobTypes, MemoryTypes, FlushState, Flush_Begin
<1>12. Jobs'
    BY <1>1, <1>2, NullApart DEF Control, Jobs, Editing, Flush_Begin, FlushDue, MutexFree, memVars
<1>13. Phases'  BY <1>1, <1>2, OpenPhases DEF Flush_Begin, dirVars
<1>14. QED  BY <1>7, <1>8, <1>9, <1>10, <1>11, <1>12, <1>13 DEF Control, TypeOK

LEMMA FlushCreateControl == ASSUME Control, Flush_Create PROVE Control'
<1>1. flush' = [flush EXCEPT !.pc = "created"] /\ flush.pc = "build"  BY DEF Flush_Create
<1>2. flush' \in FlushState
      /\ flush'.pc = "created" /\ flush'.base = flush.base /\ flush'.number = flush.number
    BY <1>1 DEF Control, TypeOK, JobTypes, FlushState
<1>3. RefsExact' /\ VersionTypes'  BY <1>2, SameHolders DEF Flush_Create
<1>4. DirTypes'
    BY DEF Control, TypeOK, DirTypes, JobTypes, Flush_Create
<1>5. MemoryTypes'  BY DEF Control, TypeOK, MemoryTypes, Flush_Create, numVars, memVars, histVars
<1>6. JobTypes'  BY <1>2 DEF Control, TypeOK, JobTypes, Flush_Create
<1>7. Jobs'  BY <1>1, <1>2 DEF Control, Jobs, Editing, Flush_Create, memVars
<1>8. Phases'  BY OpenPhases, OpenCurrent DEF Flush_Create, verVars
<1>9. QED  BY <1>3, <1>4, <1>5, <1>6, <1>7, <1>8 DEF Control, TypeOK

\* The counts when the memtable compaction releases its version
LEMMA FlushReleases ==
    ASSUME Control, flush.pc \in {"build", "created"}, refs' = Unref(refs, flush.base),
           vfiles' = Surviving(vfiles, refs'), flush'.base = NULL,
           UNCHANGED <<current_, compact, reader>>
    PROVE  RefsExact' /\ VersionTypes'
<1>1. flush.base \in Versions  BY DEF Control, TypeOK, JobTypes, FlushState, Jobs
<1>2. refs' = [v \in Versions |-> IF v = flush.base THEN refs[v] - 1 ELSE refs[v]]
    <2>1. refs = [v \in Versions |-> refs[v]]  BY DEF Control, TypeOK, VersionTypes
    <2>2. QED  BY <1>1, <2>1, RefAt
<1>3. ASSUME NEW v \in Versions PROVE refs'[v] = Holders(v)'
    <2>1. refs[v] = Holders(v)  BY DEF Control, RefsExact
    <2>2. ReadersOf(v)' = ReadersOf(v)  BY DEF ReadersOf
    <2>3. Cardinality(ReadersOf(v)) \in Nat  BY ReadersFinite
    <2>4. QED  BY <1>2, <2>1, <2>2, <2>3, NullApart DEF Holders, One
<1>4. RefsExact'  BY <1>3 DEF RefsExact
<1>5. QED  BY <1>1, <1>4, ReleaseTypes DEF Control, TypeOK, VersionTypes

LEMMA NewEditType ==
    ASSUME MemoryTypes, NEW del \in SUBSET FileMetaData, NEW add \in SUBSET FileMetaData,
           NEW log \in Number
    PROVE  NewEdit(del, add, log) \in VersionEdit
BY DEF NewEdit, VersionEdit, MemoryTypes

LEMMA PushedLevels == \A l \in 0 .. MaxMemCompactLevel : l \in 0 .. NumLevels - 1
BY FilesAssumption

LEMMA FlushBuiltControl == ASSUME Control, Flush_Built PROVE Control'
<1>1. flush' = [flush EXCEPT !.pc = "log", !.base = NULL] /\ flush.pc \in {"build", "created"}
    BY DEF Flush_Built
<1>2. flush' \in FlushState
      /\ flush'.pc = "log" /\ flush'.base = NULL /\ flush'.number = flush.number
    BY <1>1 DEF Control, TypeOK, JobTypes, FlushState
<1>3. imm_ \in SUBSET Entry /\ imm_ # NULL
    BY <1>1 DEF Control, TypeOK, MemoryTypes, Jobs
<1>4. RefsExact' /\ VersionTypes'  BY <1>1, <1>2, FlushReleases DEF Flush_Built
<1>5. DirTypes'  BY <1>3 DEF Control, TypeOK, DirTypes, JobTypes, Flush_Built
<1>6. MemoryTypes'  BY DEF Control, TypeOK, MemoryTypes, Flush_Built, numVars, memVars, histVars
<1>7. edit' \in VersionEdit
    <2>1. PICK level \in 0 .. MaxMemCompactLevel :
            edit' = NewEdit({}, IF imm_ = {} THEN {}
                                ELSE {[level |-> level, number |-> flush.number, data |-> imm_]},
                            logfile_number_)
        BY DEF Flush_Built
    <2>2. level \in 0 .. NumLevels - 1  BY PushedLevels, Zenon
    <2>3. [level |-> level, number |-> flush.number, data |-> imm_] \in FileMetaData
        BY <1>3, <2>2 DEF Control, TypeOK, JobTypes, FlushState, FileMetaData
    <2>4. QED  BY <2>1, <2>3, NewEditType DEF Control, TypeOK, MemoryTypes
<1>8. JobTypes'  BY <1>2, <1>7 DEF Control, TypeOK, JobTypes, Flush_Built
<1>9. Jobs'
    BY <1>1, <1>2 DEF Control, Jobs, Editing, Flush_Built, MutexFree, memVars
<1>10. Phases'  BY OpenPhases, OpenCurrent DEF Flush_Built, MutexFree
<1>11. QED  BY <1>4, <1>5, <1>6, <1>8, <1>9, <1>10 DEF Control, TypeOK

\* A record keeps a manifest one.
LEMMA AppendManifest ==
    ASSUME Control, AppendRecord \/ AppendFails
    PROVE  manifest' \in [Number -> Snapshot]
<1>1. manifest \in [Number -> Snapshot] /\ manifest_file_number_ \in Number /\ edit \in VersionEdit
    BY DEF Control, TypeOK, DirTypes, MemoryTypes, JobTypes
<1>2. ASSUME NEW s \in Snapshot PROVE Replay(s, edit) \in Snapshot
    BY <1>1 DEF Replay, Apply, Snapshot, VersionEdit
<1>3. ASSUME NEW s \in Snapshot, NEW t \in {"none", "good", "torn", "damaged"}
      PROVE  [s EXCEPT !.state = t] \in Snapshot
    BY DEF Snapshot
<1>4. CASE AppendRecord  BY <1>1, <1>2, <1>4 DEF AppendRecord
<1>5. CASE AppendFails
    <2> DEFINE s == manifest[manifest_file_number_]
               t == IF s.state = "good" THEN "torn" ELSE s.state
    <2>1. s \in Snapshot /\ t \in {"none", "good", "torn", "damaged"}  BY <1>1 DEF Snapshot
    <2>2. manifest' = manifest \/ manifest' = [manifest EXCEPT ![manifest_file_number_] = [s EXCEPT !.state = t]]
        BY <1>5 DEF AppendFails
    <2>3. [s EXCEPT !.state = t] \in Snapshot  BY <1>3, <2>1
    <2> HIDE DEF s, t
    <2>4. QED  BY <1>1, <2>2, <2>3
<1>6. QED  BY <1>4, <1>5

LEMMA FlushRecordControl == ASSUME Control, Flush_Record PROVE Control'
<1>1. flush' = [flush EXCEPT !.pc = "logged"] /\ flush.pc = "log"  BY DEF Flush_Record
<1>2. flush' \in FlushState
      /\ flush'.pc = "logged" /\ flush'.base = flush.base
    BY <1>1 DEF Control, TypeOK, JobTypes, FlushState
<1>3. RefsExact' /\ VersionTypes'  BY <1>2, SameHolders DEF Flush_Record
<1>4. DirTypes'
    <2>1. manifest' \in [Number -> Snapshot]  BY AppendManifest DEF Flush_Record
    <2>2. QED  BY <2>1 DEF Control, TypeOK, DirTypes, Flush_Record
<1>5. MemoryTypes'  BY DEF Control, TypeOK, MemoryTypes, Flush_Record, numVars, memVars, histVars
<1>6. JobTypes'  BY <1>2 DEF Control, TypeOK, JobTypes, Flush_Record
<1>7. Jobs'  BY <1>1, <1>2 DEF Control, Jobs, Editing, Flush_Record, memVars
<1>8. Phases'  BY OpenPhases, OpenCurrent DEF Flush_Record, verVars
<1>9. QED  BY <1>3, <1>4, <1>5, <1>6, <1>7, <1>8 DEF Control, TypeOK

LEMMA FlushInstallControl == ASSUME Control, Flush_Install PROVE Control'
<1>1. PICK v \in Versions : AppendVersion(Unref(refs, current_), v, NewVersion)
    BY DEF Flush_Install
<1>2. current_ \in Versions /\ vfiles[current_] \in SUBSET FileMetaData /\ db = "open"
    BY OpenCurrent DEF Flush_Install, MutexFree
<1>3. flush.base = NULL /\ imm_ # NULL /\ compact.pc \in {"idle", "merge", "output"}
    BY DEF Control, Jobs, Flush_Install
<1>4. refs = [u \in Versions |-> refs[u]]  BY DEF Control, TypeOK, VersionTypes
<1>5. Unref(refs, current_) = [u \in Versions |-> IF u = current_ THEN refs[u] - 1 ELSE refs[u]]
    BY <1>2, <1>4, RefAt
<1>6. Unref(refs, current_) = [u \in Versions |-> Unref(refs, current_)[u]]  BY <1>5
<1>7. flush' = NoFlush /\ flush'.base = NULL /\ flush'.pc = "idle" /\ edit' = NoEdit
      /\ UNCHANGED <<reader, compact, pending_outputs_>>
    BY DEF Flush_Install, NoFlush
<1>8. RefsExact'
    <2>1. ASSUME NEW u \in Versions
          PROVE  Unref(refs, current_)[u]
                  = Cardinality(ReadersOf(u)) + One(compact'.version = u) + One(flush'.base = u)
        <3>1. refs[u] = Cardinality(ReadersOf(u)) + One(current_ = u) + One(compact.version = u)
                        + One(flush.base = u)
            BY DEF Control, RefsExact, Holders
        <3>2. Cardinality(ReadersOf(u)) \in Nat  BY ReadersFinite
        <3>3. QED  BY <1>3, <1>5, <1>7, <3>1, <3>2 DEF One
    <2>2. QED  BY <1>1, <1>6, <1>7, <2>1, AppendExact
<1>9. VersionTypes'
    <2>1. NewVersion \in SUBSET FileMetaData
        BY <1>2 DEF Control, TypeOK, JobTypes, VersionEdit, NewVersion, Apply
    <2>2. QED  BY <1>1, <1>6, <1>7, <1>8, <2>1, AppendTypes DEF Control, TypeOK
<1>10. DirTypes'  BY DEF Control, TypeOK, DirTypes, Flush_Install, dirVars
<1>11. MemoryTypes'
    <2>1. edit.log \in Number  BY DEF Control, TypeOK, JobTypes, VersionEdit
    <2>2. QED  BY <1>3, <2>1 DEF Control, TypeOK, MemoryTypes, Flush_Install
<1>12. JobTypes'
    <2>1. garbage' \subseteq {"table", "temp", "log", "manifest"} \X Number
        BY ObsoleteTypes, Zenon DEF Control, TypeOK, Flush_Install, DirTypes
    <2>2. NoFlush \in FlushState /\ NoEdit \in VersionEdit
        BY NoJobTypes
    <2>3. QED  BY <1>7, <2>1, <2>2 DEF Control, TypeOK, JobTypes
<1>13. Phases'
    <2>1. current_' \in Versions  BY <1>1 DEF AppendVersion
    <2>2. QED  BY <1>2, <2>1, OpenPhases, Zenon DEF Flush_Install, dirVars
<1>14. Jobs'  BY <1>3, <1>7 DEF Control, Jobs, Editing
<1>15. QED  BY <1>8, <1>9, <1>10, <1>11, <1>12, <1>13, <1>14 DEF Control, TypeOK

\* A memtable compaction that fails, once the versions are seen to
LEMMA FlushFailedControl ==
    ASSUME Control, flush.pc # "idle", db = "open", garbage = {}, Flush_Failed, DirTypes',
           RefsExact', VersionTypes'
    PROVE  Control'
<1>1. flush' = NoFlush /\ flush'.base = NULL /\ flush'.pc = "idle" /\ edit' = NoEdit
    BY DEF Flush_Failed, NoFlush
<1>2. MemoryTypes'  BY DEF Control, TypeOK, MemoryTypes, Flush_Failed, numVars, memVars, histVars
<1>3. JobTypes'
    BY <1>1, NoJobTypes DEF Control, TypeOK, JobTypes, Flush_Failed
<1>4. Jobs'  BY <1>1 DEF Control, Jobs, Editing, Flush_Failed, memVars
<1>5. Phases'  BY OpenPhases, OpenCurrent DEF Flush_Failed
<1>6. QED  BY <1>2, <1>3, <1>4, <1>5 DEF Control, TypeOK

LEMMA FlushBuildFailControl == ASSUME Control, Flush_BuildFail PROVE Control'
<1>1. flush.pc \in {"build", "created"} /\ db = "open" /\ garbage = {}
    BY DEF Flush_BuildFail, MutexFree
<1>2. flush'.base = NULL  BY DEF Flush_BuildFail, Flush_Failed, NoFlush
<1>3. RefsExact' /\ VersionTypes'
    BY <1>1, <1>2, FlushReleases DEF Flush_BuildFail, Flush_Failed
<1>4. DirTypes'
    BY DEF Control, TypeOK, DirTypes, JobTypes, Flush_BuildFail, Flush_Failed
<1>5. QED  BY <1>1, <1>3, <1>4, FlushFailedControl DEF Flush_BuildFail

LEMMA FlushRecordFailControl == ASSUME Control, Flush_RecordFail PROVE Control'
<1>1. flush.pc = "log" /\ db = "open" /\ garbage = {}  BY DEF Flush_RecordFail, MutexFree
<1>2. flush.base = NULL /\ flush'.base = NULL
    BY <1>1 DEF Control, Jobs, Flush_RecordFail, Flush_Failed, NoFlush
<1>3. RefsExact' /\ VersionTypes'
    BY <1>2, SameHolders DEF Flush_RecordFail, Flush_Failed, verVars
<1>4. DirTypes'
    <2>1. manifest' \in [Number -> Snapshot]  BY AppendManifest DEF Flush_RecordFail
    <2>2. QED  BY <2>1 DEF Control, TypeOK, DirTypes, Flush_RecordFail, Flush_Failed
<1>5. QED  BY <1>1, <1>3, <1>4, FlushFailedControl DEF Flush_RecordFail
-----------------------------------------------------------------------------
(* BackgroundCompaction, DoCompactionWork *)

LEMMA OneMore == \A a, b, c \in Nat : a + b + b + c = a + b + c + b
OBVIOUS

\* The counts when a compaction starts from the current version
LEMMA CompactHolds ==
    ASSUME Control, db = "open", compact.pc = "idle", refs' = Ref(refs, current_),
           compact'.version = current_, UNCHANGED <<vfiles, current_, flush, reader>>
    PROVE  RefsExact' /\ VersionTypes'
<1>1. current_ \in Versions  BY OpenCurrent
<1>2. compact.version = NULL  BY DEF Control, Jobs
<1>3. refs' = [v \in Versions |-> IF v = current_ THEN refs[v] + 1 ELSE refs[v]]
    <2>1. refs = [v \in Versions |-> refs[v]]  BY DEF Control, TypeOK, VersionTypes
    <2>2. QED  BY <1>1, <2>1, RefAt
<1>4. ASSUME NEW v \in Versions PROVE refs'[v] = Holders(v)'
    <2>1. refs[v] = Holders(v)  BY DEF Control, RefsExact
    <2>2. ReadersOf(v)' = ReadersOf(v)  BY DEF ReadersOf
    <2>3. Cardinality(ReadersOf(v)) \in Nat  BY ReadersFinite
    <2>4. compact.version # v  BY <1>2, NullApart, Zenon
    <2>5. refs[v] = Cardinality(ReadersOf(v)) + One(current_ = v) + One(flush.base = v)
        BY <2>1, <2>3, <2>4 DEF Holders, One
    <2>6. Holders(v)' = Cardinality(ReadersOf(v)) + One(current_ = v) + One(current_ = v)
                        + One(flush.base = v)
        BY <2>2 DEF Holders
    <2>7. refs'[v] = refs[v] + One(current_ = v)
        BY <1>3, <2>3, <2>5 DEF One
    <2>8. One(current_ = v) \in Nat /\ One(flush.base = v) \in Nat  BY DEF One
    <2>9. refs'[v] = Cardinality(ReadersOf(v)) + One(current_ = v) + One(flush.base = v)
                     + One(current_ = v)
        BY <2>5, <2>7, Zenon
    <2>10. Cardinality(ReadersOf(v)) + One(current_ = v) + One(flush.base = v) + One(current_ = v)
            = Cardinality(ReadersOf(v)) + One(current_ = v) + One(current_ = v) + One(flush.base = v)
        BY <2>3, <2>8, OneMore, Zenon
    <2>11. QED  BY <2>6, <2>9, <2>10, Zenon
<1>5. RefsExact'  BY <1>4 DEF RefsExact
<1>6. refs' \in [Versions -> Nat]  BY <1>3, <1>5, CountsNatural
<1>7. QED  BY <1>5, <1>6 DEF Control, TypeOK, VersionTypes

LEMMA CompactBeginControl == ASSUME Control, Compact_Begin PROVE Control'
<1>1. PICK inputs \in SUBSET vfiles[current_], level \in 0 .. NumLevels - 2 :
        compact' = [NoCompact EXCEPT !.pc = "merge", !.level = level, !.inputs = inputs,
                                     !.version = current_, !.left = Entries(inputs)]
    BY Zenon DEF Compact_Begin
<1>2. db = "open" /\ garbage = {} /\ flush.pc = "idle" /\ compact.pc = "idle"
    BY DEF Compact_Begin, MutexFree
<1>3. current_ \in Versions /\ vfiles[current_] \in SUBSET FileMetaData  BY <1>2, OpenCurrent
<1>4. compact' = [pc |-> "merge", level |-> level, inputs |-> inputs, version |-> current_,
                  move |-> FALSE, left |-> Entries(inputs), number |-> 0, outputs |-> {}]
    BY <1>1 DEF NoCompact
<1>5. compact' \in CompactionState
    <2>1. Entries(inputs) \in SUBSET Entry  BY <1>3 DEF Entries, FileMetaData
    <2>2. 0 \in Number /\ level \in 0 .. NumLevels - 1  BY FilesAssumption DEF Number
    <2>3. QED  BY <1>3, <1>4, <2>1, <2>2 DEF CompactionState
<1>6. compact'.pc = "merge" /\ compact'.version = current_ /\ compact'.level = level  BY <1>4
<1>7. RefsExact' /\ VersionTypes'  BY <1>2, <1>6, CompactHolds DEF Compact_Begin
<1>8. DirTypes' /\ MemoryTypes'
    BY DEF Control, TypeOK, DirTypes, MemoryTypes, Compact_Begin, dirVars, numVars, memVars, histVars
<1>9. JobTypes'  BY <1>5 DEF Control, TypeOK, JobTypes, Compact_Begin
<1>10. Jobs'
    <2>1. level < NumLevels - 1  BY FilesAssumption
    <2>2. QED  BY <1>2, <1>3, <1>6, <2>1, NullApart DEF Control, Jobs, Editing, Compact_Begin, memVars
<1>11. Phases'  BY <1>2, <1>3, OpenPhases DEF Compact_Begin, dirVars
<1>12. QED  BY <1>7, <1>8, <1>9, <1>10, <1>11 DEF Control, TypeOK

LEMMA CompactMoveControl == ASSUME Control, Compact_Move PROVE Control'
<1>1. PICK f \in vfiles[current_] :
        /\ f.level < NumLevels - 1
        /\ edit' = NewEdit({f}, {[f EXCEPT !.level = @ + 1]}, log_number_)
        /\ compact' = [NoCompact EXCEPT !.pc = "log", !.level = f.level, !.inputs = {f},
                                        !.version = current_, !.move = TRUE]
    BY Zenon DEF Compact_Move
<1>2. db = "open" /\ garbage = {} /\ flush.pc = "idle" /\ compact.pc = "idle"
    BY DEF Compact_Move, MutexFree
<1>3. current_ \in Versions /\ f \in FileMetaData  BY <1>2, OpenCurrent
<1>4. compact' = [pc |-> "log", level |-> f.level, inputs |-> {f}, version |-> current_,
                  move |-> TRUE, left |-> {}, number |-> 0, outputs |-> {}]
    BY <1>1 DEF NoCompact
<1>5. compact' \in CompactionState
    <2>1. 0 \in Number /\ f.level \in 0 .. NumLevels - 1
        BY <1>3, FilesAssumption DEF Number, FileMetaData
    <2>2. QED  BY <1>3, <1>4, <2>1, Zenon DEF CompactionState
<1>6. edit' \in VersionEdit
    <2>1. [f EXCEPT !.level = @ + 1] \in FileMetaData
        BY <1>1, <1>3, FilesAssumption DEF FileMetaData
    <2>2. QED  BY <1>1, <1>3, <2>1, NewEditType DEF Control, TypeOK, MemoryTypes
<1>7. compact'.pc = "log" /\ compact'.version = current_  BY <1>4
<1>8. RefsExact' /\ VersionTypes'  BY <1>2, <1>7, CompactHolds DEF Compact_Move
<1>9. DirTypes' /\ MemoryTypes'
    BY DEF Control, TypeOK, DirTypes, MemoryTypes, Compact_Move, dirVars, numVars, memVars, histVars
<1>10. JobTypes'  BY <1>5, <1>6 DEF Control, TypeOK, JobTypes, Compact_Move
<1>11. Jobs'
    BY <1>2, <1>3, <1>7, NullApart DEF Control, Jobs, Editing, Compact_Move, memVars
<1>12. Phases'  BY <1>2, <1>3, OpenPhases DEF Compact_Move, dirVars
<1>13. QED  BY <1>8, <1>9, <1>10, <1>11, <1>12 DEF Control, TypeOK

LEMMA CompactOpenControl == ASSUME Control, Compact_Open PROVE Control'
<1>1. compact' = [compact EXCEPT !.pc = "output", !.number = next_file_number_]
      /\ compact.pc = "merge" /\ flush.pc = "idle" /\ db = "open"
    BY DEF Compact_Open, MutexFree
<1>2. compact' \in CompactionState /\ compact'.pc = "output" /\ compact'.version = compact.version
      /\ compact'.level = compact.level
    BY <1>1 DEF Control, TypeOK, JobTypes, MemoryTypes, CompactionState
<1>3. next_file_number_ + 1 \in Number  BY NumberTaken DEF Control, TypeOK, Compact_Open
<1>4. RefsExact' /\ VersionTypes'  BY <1>2, SameHolders DEF Compact_Open
<1>5. DirTypes'  BY DEF Control, TypeOK, DirTypes, MemoryTypes, Compact_Open
<1>6. MemoryTypes'  BY <1>3 DEF Control, TypeOK, MemoryTypes, Compact_Open, memVars, histVars
<1>7. JobTypes'  BY <1>2 DEF Control, TypeOK, JobTypes, MemoryTypes, Compact_Open
<1>8. Jobs'  BY <1>1, <1>2 DEF Control, Jobs, Editing, Compact_Open, memVars
<1>9. Phases'  BY <1>1, OpenPhases, OpenCurrent DEF Compact_Open, verVars
<1>10. QED  BY <1>4, <1>5, <1>6, <1>7, <1>8, <1>9 DEF Control, TypeOK

LEMMA CompactFinishControl == ASSUME Control, Compact_Finish PROVE Control'
<1>1. PICK part \in SUBSET compact.left \ {{}} :
        /\ table' = [table EXCEPT ![compact.number] = part]
        /\ compact' = [compact EXCEPT !.pc = "merge", !.left = @ \ part,
                                      !.outputs = @ \cup {Output(part)}]
    BY Zenon DEF Compact_Finish
<1>2. compact.pc = "output" /\ flush.pc = "idle" /\ db = "open"  BY DEF Compact_Finish
<1>3. compact.level < NumLevels - 1  BY <1>2 DEF Control, Jobs
<1>4. compact \in CompactionState  BY DEF Control, TypeOK, JobTypes
<1>5. part \in SUBSET Entry  BY <1>4 DEF CompactionState
<1>6. Output(part) \in FileMetaData
    <2>1. compact.level + 1 \in 0 .. NumLevels - 1
        BY <1>3, <1>4, FilesAssumption DEF CompactionState
    <2>2. QED  BY <1>4, <1>5, <2>1 DEF Output, FileMetaData, CompactionState
<1>7. compact' \in CompactionState /\ compact'.pc = "merge" /\ compact'.version = compact.version
      /\ compact'.level = compact.level
    BY <1>1, <1>4, <1>6 DEF CompactionState
<1>8. RefsExact' /\ VersionTypes'  BY <1>7, SameHolders DEF Compact_Finish
<1>9. DirTypes'
    BY <1>1, <1>4, <1>5 DEF Control, TypeOK, DirTypes, CompactionState, Compact_Finish
<1>10. MemoryTypes'
    BY DEF Control, TypeOK, MemoryTypes, Compact_Finish, numVars, memVars, histVars
<1>11. JobTypes'  BY <1>7 DEF Control, TypeOK, JobTypes, Compact_Finish
<1>12. Jobs'  BY <1>2, <1>3, <1>7 DEF Control, Jobs, Editing, Compact_Finish, memVars
<1>13. Phases'  BY <1>2, OpenPhases, OpenCurrent DEF Compact_Finish, verVars
<1>14. QED  BY <1>8, <1>9, <1>10, <1>11, <1>12, <1>13 DEF Control, TypeOK

LEMMA CompactDoneControl == ASSUME Control, Compact_Done PROVE Control'
<1>1. compact' = [compact EXCEPT !.pc = "log"] /\ compact.pc = "merge" /\ flush.pc = "idle"
      /\ db = "open" /\ garbage = {}
    BY DEF Compact_Done, MutexFree
<1>2. compact' \in CompactionState /\ compact'.pc = "log" /\ compact'.version = compact.version
    BY <1>1 DEF Control, TypeOK, JobTypes, CompactionState
<1>3. edit' \in VersionEdit
    BY NewEditType
    DEF Control, TypeOK, JobTypes, MemoryTypes, CompactionState, Compact_Done, InputDeletions
<1>4. RefsExact' /\ VersionTypes'  BY <1>2, SameHolders DEF Compact_Done
<1>5. DirTypes' /\ MemoryTypes'
    BY DEF Control, TypeOK, DirTypes, MemoryTypes, Compact_Done, dirVars, numVars, memVars, histVars
<1>6. JobTypes'  BY <1>2, <1>3 DEF Control, TypeOK, JobTypes, Compact_Done
<1>7. Jobs'  BY <1>1, <1>2 DEF Control, Jobs, Editing, Compact_Done, memVars
<1>8. Phases'  BY <1>1, OpenPhases, OpenCurrent DEF Compact_Done, verVars, dirVars
<1>9. QED  BY <1>4, <1>5, <1>6, <1>7, <1>8 DEF Control, TypeOK

LEMMA CompactRecordControl == ASSUME Control, Compact_Record PROVE Control'
<1>1. compact' = [compact EXCEPT !.pc = "logged"] /\ compact.pc = "log" /\ db = "open"
    BY DEF Compact_Record
<1>2. compact' \in CompactionState /\ compact'.pc = "logged" /\ compact'.version = compact.version
    BY <1>1 DEF Control, TypeOK, JobTypes, CompactionState
<1>3. RefsExact' /\ VersionTypes'  BY <1>2, SameHolders DEF Compact_Record
<1>4. DirTypes'
    <2>1. manifest' \in [Number -> Snapshot]  BY AppendManifest DEF Compact_Record
    <2>2. QED  BY <2>1 DEF Control, TypeOK, DirTypes, Compact_Record
<1>5. MemoryTypes'  BY DEF Control, TypeOK, MemoryTypes, Compact_Record, numVars, memVars, histVars
<1>6. JobTypes'  BY <1>2 DEF Control, TypeOK, JobTypes, Compact_Record
<1>7. Jobs'  BY <1>1, <1>2 DEF Control, Jobs, Editing, Compact_Record, memVars
<1>8. Phases'  BY <1>1, OpenPhases, OpenCurrent DEF Compact_Record, verVars
<1>9. QED  BY <1>3, <1>4, <1>5, <1>6, <1>7, <1>8 DEF Control, TypeOK

LEMMA CompactInstallControl == ASSUME Control, Compact_Install PROVE Control'
<1> DEFINE released == Unref(ReleaseInputs(refs), current_)
<1>1. PICK v \in Versions : AppendVersion(released, v, NewVersion)  BY DEF Compact_Install
<1>2. current_ \in Versions /\ vfiles[current_] \in SUBSET FileMetaData /\ db = "open"
    BY OpenCurrent DEF Compact_Install, MutexFree
<1>3. compact.pc = "logged" /\ flush.pc = "idle" /\ compact.version \in Versions
    BY DEF Control, TypeOK, JobTypes, CompactionState, Jobs, Compact_Install
<1>4. ReleaseInputs(refs) = [u \in Versions |-> IF u = compact.version THEN refs[u] - 1 ELSE refs[u]]
    <2>1. refs = [u \in Versions |-> refs[u]]  BY DEF Control, TypeOK, VersionTypes
    <2>2. QED  BY <1>3, <2>1, RefAt DEF ReleaseInputs
<1>5. released = [u \in Versions |-> IF u = current_ THEN ReleaseInputs(refs)[u] - 1
                                                     ELSE ReleaseInputs(refs)[u]]
    <2>1. ReleaseInputs(refs) = [u \in Versions |-> ReleaseInputs(refs)[u]]  BY <1>4
    <2>2. QED  BY <1>2, <2>1, RefAt
<1>6. released = [u \in Versions |-> released[u]]  BY <1>5
<1>7. compact' = NoCompact /\ compact'.version = NULL /\ compact'.pc = "idle" /\ edit' = NoEdit
      /\ UNCHANGED <<reader, flush>>
    BY DEF Compact_Install, NoCompact
<1>8. RefsExact'
    <2>1. ASSUME NEW u \in Versions
          PROVE  released[u]
                  = Cardinality(ReadersOf(u)) + One(compact'.version = u) + One(flush'.base = u)
        <3>1. refs[u] = Cardinality(ReadersOf(u)) + One(current_ = u) + One(compact.version = u)
                        + One(flush.base = u)
            BY DEF Control, RefsExact, Holders
        <3>2. Cardinality(ReadersOf(u)) \in Nat  BY ReadersFinite
        <3>3. released[u] = refs[u] - One(current_ = u) - One(compact.version = u)
            BY <1>4, <1>5, <3>1, <3>2 DEF One
        <3> HIDE DEF released
        <3>4. QED  BY <1>7, <3>1, <3>2, <3>3, NullApart DEF One
    <2> HIDE DEF released
    <2>2. QED  BY <1>1, <1>6, <1>7, <2>1, AppendExact
<1>9. VersionTypes'
    <2>1. NewVersion \in SUBSET FileMetaData
        BY <1>2 DEF Control, TypeOK, JobTypes, VersionEdit, NewVersion, Apply
    <2> HIDE DEF released
    <2>2. QED  BY <1>1, <1>6, <1>7, <1>8, <2>1, AppendTypes DEF Control, TypeOK
<1>10. DirTypes' /\ MemoryTypes'
    BY DEF Control, TypeOK, DirTypes, MemoryTypes, Compact_Install, dirVars, numVars, memVars, histVars
<1>11. JobTypes'
    <2>1. garbage' \subseteq {"table", "temp", "log", "manifest"} \X Number
        BY ObsoleteTypes DEF Control, TypeOK, Compact_Install, DirTypes
    <2>2. QED  BY <1>7, <2>1, NoJobTypes DEF Control, TypeOK, JobTypes, Compact_Install
<1>12. Phases'
    <2>1. current_' \in Versions  BY <1>1 DEF AppendVersion
    <2>2. QED  BY <1>2, <2>1, OpenPhases DEF Compact_Install, dirVars
<1>13. Jobs'  BY <1>3, <1>7 DEF Control, Jobs, Editing
<1>14. QED  BY <1>8, <1>9, <1>10, <1>11, <1>12, <1>13 DEF Control, TypeOK

\* A compaction that fails, once the manifest is seen to
LEMMA CompactFailedControl ==
    ASSUME Control, db = "open", compact.pc # "idle", flush.pc = "idle", Compact_Failed,
           manifest' \in [Number -> Snapshot]
    PROVE  Control'
<1>1. compact' = NoCompact /\ compact'.version = NULL /\ compact'.pc = "idle" /\ edit' = NoEdit
      /\ UNCHANGED <<reader, flush, current_>>
    BY DEF Compact_Failed, NoCompact
<1>2. compact.version \in Versions
    BY DEF Control, TypeOK, JobTypes, CompactionState, Jobs
<1>3. refs' = [u \in Versions |-> IF u = compact.version THEN refs[u] - 1 ELSE refs[u]]
    <2>1. refs = [u \in Versions |-> refs[u]]  BY DEF Control, TypeOK, VersionTypes
    <2>2. QED  BY <1>2, <2>1, RefAt DEF Compact_Failed, ReleaseInputs
<1>4. ASSUME NEW v \in Versions PROVE refs'[v] = Holders(v)'
    <2>1. refs[v] = Holders(v)  BY DEF Control, RefsExact
    <2>2. ReadersOf(v)' = ReadersOf(v)  BY <1>1 DEF ReadersOf
    <2>3. Cardinality(ReadersOf(v)) \in Nat  BY ReadersFinite
    <2>4. refs[v] \in Nat  BY DEF Control, TypeOK, VersionTypes
    <2>5. refs'[v] = refs[v] - One(compact.version = v)  BY <1>3, <2>4 DEF One
    <2>6. compact'.version # v  BY <1>1, NullApart
    <2>7. Holders(v)' = Cardinality(ReadersOf(v)) + One(current_ = v) + One(flush.base = v)
        BY <1>1, <2>2, <2>3, <2>6 DEF Holders, One
    <2>8. QED  BY <2>1, <2>3, <2>5, <2>7, SMTT(30) DEF Holders, One
<1>5. RefsExact'  BY <1>4 DEF RefsExact
<1>6. VersionTypes'
    <2>1. reader' \in [Readers -> Versions \cup {NULL}]
        BY <1>1 DEF Control, TypeOK, VersionTypes
    <2>2. QED
        BY <1>1, <1>2, <1>5, <2>1, ReleaseTypes DEF Control, TypeOK, Compact_Failed, ReleaseInputs
<1>7. DirTypes'  BY DEF Control, TypeOK, DirTypes, Compact_Failed
<1>8. MemoryTypes'
    BY DEF Control, TypeOK, MemoryTypes, Compact_Failed, numVars, memVars, histVars
<1>9. garbage' = {}  BY DEF Compact_Failed, Obsolete
<1>10. JobTypes'
    BY <1>1, <1>9, NoJobTypes DEF Control, TypeOK, JobTypes, Compact_Failed
<1>11. Jobs'  BY <1>1, <1>9 DEF Control, Jobs, Editing
<1>12. Phases'  BY OpenPhases, OpenCurrent DEF Compact_Failed
<1>13. QED  BY <1>5, <1>6, <1>7, <1>8, <1>10, <1>11, <1>12 DEF Control, TypeOK

LEMMA CompactMergeFailControl == ASSUME Control, Compact_MergeFail PROVE Control'
<1>1. manifest' \in [Number -> Snapshot]  BY DEF Control, TypeOK, DirTypes, Compact_MergeFail
<1>2. QED  BY <1>1, CompactFailedControl DEF Compact_MergeFail, MutexFree

LEMMA CompactRecordFailControl == ASSUME Control, Compact_RecordFail PROVE Control'
<1>1. manifest' \in [Number -> Snapshot]  BY AppendManifest DEF Compact_RecordFail
<1>2. flush.pc = "idle"  BY DEF Control, Jobs, Compact_RecordFail
<1>3. QED  BY <1>1, <1>2, CompactFailedControl DEF Compact_RecordFail, MutexFree
-----------------------------------------------------------------------------
LEMMA StutterControl == ASSUME Control, UNCHANGED vars PROVE Control'
<1>1. RefsExact' /\ VersionTypes'  BY SameHolders DEF vars, jobVars
<1>2. DirTypes' /\ MemoryTypes'
    BY DEF Control, TypeOK, DirTypes, MemoryTypes, vars, dirVars, numVars, memVars, histVars
<1>3. JobTypes' /\ Jobs'
    BY DEF Control, TypeOK, JobTypes, Jobs, Editing, vars, jobVars, memVars
<1>4. Phases'
    BY DEF Control, Phases, Idle, Creating, Opening, vars, dirVars, numVars, verVars, memVars, jobVars
<1>5. QED  BY <1>1, <1>2, <1>3, <1>4 DEF Control, TypeOK

LEMMA NextControl == Control /\ [Next]_vars => Control'
<1> SUFFICES ASSUME Control, [Next]_vars PROVE Control'  OBVIOUS
<1>1. CASE Open
    BY <1>1, NewDBControl, TempControl, NewDBCurrentControl, RecoverControl, OpenCreateControl,
       OpenRecordControl, OpenCurrentControl
    DEF Open
<1>2. CASE Background
    BY <1>2, FlushBeginControl, FlushCreateControl, FlushBuiltControl, FlushRecordControl,
       FlushInstallControl, FlushBuildFailControl, FlushRecordFailControl, CompactBeginControl,
       CompactMoveControl, CompactOpenControl, CompactFinishControl, CompactDoneControl,
       CompactRecordControl, CompactInstallControl, CompactMergeFailControl,
       CompactRecordFailControl
    DEF Background
<1>3. CASE \E r \in Readers : Read_Begin(r) \/ Read_End(r)
    BY <1>3, ReadBeginControl, ReadEndControl
<1>4. QED
    BY <1>1, <1>2, <1>3, OpenFailsControl, CrashControl, DeleteControl, WriteControl,
       SwitchControl, StutterControl
    DEF Next

\* The members of VersionSet, its directory and its jobs always have their types, and each
\* version has as many references as readers, compactions and the database hold.
THEOREM ControlAlways == Spec => []Control
<1>1. QED  BY InitControl, NextControl, PTL DEF Spec
-----------------------------------------------------------------------------
(* Tables *)

\* The number of a file that is not a table
Used(n) == n \in logs \/ n \in temps \/ manifest[n] # NoManifest

\* The number of a table that is being written
Writing(n) ==
    \/ flush.pc \in {"build", "created"} /\ n = flush.number
    \/ compact.pc = "output" /\ n = compact.number

InVersion(f) == \E v \in Versions : refs[v] > 0 /\ f \in vfiles[v]

Listed(f) == InVersion(f) \/ f \in edit.add \/ f \in compact.outputs

\* The table is in the directory, and its number is no other file's.
Whole(f) ==
    /\ f.number < next_file_number_ /\ f.number # manifest_file_number_
    /\ table[f.number] = f.data
    /\ ~Used(f.number) /\ ~Writing(f.number)
    /\ \A e \in f.data : e <= last_sequence_

ListedWhole == \A f \in FileMetaData : Listed(f) => Whole(f)

Running == db \in Opening \cup {"open"}

\* All numbers there are lie below the counter.
Numbered ==
    Running =>
        /\ manifest_file_number_ < next_file_number_
        /\ logfile_number_ < next_file_number_ /\ log_number_ < next_file_number_
        /\ \A n \in Number : Used(n) => n < next_file_number_
        /\ \A n \in Number : Writing(n) => /\ n < next_file_number_ /\ ~Used(n)
                                           /\ manifest_file_number_ < n

\* Entries that are still to be written have sequence numbers that were given out.
EntriesBelow ==
    /\ \A e \in mem_ : e <= last_sequence_
    /\ imm_ # NULL => \A e \in imm_ : e <= last_sequence_
    /\ \A e \in compact.left : e <= last_sequence_

\* pending_outputs_ has the tables of both compactions until an edit has them.
Pending ==
    /\ flush.pc \in {"build", "created"} => flush.number \in pending_outputs_
    /\ compact.pc = "output" => compact.number \in pending_outputs_
    /\ compact.pc \in {"merge", "output"} =>
        \A f \in compact.outputs : f.number \in pending_outputs_
    /\ flush.pc # "idle" => /\ compact.pc = "output" => flush.number # compact.number
                            /\ \A f \in compact.outputs : f.number # flush.number

\* DeleteObsoleteFiles spares what is listed or written, and its own manifest.
GarbageFree ==
    /\ \A n \in Number : <<"table", n>> \in garbage =>
        ~Writing(n) /\ \A f \in FileMetaData : Listed(f) => f.number # n
    /\ \A n \in Number : <<"manifest", n>> \in garbage => n < manifest_file_number_

FilesInv == ListedWhole /\ Numbered /\ EntriesBelow /\ Pending /\ GarbageFree
-----------------------------------------------------------------------------
(* What the directory has *)

\* What Recover would replay
Saved == manifest[current]

Readable == current # NULL /\ Saved.state \in {"good", "torn"}

\* A compaction loses no entry: what it took from its inputs is left, or in an output.
Covered ==
    /\ compact.pc \in {"merge", "output"} =>
        Entries(compact.inputs) \subseteq compact.left \cup Entries(compact.outputs)
    /\ Entries(edit.del) \subseteq Entries(edit.add)
    /\ flush.pc \in {"log", "logged"} => imm_ \subseteq Entries(edit.add)

\* The counters of an edit are above all that the new version lists.
EditAbove ==
    Editing =>
        /\ manifest_file_number_ < edit.next /\ edit.log < edit.next
        /\ edit.next <= next_file_number_
        /\ \A f \in vfiles[current_] \cup edit.add :
            f.number < edit.next /\ \A e \in f.data : e <= edit.last

\* The tables of a manifest Recover can replay are whole, or gone; their numbers are no
\* other file's; and its counters are above them.
SavedWhole ==
    Readable =>
        /\ current < Saved.next /\ Saved.log <= Saved.next
        /\ \A f \in Saved.files :
            /\ f.number < Saved.next /\ table[f.number] \in {NULL, f.data} /\ ~Used(f.number)
            /\ \A e \in f.data : e <= Saved.last
        /\ \A n \in Number : n \in temps \/ manifest[n] # NoManifest => n <= Saved.next

\* Before there is a CURRENT there is nothing but manifest 1.
Fresh ==
    /\ current = NULL => /\ \A n \in Number : table[n] = NULL /\ (Used(n) => n <= 1)
                         /\ logs = {} /\ flushed = {}
    /\ db \in Creating =>
        manifest[1] = [files |-> {}, log |-> 0, next |-> 2, last |-> 0, state |-> "good"]

\* Open has in memory what it has read, and writes it to the next manifest.
Reopened ==
    /\ db \in Opening =>
        /\ Readable /\ Saved.files = vfiles[current_] /\ Saved.last = last_sequence_
        /\ current # manifest_file_number_
    /\ db \in {"open_temp", "open_current"} =>
        manifest[manifest_file_number_] =
            [files |-> vfiles[current_], log |-> logfile_number_, next |-> next_file_number_,
             last |-> last_sequence_, state |-> "good"]
    /\ Running => \A n \in Number :
        n \in temps \/ manifest[n] # NoManifest => n <= manifest_file_number_
    /\ Running /\ Readable /\ current # manifest_file_number_ =>
        Saved.next = manifest_file_number_

\* Between the record of an edit and the new version, the manifest is ahead.
Logged == flush.pc = "logged" \/ compact.pc = "logged"

InStep ==
    db = "open" /\ Readable /\ current = manifest_file_number_ =>
        Saved.files = IF Logged THEN NewVersion ELSE vfiles[current_]

\* If no rename was missed, CURRENT names the manifest that is written, and what was in
\* memtables that are gone is in its tables.
Kept ==
    ~missed /\ current # NULL =>
        /\ Saved.state # "none"
        /\ db = "open" => current = manifest_file_number_
        /\ Readable => OnDisk(Saved.files) /\ flushed \subseteq Entries(Saved.files)

DiskInv == Covered /\ EditAbove /\ SavedWhole /\ Fresh /\ Reopened /\ InStep /\ Kept

IInv == Control /\ FilesInv /\ DiskInv
-----------------------------------------------------------------------------
LEMMA NumberNat == Number \subseteq Nat /\ Entry \subseteq Nat /\ 0 .. MaxSequence \subseteq Nat
BY FilesAssumption DEF Number, Entry

\* A listed table has its type.
LEMMA ListedTyped == ASSUME Control, NEW f, Listed(f) PROVE f \in FileMetaData
BY DEF Control, TypeOK, VersionTypes, JobTypes, VersionEdit, CompactionState, Listed, InVersion

\* What is listed stays whole if nothing touches it.
LEMMA ListedFrame ==
    ASSUME ListedWhole,
           next_file_number_ <= next_file_number_', last_sequence_ <= last_sequence_',
           next_file_number_ \in Nat, next_file_number_' \in Nat,
           last_sequence_ \in Nat, last_sequence_' \in Nat,
           \A f \in FileMetaData : Listed(f)' => Listed(f) \/ Whole(f)',
           \A f \in FileMetaData : Listed(f) /\ Whole(f) =>
               /\ table'[f.number] = table[f.number] /\ f.number # manifest_file_number_'
               /\ ~Used(f.number)' /\ ~Writing(f.number)'
    PROVE  ListedWhole'
<1> SUFFICES ASSUME NEW f \in FileMetaData, Listed(f)', Listed(f) PROVE Whole(f)'
    BY DEF ListedWhole
<1>1. Whole(f)  BY DEF ListedWhole
<1>2. f.number \in Nat /\ \A e \in f.data : e \in Nat  BY NumberNat DEF FileMetaData
<1>3. /\ table'[f.number] = table[f.number] /\ f.number # manifest_file_number_'
      /\ ~Used(f.number)' /\ ~Writing(f.number)'
    BY <1>1
<1>4. /\ f.number < next_file_number_ /\ table[f.number] = f.data
      /\ \A e \in f.data : e <= last_sequence_
    BY <1>1, Zenon DEF Whole
<1>5. f.number < next_file_number_'  BY <1>2, <1>4
<1>6. \A e \in f.data : e <= last_sequence_'  BY <1>2, <1>4
<1>7. QED  BY <1>3, <1>4, <1>5, <1>6, Zenon DEF Whole

LEMMA ListedSame ==
    ASSUME IInv, UNCHANGED <<next_file_number_, last_sequence_>>,
           \A f \in FileMetaData : Listed(f)' => Listed(f),
           \A f \in FileMetaData : Listed(f) /\ Whole(f) =>
               /\ table'[f.number] = table[f.number] /\ f.number # manifest_file_number_'
               /\ ~Used(f.number)' /\ ~Writing(f.number)'
    PROVE  ListedWhole'
<1>1. MemoryTypes /\ ListedWhole  BY Zenon DEF IInv, Control, TypeOK, FilesInv
<1>2. next_file_number_ \in Nat /\ last_sequence_ \in Nat  BY <1>1, NumberNat DEF MemoryTypes
<1>3. next_file_number_ <= next_file_number_' /\ last_sequence_ <= last_sequence_'  BY <1>2
<1>4. next_file_number_' \in Nat /\ last_sequence_' \in Nat  BY <1>2
<1>5. QED  BY <1>1, <1>2, <1>3, <1>4, ListedFrame, Zenon

\* Tables of the versions, when one is held once more, released, or appended
LEMMA HeldOnce ==
    ASSUME Control, NEW u \in Versions, refs[u] > 0, refs' = Ref(refs, u), UNCHANGED vfiles
    PROVE  \A f : InVersion(f)' => InVersion(f)
<1>1. refs' = [v \in Versions |-> IF v = u THEN refs[v] + 1 ELSE refs[v]]
    BY RefAt DEF Control, TypeOK, VersionTypes
<1>2. \A v \in Versions : refs'[v] > 0 => refs[v] > 0  BY <1>1
<1>3. QED  BY <1>2 DEF InVersion

LEMMA Released ==
    ASSUME Control, NEW u \in Versions, refs' = Unref(refs, u), vfiles' = Surviving(vfiles, refs')
    PROVE  \A f : InVersion(f)' => InVersion(f)
<1>1. refs' = [v \in Versions |-> IF v = u THEN refs[v] - 1 ELSE refs[v]]
    BY RefAt DEF Control, TypeOK, VersionTypes
<1>2. refs \in [Versions -> Nat]  BY DEF Control, TypeOK, VersionTypes
<1>3. \A v \in Versions : refs'[v] > 0 => refs[v] > 0 /\ vfiles'[v] = vfiles[v]
    BY <1>1, <1>2 DEF Surviving
<1>4. QED  BY <1>3 DEF InVersion

LEMMA Appended ==
    ASSUME NEW rs, rs = [u \in Versions |-> rs[u]], NEW v \in Versions, NEW files,
           AppendVersion(rs, v, files), \A u \in Versions : rs[u] > 0 => refs[u] > 0
    PROVE  /\ \A f : InVersion(f)' => InVersion(f) \/ f \in files
           /\ vfiles'[current_'] = files /\ current_' = v /\ refs'[v] = 1
<1>1. /\ refs' = [u \in Versions |-> IF u = v THEN 1 ELSE rs[u]]
      /\ vfiles' = [u \in Versions |-> IF u = v THEN files
                                       ELSE IF rs[u] > 0 THEN vfiles[u] ELSE {}]
      /\ current_' = v
    BY AppendCounts
<1>2. \A u \in Versions : refs'[u] > 0 => (refs[u] > 0 /\ vfiles'[u] = vfiles[u]) \/ vfiles'[u] = files
    BY <1>1
<1>3. QED  BY <1>1, <1>2 DEF InVersion

\* What DeleteObsoleteFiles is about to delete
LEMMA ObsoleteSafe ==
    ASSUME NEW error, NEW log, NEW vf, NEW rs, NEW pending, NEW tmp, NEW n
    PROVE  /\ <<"table", n>> \in Obsolete(error, log, vf, rs, pending, tmp) =>
                n \notin LiveFiles(vf, rs) /\ n \notin pending
           /\ <<"manifest", n>> \in Obsolete(error, log, vf, rs, pending, tmp) =>
                n < manifest_file_number_
BY DEF Obsolete

LEMMA LiveAfter == ASSUME NEW f, InVersion(f)' PROVE f.number \in LiveFiles(vfiles', refs')
BY DEF InVersion, LiveFiles
-----------------------------------------------------------------------------
(* DB::Open *)

\* Without a process nothing is listed.
LEMMA DownFiles ==
    ASSUME Control', db' \in {"down"} \cup Creating
    PROVE  FilesInv'
<1>1. Idle' /\ current_' = NULL /\ db' # "open" /\ ~Running'
    BY DEF Control, Phases, Creating, Opening, Running
<1>2. edit'.add = {} /\ compact'.outputs = {} /\ compact'.left = {} /\ compact'.pc = "idle"
      /\ flush'.pc = "idle" /\ garbage' = {} /\ mem_' = {} /\ imm_' = NULL
    BY <1>1 DEF Idle, NoFlush, NoCompact, NoEdit
<1>3. \A v \in Versions : refs'[v] = 0
    BY <1>1, IdleHolders, NullApart DEF Control, RefsExact, One
<1>4. ListedWhole'  BY <1>2, <1>3 DEF ListedWhole, Listed, InVersion
<1>5. QED
    BY <1>1, <1>2, <1>4 DEF FilesInv, Numbered, EntriesBelow, Pending, GarbageFree, Writing

\* While Open is at work, only files of the new manifest's number come and go.
LEMMA OpeningFiles ==
    ASSUME IInv, Control', db \in Opening, db' \in Opening,
           UNCHANGED <<table, numVars, verVars, memVars, jobVars, garbage>>,
           \A n \in Number : Used(n)' => Used(n) \/ n = manifest_file_number_
    PROVE  FilesInv'
<1>1. Idle /\ Idle'  BY DEF IInv, Control, Phases, Opening
<1>2. \A n : ~Writing(n) /\ ~Writing(n)'  BY <1>1 DEF Idle, Writing, NoFlush, NoCompact
<1>3. ListedWhole'
    <2>1. \A f : Listed(f)' <=> Listed(f)  BY DEF Listed, InVersion, verVars, jobVars
    <2>2. \A f \in FileMetaData : Whole(f) =>
            /\ table'[f.number] = table[f.number] /\ f.number # manifest_file_number_'
            /\ ~Used(f.number)' /\ ~Writing(f.number)'
        BY <1>2 DEF Whole, FileMetaData, numVars
    <2>3. next_file_number_' = next_file_number_ /\ last_sequence_' = last_sequence_
        BY DEF numVars, memVars
    <2>4. QED  BY <2>1, <2>2, <2>3, ListedSame, Zenon
<1>4. Numbered'
    <2>1. Running  BY DEF Running
    <2>2. QED  BY <1>2, <2>1 DEF IInv, FilesInv, Numbered, numVars
<1>5. EntriesBelow' /\ Pending' /\ GarbageFree'
    BY <1>1, <1>2
    DEF IInv, FilesInv, EntriesBelow, Pending, GarbageFree, Idle, NoFlush, NoCompact
<1>6. QED  BY <1>3, <1>4, <1>5 DEF FilesInv

LEMMA RecoverFiles == ASSUME IInv, Control', Recover PROVE FilesInv'
<1> DEFINE s == manifest[current]
<1>1. Readable /\ s = Saved  BY DEF Recover, Readable, Saved
<1>2. s \in Snapshot /\ s.next \in Nat /\ s.log \in Nat /\ s.last \in Nat /\ logs \subseteq Nat
      /\ \A f \in s.files : f \in FileMetaData /\ f.number \in Number
    <2>1. current \in Number /\ s \in Snapshot /\ logs \subseteq Number
        BY DEF IInv, Control, TypeOK, DirTypes, Recover
    <2> HIDE DEF s
    <2>2. s.next \in Number /\ s.log \in Number /\ s.last \in 0 .. MaxSequence /\ s.files \subseteq FileMetaData
        BY <2>1 DEF Snapshot
    <2>3. \A f \in FileMetaData : f.number \in Number  BY DEF FileMetaData
    <2>4. QED  BY <2>1, <2>2, <2>3, NumberNat
<1>3. /\ current < s.next /\ s.log <= s.next
      /\ \A f \in s.files :
            /\ f.number < s.next /\ table[f.number] \in {NULL, f.data} /\ ~Used(f.number)
            /\ \A e \in f.data : e <= s.last
      /\ \A n \in Number : n \in temps \/ manifest[n] # NoManifest => n <= s.next
    BY <1>1 DEF IInv, DiskInv, SavedWhole
<1>4. /\ logfile_number_' = NextAfterLogs(s) /\ next_file_number_' = NextAfterLogs(s) + 1
      /\ manifest_file_number_' = s.next /\ log_number_' = s.log /\ last_sequence_' = s.last
      /\ vfiles' = [vfiles EXCEPT ![1] = s.files]
      /\ logs' = logs \cup {NextAfterLogs(s)} /\ MissingFiles(s) = {}
      /\ UNCHANGED <<table, manifest, temps>>
    BY DEF Recover
<1>5. NextAfterLogs(s) \in Nat /\ s.next < NextAfterLogs(s)
      /\ \A n \in logs : n >= s.log => n < NextAfterLogs(s)
    BY <1>2, NextAfterAll DEF IInv, Control, TypeOK
<1> HIDE DEF s
<1>6. Idle' /\ db' = "open_manifest"  BY DEF Control, Phases, Recover
<1>7. \A n : ~Writing(n)'  BY <1>6 DEF Idle, Writing, NoFlush, NoCompact
<1>8. ASSUME NEW f, f \in s.files PROVE Whole(f)'
    <2>1. f.number \in Number /\ f.number \in Nat /\ f.number < s.next  BY <1>2, <1>3, <1>8, NumberNat
    <2>2. ~Used(f.number)'
        <3>1. f.number # NextAfterLogs(s)  BY <1>2, <1>5, <2>1
        <3>2. ~Used(f.number)  BY <1>3, <1>8
        <3>3. QED  BY <1>4, <3>1, <3>2 DEF Used
    <2>3. table[f.number] # NULL  BY <1>3, <1>4, <1>8 DEF MissingFiles, Used
    <2>4. table'[f.number] = f.data  BY <1>3, <1>4, <1>8, <2>3
    <2>5. f.number < next_file_number_' /\ f.number # manifest_file_number_'
        BY <1>2, <1>4, <1>5, <2>1
    <2>6. \A e \in f.data : e <= last_sequence_'  BY <1>3, <1>4, <1>8
    <2>7. QED  BY <1>7, <2>2, <2>4, <2>5, <2>6 DEF Whole
<1>9. ListedWhole'
    <2>1. edit'.add = {} /\ compact'.outputs = {}  BY <1>6 DEF Idle, NoEdit, NoCompact
    <2>2. current_' = 1 /\ 1 \in Versions
        <3>1. current_' = 1  BY DEF Recover
        <3>2. 1 \in Versions  BY FilesAssumption DEF Versions
        <3>3. QED  BY <3>1, <3>2
    <2>3. \A v \in Versions : refs'[v] > 0 => v = 1
        BY <1>6, <2>2, IdleHolders DEF Control, RefsExact, One
    <2>4. vfiles'[1] = s.files  BY <1>4, <2>2 DEF IInv, Control, TypeOK, VersionTypes
    <2>5. QED  BY <1>8, <2>1, <2>3, <2>4 DEF ListedWhole, Listed, InVersion
<1>10. Numbered'
    <2>1. ASSUME NEW n \in Number, Used(n)' PROVE n < next_file_number_'
        <3>1. n \in Nat  BY NumberNat
        <3>2. CASE n \in logs  BY <1>2, <1>3, <1>4, <1>5, <3>1, <3>2
        <3>3. CASE n = NextAfterLogs(s)  BY <1>4, <1>5, <3>3
        <3>4. CASE n \in temps \/ manifest[n] # NoManifest
            <4>1. n <= s.next  BY <1>3, <3>4, Zenon
            <4>2. QED  BY <1>2, <1>4, <1>5, <3>1, <4>1
        <3>5. n \in logs \/ n = NextAfterLogs(s) \/ n \in temps \/ manifest[n] # NoManifest
            BY <1>4, <2>1, Zenon DEF Used
        <3>6. QED  BY <3>2, <3>3, <3>4, <3>5, Zenon
    <2>2. QED  BY <1>2, <1>3, <1>4, <1>5, <1>7, <2>1 DEF Numbered
<1>11. EntriesBelow' /\ Pending' /\ GarbageFree'
    BY <1>6, <1>7 DEF EntriesBelow, Pending, GarbageFree, Idle, NoFlush, NoCompact
<1>12. QED  BY <1>9, <1>10, <1>11 DEF FilesInv

LEMMA OpenFiles == ASSUME IInv, Control', Open PROVE FilesInv'
<1>1. CASE NewDB  BY <1>1, DownFiles DEF NewDB, Creating
<1>2. CASE NewDB_Current  BY <1>2, DownFiles DEF NewDB_Current
<1>3. CASE SetCurrentFile_Temp /\ db = "new_temp"
    BY <1>3, DownFiles DEF SetCurrentFile_Temp, Creating
<1>4. CASE SetCurrentFile_Temp /\ db = "open_temp"
    <2>1. \A n \in Number : Used(n)' => Used(n) \/ n = manifest_file_number_
        BY <1>4 DEF SetCurrentFile_Temp, Used
    <2>2. QED  BY <1>4, <2>1, OpeningFiles DEF SetCurrentFile_Temp, Opening
<1>5. CASE Recover  BY <1>5, RecoverFiles
<1>6. CASE Open_Create
    <2>1. \A n \in Number : Used(n)' => Used(n) \/ n = manifest_file_number_
        BY <1>6 DEF IInv, Control, TypeOK, DirTypes, Open_Create, Used
    <2>2. QED  BY <1>6, <2>1, OpeningFiles DEF Open_Create, Opening
<1>7. CASE Open_Record
    <2>1. \A n \in Number : Used(n)' => Used(n) \/ n = manifest_file_number_
        BY <1>7 DEF IInv, Control, TypeOK, DirTypes, Open_Record, Used
    <2>2. QED  BY <1>7, <2>1, OpeningFiles DEF Open_Record, Opening
<1>8. CASE Open_Current
    <2>1. PICK v \in Versions : AppendVersion(Unref(refs, current_), v, vfiles[current_])
        BY <1>8 DEF Open_Current
    <2>2. current_ \in Versions /\ Idle /\ refs \in [Versions -> Nat] /\ refs[current_] > 0
        <3>1. current_ \in Versions /\ Idle /\ refs \in [Versions -> Nat]
            BY <1>8 DEF IInv, Control, TypeOK, VersionTypes, Phases, Open_Current, Creating
        <3>2. QED  BY <3>1, HeldIsCounted DEF IInv, Control
    <2>3. Unref(refs, current_) = [u \in Versions |-> IF u = current_ THEN refs[u] - 1 ELSE refs[u]]
        BY <2>2, RefAt
    <2>4. \A f : InVersion(f)' => InVersion(f)
        <3>1. \A u \in Versions : Unref(refs, current_)[u] > 0 => refs[u] > 0  BY <2>2, <2>3
        <3>2. \A f : InVersion(f)' => InVersion(f) \/ f \in vfiles[current_]
            BY <2>1, <2>3, <3>1, Appended
        <3>3. QED  BY <2>2, <3>2 DEF InVersion
    <2>5. UNCHANGED <<table, logs, manifest, next_file_number_, manifest_file_number_,
                      logfile_number_, memVars, jobVars>> /\ temps' \subseteq temps
          /\ log_number_' = logfile_number_
        BY <1>8 DEF Open_Current, Rename
    <2>6. \A n : ~Writing(n) /\ ~Writing(n)'
        BY <2>2, <2>5 DEF Idle, Writing, NoFlush, NoCompact, jobVars
    <2>7. \A n : Used(n)' => Used(n)  BY <2>5 DEF Used
    <2>8. \A f : Listed(f)' => InVersion(f)' /\ Listed(f)
        BY <2>2, <2>4, <2>5 DEF Listed, Idle, NoEdit, NoCompact, jobVars
    <2>9. ListedWhole'
        <3>1. /\ next_file_number_' = next_file_number_ /\ last_sequence_' = last_sequence_
              /\ table' = table /\ manifest_file_number_' = manifest_file_number_
            BY <2>5 DEF memVars
        <3>2. \A f \in FileMetaData : Whole(f) =>
                /\ table'[f.number] = table[f.number] /\ f.number # manifest_file_number_'
                /\ ~Used(f.number)' /\ ~Writing(f.number)'
            BY <2>6, <2>7, <3>1, Zenon DEF Whole
        <3>3. QED  BY <2>8, <3>1, <3>2, ListedSame, Zenon
    <2>10. Numbered'
        BY <1>8, <2>5, <2>6, <2>7 DEF IInv, FilesInv, Numbered, Running, Open_Current, Opening
    <2>11. EntriesBelow' /\ Pending'
        BY <2>2, <2>5 DEF EntriesBelow, Pending, Idle, NoFlush, NoCompact, memVars, jobVars
    <2>12. GarbageFree'
        <3>1. garbage' = Obsolete(bg_error_, logfile_number_, vfiles', refs', {}, temps')
            BY <1>8 DEF Open_Current
        <3>2. QED  BY <2>5, <2>6, <2>8, <3>1, ObsoleteSafe, LiveAfter DEF GarbageFree
    <2>13. QED  BY <2>9, <2>10, <2>11, <2>12 DEF FilesInv
<1>9. QED
    BY <1>1, <1>2, <1>3, <1>4, <1>5, <1>6, <1>7, <1>8 DEF Open, SetCurrentFile_Temp
-----------------------------------------------------------------------------
(* Deletions, writers and readers *)

\* A number that is in use or being written, when neither the jobs nor the files that are
\* no tables change
LEMMA SameNumbers ==
    /\ UNCHANGED <<logs, temps, manifest>> => \A n : Used(n)' <=> Used(n)
    /\ UNCHANGED <<flush, compact>> => \A n : Writing(n)' <=> Writing(n)
BY DEF Used, Writing

\* Steps that list nothing new and touch no table
LEMMA SameFiles ==
    ASSUME IInv, UNCHANGED <<table, logs, temps, manifest, next_file_number_,
                             manifest_file_number_, last_sequence_>>,
           \A n : Writing(n)' => Writing(n),
           \A f \in FileMetaData : Listed(f)' => Listed(f)
    PROVE  ListedWhole'
<1>1. next_file_number_' = next_file_number_ /\ last_sequence_' = last_sequence_  OBVIOUS
<1>2. \A n : Used(n)' <=> Used(n)  BY SameNumbers
<1>3. \A f \in FileMetaData : Whole(f) =>
        /\ table'[f.number] = table[f.number] /\ f.number # manifest_file_number_'
        /\ ~Used(f.number)' /\ ~Writing(f.number)'
    BY <1>2 DEF Whole
<1>4. QED  BY <1>1, <1>3, ListedSame, Zenon

LEMMA DeleteFiles == ASSUME IInv, Control', DeleteObsolete PROVE FilesInv'
<1>1. PICK g \in garbage :
        /\ garbage' = garbage \ {g}
        /\ table' = IF g[1] = "table" THEN [table EXCEPT ![g[2]] = NULL] ELSE table
        /\ temps' = IF g[1] = "temp" THEN temps \ {g[2]} ELSE temps
        /\ logs' = IF g[1] = "log" THEN logs \ {g[2]} ELSE logs
        /\ manifest' = IF g[1] = "manifest" THEN [manifest EXCEPT ![g[2]] = NoManifest] ELSE manifest
    BY DEF DeleteObsolete
<1>2. UNCHANGED <<db, numVars, verVars, memVars, jobVars>>  BY DEF DeleteObsolete
<1>3. \A f : Listed(f)' <=> Listed(f)  BY <1>2 DEF Listed, InVersion, verVars, jobVars
<1>4. \A n : Writing(n)' <=> Writing(n)  BY <1>2, SameNumbers DEF jobVars
<1>5. \A n \in Number : Used(n)' => Used(n)
    BY <1>1 DEF IInv, Control, TypeOK, DirTypes, Used
<1>6. \A f \in FileMetaData : Listed(f) => table'[f.number] = table[f.number]
    <2>1. SUFFICES ASSUME NEW f \in FileMetaData, Listed(f), g[1] = "table"
                   PROVE  table'[f.number] = table[f.number]
        BY <1>1
    <2>2. g[2] \in Number /\ g = <<"table", g[2]>>
        BY <2>1 DEF IInv, Control, TypeOK, JobTypes
    <2>3. f.number # g[2]  BY <2>1, <2>2 DEF IInv, FilesInv, GarbageFree
    <2>4. QED  BY <1>1, <2>1, <2>3 DEF IInv, Control, TypeOK, DirTypes, FileMetaData
<1>7. ListedWhole'
    <2>1. /\ next_file_number_' = next_file_number_ /\ last_sequence_' = last_sequence_
          /\ manifest_file_number_' = manifest_file_number_
        BY <1>2 DEF numVars, memVars
    <2>2. \A f \in FileMetaData : f.number \in Number  BY DEF FileMetaData
    <2>3. \A f \in FileMetaData : Listed(f) /\ Whole(f) =>
            /\ table'[f.number] = table[f.number] /\ f.number # manifest_file_number_'
            /\ ~Used(f.number)' /\ ~Writing(f.number)'
        BY <1>4, <1>5, <1>6, <2>1, <2>2, Zenon DEF Whole
    <2>4. QED  BY <1>3, <2>1, <2>3, ListedSame, Zenon
<1>8. Numbered'
    BY <1>2, <1>4, <1>5 DEF IInv, FilesInv, Numbered, Running, numVars
<1>9. EntriesBelow' /\ Pending'
    BY <1>2 DEF IInv, FilesInv, EntriesBelow, Pending, memVars, jobVars
<1>10. GarbageFree'
    BY <1>1, <1>2, <1>3, <1>4 DEF IInv, FilesInv, GarbageFree, numVars
<1>11. QED  BY <1>7, <1>8, <1>9, <1>10 DEF FilesInv

LEMMA SelfBelow == \A a \in Nat : a <= a
OBVIOUS

LEMMA BelowDiffers == \A a, b \in Nat : a < b => a # b
OBVIOUS

LEMMA BelowLater == \A a, b, c \in Nat : a < b /\ b <= c => a < c
OBVIOUS

LEMMA WriteFiles == ASSUME IInv, Control', Write PROVE FilesInv'
<1>1. UNCHANGED <<dirVars, db, numVars, verVars, imm_, jobVars, garbage>>
      /\ last_sequence_' = last_sequence_ + 1 /\ mem_' = mem_ \cup {last_sequence_'}
      /\ garbage = {}
    BY DEF Write, MutexFree
<1>2. \A f : Listed(f)' <=> Listed(f)  BY <1>1 DEF Listed, InVersion, verVars, jobVars
<1>3. \A n : (Writing(n)' <=> Writing(n)) /\ (Used(n)' <=> Used(n))
    BY <1>1, SameNumbers DEF dirVars, jobVars
<1>4. next_file_number_ \in Nat /\ last_sequence_ \in Nat /\ last_sequence_' \in Nat
      /\ mem_ \subseteq Nat /\ (imm_ # NULL => imm_ \subseteq Nat) /\ compact.left \subseteq Nat
    BY <1>1, NumberNat DEF IInv, Control, TypeOK, MemoryTypes, JobTypes, CompactionState
<1>5. ListedWhole'
    <2>1. \A f \in FileMetaData : Whole(f) =>
            /\ table'[f.number] = table[f.number] /\ f.number # manifest_file_number_'
            /\ ~Used(f.number)' /\ ~Writing(f.number)'
        BY <1>1, <1>3 DEF Whole, dirVars, numVars
    <2>2. UNCHANGED next_file_number_  BY <1>1 DEF numVars
    <2>3. ListedWhole  BY Zenon DEF IInv, FilesInv
    <2>4. last_sequence_ <= last_sequence_'  BY <1>1, <1>4
    <2>5. next_file_number_ <= next_file_number_' /\ next_file_number_' \in Nat
        BY <1>4, <2>2, SelfBelow, Zenon
    <2>6. QED  BY <1>2, <1>4, <2>1, <2>3, <2>4, <2>5, ListedFrame, Zenon
<1>6. Numbered'  BY <1>1, <1>3 DEF IInv, FilesInv, Numbered, Running, numVars
<1>7. EntriesBelow'
    <2>1. compact' = compact  BY <1>1 DEF jobVars
    <2>2. QED  BY <1>1, <1>4, <2>1 DEF IInv, FilesInv, EntriesBelow
<1>8. Pending' /\ GarbageFree'
    BY <1>1 DEF IInv, FilesInv, Pending, GarbageFree, jobVars
<1>9. QED  BY <1>5, <1>6, <1>7, <1>8 DEF FilesInv

LEMMA SwitchFiles == ASSUME IInv, Control', SwitchMemTable PROVE FilesInv'
<1>1. /\ logs' = logs \cup {next_file_number_} /\ logfile_number_' = next_file_number_
      /\ next_file_number_' = next_file_number_ + 1 /\ imm_' = mem_ /\ mem_' = {}
      /\ UNCHANGED <<table, manifest, current, temps, db, manifest_file_number_, log_number_,
                     verVars, last_sequence_, jobVars, garbage>>
      /\ garbage = {} /\ db = "open" /\ imm_ = NULL
    BY DEF SwitchMemTable, MutexFree
<1>2. \A f : Listed(f)' <=> Listed(f)  BY <1>1 DEF Listed, InVersion, verVars, jobVars
<1>3. \A n : Writing(n)' <=> Writing(n)  BY <1>1, SameNumbers DEF jobVars
<1>4. \A n : Used(n)' <=> Used(n) \/ n = next_file_number_  BY <1>1 DEF Used
<1>5. next_file_number_ \in Nat /\ last_sequence_ \in Nat /\ Number \subseteq Nat
      /\ manifest_file_number_ \in Nat /\ log_number_ \in Nat
    BY NumberNat DEF IInv, Control, TypeOK, MemoryTypes
<1>6. ListedWhole'
    <2>1. \A f \in FileMetaData : f.number \in Nat  BY NumberNat DEF FileMetaData
    <2>2. \A f \in FileMetaData : Whole(f) =>
            /\ table'[f.number] = table[f.number] /\ f.number # manifest_file_number_'
            /\ ~Used(f.number)' /\ ~Writing(f.number)'
        <3>1. \A f \in FileMetaData : Whole(f) => f.number # next_file_number_
            BY <1>5, <2>1 DEF Whole
        <3>2. table' = table /\ manifest_file_number_' = manifest_file_number_  BY <1>1
        <3>3. QED  BY <1>3, <1>4, <3>1, <3>2, Zenon DEF Whole
    <2>3. ListedWhole  BY Zenon DEF IInv, FilesInv
    <2>4. /\ next_file_number_ <= next_file_number_' /\ next_file_number_' \in Nat
          /\ last_sequence_ <= last_sequence_' /\ last_sequence_' \in Nat
        BY <1>1, <1>5
    <2>5. QED  BY <1>2, <1>5, <2>2, <2>3, <2>4, ListedFrame, Zenon
<1>7. Numbered'
    <2>1. Running  BY <1>1 DEF Running
    <2>2. QED  BY <1>1, <1>3, <1>4, <1>5, <2>1 DEF IInv, FilesInv, Numbered
<1>8. EntriesBelow' /\ Pending'
    BY <1>1 DEF IInv, FilesInv, EntriesBelow, Pending, jobVars
<1>9. GarbageFree'  BY <1>1 DEF GarbageFree
<1>10. QED  BY <1>6, <1>7, <1>8, <1>9 DEF FilesInv

LEMMA ReadFiles ==
    ASSUME IInv, Control', NEW r \in Readers, Read_Begin(r) \/ Read_End(r) PROVE FilesInv'
<1>1. UNCHANGED <<dirVars, db, numVars, memVars, jobVars, garbage>> /\ db = "open"
      /\ garbage = {}
    BY DEF Read_Begin, Read_End, MutexFree
<1>2. \A f : InVersion(f)' => InVersion(f)
    <2>1. CASE Read_Begin(r)
        <3>1. current_ \in Versions  BY <1>1, OpenCurrent DEF IInv
        <3>2. refs[current_] > 0  BY <3>1, HeldIsCounted DEF IInv, Control
        <3>3. QED  BY <2>1, <3>1, <3>2, HeldOnce DEF Read_Begin, IInv
    <2>2. CASE Read_End(r)
        <3>1. reader[r] \in Versions
            BY <2>2 DEF IInv, Control, TypeOK, VersionTypes, Read_End
        <3>2. QED  BY <2>2, <3>1, Released DEF Read_End, IInv
    <2>3. QED  BY <2>1, <2>2
<1>3. \A f : Listed(f)' => Listed(f)  BY <1>1, <1>2 DEF Listed, jobVars
<1>4. \A n : (Writing(n)' <=> Writing(n)) /\ (Used(n)' <=> Used(n))
    BY <1>1, SameNumbers DEF dirVars, jobVars
<1>5. ListedWhole'  BY <1>1, <1>3, <1>4, SameFiles DEF dirVars, numVars, memVars
<1>6. Numbered'  BY <1>1, <1>4 DEF IInv, FilesInv, Numbered, Running, numVars
<1>7. EntriesBelow' /\ Pending' /\ GarbageFree'
    BY <1>1 DEF IInv, FilesInv, EntriesBelow, Pending, GarbageFree, memVars, jobVars
<1>8. QED  BY <1>5, <1>6, <1>7 DEF FilesInv
=============================================================================
