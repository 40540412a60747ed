------------------------------ MODULE LSMTree ------------------------------
(***************************************************************************)
(* The data of a database: entries in the memtable and in the tables of    *)
(* each level, how Version::Get finds them, how memtable compactions place *)
(* tables (PickLevelForMemTableOutput), how compactions choose their       *)
(* inputs (PickCompaction, CompactRange, SetupOtherInputs) and which       *)
(* entries they drop (DoCompactionWork), with snapshots.                   *)
(*                                                                         *)
(* mem_ stands for mem_ and imm_: a memtable compaction is one step, which *)
(* moves the entries up to some write into a table and leaves those of the *)
(* writes that came while it ran.  A compaction is two steps, with writes, *)
(* snapshots and the memtable compactions nested in it between.  File      *)
(* sizes are left out: a test on them may go either way.                   *)
(*                                                                         *)
(* BuildTable does not store a value as it was written: it stores the      *)
(* first VSIZE bytes and behind them the hashes of the Merkle proof, and   *)
(* SaveValue hands all of that to the client.  DoCompactionWork copies     *)
(* what it finds.  So the value of a Put, which its sequence number names, *)
(* has two forms, and where an entry lies tells which one Get returns.     *)
(***************************************************************************)
EXTENDS Naturals, FiniteSets

CONSTANTS
    NULL,
    MaxKey,             \* bound: user keys
    MaxSequence,        \* bound: writes
    NumLevels,          \* config::kNumLevels
    MaxMemCompactLevel, \* config::kMaxMemCompactLevel
    SnapshotIds,        \* snapshots that clients may hold
    Setups              \* bounds that go together: how many writes there are, of which
                        \* keys and types, the tables one compaction writes, whether
                        \* clients take snapshots, and whether they call CompactRange

Keys == 1 .. MaxKey
Levels == 0 .. NumLevels - 1

\* A value that was written, named by the sequence number of its Put, as it was
\* written or as BuildTable stored it.
Values == [put : Nat, stored : BOOLEAN]

ASSUME LSMAssumption ==
    /\ NULL \notin Nat /\ NULL \notin Values /\ NULL \notin [Keys -> Values \cup {NULL}]
    /\ MaxKey \in Nat \ {0} /\ MaxSequence \in Nat
    /\ NumLevels \in Nat \ {0, 1} /\ MaxMemCompactLevel \in 0 .. NumLevels - 1
    /\ Setups \subseteq [writes : 0 .. MaxSequence, keys : SUBSET Keys,
                          types : SUBSET {"value", "deletion"}, outputs : Nat \ {0},
                          snapshots : BOOLEAN, manual : BOOLEAN]

VARIABLES
    mem_,           \* entries of the memtable
    files,          \* tables of the current version
    last_sequence_,
    snapshots_,     \* sequence number of each snapshot, or NULL
    compact,        \* the compaction that is running, or NULL
    aborted,        \* an assertion of Builder has failed
    setup           \* the bounds of this behaviour

vars == <<mem_, files, last_sequence_, snapshots_, compact, aborted, setup>>

Entry == [key : Keys, seq : 1 .. MaxSequence, type : {"value", "deletion"}]

\* A level-0 table has a number that tells its age.
FileMetaData == [level : Levels, number : Nat, data : SUBSET Entry,
                 smallest : Entry, largest : Entry]

Init ==
    /\ mem_ = {} /\ files = {} /\ last_sequence_ = 0
    /\ snapshots_ = [i \in SnapshotIds |-> NULL]
    /\ compact = NULL /\ aborted = FALSE
    /\ setup \in Setups
-----------------------------------------------------------------------------
(* Order of entries and ranges of tables *)

\* InternalKeyComparator: user keys go up, sequence numbers go down.
Before(a, b) == a.key < b.key \/ (a.key = b.key /\ a.seq > b.seq)

Smallest(data) == CHOOSE e \in data : \A d \in data : d = e \/ Before(e, d)
Largest(data)  == CHOOSE e \in data : \A d \in data : d = e \/ Before(d, e)

\* The user keys from begin to end that some tables span.
GetRange(fs) ==
    [begin |-> CHOOSE k \in {f.smallest.key : f \in fs} : \A f \in fs : k <= f.smallest.key,
     end   |-> CHOOSE k \in {f.largest.key : f \in fs} : \A f \in fs : k >= f.largest.key]

Overlaps(f, r) == f.smallest.key <= r.end /\ f.largest.key >= r.begin

\* SomeFileOverlapsRange
OverlapInLevel(v, level, r) == \E f \in v : f.level = level /\ Overlaps(f, r)

\* At level 0 GetOverlappingInputs grows the range by each table it finds, and
\* starts again: it ends with the least range that no table sticks out of.
Closure(v, r) ==
    LET closed == {c \in [begin : 1 .. r.begin, end : r.end .. MaxKey] :
                      \A f \in v : f.level = 0 /\ Overlaps(f, c) =>
                          f.smallest.key >= c.begin /\ f.largest.key <= c.end}
    IN  CHOOSE c \in closed : \A d \in closed : d.begin <= c.begin /\ d.end >= c.end

GetOverlappingInputs(v, level, r) ==
    LET range == IF level = 0 THEN Closure(v, r) ELSE r
    IN  {f \in v : f.level = level /\ Overlaps(f, range)}
-----------------------------------------------------------------------------
(* Reads *)

\* The newest entry for a key in a set that a snapshot sees, as a set.
Seen(data, k, s) ==
    LET es == {e \in data : e.key = k /\ e.seq <= s}
    IN  {e \in es : \A d \in es : d.seq <= e.seq}

\* FindFile, then the test on the smallest key: the table of a level that may
\* have the key, as a set.
FindFile(v, level, k, s) ==
    LET after == {f \in v : f.level = level /\ ~Before(f.largest, [key |-> k, seq |-> s])}
    IN  {f \in after : /\ \A g \in after : g = f \/ Before(f.largest, g.largest)
                       /\ k >= f.smallest.key}

\* The tables that Version::Get searches, each with its turn: level 0 from newest
\* to oldest, then one table of each level.
Turn(f) == IF f.level = 0 THEN MaxSequence - f.number ELSE MaxSequence + f.level

Searched(v, k, s) ==
    {f \in v : f.level = 0 /\ Overlaps(f, [begin |-> k, end |-> k])}
    \cup UNION {FindFile(v, level, k, s) : level \in Levels \ {0}}

\* The entry that Get stops at, as a set: of the memtable, or of the first table
\* that has one.
Found(k, s) ==
    LET hits == {f \in Searched(files, k, s) : Seen(f.data, k, s) # {}}
    IN  IF Seen(mem_, k, s) # {} THEN Seen(mem_, k, s)
        ELSE UNION {Seen(f.data, k, s) : f \in {h \in hits : \A g \in hits : Turn(h) <= Turn(g)}}

\* What was written comes from the memtable, what BuildTable stored from a table.
Value(e) == [put |-> e.seq, stored |-> e \notin mem_]

Get(k, s) ==
    LET found == {e \in Found(k, s) : e.type = "value"}
    IN  IF found = {} THEN NULL ELSE Value(CHOOSE e \in found : TRUE)
-----------------------------------------------------------------------------
(* Clients *)

Write ==
    /\ ~aborted /\ last_sequence_ < setup.writes
    /\ last_sequence_' = last_sequence_ + 1
    /\ \E k \in setup.keys, t \in setup.types :
        mem_' = mem_ \cup {[key |-> k, seq |-> last_sequence_', type |-> t]}
    /\ UNCHANGED <<files, snapshots_, compact, aborted, setup>>

GetSnapshot(i) ==
    /\ setup.snapshots /\ ~aborted /\ snapshots_[i] = NULL
    /\ snapshots_' = [snapshots_ EXCEPT ![i] = last_sequence_]
    /\ UNCHANGED <<mem_, files, last_sequence_, compact, aborted, setup>>

ReleaseSnapshot(i) ==
    /\ ~aborted /\ snapshots_[i] # NULL
    /\ snapshots_' = [snapshots_ EXCEPT ![i] = NULL]
    /\ UNCHANGED <<mem_, files, last_sequence_, compact, aborted, setup>>
-----------------------------------------------------------------------------
(* Versions *)

\* Below level 0 each table ends before the next begins.
Disjoint(fs) ==
    \A f, g \in fs :
        f # g /\ f.level = g.level /\ f.level > 0 =>
            Before(f.largest, g.smallest) \/ Before(g.largest, f.smallest)

\* LogAndApply builds the version of these tables; Builder stops the program if
\* two of a level overlap.
Install(fs) ==
    /\ files' = IF Disjoint(fs) THEN fs ELSE files
    /\ aborted' = ~Disjoint(fs)
-----------------------------------------------------------------------------
(* Memtable compactions *)

\* Mutant: the levels above the one that is chosen are not looked at.
OutputLevels_NoCheck(r) == 0 .. MaxMemCompactLevel

\* PickLevelForMemTableOutput: it goes down while the range is free at the next
\* level, and may stop at a level whose grandchildren overlap too much.
OutputLevels(r) ==
    IF OverlapInLevel(files, 0, r) THEN {0}
    ELSE {l \in 0 .. MaxMemCompactLevel :
            /\ \A m \in 1 .. l : ~OverlapInLevel(files, m, r)
            /\ \/ l = MaxMemCompactLevel
               \/ OverlapInLevel(files, l + 1, r)
               \/ l + 2 < NumLevels /\ OverlapInLevel(files, l + 2, r)}

\* File numbers grow; that of a level-0 table counts.
NewNumber ==
    LET used == {0} \cup {f.number : f \in files}
    IN  1 + CHOOSE n \in used : \A m \in used : m <= n

NewTable(level, data) ==
    [level |-> level, number |-> IF level = 0 THEN NewNumber ELSE 0, data |-> data,
     smallest |-> Smallest(data), largest |-> Largest(data)]

\* imm_ holds the entries up to that of some write when its table is built.
CompactMemTable ==
    /\ ~aborted
    /\ \E last \in mem_ :
        LET imm_ == {e \in mem_ : e.seq <= last.seq}
        IN  /\ \E level \in OutputLevels([begin |-> Smallest(imm_).key,
                                          end   |-> Largest(imm_).key]) :
                Install(files \cup {NewTable(level, imm_)})
            /\ mem_' = mem_ \ imm_
    /\ UNCHANGED <<last_sequence_, snapshots_, compact, setup>>
-----------------------------------------------------------------------------
(* Compactions *)

\* SetupOtherInputs: the tables of the next level, and more of this level if that
\* brings in no more of the next (and the sizes allow it).
AllInputs(level, inputs0) ==
    LET inputs1   == GetOverlappingInputs(files, level + 1, GetRange(inputs0))
        expanded0 == GetOverlappingInputs(files, level, GetRange(inputs0 \cup inputs1))
        expanded1 == GetOverlappingInputs(files, level + 1, GetRange(expanded0))
    IN  {inputs0 \cup inputs1}
        \cup IF /\ inputs1 # {}
                /\ Cardinality(expanded0) > Cardinality(inputs0)
                /\ Cardinality(expanded1) = Cardinality(inputs1)
             THEN {expanded0 \cup expanded1} ELSE {}

\* Mutant: at level 0 too, one table is compacted.
Picked_One(level) == {{f} : f \in {g \in files : g.level = level}}

\* PickCompaction: compact_pointer_ or a seek may choose any table of a level.
Picked(level) ==
    {IF level = 0 THEN GetOverlappingInputs(files, 0, GetRange({f})) ELSE {f} :
        f \in {g \in files : g.level = level}}

\* Tables of a level that come first in it, some or all of these.
First(fs) == {gs \in SUBSET fs : \A f \in fs, g \in gs : Before(f.largest, g.largest) => f \in gs}

KeyRanges == {r \in [begin : Keys, end : Keys] : r.begin <= r.end}

\* CompactRange: the tables of a range; below level 0, as many of them from the
\* first as a size limit allows.
Requested(level) ==
    LET found == {GetOverlappingInputs(files, level, r) : r \in KeyRanges}
    IN  (IF level = 0 THEN found ELSE UNION {First(fs) : fs \in found}) \ {{}}

SmallestSnapshot ==
    LET held == {snapshots_[i] : i \in SnapshotIds} \ {NULL}
    IN  IF held = {} THEN last_sequence_ ELSE CHOOSE s \in held : \A t \in held : s <= t

\* DoCompactionWork starts: the version and the oldest snapshot are those of now.
Begin(level, inputs, manual) ==
    /\ compact' = [level |-> level, inputs |-> inputs, version |-> files,
                   smallest_snapshot |-> SmallestSnapshot, is_manual |-> manual]
    /\ UNCHANGED <<mem_, files, last_sequence_, snapshots_, aborted, setup>>

\* IsTrivialMove also asks for their size.
Grandparents(level, inputs) ==
    IF level + 2 < NumLevels THEN GetOverlappingInputs(files, level + 2, GetRange(inputs)) ELSE {}

CompactAutomatic ==
    /\ ~aborted /\ compact = NULL
    /\ \E level \in 0 .. NumLevels - 2 : \E inputs0 \in Picked(level) :
        \E inputs \in AllInputs(level, inputs0) :
            /\ Cardinality(inputs) > 1 \/ Grandparents(level, inputs) # {}
            /\ Begin(level, inputs, FALSE)

CompactManual ==
    /\ setup.manual /\ ~aborted /\ compact = NULL
    /\ \E level \in 0 .. NumLevels - 2 : \E inputs0 \in Requested(level) :
        \E inputs \in AllInputs(level, inputs0) : Begin(level, inputs, TRUE)

\* One table with none to merge it with is moved to the next level.
TrivialMove ==
    /\ ~aborted /\ compact = NULL
    /\ \E level \in 0 .. NumLevels - 2 : \E inputs0 \in Picked(level) :
        \E inputs \in AllInputs(level, inputs0) :
            /\ Cardinality(inputs) = 1
            /\ Install((files \ inputs) \cup {NewTable(level + 1, f.data) : f \in inputs})
    /\ UNCHANGED <<mem_, last_sequence_, snapshots_, compact, setup>>
-----------------------------------------------------------------------------
(* What DoCompactionWork writes *)

\* Mutant: one level too few is looked at.
IsBaseLevelForKey_Skips(k) ==
    \A f \in compact.version :
        f.level >= compact.level + 3 => ~Overlaps(f, [begin |-> k, end |-> k])

\* IsBaseLevelForKey: no table below the output level has the key in its range.
IsBaseLevelForKey(k) ==
    \A f \in compact.version :
        f.level >= compact.level + 2 => ~Overlaps(f, [begin |-> k, end |-> k])

\* Rule (A): the next newer entry for the key is one that every snapshot sees.
Hidden(e, data) ==
    \E d \in data : d.key = e.key /\ d.seq > e.seq /\ d.seq <= compact.smallest_snapshot

ObsoleteDeletion(e) ==
    /\ e.type = "deletion" /\ e.seq <= compact.smallest_snapshot
    /\ IsBaseLevelForKey(e.key)

Kept(data) == {e \in data : ~Hidden(e, data) /\ ~ObsoleteDeletion(e)}

\* The entries that no cut parts from this one; a cut comes after its entry.
Output(data, cuts, e) == {d \in data : \A c \in cuts : Before(c, d) <=> Before(c, e)}

\* The outputs follow one another in the order of the entries, cut where a size
\* or ShouldStopBefore says.
Outputs(data) ==
    {{Output(data, cuts, e) : e \in data} :
        cuts \in {c \in SUBSET data : Cardinality(c) < setup.outputs}}

\* InstallCompactionResults; when Builder stops the program, that was its last call.
CompactDone ==
    /\ ~aborted /\ compact # NULL
    /\ \E outputs \in Outputs(Kept(UNION {f.data : f \in compact.inputs})) :
        Install((files \ compact.inputs)
                \cup {NewTable(compact.level + 1, data) : data \in outputs})
    /\ compact' = IF aborted' THEN compact ELSE NULL
    /\ UNCHANGED <<mem_, last_sequence_, snapshots_, setup>>

Next ==
    \/ Write
    \/ \E i \in SnapshotIds : GetSnapshot(i) \/ ReleaseSnapshot(i)
    \/ CompactMemTable
    \/ CompactAutomatic \/ CompactManual \/ TrivialMove \/ CompactDone

Spec == Init /\ [][Next]_vars
-----------------------------------------------------------------------------
(* Properties *)

\* Type correctness.
TypeOK ==
    /\ mem_ \subseteq Entry /\ files \subseteq FileMetaData
    /\ last_sequence_ \in 0 .. MaxSequence
    /\ snapshots_ \in [SnapshotIds -> {NULL} \cup 0 .. MaxSequence]
    /\ compact = NULL \/ compact.inputs \subseteq files

\* Some keys between the first and the last of these tables are in none of them.
Gap(fs) ==
    \E k \in Keys : /\ \E f \in fs : f.largest.key < k
                    /\ \E f \in fs : k < f.smallest.key
                    /\ \A f \in fs : ~Overlaps(f, [begin |-> k, end |-> k])

\* "Must not overlap": Builder finds two tables that overlap in a level below 0 in one
\* case only.  CompactRange has chosen tables that leave a gap, DoCompactionWork has
\* merged them into one table that spans it, and a memtable compaction nested in the
\* merge has put its table into the gap at the output level.  The scheduler's own
\* compactions never meet one, and all leave the inputs of a merge where they are.
AbortsOnlyInGap ==
    /\ TypeOK
    /\ aborted => compact # NULL /\ compact.is_manual /\ Gap(compact.inputs)

\* "Entries never hop across levels": of two entries for a key, the one that
\* Version::Get comes to first is the newer.
NewerFirst ==
    \A f, g \in files : \A d \in f.data, e \in g.data :
        f # g /\ d.key = e.key /\ Turn(f) < Turn(g) => d.seq > e.seq

\* The writes before the first one that is in the memtable.
Flushed ==
    IF mem_ = {} THEN last_sequence_
    ELSE (CHOOSE n \in {e.seq : e \in mem_} : \A e \in mem_ : n <= e.seq) - 1

Store == INSTANCE SnapshotStore WITH
            writes <- last_sequence_, flushed <- Flushed,
            latest <- [k \in Keys |-> Get(k, last_sequence_)],
            view   <- [i \in SnapshotIds |->
                          IF snapshots_[i] = NULL THEN NULL
                          ELSE [k \in Keys |-> Get(k, snapshots_[i])]]

\* The clients see a map with snapshots, but for the form of its values: a compaction
\* never changes which write answers, not of the latest state and not of a snapshot
\* that is held, and it is a memtable compaction alone that turns what was written
\* into what BuildTable stored, of all the writes it covers at once and for good.
ImplementsStore == Store!Spec
=============================================================================
