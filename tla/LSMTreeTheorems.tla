-------------------------- MODULE LSMTreeTheorems ---------------------------
(***************************************************************************)
(* The levels for any number of keys, writes, levels, snapshots and output *)
(* tables: of two entries for a key the newer is found first, the clients  *)
(* see a map with snapshots, but for the form of its values, and Builder   *)
(* stops the program only where CompactRange has left it a gap to find.    *)
(*                                                                         *)
(* All three rest on what a compaction may assume of the tables that it    *)
(* does not merge, also of those that appear while it runs (Merging), and  *)
(* on tables of a level below 0 that have no user key in common (Apart).   *)
(* Apart fails when the entries of a key are cut between two outputs, so   *)
(* the theorems are about clients that either take no snapshots or whose   *)
(* compactions write one table (KeysTogether).                             *)
(***************************************************************************)
EXTENDS LSMTree, FiniteSetTheorems, TLAPS

\* Two tables share a user key range; a table has a key in its range.
Meet(f, g) == f.smallest.key <= g.largest.key /\ g.smallest.key <= f.largest.key
Covers(f, k) == f.smallest.key <= k /\ k <= f.largest.key

\* Every key between two tables of a set is in the range of a table of it.
Solid(fs) ==
    \A k \in Nat :
        (\E f \in fs : f.smallest.key <= k) /\ (\E f \in fs : k <= f.largest.key) =>
            \E f \in fs : Covers(f, k)

TableEntries == UNION {f.data : f \in files}
AllEntries == mem_ \cup TableEntries

UniqueIn(data) == \A d, e \in data : d.seq = e.seq => d = e

\* The bounds of a table are its first and its last entry.
Whole(f) ==
    /\ f.smallest \in f.data /\ f.largest \in f.data
    /\ \A d \in f.data : (d = f.smallest \/ Before(f.smallest, d))
                         /\ (d = f.largest \/ Before(d, f.largest))

\* Each entry has its own sequence number, the memtable has the newest ones, and a
\* level-0 table has its own number, which leaves room below its entries.
DataInv ==
    /\ \A f \in files : Whole(f) /\ \A e \in f.data : f.number <= e.seq
    /\ UniqueIn(AllEntries)
    /\ \A e \in AllEntries : e.seq <= last_sequence_
    /\ \A d \in mem_, e \in TableEntries : e.seq < d.seq
    /\ \A f, g \in files : f.level = 0 /\ g.level = 0 /\ f.number = g.number => f = g

\* Below level 0 no two tables of a level have a user key in common.
ApartIn(fs) == \A f, g \in fs : f # g /\ f.level = g.level /\ f.level > 0 => ~Meet(f, g)
Apart == ApartIn(files)

ClientInv ==
    /\ setup \in Setups /\ (setup.outputs = 1 \/ ~setup.snapshots)
    /\ \A i \in SnapshotIds : snapshots_[i] # NULL =>
        setup.snapshots /\ snapshots_[i] <= last_sequence_
    /\ aborted \in BOOLEAN
    /\ aborted => compact # NULL /\ compact.is_manual /\ Gap(compact.inputs)

\* While a compaction runs: what a table that is not merged may have in common with
\* one that is, which sequence numbers are seen by every snapshot, and, unless the
\* range was a client's, no room for a table between the inputs.
Merging ==
    /\ compact.level \in 0 .. NumLevels - 2 /\ compact.inputs \subseteq files
    /\ \A f \in compact.inputs : f.level \in {compact.level, compact.level + 1}
    /\ \A h \in files \ compact.inputs, f \in compact.inputs : Meet(h, f) =>
        /\ h.level # compact.level + 1
        /\ h.level = 0 /\ f.level = 0 => f.number < h.number
        /\ h.level >= compact.level + 2 => h \in compact.version
    /\ compact.smallest_snapshot \in 0 .. last_sequence_
    /\ \A i \in SnapshotIds : snapshots_[i] # NULL =>
        compact.smallest_snapshot <= snapshots_[i]
    /\ ~setup.snapshots =>
        \A f \in compact.inputs : \A e \in f.data : e.seq <= compact.smallest_snapshot
    /\ compact.is_manual \/ Solid(compact.inputs)

IInv ==
    /\ TypeOK /\ DataInv /\ Apart /\ NewerFirst /\ ClientInv
    /\ compact # NULL => Merging

\* The entries of a key go to one output: the clients take no snapshots, or a
\* compaction writes one table.
KeysTogether == \A s \in Setups : s.outputs = 1 \/ ~s.snapshots
-----------------------------------------------------------------------------
(* Numbers, and the order of entries *)

\* A set of numbers that is not empty has a least one.
LEMMA LeastNumber ==
    ASSUME NEW S \in SUBSET Nat, S # {}
    PROVE  \E n \in S : \A m \in S : n <= m
<1> DEFINE R == OpToRel(<, Nat)
<1>1. IsWellFoundedOn(R, Nat)  BY NatLessThanWellFounded
<1>2. PICK n \in S : \A m \in S : <<m, n>> \notin R
    <2> HIDE DEF R
    <2>1. QED  BY <1>1, WFMin
<1>3. \A m \in S : ~(m < n)  BY <1>2 DEF OpToRel
<1>4. QED  BY <1>3

\* One with a bound has a greatest one: it is as far from the bound as possible.
LEMMA GreatestNumber ==
    ASSUME NEW S \in SUBSET Nat, S # {}, NEW b \in Nat, \A n \in S : n <= b
    PROVE  \E n \in S : \A m \in S : m <= n
<1> DEFINE T == {k \in Nat : \E n \in S : k = b - n}
<1>1. \A n \in S : b - n \in T  OBVIOUS
<1>2. T \in SUBSET Nat /\ T # {}  BY <1>1
<1>3. \A k \in T : \E n \in S : k = b - n  OBVIOUS
<1> HIDE DEF T
<1>4. PICK k \in T : \A m \in T : k <= m  BY <1>2, LeastNumber
<1>5. PICK n \in S : k = b - n  BY <1>3
<1>6. \A m \in S : b - n <= b - m  BY <1>1, <1>4, <1>5
<1>7. QED  BY <1>6

LEMMA EntryFields ==
    ASSUME NEW e \in Entry
    PROVE  /\ e.key \in Nat /\ e.key \in Keys /\ e.seq \in Nat /\ e.seq \in 1 .. MaxSequence
           /\ e.type \in {"value", "deletion"}
BY LSMAssumption DEF Entry, Keys

LEMMA FileFields ==
    ASSUME NEW f \in FileMetaData
    PROVE  /\ f.level \in Levels /\ f.level \in Nat /\ f.number \in Nat /\ f.data \subseteq Entry
           /\ f.smallest \in Entry /\ f.largest \in Entry
           /\ f.smallest.key \in Nat /\ f.smallest.key \in Keys /\ f.smallest.seq \in Nat
           /\ f.largest.key \in Nat /\ f.largest.key \in Keys /\ f.largest.seq \in Nat
<1>1. f.level \in Levels /\ f.number \in Nat /\ f.data \subseteq Entry
      /\ f.smallest \in Entry /\ f.largest \in Entry
    BY Zenon DEF FileMetaData
<1>2. f.level \in Nat  BY <1>1, LSMAssumption DEF Levels
<1>3. QED  BY <1>1, <1>2, EntryFields, Zenon

\* A set of entries of one key, each with its own number, has a newest and an oldest.
LEMMA NewestIs ==
    ASSUME NEW data \in SUBSET Entry, data # {}
    PROVE  /\ \E e \in data : \A d \in data : d.seq <= e.seq
           /\ \E e \in data : \A d \in data : e.seq <= d.seq
           /\ \E e \in data : \A d \in data : d.key <= e.key
           /\ \E e \in data : \A d \in data : e.key <= d.key
<1> DEFINE S == {e.seq : e \in data}
           K == {e.key : e \in data}
<1>1. S \in SUBSET Nat /\ K \in SUBSET Nat  BY EntryFields
<1>2. S # {} /\ K # {}  OBVIOUS
<1>3. \A n \in S : n <= MaxSequence  BY EntryFields
<1>4. \A n \in K : n <= MaxKey  BY EntryFields DEF Keys
<1>5. \E n \in S : \A m \in S : n <= m
    <2> HIDE DEF S
    <2>1. QED  BY <1>1, <1>2, LeastNumber
<1>6. \E n \in K : \A m \in K : n <= m
    <2> HIDE DEF K
    <2>1. QED  BY <1>1, <1>2, LeastNumber
<1>7. \E n \in S : \A m \in S : m <= n
    <2> HIDE DEF S
    <2>1. QED  BY <1>1, <1>2, <1>3, GreatestNumber, LSMAssumption
<1>8. \E n \in K : \A m \in K : m <= n
    <2> HIDE DEF K
    <2>1. QED  BY <1>1, <1>2, <1>4, GreatestNumber, LSMAssumption
<1>9. \E e \in data : \A d \in data : d.seq <= e.seq  BY <1>7
<1>10. \E e \in data : \A d \in data : e.seq <= d.seq  BY <1>5
<1>11. \E e \in data : \A d \in data : d.key <= e.key  BY <1>8
<1>12. \E e \in data : \A d \in data : e.key <= d.key  BY <1>6
<1>13. QED  BY <1>9, <1>10, <1>11, <1>12

\* A table is written with its first and its last entry as its bounds.
LEMMA BoundsAre ==
    ASSUME NEW data \in SUBSET Entry, data # {}, UniqueIn(data)
    PROVE  /\ Smallest(data) \in data
           /\ \A d \in data : d = Smallest(data) \/ Before(Smallest(data), d)
           /\ Largest(data) \in data
           /\ \A d \in data : d = Largest(data) \/ Before(d, Largest(data))
<1>1. \E e \in data : \A d \in data : d = e \/ Before(e, d)
    <2>1. PICK a \in data : \A d \in data : a.key <= d.key  BY NewestIs
    <2> DEFINE low == {d \in data : d.key = a.key}
    <2>2. low \in SUBSET Entry /\ low # {}  OBVIOUS
    <2>3. PICK e \in low : \A d \in low : d.seq <= e.seq
        <3> HIDE DEF low
        <3>1. QED  BY <2>2, NewestIs
    <2>4. ASSUME NEW d \in data PROVE d = e \/ Before(e, d)
        <3>1. d.key \in Nat /\ d.seq \in Nat /\ e.key \in Nat /\ e.seq \in Nat  BY EntryFields
        <3>2. CASE d.key = a.key
            <4>1. d.seq <= e.seq  BY <2>3, <3>2
            <4>2. d.seq = e.seq => d = e  BY DEF UniqueIn
            <4>3. QED  BY <3>1, <3>2, <4>1, <4>2 DEF Before
        <3>3. CASE d.key # a.key
            <4>1. e.key < d.key  BY <2>1, <3>1, <3>3
            <4>2. QED  BY <4>1 DEF Before
        <3>4. QED  BY <3>2, <3>3
    <2>5. QED  BY <2>4
<1>2. \E e \in data : \A d \in data : d = e \/ Before(d, e)
    <2>1. PICK a \in data : \A d \in data : d.key <= a.key  BY NewestIs
    <2> DEFINE high == {d \in data : d.key = a.key}
    <2>2. high \in SUBSET Entry /\ high # {}  OBVIOUS
    <2>3. PICK e \in high : \A d \in high : e.seq <= d.seq
        <3> HIDE DEF high
        <3>1. QED  BY <2>2, NewestIs
    <2>4. ASSUME NEW d \in data PROVE d = e \/ Before(d, e)
        <3>1. d.key \in Nat /\ d.seq \in Nat /\ e.key \in Nat /\ e.seq \in Nat  BY EntryFields
        <3>2. CASE d.key = a.key
            <4>1. e.seq <= d.seq  BY <2>3, <3>2
            <4>2. d.seq = e.seq => d = e  BY DEF UniqueIn
            <4>3. QED  BY <3>1, <3>2, <4>1, <4>2 DEF Before
        <3>3. CASE d.key # a.key
            <4>1. d.key < e.key  BY <2>1, <3>1, <3>3
            <4>2. QED  BY <4>1 DEF Before
        <3>4. QED  BY <3>2, <3>3
    <2>5. QED  BY <2>4
<1>3. Smallest(data) \in data /\ \A d \in data : d = Smallest(data) \/ Before(Smallest(data), d)
    BY <1>1, Zenon DEF Smallest
<1>4. Largest(data) \in data /\ \A d \in data : d = Largest(data) \/ Before(d, Largest(data))
    BY <1>2, Zenon DEF Largest
<1>5. QED  BY <1>3, <1>4

\* The entries of a table have their keys between its bounds.
LEMMA BoundKeys ==
    ASSUME NEW f \in FileMetaData, Whole(f), NEW e \in f.data
    PROVE  e \in Entry /\ Covers(f, e.key)
<1>1. e \in Entry /\ f.smallest \in Entry /\ f.largest \in Entry  BY FileFields
<1>2. e.key \in Nat /\ f.smallest.key \in Nat /\ f.largest.key \in Nat  BY <1>1, EntryFields
<1>3. QED  BY <1>1, <1>2 DEF Whole, Before, Covers

\* Sets of entries with numbers of their own, and the tables, are finite.
LEMMA EntriesFinite ==
    ASSUME NEW data \in SUBSET Entry, UniqueIn(data)
    PROVE  IsFiniteSet(data)
<1> DEFINE g == [e \in data |-> e.seq]
<1>1. g \in [data -> 1 .. MaxSequence]  BY EntryFields
<1>2. \A d, e \in data : g[d] = g[e] => d = e  BY DEF UniqueIn
<1>3. g \in Injection(data, 1 .. MaxSequence)  BY <1>1, <1>2 DEF Injection, IsInjective
<1>4. IsFiniteSet(1 .. MaxSequence)  BY FS_Interval, LSMAssumption
<1> HIDE DEF g
<1>5. QED  BY <1>3, <1>4, FS_Injection
-----------------------------------------------------------------------------
(* Ranges, and the tables that overlap them *)

LEMMA RangeIs ==
    ASSUME NEW fs \in SUBSET FileMetaData, fs # {}
    PROVE  /\ GetRange(fs).begin \in Keys /\ GetRange(fs).end \in Keys
           /\ \E f \in fs : GetRange(fs).begin = f.smallest.key
           /\ \E f \in fs : GetRange(fs).end = f.largest.key
           /\ \A f \in fs : GetRange(fs).begin <= f.smallest.key /\ f.largest.key <= GetRange(fs).end
<1> DEFINE B == {f.smallest.key : f \in fs}
           E == {f.largest.key : f \in fs}
<1>1. B \in SUBSET Nat /\ E \in SUBSET Nat /\ B \subseteq Keys /\ E \subseteq Keys  BY FileFields
<1>2. B # {} /\ E # {}  OBVIOUS
<1>3. \E k \in B : \A m \in B : k <= m
    <2> HIDE DEF B
    <2>1. QED  BY <1>1, <1>2, LeastNumber
<1>4. \E k \in E : \A m \in E : m <= k
    <2> HIDE DEF E
    <2>1. \A m \in E : m <= MaxKey  BY <1>1 DEF Keys
    <2>2. QED  BY <1>1, <1>2, <2>1, GreatestNumber, LSMAssumption
<1>5. \E k \in B : \A f \in fs : k <= f.smallest.key  BY <1>3, Zenon
<1>6. \E k \in E : \A f \in fs : k >= f.largest.key
    <2>1. PICK k \in E : \A m \in E : m <= k  BY <1>4
    <2>2. \A f \in fs : f.largest.key <= k  BY <2>1, Zenon
    <2>3. \A f \in fs : k >= f.largest.key  BY <1>1, <2>2, FileFields
    <2>4. QED  BY <2>3
<1>7. GetRange(fs).begin \in B /\ \A f \in fs : GetRange(fs).begin <= f.smallest.key
    <2>1. GetRange(fs).begin = CHOOSE k \in B : \A f \in fs : k <= f.smallest.key  BY DEF GetRange
    <2>2. QED  BY <1>5, <2>1, Zenon
<1>8. GetRange(fs).end \in E /\ \A f \in fs : GetRange(fs).end >= f.largest.key
    <2>1. GetRange(fs).end = CHOOSE k \in E : \A f \in fs : k >= f.largest.key  BY DEF GetRange
    <2>2. QED  BY <1>6, <2>1, Zenon
<1>9. \A f \in fs : f.largest.key <= GetRange(fs).end
    <2>1. GetRange(fs).end \in Nat  BY <1>1, <1>8
    <2>2. QED  BY <1>8, <2>1, FileFields
<1>10. QED  BY <1>1, <1>7, <1>8, <1>9, Zenon

\* Tables have their bounds in order.
Ordered(fs) == \A f \in fs : f.smallest.key <= f.largest.key

LEMMA RangeIsProper ==
    ASSUME NEW fs \in SUBSET FileMetaData, fs # {}, Ordered(fs)
    PROVE  GetRange(fs) \in KeyRanges
<1>1. GetRange(fs) = [begin |-> GetRange(fs).begin, end |-> GetRange(fs).end]  BY DEF GetRange
<1>2. PICK f \in fs : TRUE  OBVIOUS
<1>3. GetRange(fs).begin <= f.smallest.key /\ f.largest.key <= GetRange(fs).end
      /\ f.smallest.key <= f.largest.key
    BY RangeIs DEF Ordered
<1>4. GetRange(fs).begin \in Keys /\ GetRange(fs).end \in Keys  BY RangeIs
<1>5. GetRange(fs).begin <= GetRange(fs).end  BY <1>3, <1>4, FileFields DEF Keys
<1>6. QED  BY <1>1, <1>4, <1>5, Zenon DEF KeyRanges

LEMMA MeetsRange ==
    ASSUME NEW fs \in SUBSET FileMetaData, NEW f \in fs, NEW g \in FileMetaData, Meet(g, f)
    PROVE  Overlaps(g, GetRange(fs))
<1>1. GetRange(fs).begin <= f.smallest.key /\ f.largest.key <= GetRange(fs).end
      /\ GetRange(fs).begin \in Nat /\ GetRange(fs).end \in Nat
    BY RangeIs DEF Keys
<1>2. /\ f.smallest.key \in Nat /\ f.largest.key \in Nat
      /\ g.smallest.key \in Nat /\ g.largest.key \in Nat
    BY FileFields
<1>3. QED  BY <1>1, <1>2 DEF Meet, Overlaps

\* No level-0 table sticks out of a range.
Closed(v, c) ==
    \A f \in v : f.level = 0 /\ Overlaps(f, c) => f.smallest.key >= c.begin /\ f.largest.key <= c.end

Around(r) == [begin : 1 .. r.begin, end : r.end .. MaxKey]

\* The range that GetOverlappingInputs ends with exists: of two ranges that no table
\* sticks out of, what they share is another.
LEMMA ClosureIs ==
    ASSUME NEW v \in SUBSET FileMetaData, NEW r \in KeyRanges
    PROVE  /\ Closure(v, r) \in Around(r) /\ Closed(v, Closure(v, r))
           /\ \A d \in Around(r) : Closed(v, d) =>
                d.begin <= Closure(v, r).begin /\ Closure(v, r).end <= d.end
<1> DEFINE closed == {c \in Around(r) : Closed(v, c)}
           B == {c.begin : c \in closed}
           E == {c.end : c \in closed}
<1>1. r.begin \in Keys /\ r.end \in Keys /\ r.begin <= r.end /\ MaxKey \in Nat
      /\ r.begin \in Nat /\ r.end \in Nat
    BY LSMAssumption DEF KeyRanges, Keys
<1>2. \A c \in Around(r) : /\ c.begin \in Nat /\ c.end \in Nat /\ 1 <= c.begin /\ c.begin <= r.begin
                           /\ r.end <= c.end /\ c.end <= MaxKey
    BY <1>1 DEF Around
<1>3. closed # {}
    <2> DEFINE c == [begin |-> 1, end |-> MaxKey]
    <2>1. c \in Around(r)  BY <1>1 DEF Around, Keys
    <2>2. \A f \in v : f.smallest.key >= 1 /\ f.largest.key <= MaxKey  BY FileFields DEF Keys
    <2>3. Closed(v, c)  BY <2>2 DEF Closed
    <2>4. QED  BY <2>1, <2>3
<1>4. PICK a \in closed : \A c \in closed : c.begin <= a.begin
    <2>1. B \in SUBSET Nat /\ B # {} /\ \A n \in B : n <= MaxKey  BY <1>1, <1>2, <1>3
    <2>2. \E n \in B : \A m \in B : m <= n
        <3> HIDE DEF B
        <3>1. QED  BY <1>1, <2>1, GreatestNumber
    <2>3. QED  BY <2>2, Zenon
<1>5. PICK b \in closed : \A c \in closed : b.end <= c.end
    <2>1. E \in SUBSET Nat /\ E # {}  BY <1>2, <1>3
    <2>2. \E n \in E : \A m \in E : n <= m
        <3> HIDE DEF E
        <3>1. QED  BY <2>1, LeastNumber
    <2>3. QED  BY <2>2, Zenon
<1> DEFINE m == [begin |-> a.begin, end |-> b.end]
<1>6. m \in Around(r)  BY DEF Around
<1>7. ASSUME NEW f \in v, f.level = 0, Overlaps(f, m)
      PROVE  f.smallest.key >= m.begin /\ f.largest.key <= m.end
    <2>1. f.smallest.key \in Nat /\ f.largest.key \in Nat  BY FileFields
    <2>2. f.smallest.key <= b.end /\ f.largest.key >= a.begin  BY <1>7 DEF Overlaps
    <2>3. b.end <= a.end /\ b.begin <= a.begin  BY <1>4, <1>5
    <2>4. /\ a.begin \in Nat /\ a.end \in Nat /\ b.begin \in Nat /\ b.end \in Nat  BY <1>2
    <2>5. Overlaps(f, a) /\ Overlaps(f, b)  BY <2>1, <2>2, <2>3, <2>4 DEF Overlaps
    <2>6. QED  BY <1>7, <2>5 DEF Closed
<1>8. Closed(v, m)  BY <1>7 DEF Closed
<1>9. m \in closed /\ \A d \in closed : d.begin <= m.begin /\ d.end >= m.end
    <2>1. \A d \in closed : d.end >= b.end  BY <1>2, <1>5
    <2>2. QED  BY <1>4, <1>6, <1>8, <2>1
<1>10. Closure(v, r) = CHOOSE c \in closed : \A d \in closed : d.begin <= c.begin /\ d.end >= c.end
    BY Zenon DEF Closure, Closed, Around
<1>11. Closure(v, r) \in closed
       /\ \A d \in closed : d.begin <= Closure(v, r).begin /\ d.end >= Closure(v, r).end
    <2> HIDE DEF closed, m
    <2>1. QED  BY <1>9, <1>10, Zenon
<1>12. \A d \in closed : Closure(v, r).end <= d.end  BY <1>2, <1>11
<1>13. QED  BY <1>11, <1>12

LEMMA OverlappingAre ==
    ASSUME NEW v \in SUBSET FileMetaData, NEW r \in KeyRanges, NEW level \in Nat
    PROVE  /\ GetOverlappingInputs(v, level, r) \subseteq v
           /\ \A f \in GetOverlappingInputs(v, level, r) : f.level = level
           /\ \A f \in v : f.level = level /\ Overlaps(f, r) => f \in GetOverlappingInputs(v, level, r)
           /\ level = 0 =>
                \A h \in v \ GetOverlappingInputs(v, level, r), f \in GetOverlappingInputs(v, level, r) :
                    h.level = 0 => ~Meet(h, f)
<1> DEFINE c == Closure(v, r)
           T == GetOverlappingInputs(v, level, r)
<1>1. T = {f \in v : f.level = level /\ Overlaps(f, IF level = 0 THEN c ELSE r)}
    BY DEF GetOverlappingInputs
<1>2. /\ c.begin \in Nat /\ c.end \in Nat /\ c.begin <= r.begin /\ r.end <= c.end /\ Closed(v, c)
      /\ r.begin \in Nat /\ r.end \in Nat
    <2>1. c \in Around(r) /\ Closed(v, c)  BY ClosureIs
    <2>2. r.begin \in Nat /\ r.end \in Nat  BY DEF KeyRanges, Keys
    <2>3. QED  BY <2>1, <2>2, LSMAssumption DEF Around
<1> HIDE DEF c, T
<1>3. \A f \in v : f.smallest.key \in Nat /\ f.largest.key \in Nat  BY FileFields
<1>4. \A f \in v : Overlaps(f, r) => Overlaps(f, c)  BY <1>2, <1>3 DEF Overlaps
<1>5. \A f \in v : f.level = level /\ Overlaps(f, r) => f \in T  BY <1>1, <1>4, Zenon
<1>6. ASSUME level = 0, NEW h \in v \ T, NEW f \in T, h.level = 0, Meet(h, f) PROVE FALSE
    <2>1. ~Overlaps(h, c) /\ Overlaps(f, c) /\ f \in v /\ f.level = 0  BY <1>1, <1>6
    <2>2. f.smallest.key >= c.begin /\ f.largest.key <= c.end  BY <1>2, <2>1 DEF Closed
    <2>3. QED  BY <1>2, <1>3, <1>6, <2>1, <2>2 DEF Meet, Overlaps
<1>7. T \subseteq v /\ \A f \in T : f.level = level  BY <1>1
<1>8. QED  BY <1>5, <1>6, <1>7 DEF T

\* What GetOverlappingInputs adds to some tables leaves no room between them either.
\* At level 0 the range would otherwise have stopped growing at the gap.
LEMMA SolidGrows ==
    ASSUME NEW v \in SUBSET FileMetaData, Ordered(v), NEW S \in SUBSET v, S # {}, Solid(S),
           NEW level \in Nat
    PROVE  Solid(S \cup GetOverlappingInputs(v, level, GetRange(S)))
<1> DEFINE r == GetRange(S)
           c == IF level = 0 THEN Closure(v, r) ELSE r
           T == GetOverlappingInputs(v, level, r)
<1>1. r \in KeyRanges  BY RangeIsProper DEF Ordered
<1>2. T = {f \in v : f.level = level /\ Overlaps(f, c)}  BY DEF GetOverlappingInputs
<1>3. r.begin \in Nat /\ r.end \in Nat /\ r.begin \in Keys /\ r.end \in Keys
    BY <1>1 DEF KeyRanges, Keys
<1>4. c.begin \in Nat /\ c.end \in Nat /\ c.begin <= r.begin /\ r.end <= c.end /\ c.end <= MaxKey
    <2>1. level = 0 => c \in Around(r)  BY <1>1, ClosureIs
    <2>2. level # 0 => c = r  OBVIOUS
    <2> HIDE DEF c, r
    <2>3. QED  BY <1>3, <2>1, <2>2, LSMAssumption DEF Around, Keys
<1>5. \A f \in v : f.smallest.key \in Nat /\ f.largest.key \in Nat /\ f.smallest.key <= f.largest.key
    BY FileFields DEF Ordered
<1>6. /\ \E f \in S : r.begin = f.smallest.key
      /\ \E f \in S : r.end = f.largest.key
      /\ \A f \in S : r.begin <= f.smallest.key /\ f.largest.key <= r.end
    BY RangeIs
<1>7. level = 0 => /\ Closed(v, c)
                   /\ \A d \in Around(r) : Closed(v, d) => d.begin <= c.begin /\ c.end <= d.end
    <2>1. level = 0 => c = Closure(v, r)  OBVIOUS
    <2> HIDE DEF c, r
    <2>2. QED  BY <1>1, <2>1, ClosureIs, Zenon
<1>8. level # 0 => c = r  OBVIOUS
<1> HIDE DEF c, r, T
<1>9. ASSUME NEW k \in Nat, c.begin <= k, k <= c.end PROVE \E f \in S \cup T : Covers(f, k)
    <2>1. CASE r.begin <= k /\ k <= r.end
        <3>1. \E f \in S : f.smallest.key <= k  BY <1>6, <2>1
        <3>2. \E f \in S : k <= f.largest.key  BY <1>6, <2>1
        <3>3. QED  BY <3>1, <3>2 DEF Solid
    <2>2. ASSUME k < r.begin, \A f \in T : ~Covers(f, k) PROVE FALSE
        <3>1. level = 0  BY <1>3, <1>8, <1>9, <2>2
        <3> DEFINE d == [begin |-> k + 1, end |-> c.end]
        <3>2. d \in Around(r)  BY <1>3, <1>4, <2>2, LSMAssumption DEF Around, Keys
        <3>3. ASSUME NEW f \in v, f.level = 0, Overlaps(f, d)
              PROVE  f.smallest.key >= d.begin /\ f.largest.key <= d.end
            <4>1. f.smallest.key <= c.end /\ k + 1 <= f.largest.key
                BY <1>5, <3>3 DEF Overlaps
            <4>2. Overlaps(f, c)  BY <1>4, <1>5, <1>9, <4>1 DEF Overlaps
            <4>3. f.largest.key <= c.end  BY <1>7, <3>1, <3>3, <4>2 DEF Closed
            <4>4. f \in T  BY <1>2, <3>1, <3>3, <4>2
            <4>5. ~Covers(f, k)  BY <2>2, <4>4
            <4>6. QED  BY <1>5, <4>1, <4>3, <4>5 DEF Covers
        <3>4. Closed(v, d)  BY <3>3 DEF Closed
        <3>5. d.begin <= c.begin  BY <1>7, <3>1, <3>2, <3>4
        <3>6. QED  BY <1>4, <1>9, <3>5
    <2>3. ASSUME r.end < k, \A f \in T : ~Covers(f, k) PROVE FALSE
        <3>1. level = 0  BY <1>3, <1>8, <1>9, <2>3
        <3> DEFINE d == [begin |-> c.begin, end |-> k - 1]
        <3>2. d \in Around(r)
            <4>1. /\ c.begin \in 1 .. r.begin
                  /\ k - 1 \in r.end .. MaxKey
                <5>1. c \in Around(r)  BY <1>1, <3>1, ClosureIs DEF c
                <5>2. QED  BY <1>3, <1>4, <1>9, <2>3, <5>1, LSMAssumption DEF Around
            <4>2. QED  BY <4>1 DEF Around
        <3>3. ASSUME NEW f \in v, f.level = 0, Overlaps(f, d)
              PROVE  f.smallest.key >= d.begin /\ f.largest.key <= d.end
            <4>1. f.smallest.key <= k - 1 /\ c.begin <= f.largest.key
                BY <1>4, <1>5, <3>3 DEF Overlaps
            <4>2. Overlaps(f, c)  BY <1>4, <1>5, <1>9, <4>1 DEF Overlaps
            <4>3. f.smallest.key >= c.begin  BY <1>7, <3>1, <3>3, <4>2 DEF Closed
            <4>4. f \in T  BY <1>2, <3>1, <3>3, <4>2
            <4>5. ~Covers(f, k)  BY <2>3, <4>4
            <4>6. QED  BY <1>5, <4>1, <4>3, <4>5 DEF Covers
        <3>4. Closed(v, d)  BY <3>3 DEF Closed
        <3>5. c.end <= d.end  BY <1>7, <3>1, <3>2, <3>4
        <3>6. QED  BY <1>4, <1>9, <3>5
    <2>4. QED  BY <1>3, <2>1, <2>2, <2>3
<1>10. \A f \in S \cup T : f \in v /\ f.smallest.key <= c.end /\ c.begin <= f.largest.key
    <2>1. \A f \in T : f \in v /\ f.smallest.key <= c.end /\ c.begin <= f.largest.key
        BY <1>2, <1>4, <1>5 DEF Overlaps
    <2>2. \A f \in S : f.smallest.key <= c.end /\ c.begin <= f.largest.key  BY <1>3, <1>4, <1>5, <1>6
    <2>3. QED  BY <2>1, <2>2
<1>11. ASSUME NEW k \in Nat, NEW x \in S \cup T, NEW y \in S \cup T,
              x.smallest.key <= k, k <= y.largest.key
       PROVE  \E f \in S \cup T : Covers(f, k)
    <2>1. CASE k < c.begin
        <3>1. Covers(x, k)  BY <1>4, <1>5, <1>10, <1>11, <2>1 DEF Covers
        <3>2. QED  BY <3>1
    <2>2. CASE c.end < k
        <3>1. Covers(y, k)  BY <1>4, <1>5, <1>10, <1>11, <2>2 DEF Covers
        <3>2. QED  BY <3>1
    <2>3. QED  BY <1>4, <1>9, <2>1, <2>2
<1>12. Solid(S \cup T)  BY <1>11 DEF Solid
<1>13. QED  BY <1>12 DEF T, r
-----------------------------------------------------------------------------
(* The tables of a version *)

LEMMA TablesAre ==
    ASSUME TypeOK, DataInv
    PROVE  /\ files \in SUBSET FileMetaData /\ Ordered(files)
           /\ \A f \in files : Whole(f) /\ \A e \in f.data : e \in Entry /\ Covers(f, e.key)
<1>1. files \in SUBSET FileMetaData  BY DEF TypeOK
<1>2. \A f \in files : Whole(f)  BY DEF DataInv
<1>3. \A f \in files : \A e \in f.data : e \in Entry /\ Covers(f, e.key)  BY <1>1, <1>2, BoundKeys, Zenon
<1>4. \A f \in files : f.smallest.key <= f.largest.key
    BY <1>2, <1>3 DEF Whole, Covers
<1>5. QED  BY <1>1, <1>2, <1>3, <1>4 DEF Ordered

\* When Version::Get comes to one table before another
LEMMA TurnsAre ==
    ASSUME NEW f \in FileMetaData, NEW g \in FileMetaData
    PROVE  /\ Turn(f) < Turn(g) <=>
                f.level < g.level \/ (f.level = 0 /\ g.level = 0 /\ g.number < f.number)
           /\ Turn(f) = Turn(g) <=>
                f.level = g.level /\ (f.level = 0 => f.number = g.number)
           /\ Turn(f) \in Int /\ Turn(g) \in Int
<1>1. /\ f.level \in Nat /\ f.number \in Nat /\ g.level \in Nat /\ g.number \in Nat
      /\ MaxSequence \in Nat
    BY FileFields, LSMAssumption
<1>2. QED  BY <1>1 DEF Turn

LEMMA KeyMeets ==
    ASSUME NEW f \in FileMetaData, NEW g \in FileMetaData, NEW k \in Nat, Covers(f, k), Covers(g, k)
    PROVE  Meet(f, g)
<1>1. /\ f.smallest.key \in Nat /\ f.largest.key \in Nat
      /\ g.smallest.key \in Nat /\ g.largest.key \in Nat
    BY FileFields
<1>2. QED  BY <1>1 DEF Covers, Meet

LEMMA MeetSymmetric == \A f, g : Meet(f, g) => Meet(g, f)
BY DEF Meet

\* Two tables with entries for a key have different turns.
LEMMA TurnsDiffer ==
    ASSUME TypeOK, DataInv, Apart, NEW f \in files, NEW g \in files, Meet(f, g), Turn(f) = Turn(g)
    PROVE  f = g
<1>1. f \in FileMetaData /\ g \in FileMetaData  BY DEF TypeOK
<1>2. f.level = g.level /\ (f.level = 0 => f.number = g.number) /\ f.level \in Nat
    BY <1>1, TurnsAre, FileFields
<1>3. CASE f.level = 0  BY <1>2, <1>3 DEF DataInv
<1>4. CASE f.level > 0  BY <1>2, <1>4 DEF Apart, ApartIn
<1>5. QED  BY <1>2, <1>3, <1>4

\* No entry is in two tables.
LEMMA EntryOnce ==
    ASSUME TypeOK, DataInv, Apart, NewerFirst,
           NEW f \in files, NEW g \in files, NEW e \in f.data, e \in g.data
    PROVE  f = g
<1>1. f \in FileMetaData /\ g \in FileMetaData  BY DEF TypeOK
<1>2. e \in Entry /\ Covers(f, e.key) /\ Covers(g, e.key)  BY TablesAre
<1>3. e.key \in Nat /\ e.seq \in Nat  BY <1>2, EntryFields
<1>4. Meet(f, g)  BY <1>1, <1>2, <1>3, KeyMeets
<1>5. f # g => ~(Turn(f) < Turn(g)) /\ ~(Turn(g) < Turn(f))
    <2>1. ~(e.seq > e.seq)  BY <1>3
    <2>2. QED  BY <2>1, Zenon DEF NewerFirst
<1>6. Turn(f) \in Int /\ Turn(g) \in Int  BY <1>1, TurnsAre
<1>7. QED  BY <1>4, <1>5, <1>6, TurnsDiffer

LEMMA FilesFinite ==
    ASSUME TypeOK, DataInv, Apart, NewerFirst
    PROVE  IsFiniteSet(files)
<1> DEFINE g == [f \in files |-> f.smallest.seq]
<1>1. \A f \in files : f.smallest \in f.data /\ f.smallest \in Entry /\ f.smallest \in AllEntries
    BY TablesAre, FileFields DEF Whole, AllEntries, TableEntries
<1>2. g \in [files -> 1 .. MaxSequence]  BY <1>1, EntryFields
<1>3. ASSUME NEW f \in files, NEW h \in files, g[f] = g[h] PROVE f = h
    <2>1. f.smallest.seq = h.smallest.seq  BY <1>3
    <2>2. f.smallest = h.smallest  BY <1>1, <2>1 DEF DataInv, UniqueIn
    <2>3. QED  BY <1>1, <2>2, EntryOnce
<1>4. g \in Injection(files, 1 .. MaxSequence)  BY <1>2, <1>3 DEF Injection, IsInjective
<1>5. IsFiniteSet(1 .. MaxSequence)  BY FS_Interval, LSMAssumption
<1> HIDE DEF g
<1>6. QED  BY <1>4, <1>5, FS_Injection

\* SetupOtherInputs: no table of the two levels that stays out meets one that is in,
\* unless it is a table of this level and meets one of the next.
Chosen(level, inputs) ==
    /\ inputs \subseteq files
    /\ \A f \in inputs : f.level \in {level, level + 1}
    /\ \A h \in files \ inputs, f \in inputs : Meet(h, f) =>
        h.level # level + 1 /\ (h.level = level => f.level # level)

LEMMA ChosenFrom ==
    ASSUME TypeOK, DataInv, Apart, NEW level \in 0 .. NumLevels - 2,
           NEW in0 \in SUBSET files, in0 # {}, \A f \in in0 : f.level = level,
           level = 0 => \A h \in files \ in0, f \in in0 : h.level = 0 => ~Meet(h, f)
    PROVE  Chosen(level, in0 \cup GetOverlappingInputs(files, level + 1, GetRange(in0)))
<1> DEFINE in1 == GetOverlappingInputs(files, level + 1, GetRange(in0))
<1>1. level \in Nat /\ level + 1 \in Nat /\ level + 1 # 0 /\ level # level + 1  BY LSMAssumption
<1>2. files \in SUBSET FileMetaData /\ Ordered(files)  BY TablesAre
<1>3. GetRange(in0) \in KeyRanges  BY <1>2, RangeIsProper DEF Ordered
<1>4. /\ in1 \subseteq files /\ \A f \in in1 : f.level = level + 1
      /\ \A f \in files : f.level = level + 1 /\ Overlaps(f, GetRange(in0)) => f \in in1
    BY <1>1, <1>2, <1>3, OverlappingAre
<1> HIDE DEF in1
<1>5. ASSUME NEW h \in files \ (in0 \cup in1), NEW f \in in0 \cup in1, Meet(h, f)
      PROVE  h.level # level + 1 /\ (h.level = level => f.level # level)
    <2>1. CASE f \in in0
        <3>1. Overlaps(h, GetRange(in0))  BY <1>2, <1>5, <2>1, MeetsRange
        <3>2. h.level # level + 1  BY <1>4, <3>1
        <3>3. ASSUME h.level = level PROVE FALSE
            <4>1. level # 0  BY <1>5, <2>1, <3>3
            <4>2. h # f /\ f.level = h.level /\ h.level > 0  BY <1>1, <2>1, <3>3, <4>1
            <4>3. QED  BY <1>5, <2>1, <4>2 DEF Apart, ApartIn
        <3>4. QED  BY <3>2, <3>3
    <2>2. CASE f \in in1
        <3>1. f.level = level + 1 /\ f \in files /\ h # f /\ level + 1 > 0  BY <1>1, <1>4, <2>2
        <3>2. h.level # level + 1  BY <1>5, <3>1 DEF Apart, ApartIn
        <3>3. QED  BY <1>1, <3>1, <3>2
    <2>3. QED  BY <2>1, <2>2
<1>6. QED  BY <1>4, <1>5 DEF Chosen, in1

LEMMA InputsAre ==
    ASSUME TypeOK, DataInv, Apart, NewerFirst, NEW level \in 0 .. NumLevels - 2,
           NEW in0 \in SUBSET files, in0 # {}, \A f \in in0 : f.level = level,
           level = 0 => \A h \in files \ in0, f \in in0 : h.level = 0 => ~Meet(h, f),
           NEW inputs \in AllInputs(level, in0)
    PROVE  /\ Chosen(level, inputs) /\ in0 \subseteq inputs
           /\ Solid(in0) => Solid(inputs)
<1> DEFINE in1 == GetOverlappingInputs(files, level + 1, GetRange(in0))
           ex0 == GetOverlappingInputs(files, level, GetRange(in0 \cup in1))
           ex1 == GetOverlappingInputs(files, level + 1, GetRange(ex0))
<1>1. \/ inputs = in0 \cup in1
      \/ inputs = ex0 \cup ex1 /\ Cardinality(ex1) = Cardinality(in1)
    BY DEF AllInputs
<1>2. files \in SUBSET FileMetaData /\ Ordered(files)  BY TablesAre
<1>3. level \in Nat /\ level + 1 \in Nat  BY LSMAssumption
<1>4. in1 \subseteq files /\ Chosen(level, in0 \cup in1)
    <2>1. GetRange(in0) \in KeyRanges  BY <1>2, RangeIsProper DEF Ordered
    <2>2. QED  BY <1>2, <1>3, <2>1, OverlappingAre, ChosenFrom
<1>5. Solid(in0) => Solid(in0 \cup in1)  BY <1>2, <1>3, SolidGrows
<1> HIDE DEF in1
<1>6. CASE inputs = in0 \cup in1  BY <1>4, <1>5, <1>6
<1>7. CASE inputs = ex0 \cup ex1 /\ Cardinality(ex1) = Cardinality(in1)
    <2>1. GetRange(in0 \cup in1) \in KeyRanges /\ in0 \cup in1 \in SUBSET files /\ in0 \cup in1 # {}
        BY <1>2, <1>4, RangeIsProper DEF Ordered
    <2>2. /\ ex0 \subseteq files /\ \A f \in ex0 : f.level = level
          /\ \A f \in files : f.level = level /\ Overlaps(f, GetRange(in0 \cup in1)) => f \in ex0
          /\ level = 0 => \A h \in files \ ex0, f \in ex0 : h.level = 0 => ~Meet(h, f)
        BY <1>2, <1>3, <2>1, OverlappingAre
    <2>3. Solid(in0 \cup in1) => Solid((in0 \cup in1) \cup ex0)  BY <1>2, <1>3, <2>1, SolidGrows
    <2> HIDE DEF ex0
    <2>4. in0 \subseteq ex0
        <3>1. ASSUME NEW f \in in0 PROVE f \in ex0
            <4>1. Meet(f, f) /\ f \in FileMetaData  BY <1>2 DEF Ordered, Meet
            <4>2. Overlaps(f, GetRange(in0 \cup in1))  BY <1>2, <2>1, <4>1, MeetsRange
            <4>3. QED  BY <2>2, <4>2
        <3>2. QED  BY <3>1
    <2>5. Chosen(level, ex0 \cup ex1) /\ ex1 \subseteq files
        <3>1. ex0 # {} /\ ex0 \in SUBSET files  BY <2>2, <2>4
        <3>2. GetRange(ex0) \in KeyRanges  BY <1>2, <3>1, RangeIsProper DEF Ordered
        <3>3. QED  BY <1>2, <1>3, <2>2, <3>1, <3>2, OverlappingAre, ChosenFrom
    <2>6. in1 \subseteq ex1
        <3>1. ASSUME NEW f \in in1 PROVE f \in ex1
            <4>1. /\ f \in files /\ f.level = level + 1 /\ Overlaps(f, GetRange(in0))
                <5>1. QED  BY <1>3 DEF in1, GetOverlappingInputs
            <4>2. Overlaps(f, GetRange(ex0))
                <5>1. PICK a \in in0 : GetRange(in0).begin = a.smallest.key  BY <1>2, RangeIs
                <5>2. PICK b \in in0 : GetRange(in0).end = b.largest.key  BY <1>2, RangeIs
                <5>3. /\ GetRange(ex0).begin <= a.smallest.key /\ b.largest.key <= GetRange(ex0).end
                      /\ GetRange(ex0).begin \in Nat /\ GetRange(ex0).end \in Nat
                    BY <1>2, <2>2, <2>4, RangeIs DEF Keys
                <5>4. /\ f.smallest.key \in Nat /\ f.largest.key \in Nat
                      /\ a.smallest.key \in Nat /\ b.largest.key \in Nat
                    BY <1>2, <4>1, FileFields
                <5>5. QED  BY <4>1, <5>1, <5>2, <5>3, <5>4 DEF Overlaps
            <4>3. ex0 # {} /\ ex0 \in SUBSET FileMetaData /\ Ordered(ex0)
                BY <1>2, <2>2, <2>4 DEF Ordered
            <4>4. GetRange(ex0) \in KeyRanges  BY <4>3, RangeIsProper
            <4>5. QED  BY <1>2, <1>3, <4>1, <4>2, <4>4, OverlappingAre
        <3>2. QED  BY <3>1
    <2> HIDE DEF ex1
    <2>7. in1 = ex1
        <3>1. IsFiniteSet(ex1)  BY <2>5, FilesFinite, FS_Subset
        <3>2. QED  BY <1>7, <2>6, <3>1, FS_Subset
    <2>8. (in0 \cup in1) \cup ex0 = ex0 \cup ex1  BY <2>4, <2>7
    <2>9. QED  BY <1>5, <1>7, <2>3, <2>4, <2>5, <2>8
<1>8. QED  BY <1>1, <1>6, <1>7
-----------------------------------------------------------------------------
(* Reads *)

\* What a client is told of a key: what the newest entry that its snapshot sees says,
\* in the form that goes with the place of the entry.
Says(es, m) ==
    LET found == {e \in es : e.type = "value"}
    IN  IF found = {} THEN NULL
        ELSE [put |-> (CHOOSE e \in found : TRUE).seq, stored |-> (CHOOSE e \in found : TRUE) \notin m]

Answer(data, m, k, s) == Says(Seen(data, k, s), m)

LEMMA InSeen ==
    ASSUME NEW data, NEW k, NEW s
    PROVE  \A e : e \in Seen(data, k, s) <=>
            /\ e \in data /\ e.key = k /\ e.seq <= s
            /\ \A d \in data : d.key = k /\ d.seq <= s => d.seq <= e.seq
BY Zenon DEF Seen

LEMMA SeenExists ==
    ASSUME NEW data \in SUBSET Entry, NEW k, NEW s, NEW e \in data, e.key = k, e.seq <= s
    PROVE  Seen(data, k, s) # {}
<1> DEFINE es == {d \in data : d.key = k /\ d.seq <= s}
<1>1. es \in SUBSET Entry /\ es # {}  OBVIOUS
<1>2. PICK n \in es : \A d \in es : d.seq <= n.seq
    <2> HIDE DEF es
    <2>1. QED  BY <1>1, NewestIs
<1>3. n \in Seen(data, k, s)  BY <1>2, InSeen
<1>4. QED  BY <1>3

LEMMA EntriesAre ==
    ASSUME TypeOK
    PROVE  /\ AllEntries \in SUBSET Entry /\ TableEntries \in SUBSET Entry /\ mem_ \in SUBSET Entry
           /\ \A f \in files : f.data \in SUBSET Entry
           /\ \A e : e \in AllEntries <=> e \in mem_ \/ \E f \in files : e \in f.data
           /\ \A e : e \in TableEntries <=> \E f \in files : e \in f.data
<1>1. \A f \in files : f.data \in SUBSET Entry  BY FileFields DEF TypeOK
<1>2. \A e : e \in TableEntries <=> \E f \in files : e \in f.data  BY Zenon DEF TableEntries
<1>3. mem_ \in SUBSET Entry  BY DEF TypeOK
<1>4. QED  BY <1>1, <1>2, <1>3, Zenon DEF AllEntries

\* Version::Get looks into every table that has an entry to find: at level 0 into all
\* that have the key in their range; below, FindFile finds the one that has it.
LEMMA HitIsSearched ==
    ASSUME TypeOK, DataInv, Apart, NEW k \in Nat, NEW s \in Nat,
           NEW f \in files, NEW e \in f.data, e.key = k, e.seq <= s
    PROVE  f \in Searched(files, k, s)
<1>1. f \in FileMetaData /\ Whole(f) /\ Covers(f, k) /\ e \in Entry  BY TablesAre
<1>2. f.smallest.key <= k /\ k <= f.largest.key  BY <1>1 DEF Covers
<1>3. f.level \in Levels /\ f.smallest.key \in Nat /\ f.largest.key \in Nat /\ f.largest.seq \in Nat
      /\ f.level \in Nat /\ e.seq \in Nat
    BY <1>1, FileFields, EntryFields
<1>4. CASE f.level = 0
    <2>1. Overlaps(f, [begin |-> k, end |-> k])  BY <1>2, <1>3 DEF Overlaps
    <2>2. QED  BY <1>4, <2>1 DEF Searched
<1>5. CASE f.level # 0
    <2> DEFINE to == [key |-> k, seq |-> s]
               after == {g \in files : g.level = f.level /\ ~Before(g.largest, to)}
    <2>1. ~Before(f.largest, to)
        <3>1. e = f.largest \/ Before(e, f.largest)  BY <1>1 DEF Whole
        <3>2. QED  BY <1>2, <1>3, <3>1 DEF Before
    <2>2. ASSUME NEW g \in after PROVE g = f \/ Before(f.largest, g.largest)
        <3>1. SUFFICES ASSUME g # f PROVE Before(f.largest, g.largest)  OBVIOUS
        <3>2. g \in files /\ g.level = f.level /\ ~Before(g.largest, to)  OBVIOUS
        <3>3. g \in FileMetaData /\ g.smallest.key <= g.largest.key
            BY <3>2, TablesAre DEF Ordered
        <3>4. g.smallest.key \in Nat /\ g.largest.key \in Nat  BY <3>3, FileFields
        <3>5. ~Meet(f, g)  BY <1>3, <1>5, <3>1, <3>2 DEF Apart, ApartIn
        <3>6. k <= g.largest.key  BY <3>2, <3>4 DEF Before
        <3>7. f.largest.key < g.largest.key  BY <1>2, <1>3, <3>3, <3>4, <3>5, <3>6 DEF Meet
        <3>8. QED  BY <3>7 DEF Before
    <2>3. f \in FindFile(files, f.level, k, s)
        <3>1. k >= f.smallest.key  BY <1>2, <1>3
        <3>2. f \in after  BY <2>1
        <3>3. FindFile(files, f.level, k, s) =
                {h \in after : (\A g \in after : g = h \/ Before(h.largest, g.largest))
                               /\ k >= h.smallest.key}
            BY Zenon DEF FindFile
        <3> HIDE DEF after
        <3>4. QED  BY <2>2, <3>1, <3>2, <3>3
    <2>4. f.level \in Levels \ {0}  BY <1>3, <1>5
    <2>5. QED  BY <2>3, <2>4 DEF Searched
<1>6. QED  BY <1>4, <1>5

LEMMA SearchedAreFiles == \A k, s : Searched(files, k, s) \subseteq files
<1> TAKE k, s
<1>1. \A l : FindFile(files, l, k, s) \subseteq files  BY DEF FindFile
<1>2. QED  BY <1>1 DEF Searched

\* Version::Get finds the newest entry of all that its snapshot sees, wherever it is.
LEMMA FoundIsNewest ==
    ASSUME TypeOK, DataInv, Apart, NewerFirst, NEW k \in Nat, NEW s \in Nat
    PROVE  Found(k, s) = Seen(AllEntries, k, s)
<1>1. /\ AllEntries \in SUBSET Entry /\ TableEntries \in SUBSET Entry /\ mem_ \in SUBSET Entry
      /\ \A f \in files : f.data \in SUBSET Entry
      /\ \A e : e \in AllEntries <=> e \in mem_ \/ \E f \in files : e \in f.data
      /\ \A e : e \in TableEntries <=> \E f \in files : e \in f.data
    BY EntriesAre
<1>2. \A e \in AllEntries : e.seq \in Nat  BY <1>1, EntryFields
<1>3. \A d \in mem_, f \in files : \A e \in f.data : e.seq < d.seq  BY <1>1 DEF DataInv
<1>4. CASE Seen(mem_, k, s) # {}
    <2>1. Found(k, s) = Seen(mem_, k, s)  BY <1>4 DEF Found
    <2>2. PICK m : m \in Seen(mem_, k, s)  BY <1>4
    <2>3. m \in mem_ /\ m.key = k /\ m.seq <= s /\ m.seq \in Nat  BY <1>1, <1>2, <2>2, InSeen
    <2>4. ASSUME NEW e \in Seen(mem_, k, s) PROVE e \in Seen(AllEntries, k, s)
        <3>1. /\ e \in mem_ /\ e.key = k /\ e.seq <= s /\ e \in AllEntries /\ e.seq \in Nat
              /\ \A d \in mem_ : d.key = k /\ d.seq <= s => d.seq <= e.seq
            BY <1>1, <1>2, InSeen
        <3>2. \A d \in AllEntries : d.key = k /\ d.seq <= s => d.seq <= e.seq
            <4>1. TAKE d \in AllEntries
            <4>2. CASE d \in mem_  BY <3>1, <4>2
            <4>3. CASE \E f \in files : d \in f.data
                <5>1. d.seq < e.seq  BY <1>3, <3>1, <4>3
                <5>2. QED  BY <1>2, <3>1, <5>1
            <4>4. QED  BY <1>1, <4>2, <4>3
        <3>3. QED  BY <3>1, <3>2, InSeen
    <2>5. ASSUME NEW e \in Seen(AllEntries, k, s) PROVE e \in Seen(mem_, k, s)
        <3>1. /\ e \in AllEntries /\ e.key = k /\ e.seq <= s /\ e.seq \in Nat
              /\ \A d \in AllEntries : d.key = k /\ d.seq <= s => d.seq <= e.seq
            BY <1>2, InSeen
        <3>2. m.seq <= e.seq  BY <1>1, <2>3, <3>1
        <3>3. e \in mem_
            <4>1. ASSUME NEW f \in files, e \in f.data PROVE FALSE
                <5>1. e.seq < m.seq  BY <1>3, <2>3, <4>1
                <5>2. QED  BY <2>3, <3>1, <3>2, <5>1
            <4>2. QED  BY <1>1, <3>1, <4>1
        <3>4. QED  BY <1>1, <3>1, <3>3, InSeen
    <2>6. QED  BY <2>1, <2>4, <2>5
<1>5. CASE Seen(mem_, k, s) = {}
    <2> DEFINE Hits == {f \in files : Seen(f.data, k, s) # {}}
               ahead == {h \in Hits : \A g \in Hits : Turn(h) <= Turn(g)}
    <2>1. {f \in Searched(files, k, s) : Seen(f.data, k, s) # {}} = Hits
        <3>1. ASSUME NEW f \in files, Seen(f.data, k, s) # {} PROVE f \in Searched(files, k, s)
            <4>1. PICK e : e \in Seen(f.data, k, s)  BY <3>1
            <4>2. e \in f.data /\ e.key = k /\ e.seq <= s  BY <4>1, InSeen
            <4>3. QED  BY <4>2, HitIsSearched
        <3>2. QED  BY <3>1, SearchedAreFiles
    <2>2. Found(k, s) = UNION {Seen(f.data, k, s) : f \in ahead}  BY <1>5, <2>1 DEF Found
    <2>3. \A d \in mem_ : ~(d.key = k /\ d.seq <= s)  BY <1>1, <1>5, SeenExists
    <2>4. \A f \in files : f \in Hits <=> \E d \in f.data : d.key = k /\ d.seq <= s
        <3>1. ASSUME NEW f \in files, NEW d \in f.data, d.key = k, d.seq <= s PROVE f \in Hits
            BY <1>1, <3>1, SeenExists
        <3>2. ASSUME NEW f \in Hits PROVE \E d \in f.data : d.key = k /\ d.seq <= s
            BY InSeen
        <3>3. QED  BY <3>1, <3>2
    <2>5. ASSUME NEW f \in files, NEW g \in files, f # g, NEW d \in f.data, NEW e \in g.data,
                 d.key = k, e.key = k
          PROVE  Turn(f) < Turn(g) \/ Turn(g) < Turn(f)
        <3>1. f \in FileMetaData /\ g \in FileMetaData /\ Covers(f, k) /\ Covers(g, k)
            BY <2>5, TablesAre
        <3>2. Meet(f, g)  BY <3>1, KeyMeets
        <3>3. Turn(f) # Turn(g)  BY <2>5, <3>2, TurnsDiffer
        <3>4. QED  BY <3>1, <3>3, TurnsAre
    <2>6. \A f, g \in files : Turn(f) <= Turn(g) <=> ~(Turn(g) < Turn(f))  BY TurnsAre DEF TypeOK
    <2>7. ASSUME NEW h \in ahead, NEW e \in Seen(h.data, k, s) PROVE e \in Seen(AllEntries, k, s)
        <3>1. /\ h \in files /\ h \in Hits /\ e \in h.data /\ e.key = k /\ e.seq <= s
              /\ e \in AllEntries /\ e.seq \in Nat
              /\ \A d \in h.data : d.key = k /\ d.seq <= s => d.seq <= e.seq
            BY <1>1, <1>2, InSeen
        <3>2. ASSUME NEW d \in AllEntries, d.key = k, d.seq <= s PROVE d.seq <= e.seq
            <4>1. PICK g \in files : d \in g.data  BY <1>1, <2>3, <3>2
            <4>2. CASE g = h  BY <3>1, <3>2, <4>1, <4>2
            <4>3. CASE g # h
                <5>1. g \in Hits  BY <2>4, <3>2, <4>1
                <5>2. ~(Turn(g) < Turn(h))  BY <2>6, <3>1, <5>1
                <5>3. Turn(h) < Turn(g)  BY <2>5, <3>1, <3>2, <4>1, <4>3, <5>2
                <5>4. e.seq > d.seq  BY <3>1, <3>2, <4>1, <4>3, <5>3 DEF NewerFirst
                <5>5. QED  BY <1>2, <3>1, <5>4
            <4>4. QED  BY <4>2, <4>3
        <3>3. QED  BY <3>1, <3>2, InSeen
    <2>8. ASSUME NEW e \in Seen(AllEntries, k, s) PROVE \E h \in ahead : e \in Seen(h.data, k, s)
        <3>1. /\ e \in AllEntries /\ e.key = k /\ e.seq <= s /\ e.seq \in Nat
              /\ \A d \in AllEntries : d.key = k /\ d.seq <= s => d.seq <= e.seq
            BY <1>2, InSeen
        <3>2. PICK h \in files : e \in h.data  BY <1>1, <2>3, <3>1
        <3>3. e \in Seen(h.data, k, s)  BY <1>1, <3>1, <3>2, InSeen
        <3>4. h \in Hits  BY <3>3
        <3>5. ASSUME NEW g \in Hits, Turn(g) < Turn(h) PROVE FALSE
            <4>1. PICK d \in g.data : d.key = k /\ d.seq <= s  BY <2>4
            <4>2. g \in files /\ d \in AllEntries  BY <1>1, <4>1
            <4>3. g # h
                <5>1. Turn(h) \in Int  BY <3>2, TurnsAre DEF TypeOK
                <5>2. QED  BY <3>5, <5>1
            <4>4. d.seq > e.seq  BY <3>1, <3>2, <3>5, <4>1, <4>2, <4>3 DEF NewerFirst
            <4>5. d.seq <= e.seq  BY <3>1, <4>1, <4>2
            <4>6. QED  BY <1>2, <3>1, <4>2, <4>4, <4>5
        <3>6. h \in ahead  BY <2>6, <3>2, <3>4, <3>5
        <3>7. QED  BY <3>3, <3>6
    <2>9. QED  BY <2>2, <2>7, <2>8
<1>6. QED  BY <1>4, <1>5

LEMMA GetIs ==
    ASSUME TypeOK, DataInv, Apart, NewerFirst, NEW k \in Nat, NEW s \in Nat
    PROVE  Get(k, s) = Answer(AllEntries, mem_, k, s)
<1>1. Get(k, s) = Says(Found(k, s), mem_)  BY DEF Get, Says, Value
<1>2. QED  BY <1>1, FoundIsNewest, Zenon DEF Answer
-----------------------------------------------------------------------------
(* New tables *)

LEMMA NewNumberIs ==
    ASSUME TypeOK, DataInv
    PROVE  /\ NewNumber \in Nat /\ NewNumber > 0 /\ \A f \in files : f.number < NewNumber
           /\ NewNumber = 1 \/ \E f \in files : NewNumber = f.number + 1
<1> DEFINE used == {0} \cup {f.number : f \in files}
<1>1. \A f \in files : f.number \in Nat /\ f.number <= MaxSequence
    <2>1. TAKE f \in files
    <2>2. f \in FileMetaData /\ f.smallest \in f.data  BY TablesAre DEF Whole
    <2>3. f.smallest.seq \in 1 .. MaxSequence /\ f.number \in Nat  BY <2>2, FileFields, EntryFields
    <2>4. f.number <= f.smallest.seq  BY <2>2 DEF DataInv
    <2>5. QED  BY <2>3, <2>4, LSMAssumption
<1>2. used \in SUBSET Nat /\ used # {} /\ \A n \in used : n <= MaxSequence
    BY <1>1, LSMAssumption
<1>3. \E n \in used : \A m \in used : m <= n
    <2> HIDE DEF used
    <2>1. QED  BY <1>2, GreatestNumber, LSMAssumption
<1> DEFINE n == CHOOSE x \in used : \A m \in used : m <= x
<1>4. NewNumber = 1 + n  BY DEF NewNumber
<1>5. n \in used /\ \A m \in used : m <= n  BY <1>3, Zenon
<1> HIDE DEF n
<1>6. n \in Nat /\ \A f \in files : f.number <= n  BY <1>2, <1>5
<1>7. n = 0 \/ \E f \in files : n = f.number  BY <1>5
<1>8. QED  BY <1>1, <1>4, <1>6, <1>7

LEMMA NewTableIs ==
    ASSUME NEW level \in Levels, NEW data \in SUBSET Entry, data # {}, UniqueIn(data), NewNumber \in Nat
    PROVE  /\ NewTable(level, data) \in FileMetaData /\ Whole(NewTable(level, data))
           /\ NewTable(level, data).level = level /\ NewTable(level, data).data = data
           /\ NewTable(level, data).number = IF level = 0 THEN NewNumber ELSE 0
           /\ NewTable(level, data).smallest = Smallest(data)
           /\ NewTable(level, data).largest = Largest(data)
<1> DEFINE t == NewTable(level, data)
<1>1. t = [level |-> level, number |-> IF level = 0 THEN NewNumber ELSE 0, data |-> data,
           smallest |-> Smallest(data), largest |-> Largest(data)]
    BY DEF NewTable
<1>2. /\ t.level = level /\ t.data = data /\ t.number = IF level = 0 THEN NewNumber ELSE 0
      /\ t.smallest = Smallest(data) /\ t.largest = Largest(data)
    BY <1>1
<1>3. Smallest(data) \in Entry /\ Largest(data) \in Entry  BY BoundsAre
<1>4. t \in FileMetaData
    <2>1. (IF level = 0 THEN NewNumber ELSE 0) \in Nat  OBVIOUS
    <2>2. QED  BY <1>1, <1>3, <2>1 DEF FileMetaData
<1> HIDE DEF t
<1>5. Whole(t)  BY <1>2, BoundsAre DEF Whole
<1>6. QED  BY <1>2, <1>4, <1>5 DEF t

LEMMA ApartDisjoint ==
    ASSUME NEW fs \in SUBSET FileMetaData, ApartIn(fs)
    PROVE  Disjoint(fs)
<1> SUFFICES ASSUME NEW f \in fs, NEW g \in fs, f # g, f.level = g.level, f.level > 0
             PROVE  Before(f.largest, g.smallest) \/ Before(g.largest, f.smallest)
    BY DEF Disjoint
<1>1. ~Meet(f, g)  BY DEF ApartIn
<1>2. /\ f.smallest.key \in Nat /\ f.largest.key \in Nat
      /\ g.smallest.key \in Nat /\ g.largest.key \in Nat
    BY FileFields
<1>3. QED  BY <1>1, <1>2 DEF Meet, Before
-----------------------------------------------------------------------------
(* Steps that leave the tables alone *)

LEMMA InitHolds == ASSUME KeysTogether, Init PROVE IInv
<1>1. mem_ = {} /\ files = {} /\ last_sequence_ = 0 /\ compact = NULL /\ aborted = FALSE
      /\ snapshots_ = [i \in SnapshotIds |-> NULL] /\ setup \in Setups
    BY DEF Init
<1>2. TypeOK  BY <1>1, LSMAssumption DEF TypeOK
<1>3. AllEntries = {} /\ TableEntries = {}  BY <1>1 DEF AllEntries, TableEntries
<1>4. DataInv  BY <1>1, <1>3 DEF DataInv, UniqueIn
<1>5. Apart /\ NewerFirst  BY <1>1 DEF Apart, ApartIn, NewerFirst
<1>6. ClientInv  BY <1>1 DEF ClientInv, KeysTogether
<1>7. QED  BY <1>1, <1>2, <1>4, <1>5, <1>6 DEF IInv

LEMMA SameFiles ==
    ASSUME Apart, NewerFirst, files' = files
    PROVE  Apart' /\ NewerFirst' /\ TableEntries' = TableEntries
<1>1. Apart'  BY DEF Apart, ApartIn
<1>2. NewerFirst'  BY Zenon DEF NewerFirst, Turn
<1>3. TableEntries' = TableEntries  BY DEF TableEntries
<1>4. QED  BY <1>1, <1>2, <1>3

LEMMA SetupIs ==
    ASSUME ClientInv
    PROVE  /\ setup.keys \subseteq Keys /\ setup.outputs \in Nat \ {0}
           /\ setup.snapshots \in BOOLEAN /\ setup.manual \in BOOLEAN
           /\ setup.types \subseteq {"value", "deletion"} /\ setup.writes \in 0 .. MaxSequence
BY LSMAssumption DEF ClientInv

LEMMA SnapshotTypes ==
    ASSUME TypeOK
    PROVE  /\ last_sequence_ \in Nat /\ last_sequence_ <= MaxSequence /\ MaxSequence \in Nat
           /\ \A i \in SnapshotIds : snapshots_[i] # NULL => snapshots_[i] \in Nat
BY LSMAssumption DEF TypeOK

LEMMA WriteStep == ASSUME IInv, Write PROVE IInv'
<1>1. /\ last_sequence_' = last_sequence_ + 1 /\ ~aborted
      /\ UNCHANGED <<files, snapshots_, compact, aborted, setup>>
    BY DEF Write
<1>2. PICK k \in setup.keys, t \in setup.types :
        mem_' = mem_ \cup {[key |-> k, seq |-> last_sequence_', type |-> t]}
    BY DEF Write
<1> DEFINE n == [key |-> k, seq |-> last_sequence_', type |-> t]
<1>3. last_sequence_ \in Nat /\ MaxSequence \in Nat /\ last_sequence_ < MaxSequence
    <2>1. last_sequence_ < setup.writes  BY DEF Write
    <2>2. QED  BY <2>1, SnapshotTypes, SetupIs DEF IInv
<1>4. k \in Keys /\ t \in {"value", "deletion"}  BY SetupIs DEF IInv
<1>5. n \in Entry /\ n.seq = last_sequence_ + 1  BY <1>1, <1>3, <1>4 DEF Entry
<1> HIDE DEF n
<1>6. mem_' = mem_ \cup {n}  BY <1>2 DEF n
<1>7. TypeOK'
    <2>1. last_sequence_' \in 0 .. MaxSequence  BY <1>1, <1>3
    <2>2. mem_' \subseteq Entry  BY <1>5, <1>6 DEF IInv, TypeOK
    <2>3. QED  BY <1>1, <2>1, <2>2 DEF IInv, TypeOK
<1>8. Apart' /\ NewerFirst' /\ TableEntries' = TableEntries  BY <1>1, SameFiles DEF IInv
<1>9. AllEntries' = AllEntries \cup {n} /\ AllEntries \subseteq Entry /\ TableEntries \subseteq AllEntries
      /\ mem_ \subseteq AllEntries
    BY <1>6, <1>8, EntriesAre DEF AllEntries, IInv
<1>10. \A e \in AllEntries : e.seq \in Nat /\ e.seq <= last_sequence_ /\ e.seq < n.seq
    <2>1. \A e \in AllEntries : e.seq \in Nat /\ e.seq <= last_sequence_
        BY <1>9, EntryFields DEF IInv, DataInv
    <2>2. QED  BY <1>3, <1>5, <2>1
<1>11. DataInv'
    <2>1. UniqueIn(AllEntries)'
        <3>1. UniqueIn(AllEntries)  BY DEF IInv, DataInv
        <3>2. \A d, e \in AllEntries \cup {n} : d.seq = e.seq => d = e
            BY <1>10, <3>1 DEF UniqueIn
        <3>3. QED  BY <1>9, <3>2 DEF UniqueIn
    <2>2. \A e \in AllEntries' : e.seq <= last_sequence_'
        BY <1>1, <1>3, <1>5, <1>9, <1>10
    <2>3. \A d \in mem_', e \in TableEntries' : e.seq < d.seq
        BY <1>6, <1>8, <1>9, <1>10 DEF IInv, DataInv
    <2>4. \A f \in files' : Whole(f) /\ \A e \in f.data : f.number <= e.seq
        BY <1>1 DEF IInv, DataInv
    <2>5. \A f, g \in files' : f.level = 0 /\ g.level = 0 /\ f.number = g.number => f = g
        BY <1>1 DEF IInv, DataInv
    <2>6. QED  BY <2>1, <2>2, <2>3, <2>4, <2>5 DEF DataInv
<1>12. ClientInv'
    <2>1. \A i \in SnapshotIds : snapshots_[i] # NULL => snapshots_[i] <= last_sequence_'
        BY <1>1, <1>3, SnapshotTypes DEF IInv, ClientInv
    <2>2. QED  BY <1>1, <2>1 DEF IInv, ClientInv
<1>13. compact' # NULL => Merging'
    <2>1. SUFFICES ASSUME compact # NULL PROVE Merging'  BY <1>1
    <2>2. Merging  BY <2>1 DEF IInv
    <2>3. compact.smallest_snapshot \in 0 .. last_sequence_'  BY <1>1, <1>3, <2>2 DEF Merging
    <2>4. QED  BY <1>1, <2>2, <2>3 DEF Merging, Solid
<1>14. QED  BY <1>7, <1>8, <1>11, <1>12, <1>13 DEF IInv

\* Snapshots change nothing in the data; a new one is at the last sequence number.
LEMMA SnapshotStep ==
    ASSUME IInv, ~aborted, NEW i \in SnapshotIds, NEW s \in {NULL, last_sequence_},
           s # NULL => setup.snapshots,
           snapshots_' = [snapshots_ EXCEPT ![i] = s],
           UNCHANGED <<mem_, files, last_sequence_, compact, aborted, setup>>
    PROVE  IInv'
<1>1. last_sequence_ \in Nat  BY SnapshotTypes DEF IInv
<1>2. \A j \in SnapshotIds : snapshots_'[j] = IF j = i THEN s ELSE snapshots_[j]
    BY DEF IInv, TypeOK
<1>3. TypeOK'  BY DEF IInv, TypeOK
<1>4. Apart' /\ NewerFirst' /\ TableEntries' = TableEntries  BY SameFiles DEF IInv
<1>5. AllEntries' = AllEntries  BY <1>4 DEF AllEntries
<1>6. DataInv'  BY <1>4, <1>5 DEF IInv, DataInv
<1>7. ClientInv'  BY <1>1, <1>2 DEF IInv, ClientInv
<1>8. compact # NULL => Merging'
    <2>1. SUFFICES ASSUME compact # NULL PROVE Merging'  OBVIOUS
    <2>2. Merging  BY <2>1 DEF IInv
    <2>3. compact.smallest_snapshot <= last_sequence_  BY <1>1, <2>2 DEF Merging
    <2>4. \A j \in SnapshotIds : snapshots_'[j] # NULL => compact.smallest_snapshot <= snapshots_'[j]
        BY <1>2, <2>2, <2>3 DEF Merging
    <2>5. QED  BY <2>2, <2>4 DEF Merging, Solid
<1>9. QED  BY <1>3, <1>4, <1>6, <1>7, <1>8 DEF IInv
-----------------------------------------------------------------------------
(* Memtable compactions *)

\* PickLevelForMemTableOutput: the new table comes before all that it meets.
LEMMA MemTableGoesAbove ==
    ASSUME TypeOK, DataInv, NEW imm \in SUBSET mem_, imm # {},
           NEW level \in OutputLevels([begin |-> Smallest(imm).key, end |-> Largest(imm).key])
    PROVE  /\ level \in Levels
           /\ \A f \in files : Meet(NewTable(level, imm), f) =>
                \/ level < f.level
                \/ level = 0 /\ f.level = 0 /\ f.number < NewTable(level, imm).number
<1> DEFINE r == [begin |-> Smallest(imm).key, end |-> Largest(imm).key]
           t == NewTable(level, imm)
<1>1. level \in Levels /\ level \in Nat
    <2>1. level \in 0 .. MaxMemCompactLevel  BY LSMAssumption DEF OutputLevels
    <2>2. QED  BY <2>1, LSMAssumption DEF Levels
<1>2. imm \in SUBSET Entry /\ UniqueIn(imm)
    BY DEF TypeOK, DataInv, UniqueIn, AllEntries
<1>3. /\ t \in FileMetaData /\ t.number = IF level = 0 THEN NewNumber ELSE 0
      /\ t.smallest = Smallest(imm) /\ t.largest = Largest(imm)
    BY <1>1, <1>2, NewNumberIs, NewTableIs
<1>4. \A f \in files : f.number < NewNumber /\ f.number \in Nat /\ f.level \in Nat
    BY NewNumberIs, FileFields DEF TypeOK
<1>5. \A f \in files : Meet(t, f) => Overlaps(f, r)
    <2>1. TAKE f \in files
    <2>2. /\ f.smallest.key \in Nat /\ f.largest.key \in Nat
          /\ t.smallest.key \in Nat /\ t.largest.key \in Nat
        BY <1>3, FileFields DEF TypeOK
    <2>3. r.begin = t.smallest.key /\ r.end = t.largest.key  BY <1>3
    <2> HIDE DEF t, r
    <2>4. QED  BY <2>2, <2>3 DEF Meet, Overlaps
<1>6. level = 0 \/ \A m \in 0 .. level : ~OverlapInLevel(files, m, r)
    <2>1. CASE OverlapInLevel(files, 0, r)  BY <2>1 DEF OutputLevels
    <2>2. CASE ~OverlapInLevel(files, 0, r)
        <3>1. \A m \in 1 .. level : ~OverlapInLevel(files, m, r)  BY <2>2 DEF OutputLevels
        <3>2. \A m \in 0 .. level : m = 0 \/ m \in 1 .. level  BY <1>1
        <3>3. QED  BY <2>2, <3>1, <3>2, Zenon
    <2>3. QED  BY <2>1, <2>2
<1> HIDE DEF t, r
<1>7. ASSUME NEW f \in files, Meet(t, f)
      PROVE  level < f.level \/ (level = 0 /\ f.level = 0 /\ f.number < t.number)
    <2>1. CASE level = 0  BY <1>3, <1>4, <2>1
    <2>2. CASE \A m \in 0 .. level : ~OverlapInLevel(files, m, r)
        <3>1. f.level \notin 0 .. level  BY <1>5, <1>7, <2>2 DEF OverlapInLevel
        <3>2. QED  BY <1>1, <1>4, <3>1
    <2>3. QED  BY <1>6, <2>1, <2>2
<1>8. QED  BY <1>1, <1>7 DEF t

\* A memtable compaction that takes the entries up to one.
FlushUpTo(last) ==
    LET imm == {e \in mem_ : e.seq <= last.seq}
    IN  /\ ~aborted
        /\ \E level \in OutputLevels([begin |-> Smallest(imm).key, end |-> Largest(imm).key]) :
            Install(files \cup {NewTable(level, imm)})
        /\ mem_' = mem_ \ imm
        /\ UNCHANGED <<last_sequence_, snapshots_, compact, setup>>

LEMMA MemTableIs == CompactMemTable => \E last \in mem_ : FlushUpTo(last)
BY DEF CompactMemTable, FlushUpTo

LEMMA MemTableStep ==
    ASSUME IInv, NEW last \in mem_, FlushUpTo(last)
    PROVE  IInv' /\ AllEntries' = AllEntries
<1> DEFINE imm == {e \in mem_ : e.seq <= last.seq}
<1>1. /\ ~aborted /\ mem_' = mem_ \ imm
      /\ UNCHANGED <<last_sequence_, snapshots_, compact, setup>>
    BY DEF FlushUpTo
<1>2. PICK level \in OutputLevels([begin |-> Smallest(imm).key, end |-> Largest(imm).key]) :
        Install(files \cup {NewTable(level, imm)})
    BY DEF FlushUpTo
<1> DEFINE t == NewTable(level, imm)
           fs == files \cup {t}
<1>19. /\ imm \subseteq mem_ /\ imm # {}
       /\ \A d \in mem_', e \in imm : e.seq < d.seq
    <2>1. mem_ \in SUBSET Entry  BY DEF IInv, TypeOK
    <2>2. \A e \in mem_ : e.seq \in Nat  BY <2>1, EntryFields
    <2>3. QED  BY <1>1, <2>2
<1> HIDE DEF imm
<1>3. /\ level \in Levels
      /\ \A f \in files : Meet(t, f) =>
            \/ level < f.level
            \/ level = 0 /\ f.level = 0 /\ f.number < t.number
    BY <1>19, MemTableGoesAbove DEF IInv
<1>4. imm \in SUBSET Entry /\ UniqueIn(imm) /\ imm \subseteq AllEntries /\ mem_ \subseteq Entry
    BY <1>19 DEF IInv, TypeOK, DataInv, UniqueIn, AllEntries
<1>5. /\ t \in FileMetaData /\ Whole(t) /\ t.level = level /\ t.data = imm
      /\ t.number = IF level = 0 THEN NewNumber ELSE 0
    BY <1>3, <1>4, <1>19, NewNumberIs, NewTableIs DEF IInv
<1>6. files \in SUBSET FileMetaData /\ \A f \in files : Whole(f)  BY TablesAre DEF IInv
<1>7. \A f \in files : f.level \in Nat /\ f.number \in Nat  BY <1>6, FileFields
<1>8. level \in Nat /\ t.number \in Nat  BY <1>5, FileFields
<1>9. ApartIn(fs)
    <2>1. \A f \in files : f.level = t.level /\ t.level > 0 => ~Meet(t, f) /\ ~Meet(f, t)
        BY <1>3, <1>5, <1>7, <1>8, MeetSymmetric
    <2> HIDE DEF t
    <2>2. QED  BY <2>1 DEF IInv, Apart, ApartIn
<1>10. files' = fs /\ aborted' = FALSE
    <2>1. Disjoint(fs)  BY <1>5, <1>6, <1>9, ApartDisjoint
    <2>2. QED  BY <1>2, <2>1 DEF Install
<1> HIDE DEF t
<1>11. TypeOK'
    <2>1. compact = NULL \/ compact.inputs \subseteq fs  BY DEF IInv, TypeOK
    <2>2. mem_' \subseteq Entry  BY <1>1, <1>4
    <2>3. QED  BY <1>1, <1>5, <1>10, <2>1, <2>2 DEF IInv, TypeOK
<1>12. AllEntries' = AllEntries /\ TableEntries' = TableEntries \cup imm
    <2>1. \A e : e \in TableEntries' <=> \E f \in fs : e \in f.data  BY <1>10 DEF TableEntries
    <2>2. \A e : e \in TableEntries <=> \E f \in files : e \in f.data
        BY EntriesAre DEF IInv
    <2>3. \A e : (\E f \in fs : e \in f.data) <=> e \in t.data \/ \E f \in files : e \in f.data
        BY Zenon
    <2>4. \A e : e \in TableEntries' <=> e \in TableEntries \/ e \in imm
        BY <1>5, <2>1, <2>2, <2>3, Zenon
    <2>5. TableEntries' = TableEntries \cup imm  BY <2>4
    <2>6. QED  BY <1>1, <1>19, <2>5 DEF AllEntries
<1>13. DataInv'
    <2>1. \A e \in imm : t.number <= e.seq
        <3>1. TAKE e \in imm
        <3>2. e.seq \in Nat /\ e.seq >= 1  BY <1>4, EntryFields
        <3>3. CASE t.number = 0  BY <3>2, <3>3
        <3>4. CASE t.number = 1  BY <3>2, <3>4
        <3>5. ASSUME NEW f \in files, t.number = f.number + 1 PROVE t.number <= e.seq
            <4>1. f.smallest \in f.data /\ f.smallest.seq \in Nat  BY <1>6, FileFields DEF Whole
            <4>2. f.smallest \in TableEntries  BY <4>1 DEF TableEntries
            <4>3. f.number <= f.smallest.seq /\ f.smallest.seq < e.seq
                BY <1>19, <4>1, <4>2 DEF IInv, DataInv
            <4>4. QED  BY <1>7, <3>2, <3>5, <4>1, <4>3
        <3>6. t.number = 0 \/ t.number = 1 \/ \E f \in files : t.number = f.number + 1
            BY <1>5, NewNumberIs DEF IInv
        <3>7. QED  BY <3>3, <3>4, <3>5, <3>6
    <2>2. \A f \in fs : Whole(f) /\ \A e \in f.data : f.number <= e.seq
        BY <1>5, <2>1 DEF IInv, DataInv
    <2>3. UniqueIn(AllEntries)' /\ \A e \in AllEntries' : e.seq <= last_sequence_'
        BY <1>1, <1>12 DEF IInv, DataInv, UniqueIn
    <2>4. \A d \in mem_', e \in TableEntries' : e.seq < d.seq
        BY <1>1, <1>12, <1>19 DEF IInv, DataInv
    <2>5. \A f \in files : t.level = 0 => f.number # t.number
        <3>1. \A f \in files : f.number < NewNumber /\ NewNumber \in Nat  BY NewNumberIs DEF IInv
        <3>2. QED  BY <1>5, <1>7, <3>1
    <2>6. \A f, g \in fs : f.level = 0 /\ g.level = 0 /\ f.number = g.number => f = g
        BY <2>5 DEF IInv, DataInv
    <2>7. QED  BY <1>10, <2>2, <2>3, <2>4, <2>6 DEF DataInv
<1>14. Apart'  BY <1>9, <1>10 DEF Apart, ApartIn
<1>15. NewerFirst'
    <2>1. ASSUME NEW f \in fs, NEW g \in fs, NEW d \in f.data, NEW e \in g.data,
                 f # g, d.key = e.key, Turn(f) < Turn(g)
          PROVE  d.seq > e.seq
        <3>1. CASE f \in files /\ g \in files  BY <2>1, <3>1 DEF IInv, NewerFirst
        <3>2. CASE f = t
            <4>1. d \in imm /\ d \in mem_ /\ g \in files  BY <1>5, <1>19, <2>1, <3>2
            <4>2. e \in TableEntries  BY <4>1 DEF TableEntries
            <4>3. e.seq < d.seq  BY <4>1, <4>2 DEF IInv, DataInv
            <4>4. d.seq \in Nat /\ e.seq \in Nat  BY <1>4, <1>6, <4>1, EntryFields, FileFields
            <4>5. QED  BY <4>3, <4>4
        <3>3. CASE g = t /\ f \in files
            <4>1. Covers(f, d.key) /\ Covers(t, d.key) /\ d.key \in Nat
                BY <1>5, <1>6, <2>1, <3>3, BoundKeys, EntryFields
            <4>2. Meet(t, f)  BY <1>5, <1>6, <3>3, <4>1, KeyMeets
            <4>3. \/ t.level < f.level
                  \/ t.level = 0 /\ f.level = 0 /\ f.number < t.number
                BY <1>3, <1>5, <3>3, <4>2
            <4>4. Turn(t) < Turn(f) /\ Turn(t) \in Int /\ Turn(f) \in Int
                BY <1>5, <1>6, <3>3, <4>3, TurnsAre
            <4>5. QED  BY <2>1, <3>3, <4>4
        <3>4. QED  BY <3>1, <3>2, <3>3
    <2>2. \A f, g \in fs : \A d \in f.data, e \in g.data :
            f # g /\ d.key = e.key /\ Turn(f) < Turn(g) => d.seq > e.seq
        BY <2>1
    <2>3. QED  BY <1>10, <2>2 DEF NewerFirst, Turn
<1>16. ClientInv'  BY <1>1, <1>10 DEF IInv, ClientInv
<1>17. compact' # NULL => Merging'
    <2>1. SUFFICES ASSUME compact # NULL PROVE Merging'  BY <1>1
    <2>2. Merging  BY <2>1 DEF IInv
    <2>3. compact.level \in Nat /\ compact.inputs \subseteq files
          /\ \A f \in compact.inputs : f.level \in {compact.level, compact.level + 1}
        BY <2>2, LSMAssumption DEF Merging
    <2>4. ASSUME NEW h \in fs \ compact.inputs, NEW f \in compact.inputs, Meet(h, f)
          PROVE  /\ h.level # compact.level + 1
                 /\ h.level = 0 /\ f.level = 0 => f.number < h.number
                 /\ h.level >= compact.level + 2 => h \in compact.version
        <3>1. CASE h \in files  BY <2>2, <2>4, <3>1 DEF Merging
        <3>2. CASE h = t
            <4>1. t.level < f.level \/ (t.level = 0 /\ f.level = 0 /\ f.number < t.number)
                BY <1>3, <1>5, <2>3, <2>4, <3>2
            <4>2. QED  BY <1>5, <1>8, <2>3, <3>2, <4>1
        <3>3. QED  BY <3>1, <3>2
    <2>5. compact.inputs \subseteq fs  BY <2>3
    <2>6. QED  BY <1>1, <1>10, <2>2, <2>4, <2>5 DEF Merging, Solid
<1>18. QED  BY <1>11, <1>12, <1>13, <1>14, <1>15, <1>16, <1>17 DEF IInv
-----------------------------------------------------------------------------
(* The start of a compaction *)

LEMMA SmallestSnapshotIs ==
    ASSUME TypeOK, ClientInv
    PROVE  /\ SmallestSnapshot \in 0 .. last_sequence_
           /\ \A i \in SnapshotIds : snapshots_[i] # NULL => SmallestSnapshot <= snapshots_[i]
           /\ ~setup.snapshots => SmallestSnapshot = last_sequence_
<1> DEFINE held == {snapshots_[i] : i \in SnapshotIds} \ {NULL}
<1>1. held \in SUBSET Nat /\ \A s \in held : s <= last_sequence_ /\ setup.snapshots
    BY SnapshotTypes DEF ClientInv
<1>2. SmallestSnapshot = IF held = {} THEN last_sequence_
                         ELSE CHOOSE s \in held : \A u \in held : s <= u
    BY DEF SmallestSnapshot
<1>3. \A i \in SnapshotIds : snapshots_[i] # NULL => snapshots_[i] \in held  OBVIOUS
<1>4. last_sequence_ \in Nat  BY SnapshotTypes
<1> HIDE DEF held
<1>5. CASE held = {}  BY <1>2, <1>3, <1>4, <1>5
<1>6. CASE held # {}
    <2>1. \E s \in held : \A u \in held : s <= u  BY <1>1, <1>6, LeastNumber
    <2>2. SmallestSnapshot \in held /\ \A u \in held : SmallestSnapshot <= u
        BY <1>2, <1>6, <2>1, Zenon
    <2>3. SmallestSnapshot \in Nat /\ SmallestSnapshot <= last_sequence_  BY <1>1, <2>2
    <2>4. setup.snapshots  BY <1>1, <2>2, Zenon
    <2>5. \A i \in SnapshotIds : snapshots_[i] # NULL => SmallestSnapshot <= snapshots_[i]
        BY <1>3, <2>2, Zenon
    <2>6. QED  BY <1>4, <2>3, <2>4, <2>5
<1>7. QED  BY <1>5, <1>6

LEMMA BeginStep ==
    ASSUME IInv, ~aborted, NEW level \in 0 .. NumLevels - 2, NEW inputs, Chosen(level, inputs),
           NEW manual \in BOOLEAN, manual \/ Solid(inputs), Begin(level, inputs, manual)
    PROVE  IInv'
<1>1. /\ UNCHANGED <<mem_, files, last_sequence_, snapshots_, aborted, setup>>
      /\ compact' = [level |-> level, inputs |-> inputs, version |-> files,
                     smallest_snapshot |-> SmallestSnapshot, is_manual |-> manual]
    BY DEF Begin
<1>2. /\ compact'.is_manual = manual /\ compact'.level = level /\ compact'.inputs = inputs /\ compact'.version = files
      /\ compact'.smallest_snapshot = SmallestSnapshot
    BY <1>1
<1>3. Apart' /\ NewerFirst' /\ TableEntries' = TableEntries  BY <1>1, SameFiles DEF IInv
<1>4. AllEntries' = AllEntries  BY <1>1, <1>3 DEF AllEntries
<1>5. TypeOK'  BY <1>1, <1>2 DEF IInv, TypeOK, Chosen
<1>6. DataInv'  BY <1>1, <1>3, <1>4 DEF IInv, DataInv
<1>7. ClientInv'  BY <1>1 DEF IInv, ClientInv
<1>8. /\ SmallestSnapshot \in 0 .. last_sequence_
      /\ \A i \in SnapshotIds : snapshots_[i] # NULL => SmallestSnapshot <= snapshots_[i]
      /\ ~setup.snapshots => SmallestSnapshot = last_sequence_
    BY SmallestSnapshotIs DEF IInv
<1>9. ASSUME NEW h \in files \ inputs, NEW f \in inputs, Meet(h, f)
      PROVE  /\ h.level # level + 1
             /\ h.level = 0 /\ f.level = 0 => f.number < h.number
    <2>1. /\ h.level # level + 1 /\ (h.level = level => f.level # level)
          /\ f.level \in {level, level + 1}
        BY <1>9 DEF Chosen
    <2>2. level \in Nat  BY LSMAssumption
    <2>3. QED  BY <2>1, <2>2
<1>10. ~setup.snapshots => \A f \in inputs : \A e \in f.data : e.seq <= SmallestSnapshot
    <2>1. \A f \in inputs : \A e \in f.data : e \in AllEntries
        BY DEF Chosen, AllEntries, TableEntries
    <2>2. QED  BY <1>8, <2>1 DEF IInv, DataInv
<1>11. Merging'
    <2>1. inputs \subseteq files /\ \A f \in inputs : f.level \in {level, level + 1}  BY DEF Chosen
    <2>2. compact'.is_manual \/ Solid(compact'.inputs)  BY <1>1, <1>2
    <2>3. QED  BY <1>1, <1>2, <1>8, <1>9, <1>10, <2>1, <2>2 DEF Merging, Solid
<1>12. QED  BY <1>3, <1>5, <1>6, <1>7, <1>11 DEF IInv

\* Inputs to start with: tables of a level, at level 0 all that meet one of them.
Start(level, in0) ==
    /\ in0 \in SUBSET files /\ in0 # {} /\ \A f \in in0 : f.level = level
    /\ level = 0 => \A h \in files \ in0, f \in in0 : h.level = 0 => ~Meet(h, f)

LEMMA PickedStarts ==
    ASSUME TypeOK, DataInv, Apart, NEW level \in 0 .. NumLevels - 2, NEW in0 \in Picked(level)
    PROVE  Start(level, in0) /\ Solid(in0)
<1>1. PICK f \in files : /\ f.level = level
                         /\ in0 = IF level = 0 THEN GetOverlappingInputs(files, 0, GetRange({f})) ELSE {f}
    BY DEF Picked
<1>2. files \in SUBSET FileMetaData /\ Ordered(files)  BY TablesAre
<1>3. Solid({f})  BY DEF Solid, Covers
<1>4. CASE level = 0
    <2>1. GetRange({f}) \in KeyRanges  BY <1>2, RangeIsProper DEF Ordered
    <2>2. Overlaps(f, GetRange({f}))
        <3>1. Meet(f, f)  BY <1>2 DEF Ordered, Meet
        <3>2. QED  BY <1>2, <3>1, MeetsRange
    <2>3. /\ in0 \subseteq files /\ \A g \in in0 : g.level = 0 /\ f \in in0
          /\ \A h \in files \ in0, g \in in0 : h.level = 0 => ~Meet(h, g)
        BY <1>1, <1>2, <1>4, <2>1, <2>2, OverlappingAre
    <2>4. f \in in0  BY <1>1, <1>2, <1>4, <2>1, <2>2, OverlappingAre
    <2>5. Solid({f} \cup in0)  BY <1>1, <1>2, <1>3, <1>4, SolidGrows
    <2>6. {f} \cup in0 = in0  BY <2>4
    <2>7. QED  BY <1>4, <2>3, <2>4, <2>5, <2>6 DEF Start
<1>5. CASE level # 0  BY <1>1, <1>3, <1>5 DEF Start
<1>6. QED  BY <1>4, <1>5

LEMMA RequestedStarts ==
    ASSUME TypeOK, DataInv, NEW level \in 0 .. NumLevels - 2, NEW in0 \in Requested(level)
    PROVE  Start(level, in0)
<1>1. PICK r \in KeyRanges : /\ in0 # {}
                             /\ in0 \subseteq GetOverlappingInputs(files, level, r)
                             /\ level = 0 => in0 = GetOverlappingInputs(files, level, r)
    <2>1. CASE level = 0  BY <2>1 DEF Requested
    <2>2. CASE level # 0
        <3>1. PICK fs \in {GetOverlappingInputs(files, level, r) : r \in KeyRanges} :
                in0 \in First(fs) /\ in0 # {}
            BY <2>2 DEF Requested
        <3>2. in0 \subseteq fs  BY <3>1 DEF First
        <3>3. QED  BY <2>2, <3>1, <3>2
    <2>3. QED  BY <2>1, <2>2
<1>2. files \in SUBSET FileMetaData /\ level \in Nat  BY LSMAssumption DEF TypeOK
<1>3. QED  BY <1>1, <1>2, OverlappingAre DEF Start

LEMMA StartIsChosen ==
    ASSUME IInv, NEW level \in 0 .. NumLevels - 2, NEW in0, Start(level, in0),
           NEW inputs \in AllInputs(level, in0)
    PROVE  Chosen(level, inputs) /\ in0 \subseteq inputs /\ (Solid(in0) => Solid(inputs))
BY InputsAre DEF IInv, Start

LEMMA AutomaticStep == ASSUME IInv, CompactAutomatic PROVE IInv' /\ UNCHANGED <<mem_, files>>
<1>1. PICK level \in 0 .. NumLevels - 2 : \E in0 \in Picked(level) :
        \E inputs \in AllInputs(level, in0) : Begin(level, inputs, FALSE)
    BY DEF CompactAutomatic
<1>2. PICK in0 \in Picked(level) : \E inputs \in AllInputs(level, in0) : Begin(level, inputs, FALSE)
    BY <1>1
<1>3. PICK inputs \in AllInputs(level, in0) : Begin(level, inputs, FALSE)  BY <1>2
<1>4. Start(level, in0) /\ Solid(in0)  BY PickedStarts DEF IInv
<1>5. Chosen(level, inputs) /\ Solid(inputs)  BY <1>4, StartIsChosen
<1>6. UNCHANGED <<mem_, files>>  BY <1>3 DEF Begin
<1>7. ~aborted  BY DEF CompactAutomatic
<1>8. QED  BY <1>3, <1>5, <1>6, <1>7, BeginStep

LEMMA ManualStep == ASSUME IInv, CompactManual PROVE IInv' /\ UNCHANGED <<mem_, files>>
<1>1. PICK level \in 0 .. NumLevels - 2 : \E in0 \in Requested(level) :
        \E inputs \in AllInputs(level, in0) : Begin(level, inputs, TRUE)
    BY DEF CompactManual
<1>2. PICK in0 \in Requested(level) : \E inputs \in AllInputs(level, in0) : Begin(level, inputs, TRUE)
    BY <1>1
<1>3. PICK inputs \in AllInputs(level, in0) : Begin(level, inputs, TRUE)  BY <1>2
<1>4. Start(level, in0) /\ ~aborted  BY RequestedStarts DEF IInv, CompactManual
<1>5. Chosen(level, inputs)  BY <1>4, StartIsChosen
<1>6. UNCHANGED <<mem_, files>>  BY <1>3 DEF Begin
<1>7. QED  BY <1>3, <1>4, <1>5, <1>6, BeginStep
-----------------------------------------------------------------------------
(* Inputs are replaced by tables of the next level *)

\* What a compaction has found: the tables that stay meet no input but those of their turn.
Settled(level, inputs) ==
    /\ level \in 0 .. NumLevels - 2 /\ inputs \subseteq files
    /\ \A f \in inputs : f.level \in {level, level + 1}
    /\ \A h \in files \ inputs, f \in inputs : Meet(h, f) =>
        h.level # level + 1 /\ (h.level = 0 /\ f.level = 0 => f.number < h.number)

\* An entry of a table that stays is newer than one of an input for its key, unless
\* the table is below the output level; then it is older.
LEMMA OthersAre ==
    ASSUME TypeOK, DataInv, Apart, NewerFirst, NEW level, NEW inputs, Settled(level, inputs),
           NEW h \in files \ inputs, NEW f \in inputs, NEW d \in h.data, NEW e \in f.data,
           d.key = e.key
    PROVE  /\ Meet(h, f) /\ h.level # level + 1
           /\ h.level <= level => d.seq > e.seq
           /\ h.level > level + 1 => e.seq > d.seq
<1>1. f \in files /\ f \in FileMetaData /\ h \in FileMetaData /\ h # f
    BY DEF Settled, TypeOK
<1>2. Covers(h, d.key) /\ Covers(f, d.key) /\ d.key \in Nat  BY <1>1, TablesAre, EntryFields
<1>3. Meet(h, f)  BY <1>1, <1>2, KeyMeets
<1>4. /\ h.level # level + 1 /\ (h.level = 0 /\ f.level = 0 => f.number < h.number)
      /\ f.level \in {level, level + 1} /\ level \in Nat
    BY <1>3, LSMAssumption DEF Settled
<1>5. h.level \in Nat /\ f.level \in Nat  BY <1>1, FileFields
<1>6. ASSUME h.level <= level PROVE d.seq > e.seq
    <2>1. h.level = f.level => h.level = 0
        <3>1. h.level = f.level /\ h.level > 0 => ~Meet(h, f)  BY <1>1 DEF Apart, ApartIn
        <3>2. QED  BY <1>3, <1>5, <3>1
    <2>2. h.level < f.level \/ (h.level = 0 /\ f.level = 0 /\ f.number < h.number)
        BY <1>4, <1>5, <1>6, <2>1
    <2>3. Turn(h) < Turn(f)  BY <1>1, <2>2, TurnsAre
    <2>4. QED  BY <1>1, <2>3 DEF NewerFirst
<1>7. ASSUME h.level > level + 1 PROVE e.seq > d.seq
    <2>1. f.level < h.level  BY <1>4, <1>5, <1>7
    <2>2. Turn(f) < Turn(h)  BY <1>1, <2>1, TurnsAre
    <2>3. QED  BY <1>1, <2>2 DEF NewerFirst
<1>8. QED  BY <1>3, <1>4, <1>6, <1>7

\* Tables to put in their place: entries of the inputs at the next level, where they
\* meet neither each other nor a table that stays.
Fits(level, inputs, new) ==
    /\ new \subseteq FileMetaData
    /\ \A t \in new : /\ t.level = level + 1 /\ t.number = 0 /\ Whole(t)
                      /\ \A e \in t.data : \E f \in inputs : e \in f.data
    /\ \A t, u \in new : t # u => ~Meet(t, u)
    /\ \A h \in files \ inputs, t \in new : h.level = level + 1 => ~Meet(h, t)

LEMMA FitsApart ==
    ASSUME TypeOK, DataInv, Apart, NEW level, NEW inputs, NEW new, Fits(level, inputs, new)
    PROVE  ApartIn((files \ inputs) \cup new)
<1> SUFFICES ASSUME NEW f \in (files \ inputs) \cup new, NEW g \in (files \ inputs) \cup new,
                    f # g, f.level = g.level, f.level > 0, Meet(f, g)
             PROVE  FALSE
    BY DEF ApartIn
<1>1. CASE f \in files \ inputs /\ g \in files \ inputs  BY <1>1 DEF Apart, ApartIn
<1>2. CASE f \in new /\ g \in new  BY <1>2 DEF Fits
<1>3. CASE f \in files \ inputs /\ g \in new  BY <1>3 DEF Fits
<1>4. CASE f \in new /\ g \in files \ inputs
    <2>1. Meet(g, f)  BY MeetSymmetric
    <2>2. QED  BY <1>4, <2>1 DEF Fits
<1>5. QED  BY <1>1, <1>2, <1>3, <1>4

LEMMA ReplaceStep ==
    ASSUME TypeOK, DataInv, Apart, NewerFirst, NEW level, NEW inputs, NEW new,
           Settled(level, inputs), Fits(level, inputs, new),
           files' = (files \ inputs) \cup new, mem_' = mem_, last_sequence_' = last_sequence_
    PROVE  /\ DataInv' /\ Apart' /\ NewerFirst' /\ files' \subseteq FileMetaData
           /\ AllEntries' \subseteq AllEntries
<1> DEFINE fs == (files \ inputs) \cup new
<1>1. level \in Nat /\ inputs \subseteq files /\ files \subseteq FileMetaData /\ new \subseteq FileMetaData
    BY LSMAssumption DEF Settled, TypeOK, Fits
<1>2. /\ \A e : e \in AllEntries <=> e \in mem_ \/ \E f \in files : e \in f.data
      /\ \A e : e \in TableEntries <=> \E f \in files : e \in f.data
    BY EntriesAre
<1>3. TableEntries' \subseteq TableEntries
    <2>1. \A e : e \in TableEntries' <=> \E f \in fs : e \in f.data  BY Zenon DEF TableEntries
    <2>2. \A f \in fs : \A e \in f.data : \E g \in files : e \in g.data  BY <1>1 DEF Fits
    <2>3. QED  BY <1>2, <2>1, <2>2, Zenon
<1>4. AllEntries' \subseteq AllEntries  BY <1>3 DEF AllEntries
<1>5. \A e \in AllEntries : e.seq \in Nat  BY EntriesAre, EntryFields
<1>6. DataInv'
    <2>1. \A f \in fs : Whole(f) /\ \A e \in f.data : f.number <= e.seq
        <3>1. \A f \in files : Whole(f) /\ \A e \in f.data : f.number <= e.seq  BY DEF DataInv
        <3>2. \A t \in new : Whole(t) /\ \A e \in t.data : t.number = 0 /\ e \in AllEntries
            BY <1>1, <1>2 DEF Fits
        <3>3. QED  BY <1>5, <3>1, <3>2
    <2>2. UniqueIn(AllEntries)' /\ \A e \in AllEntries' : e.seq <= last_sequence_'
        BY <1>4 DEF DataInv, UniqueIn
    <2>3. \A d \in mem_', e \in TableEntries' : e.seq < d.seq  BY <1>3 DEF DataInv
    <2>4. \A f, g \in fs : f.level = 0 /\ g.level = 0 /\ f.number = g.number => f = g
        <3>1. \A t \in new : t.level # 0  BY <1>1 DEF Fits
        <3>2. QED  BY <3>1 DEF DataInv
    <2>5. QED  BY <2>1, <2>2, <2>3, <2>4 DEF DataInv
<1>7. Apart'  BY FitsApart DEF Apart, ApartIn
<1>8. NewerFirst'
    <2>1. ASSUME NEW f \in fs, NEW g \in fs, NEW d \in f.data, NEW e \in g.data,
                 f # g, d.key = e.key, Turn(f) < Turn(g)
          PROVE  d.seq > e.seq
        <3>1. CASE f \in files \ inputs /\ g \in files \ inputs  BY <2>1, <3>1 DEF NewerFirst
        <3>2. f.level < g.level \/ (f.level = 0 /\ g.level = 0 /\ g.number < f.number)
            BY <1>1, <2>1, TurnsAre
        <3>3. f.level \in Nat /\ g.level \in Nat  BY <1>1, FileFields
        <3>4. CASE f \in files \ inputs /\ g \in new
            <4>1. PICK i \in inputs : e \in i.data  BY <3>4 DEF Fits
            <4>2. g.level = level + 1  BY <3>4 DEF Fits
            <4>3. f.level <= level  BY <1>1, <3>2, <3>3, <4>2
            <4>4. QED  BY <2>1, <3>4, <4>1, <4>3, OthersAre
        <3>5. CASE f \in new /\ g \in files \ inputs
            <4>1. PICK i \in inputs : d \in i.data  BY <3>5 DEF Fits
            <4>2. f.level = level + 1  BY <3>5 DEF Fits
            <4>3. g.level > level + 1  BY <1>1, <3>2, <3>3, <4>2
            <4>4. QED  BY <2>1, <3>5, <4>1, <4>3, OthersAre
        <3>6. CASE f \in new /\ g \in new
            <4>1. f.level = level + 1 /\ g.level = level + 1  BY <3>6 DEF Fits
            <4>2. QED  BY <1>1, <3>2, <4>1
        <3>7. QED  BY <3>1, <3>4, <3>5, <3>6
    <2>2. \A f, g \in fs : \A d \in f.data, e \in g.data :
            f # g /\ d.key = e.key /\ Turn(f) < Turn(g) => d.seq > e.seq
        BY <2>1
    <2>3. QED  BY <2>2 DEF NewerFirst, Turn
<1>9. QED  BY <1>1, <1>4, <1>6, <1>7, <1>8

LEMMA MoveStep == ASSUME IInv, TrivialMove PROVE IInv' /\ AllEntries' = AllEntries
<1>1. /\ ~aborted /\ compact = NULL /\ UNCHANGED <<mem_, last_sequence_, snapshots_, compact, setup>>
    BY DEF TrivialMove
<1>2. PICK level \in 0 .. NumLevels - 2 : \E in0 \in Picked(level) : \E inputs \in AllInputs(level, in0) :
            /\ Cardinality(inputs) = 1
            /\ Install((files \ inputs) \cup {NewTable(level + 1, f.data) : f \in inputs})
    BY DEF TrivialMove
<1>3. PICK in0 \in Picked(level) : \E inputs \in AllInputs(level, in0) :
            /\ Cardinality(inputs) = 1
            /\ Install((files \ inputs) \cup {NewTable(level + 1, f.data) : f \in inputs})
    BY <1>2
<1>4. PICK inputs \in AllInputs(level, in0) :
            /\ Cardinality(inputs) = 1
            /\ Install((files \ inputs) \cup {NewTable(level + 1, f.data) : f \in inputs})
    BY <1>3
<1>5. Start(level, in0)  BY PickedStarts DEF IInv
<1>6. Chosen(level, inputs) /\ in0 \subseteq inputs  BY <1>5, StartIsChosen
<1>7. PICK f : inputs = {f}
    <2>1. IsFiniteSet(inputs)  BY <1>6, FilesFinite, FS_Subset DEF IInv, Chosen
    <2>2. QED  BY <1>4, <2>1, FS_Singleton
<1>8. f \in files /\ f.level = level
    BY <1>5, <1>6, <1>7 DEF Start
<1> DEFINE t == NewTable(level + 1, f.data)
           fs == (files \ inputs) \cup {t}
<1>9. f \in FileMetaData /\ Whole(f) /\ f.data \in SUBSET Entry /\ f.data # {} /\ UniqueIn(f.data)
    <2>1. f \in FileMetaData /\ Whole(f)  BY <1>8, TablesAre DEF IInv
    <2>2. f.data \subseteq AllEntries  BY <1>8 DEF AllEntries, TableEntries
    <2>3. UniqueIn(f.data)  BY <2>2 DEF IInv, DataInv, UniqueIn
    <2>4. QED  BY <2>1, <2>3, FileFields DEF Whole
<1>10. level + 1 \in Levels /\ level + 1 # 0 /\ level \in Nat  BY LSMAssumption DEF Levels
<1>11. /\ t \in FileMetaData /\ Whole(t) /\ t.level = level + 1 /\ t.data = f.data /\ t.number = 0
    BY <1>9, <1>10, NewNumberIs, NewTableIs DEF IInv
<1>12. Install(fs)
    <2>1. {NewTable(level + 1, g.data) : g \in inputs} = {t}  BY <1>7
    <2>2. QED  BY <1>4, <2>1
<1> HIDE DEF t
<1>13. t.smallest.key = f.smallest.key /\ t.largest.key = f.largest.key
    <2>1. /\ f.smallest \in t.data /\ f.largest \in t.data /\ t.smallest \in f.data /\ t.largest \in f.data
        BY <1>9, <1>11 DEF Whole
    <2>2. /\ Covers(f, t.smallest.key) /\ Covers(f, t.largest.key)
          /\ Covers(t, f.smallest.key) /\ Covers(t, f.largest.key)
        BY <1>9, <1>11, <2>1, BoundKeys
    <2>3. /\ t.smallest.key \in Nat /\ t.largest.key \in Nat
          /\ f.smallest.key \in Nat /\ f.largest.key \in Nat
        BY <1>9, <1>11, FileFields
    <2>4. QED  BY <2>2, <2>3 DEF Covers
<1>14. Settled(level, inputs)
    <2>1. \A h \in files \ inputs : Meet(h, f) => h.level # level + 1 /\ h.level # level
        BY <1>6, <1>7, <1>8 DEF Chosen
    <2>2. QED  BY <1>6, <1>7, <1>8, <2>1 DEF Settled, Chosen
<1>15. Fits(level, inputs, {t})
    <2>1. \A h \in files \ inputs : h.level = level + 1 => ~Meet(h, t)
        BY <1>6, <1>7, <1>13 DEF Chosen, Meet
    <2>2. QED  BY <1>7, <1>11, <2>1 DEF Fits
<1>16. files' = fs /\ aborted' = FALSE
    <2>1. ApartIn(fs)  BY <1>15, FitsApart DEF IInv
    <2>2. fs \in SUBSET FileMetaData  BY <1>11 DEF IInv, TypeOK
    <2>3. Disjoint(fs)  BY <2>1, <2>2, ApartDisjoint
    <2>4. QED  BY <1>12, <2>3 DEF Install
<1>17. DataInv' /\ Apart' /\ NewerFirst' /\ files' \subseteq FileMetaData
    BY <1>1, <1>14, <1>15, <1>16, ReplaceStep DEF IInv
<1>18. AllEntries' = AllEntries
    <2>1. \A e : e \in AllEntries' <=> e \in mem_ \/ \E g \in fs : e \in g.data
        BY <1>1, <1>16, Zenon DEF AllEntries, TableEntries
    <2>2. \A e : e \in AllEntries <=> e \in mem_ \/ \E g \in files : e \in g.data
        BY EntriesAre DEF IInv
    <2>3. \A e : (\E g \in fs : e \in g.data) <=> \E g \in files : e \in g.data
        BY <1>7, <1>8, <1>11, Zenon
    <2>4. QED  BY <2>1, <2>2, <2>3, Zenon
<1>19. TypeOK'  BY <1>1, <1>17 DEF IInv, TypeOK
<1>20. ClientInv'  BY <1>1, <1>16 DEF IInv, ClientInv
<1>21. QED  BY <1>1, <1>17, <1>18, <1>19, <1>20 DEF IInv
-----------------------------------------------------------------------------
(* The end of a compaction *)

InputEntries == UNION {f.data : f \in compact.inputs}

LEMMA MergingFields ==
    ASSUME IInv, compact # NULL
    PROVE  /\ compact.level \in Nat /\ compact.level + 1 \in Levels /\ compact.level + 1 # 0
           /\ compact.inputs \subseteq files /\ compact.smallest_snapshot \in Nat
<1>1. /\ compact.level \in 0 .. NumLevels - 2 /\ compact.inputs \subseteq files
      /\ compact.smallest_snapshot \in 0 .. last_sequence_
    BY Zenon DEF IInv, Merging
<1>2. NumLevels \in Nat  BY LSMAssumption
<1>3. compact.level \in Nat /\ compact.level + 1 \in Levels /\ compact.level + 1 # 0
    BY <1>1, <1>2 DEF Levels
<1>4. compact.smallest_snapshot \in Nat  BY <1>1
<1>5. QED  BY <1>1, <1>3, <1>4, Zenon

LEMMA KeptAre ==
    ASSUME IInv, compact # NULL
    PROVE  /\ \A e : e \in InputEntries <=> \E f \in compact.inputs : e \in f.data
           /\ Kept(InputEntries) \subseteq InputEntries /\ InputEntries \subseteq AllEntries
           /\ Kept(InputEntries) \in SUBSET Entry /\ UniqueIn(Kept(InputEntries))
           /\ ~setup.snapshots => \A d, e \in Kept(InputEntries) : d.key = e.key => d = e
<1>1. \A e : e \in InputEntries <=> \E f \in compact.inputs : e \in f.data
    BY Zenon DEF InputEntries
<1>2. Merging  BY DEF IInv
<1>3. InputEntries \subseteq AllEntries
    <2>1. compact.inputs \subseteq files  BY <1>2 DEF Merging
    <2>2. QED  BY <1>1, <2>1 DEF AllEntries, TableEntries
<1>4. Kept(InputEntries) \subseteq InputEntries  BY DEF Kept
<1>5. AllEntries \subseteq Entry /\ UniqueIn(AllEntries)  BY EntriesAre DEF IInv, DataInv
<1>6. UniqueIn(Kept(InputEntries))  BY <1>3, <1>4, <1>5 DEF UniqueIn
<1>7. ASSUME ~setup.snapshots, NEW d \in Kept(InputEntries), NEW e \in Kept(InputEntries), d.key = e.key
      PROVE  d = e
    <2>1. d \in InputEntries /\ e \in InputEntries /\ ~Hidden(d, InputEntries) /\ ~Hidden(e, InputEntries)
        BY DEF Kept
    <2>2. d.seq <= compact.smallest_snapshot /\ e.seq <= compact.smallest_snapshot
        BY <1>1, <1>2, <1>7, <2>1 DEF Merging
    <2>3. ~(e.seq > d.seq) /\ ~(d.seq > e.seq)  BY <1>7, <2>1, <2>2 DEF Hidden
    <2>4. d.seq \in Nat /\ e.seq \in Nat  BY <1>3, <1>5, <2>1, EntryFields
    <2>5. d.seq = e.seq  BY <2>3, <2>4
    <2>6. QED  BY <1>6, <2>5 DEF UniqueIn
<1>8. QED  BY <1>1, <1>3, <1>4, <1>5, <1>6, <1>7

\* Two outputs have no key in common: a cut is between them, and a key has one entry
\* unless there is one output.
LEMMA OutputsApart ==
    ASSUME IInv, compact # NULL, NEW cuts \in SUBSET Kept(InputEntries),
           Cardinality(cuts) < setup.outputs,
           NEW a \in Kept(InputEntries), NEW b \in Kept(InputEntries),
           Output(Kept(InputEntries), cuts, a) # Output(Kept(InputEntries), cuts, b)
    PROVE  \/ \A x \in Output(Kept(InputEntries), cuts, a), y \in Output(Kept(InputEntries), cuts, b) :
                x.key < y.key
           \/ \A x \in Output(Kept(InputEntries), cuts, a), y \in Output(Kept(InputEntries), cuts, b) :
                y.key < x.key
<1> DEFINE K == Kept(InputEntries)
           A == Output(K, cuts, a)
           B == Output(K, cuts, b)
<1>1. K \in SUBSET Entry /\ UniqueIn(K) /\ (~setup.snapshots => \A d, e \in K : d.key = e.key => d = e)
    BY KeptAre
<1>2. \A e \in K : e.key \in Nat /\ e.seq \in Nat  BY <1>1, EntryFields
<1> HIDE DEF K
<1>3. PICK c \in cuts : ~(Before(c, a) <=> Before(c, b))
    <2>1. SUFFICES ASSUME \A c \in cuts : Before(c, a) <=> Before(c, b) PROVE FALSE  OBVIOUS
    <2>2. A = B  BY <2>1 DEF Output
    <2>3. QED  BY <2>2 DEF K
<1>4. ~setup.snapshots
    <2>1. SUFFICES ASSUME setup.outputs = 1 PROVE FALSE  BY DEF IInv, ClientInv
    <2>2. UniqueIn(cuts) /\ cuts \in SUBSET Entry  BY <1>1 DEF UniqueIn, K
    <2>3. IsFiniteSet(cuts)  BY <2>2, EntriesFinite
    <2>4. Cardinality(cuts) = 0  BY <2>1, <2>3, FS_CardinalityType
    <2>5. QED  BY <1>3, <2>3, <2>4, FS_EmptySet
<1>5. c \in K /\ a \in K /\ b \in K  BY DEF K
<1>6. /\ \A x \in A : x \in K /\ (Before(c, x) <=> Before(c, a))
      /\ \A y \in B : y \in K /\ (Before(c, y) <=> Before(c, b))
    BY DEF Output
<1> HIDE DEF A, B
<1>7. \A d, e \in K : d.key = e.key => d = e  BY <1>1, <1>4
<1>8. \A x, y \in K : Before(c, x) /\ ~Before(c, y) => y.key < x.key
    <2>1. TAKE x, y \in K
    <2>2. SUFFICES ASSUME Before(c, x), ~Before(c, y) PROVE y.key < x.key  OBVIOUS
    <2>3. x.key # y.key  BY <1>7, <2>2
    <2>4. QED  BY <1>2, <1>5, <2>2, <2>3 DEF Before
<1>9. CASE Before(c, a) /\ ~Before(c, b)
    <2>1. \A x \in A, y \in B : y.key < x.key  BY <1>6, <1>8, <1>9
    <2>2. QED  BY <2>1 DEF A, B, K
<1>10. CASE ~Before(c, a) /\ Before(c, b)
    <2>1. \A x \in A, y \in B : x.key < y.key  BY <1>6, <1>8, <1>10
    <2>2. QED  BY <2>1 DEF A, B, K
<1>11. QED  BY <1>3, <1>9, <1>10

LEMMA OutputsFit ==
    ASSUME IInv, compact # NULL, NEW outputs \in Outputs(Kept(InputEntries)), NEW new,
           new = {NewTable(compact.level + 1, data) : data \in outputs},
           Disjoint((files \ compact.inputs) \cup new) \/ Solid(compact.inputs)
    PROVE  /\ Fits(compact.level, compact.inputs, new)
           /\ \A e : e \in Kept(InputEntries) <=> \E t \in new : e \in t.data
<1> DEFINE K == Kept(InputEntries)
           L == compact.level
           ins == compact.inputs
<1>1. PICK cuts \in SUBSET K : Cardinality(cuts) < setup.outputs /\ outputs = {Output(K, cuts, e) : e \in K}
    BY DEF Outputs
<1>2. Merging  BY DEF IInv
<1>3. L \in Nat /\ L + 1 \in Levels /\ L + 1 # 0 /\ ins \subseteq files
    BY MergingFields DEF L, ins
<1>4. /\ \A e : e \in InputEntries <=> \E f \in ins : e \in f.data
      /\ K \subseteq InputEntries /\ K \in SUBSET Entry /\ UniqueIn(K)
    BY KeptAre
<1>5. ASSUME NEW a \in K
      PROVE  /\ Output(K, cuts, a) \in SUBSET Entry /\ Output(K, cuts, a) # {}
             /\ UniqueIn(Output(K, cuts, a)) /\ Output(K, cuts, a) \subseteq K /\ a \in Output(K, cuts, a)
    <2>1. Output(K, cuts, a) \subseteq K /\ a \in Output(K, cuts, a)  BY DEF Output
    <2> HIDE DEF K
    <2>2. QED  BY <1>4, <2>1 DEF UniqueIn
<1>6. ASSUME NEW a \in K
      PROVE  LET t == NewTable(L + 1, Output(K, cuts, a))
             IN  /\ t \in FileMetaData /\ Whole(t) /\ t.level = L + 1 /\ t.number = 0
                 /\ t.data = Output(K, cuts, a)
    <2>1. NewNumber \in Nat  BY NewNumberIs DEF IInv
    <2> HIDE DEF K, L
    <2>2. QED  BY <1>3, <1>5, <2>1, NewTableIs
<1>7. \A t \in new : \E a \in K : t = NewTable(L + 1, Output(K, cuts, a))  BY <1>1, Zenon
<1>8. \A a \in K : NewTable(L + 1, Output(K, cuts, a)) \in new  BY <1>1, Zenon
<1> HIDE DEF K, L, ins
<1>9. \A t \in new : /\ t \in FileMetaData /\ Whole(t) /\ t.level = L + 1 /\ t.number = 0
                     /\ t.data \subseteq K
    BY <1>5, <1>6, <1>7
<1>10. \A e : e \in K <=> \E t \in new : e \in t.data
    <2>1. ASSUME NEW e \in K PROVE \E t \in new : e \in t.data  BY <1>5, <1>6, <1>8
    <2>2. QED  BY <1>9, <2>1
<1>11. \A t \in new : \A e \in t.data : \E f \in ins : e \in f.data  BY <1>4, <1>9
<1>12. ASSUME NEW t \in new, NEW u \in new, t # u PROVE ~Meet(t, u)
    <2>1. PICK a \in K : t = NewTable(L + 1, Output(K, cuts, a))  BY <1>7
    <2>2. PICK b \in K : u = NewTable(L + 1, Output(K, cuts, b))  BY <1>7
    <2>3. Output(K, cuts, a) # Output(K, cuts, b)  BY <1>12, <2>1, <2>2
    <2>4. t.data = Output(K, cuts, a) /\ u.data = Output(K, cuts, b)  BY <1>6, <2>1, <2>2
    <2>5. \/ \A x \in t.data, y \in u.data : x.key < y.key
          \/ \A x \in t.data, y \in u.data : y.key < x.key
        BY <1>1, <2>3, <2>4, OutputsApart DEF K
    <2>6. /\ t.smallest \in t.data /\ t.largest \in t.data /\ u.smallest \in u.data /\ u.largest \in u.data
        BY <1>9 DEF Whole
    <2>7. /\ t.smallest.key \in Nat /\ t.largest.key \in Nat
          /\ u.smallest.key \in Nat /\ u.largest.key \in Nat
        BY <1>9, FileFields
    <2>8. t.largest.key < u.smallest.key \/ u.largest.key < t.smallest.key  BY <2>5, <2>6
    <2>9. ~(t.smallest.key <= u.largest.key) \/ ~(u.smallest.key <= t.largest.key)  BY <2>7, <2>8
    <2>10. QED  BY <2>9, Zenon DEF Meet
<1>13. ASSUME NEW h \in files \ ins, NEW t \in new, h.level = L + 1, Meet(h, t) PROVE FALSE
    <2>1. \A f \in ins : ~Meet(h, f) /\ f \in FileMetaData /\ f \in files
        BY <1>2, <1>3, <1>13 DEF Merging, L, ins, IInv, TypeOK
    <2>2. h \in FileMetaData /\ Whole(h) /\ h.smallest.key <= h.largest.key
        BY TablesAre DEF IInv, Ordered
    <2>3. /\ h.smallest.key \in Nat /\ h.largest.key \in Nat
          /\ t.smallest.key \in Nat /\ t.largest.key \in Nat
        BY <1>9, <2>2, FileFields
    <2>4. t.smallest \in t.data /\ t.largest \in t.data  BY <1>9 DEF Whole
    <2>5. PICK f \in ins : t.smallest \in f.data  BY <1>11, <2>4
    <2>6. PICK g \in ins : t.largest \in g.data  BY <1>11, <2>4
    <2>7. Covers(f, t.smallest.key) /\ Covers(g, t.largest.key)
        BY <2>1, <2>5, <2>6, TablesAre DEF IInv
    <2>8. ~Covers(h, t.smallest.key) /\ ~Covers(h, t.largest.key)
        BY <2>1, <2>2, <2>3, <2>7, KeyMeets
    <2>9. CASE Disjoint((files \ compact.inputs) \cup new)
        <3>1. h # t
            <4>1. SUFFICES ASSUME h = t PROVE FALSE  OBVIOUS
            <4>2. f \in files /\ h \in files  BY <2>1
            <4>3. t.smallest \in h.data  BY <2>4, <4>1
            <4>4. f = h  BY <2>5, <4>2, <4>3, EntryOnce DEF IInv
            <4>5. QED  BY <4>4
        <3>2. Before(h.largest, t.smallest) \/ Before(t.largest, h.smallest)
            <4>1. h \in (files \ compact.inputs) \cup new /\ t \in (files \ compact.inputs) \cup new
                BY DEF ins
            <4>2. h.level = t.level /\ h.level > 0  BY <1>3, <1>9, <1>13
            <4>3. QED  BY <2>9, <3>1, <4>1, <4>2, Zenon DEF Disjoint
        <3>3. h.largest.key <= t.smallest.key \/ t.largest.key <= h.smallest.key
            BY <2>3, <3>2 DEF Before
        <3>4. QED  BY <1>13, <2>2, <2>3, <2>8, <3>3 DEF Meet, Covers
    <2>10. CASE Solid(compact.inputs)
        <3>1. Solid(ins)  BY <2>10 DEF ins
        <3>2. PICK k \in Nat : Covers(h, k) /\ Covers(t, k)
            <4>1. CASE h.smallest.key <= t.smallest.key
                <5>1. FALSE  BY <1>13, <2>3, <2>8, <4>1 DEF Meet, Covers
                <5>2. QED  BY <5>1
            <4>2. CASE t.smallest.key <= h.smallest.key
                <5>1. Covers(h, h.smallest.key) /\ Covers(t, h.smallest.key)
                    BY <1>13, <2>2, <2>3, <4>2 DEF Meet, Covers
                <5>2. QED  BY <2>3, <5>1
            <4>3. QED  BY <2>3, <4>1, <4>2
        <3>3. f.smallest.key <= k /\ k <= g.largest.key
            <4>1. f.smallest.key \in Nat /\ g.largest.key \in Nat  BY <2>1, FileFields
            <4>2. QED  BY <2>3, <2>7, <3>2, <4>1 DEF Covers
        <3>4. PICK z \in ins : Covers(z, k)  BY <3>1, <3>3 DEF Solid
        <3>5. Meet(h, z)  BY <2>1, <2>2, <3>2, <3>4, KeyMeets
        <3>6. QED  BY <2>1, <3>5
    <2>11. QED  BY <2>9, <2>10
<1>14. Fits(L, ins, new)
    <2>1. new \subseteq FileMetaData  BY <1>9
    <2>2. QED  BY <1>9, <1>11, <1>12, <1>13, <2>1 DEF Fits
<1>15. QED  BY <1>10, <1>14 DEF K, L, ins

LEMMA TwoBelow ==
    ASSUME NEW a \in Nat, NEW b \in Nat, a # b + 1, ~(a <= b)
    PROVE  a >= b + 2
OBVIOUS

\* What a snapshot sees of a key does not change: an entry that is hidden is not the
\* newest for it, and with a deletion that is dropped go all older entries of its key.
LEMMA KeptAnswers ==
    ASSUME IInv, compact # NULL, NEW data,
           \A e : e \in data <=>
                \/ e \in mem_ \/ e \in Kept(InputEntries)
                \/ \E f \in files \ compact.inputs : e \in f.data,
           NEW k \in Nat, NEW s \in Nat, compact.smallest_snapshot <= s
    PROVE  Answer(data, mem_, k, s) = Answer(AllEntries, mem_, k, s)
<1> DEFINE K == Kept(InputEntries)
           ss == compact.smallest_snapshot
<1>1. Merging  BY DEF IInv
<1>2. ss \in Nat /\ compact.level \in Nat /\ compact.inputs \subseteq files
    BY MergingFields DEF ss
<1>3. /\ \A e : e \in InputEntries <=> \E f \in compact.inputs : e \in f.data
      /\ K \subseteq InputEntries /\ InputEntries \subseteq AllEntries
    BY KeptAre
<1>4. /\ AllEntries \in SUBSET Entry
      /\ \A e : e \in AllEntries <=> e \in mem_ \/ \E f \in files : e \in f.data
    BY EntriesAre DEF IInv
<1>5. \A e \in AllEntries : e.seq \in Nat /\ e.key \in Nat  BY <1>4, EntryFields
<1>6. data \subseteq AllEntries  BY <1>3, <1>4
<1>7. \A e \in AllEntries : e \in data \/ e \in InputEntries  BY <1>3, <1>4
<1>8. ASSUME NEW e \in Seen(AllEntries, k, s), e \in data PROVE Seen(data, k, s) = Seen(AllEntries, k, s)
    <2>1. /\ e \in AllEntries /\ e.key = k /\ e.seq <= s
          /\ \A d \in AllEntries : d.key = k /\ d.seq <= s => d.seq <= e.seq
        BY InSeen
    <2>2. ASSUME NEW d \in Seen(AllEntries, k, s) PROVE d = e
        <3>1. d \in AllEntries /\ d.key = k /\ d.seq <= s /\ e.seq <= d.seq  BY <2>1, InSeen
        <3>2. d.seq = e.seq  BY <1>5, <2>1, <3>1
        <3>3. QED  BY <2>1, <3>1, <3>2 DEF IInv, DataInv, UniqueIn
    <2>3. e \in Seen(data, k, s)  BY <1>6, <1>8, <2>1, InSeen
    <2>4. ASSUME NEW d \in Seen(data, k, s) PROVE d \in Seen(AllEntries, k, s)
        <3>1. d \in data /\ d.key = k /\ d.seq <= s /\ e.seq <= d.seq  BY <1>8, <2>1, InSeen
        <3>2. \A x \in AllEntries : x.key = k /\ x.seq <= s => x.seq <= d.seq
            <4>1. TAKE x \in AllEntries
            <4>2. SUFFICES ASSUME x.key = k, x.seq <= s PROVE x.seq <= d.seq  OBVIOUS
            <4>3. x.seq <= e.seq  BY <2>1, <4>2
            <4>4. d.seq \in Nat /\ e.seq \in Nat /\ x.seq \in Nat  BY <1>5, <1>6, <2>1, <3>1
            <4>5. QED  BY <3>1, <4>3, <4>4
        <3>3. QED  BY <1>6, <3>1, <3>2, InSeen
    <2>5. QED  BY <2>2, <2>3, <2>4
<1>9. ASSUME NEW e \in Seen(AllEntries, k, s), e \notin data
      PROVE  e.type # "value" /\ Seen(data, k, s) = {}
    <2>1. /\ e \in AllEntries /\ e.key = k /\ e.seq <= s /\ e.seq \in Nat
          /\ \A d \in AllEntries : d.key = k /\ d.seq <= s => d.seq <= e.seq
        BY <1>5, InSeen
    <2>2. e \in InputEntries /\ e \notin K  BY <1>7, <1>9, <2>1
    <2>3. PICK i \in compact.inputs : e \in i.data  BY <1>3, <2>2
    <2>4. ~Hidden(e, InputEntries)
        <3>1. SUFFICES ASSUME NEW d \in InputEntries, d.key = e.key, d.seq > e.seq, d.seq <= ss PROVE FALSE
            BY DEF Hidden
        <3>2. d \in AllEntries /\ d.seq \in Nat  BY <1>3, <1>5
        <3>3. d.seq <= s  BY <1>2, <3>1, <3>2
        <3>4. d.seq <= e.seq  BY <2>1, <3>1, <3>2, <3>3
        <3>5. QED  BY <2>1, <3>1, <3>2, <3>4
    <2>5. e.type = "deletion" /\ e.seq <= ss /\ IsBaseLevelForKey(k)
        <3>1. ObsoleteDeletion(e)  BY <2>2, <2>4 DEF Kept
        <3>2. QED  BY <2>1, <3>1 DEF ObsoleteDeletion
    <2>6. ASSUME NEW d \in data, d.key = k, d.seq <= s PROVE FALSE
        <3>1. d \in AllEntries /\ d.seq <= e.seq /\ d.seq \in Nat  BY <1>5, <1>6, <2>1, <2>6
        <3>2. d.seq < e.seq
            <4>1. d # e  BY <1>9, <2>6
            <4>2. d.seq # e.seq  BY <2>1, <3>1, <4>1 DEF IInv, DataInv, UniqueIn
            <4>3. QED  BY <2>1, <3>1, <4>2
        <3>3. CASE d \in mem_
            <4>1. e \in TableEntries  BY <1>2, <2>3 DEF TableEntries
            <4>2. e.seq < d.seq  BY <3>3, <4>1 DEF IInv, DataInv
            <4>3. QED  BY <2>1, <3>1, <3>2, <4>2
        <3>4. CASE d \in K
            <4>1. ~Hidden(d, InputEntries)  BY <3>4 DEF Kept
            <4>2. QED  BY <2>1, <2>2, <2>5, <2>6, <3>1, <3>2, <4>1 DEF Hidden
        <3>5. ASSUME NEW h \in files \ compact.inputs, d \in h.data PROVE FALSE
            <4>1. Settled(compact.level, compact.inputs)  BY <1>1 DEF Merging, Settled
            <4>2. /\ Meet(h, i) /\ h.level # compact.level + 1
                  /\ h.level <= compact.level => d.seq > e.seq
                BY <2>1, <2>3, <2>6, <3>5, <4>1, OthersAre DEF IInv
            <4>3. h \in FileMetaData /\ h.level \in Nat /\ Covers(h, k)
                BY <2>6, <3>5, TablesAre, FileFields DEF IInv
            <4>4. ~(d.seq > e.seq)  BY <2>1, <3>1, <3>2
            <4>5. h.level >= compact.level + 2
                <5>1. h.level # compact.level + 1 /\ ~(h.level <= compact.level)
                    BY <4>2, <4>4, Zenon
                <5>2. QED  BY <1>2, <4>3, <5>1, TwoBelow, Zenon
            <4>6. h \in compact.version  BY <1>1, <4>2, <4>5 DEF Merging
            <4>7. ~Overlaps(h, [begin |-> k, end |-> k])  BY <2>5, <4>5, <4>6 DEF IsBaseLevelForKey
            <4>8. Overlaps(h, [begin |-> k, end |-> k])  BY <4>3, FileFields DEF Overlaps, Covers
            <4>9. QED  BY <4>7, <4>8
        <3>6. QED  BY <2>6, <3>3, <3>4, <3>5
    <2>7. Seen(data, k, s) = {}  BY <2>6, InSeen
    <2>8. QED  BY <2>5, <2>7
<1>10. CASE Seen(AllEntries, k, s) = {}
    <2>1. \A d \in AllEntries : ~(d.key = k /\ d.seq <= s)  BY <1>4, <1>10, SeenExists
    <2>2. Seen(data, k, s) = {}  BY <1>6, <2>1, InSeen
    <2>3. QED  BY <1>10, <2>2 DEF Answer
<1>11. ASSUME NEW e \in Seen(AllEntries, k, s) PROVE Answer(data, mem_, k, s) = Answer(AllEntries, mem_, k, s)
    <2>1. CASE e \in data
        <3>1. Seen(data, k, s) = Seen(AllEntries, k, s)  BY <1>8, <2>1
        <3>2. QED  BY <3>1, Zenon DEF Answer
    <2>2. CASE e \notin data
        <3>1. Seen(data, k, s) = {}  BY <1>9, <2>2
        <3>2. \A d \in Seen(AllEntries, k, s) : d.type # "value"
            <4>1. TAKE d \in Seen(AllEntries, k, s)
            <4>2. CASE d \notin data  BY <1>9, <4>2
            <4>3. CASE d \in data
                <5>1. Seen(data, k, s) = Seen(AllEntries, k, s)  BY <1>8, <4>3
                <5>2. QED  BY <3>1, <5>1
            <4>4. QED  BY <4>2, <4>3
        <3>3. Answer(data, mem_, k, s) = NULL  BY <3>1 DEF Answer, Says
        <3>4. {d \in Seen(AllEntries, k, s) : d.type = "value"} = {}  BY <3>2
        <3>5. Answer(AllEntries, mem_, k, s) = NULL  BY <3>4 DEF Answer, Says
        <3>6. QED  BY <3>3, <3>5
    <2>3. QED  BY <2>1, <2>2
<1>12. QED  BY <1>10, <1>11

\* No read of the latest state or of a snapshot that is held changes.
SameAnswers ==
    \A k \in Nat : \A s \in Nat :
        s = last_sequence_ \/ (\E i \in SnapshotIds : snapshots_[i] = s) =>
            Answer(AllEntries', mem_', k, s) = Answer(AllEntries, mem_, k, s)

\* Inputs without a table for each key between them leave a gap.
LEMMA GapOrSolid ==
    ASSUME NEW fs \in SUBSET FileMetaData
    PROVE  Solid(fs) \/ Gap(fs)
<1> SUFFICES ASSUME NEW k \in Nat, NEW f \in fs, NEW g \in fs, f.smallest.key <= k,
                    k <= g.largest.key, \A h \in fs : ~Covers(h, k)
             PROVE  Gap(fs)
    BY DEF Solid
<1>1. \A h \in fs : h.smallest.key \in Keys /\ h.largest.key \in Keys
    BY EntryFields DEF FileMetaData, Entry
<1>2. \A j \in Keys : j \in Nat /\ 1 <= j /\ j <= MaxKey  BY LSMAssumption DEF Keys
<1>3. f.largest.key < k /\ k < g.smallest.key  BY <1>1, <1>2 DEF Covers
<1>4. k \in Keys  BY <1>1, <1>2, LSMAssumption DEF Keys
<1>5. \A h \in fs : ~Overlaps(h, [begin |-> k, end |-> k])  BY <1>1, <1>2 DEF Overlaps, Covers
<1>6. QED  BY <1>3, <1>4, <1>5 DEF Gap

LEMMA DoneStep == ASSUME IInv, CompactDone PROVE IInv' /\ SameAnswers
<1>1. /\ ~aborted /\ compact # NULL /\ compact' = IF aborted' THEN compact ELSE NULL
      /\ UNCHANGED <<mem_, last_sequence_, snapshots_, setup>>
    BY DEF CompactDone
<1>2. PICK outputs \in Outputs(Kept(InputEntries)) :
        Install((files \ compact.inputs) \cup {NewTable(compact.level + 1, data) : data \in outputs})
    BY DEF CompactDone, InputEntries
<1> DEFINE new == {NewTable(compact.level + 1, data) : data \in outputs}
           fs == (files \ compact.inputs) \cup new
<1>3. Install(fs)  BY <1>2
<1>4. Disjoint(fs) \/ Solid(compact.inputs) =>
        /\ Fits(compact.level, compact.inputs, new)
        /\ \A e : e \in Kept(InputEntries) <=> \E t \in new : e \in t.data
    BY <1>1, OutputsFit
<1> HIDE DEF new
<1>5. Settled(compact.level, compact.inputs)  BY <1>1 DEF IInv, Merging, Settled
<1>6. CASE Disjoint(fs)
    <2>1. files' = fs /\ aborted' = FALSE /\ compact' = NULL  BY <1>1, <1>3, <1>6 DEF Install
    <2>2. DataInv' /\ Apart' /\ NewerFirst' /\ files' \subseteq FileMetaData
        BY <1>1, <1>4, <1>5, <1>6, <2>1, ReplaceStep DEF IInv
    <2>3. TypeOK'  BY <1>1, <2>1, <2>2 DEF IInv, TypeOK
    <2>4. ClientInv'  BY <1>1, <2>1 DEF IInv, ClientInv
    <2>5. IInv'  BY <2>1, <2>2, <2>3, <2>4 DEF IInv
    <2>6. \A e : e \in AllEntries' <=>
                \/ e \in mem_ \/ e \in Kept(InputEntries)
                \/ \E f \in files \ compact.inputs : e \in f.data
        <3>1. \A e : e \in AllEntries' <=> e \in mem_ \/ \E g \in fs : e \in g.data
            BY <1>1, <2>1, Zenon DEF AllEntries, TableEntries
        <3>2. QED  BY <1>4, <1>6, <3>1, Zenon
    <2>7. SameAnswers
        <3>1. SUFFICES ASSUME NEW k \in Nat, NEW s \in Nat,
                              s = last_sequence_ \/ (\E i \in SnapshotIds : snapshots_[i] = s)
                       PROVE  Answer(AllEntries', mem_', k, s) = Answer(AllEntries, mem_, k, s)
            BY DEF SameAnswers
        <3>2. compact.smallest_snapshot <= s
            <4>1. s # NULL  BY LSMAssumption
            <4>2. QED  BY <1>1, <3>1, <4>1 DEF IInv, Merging
        <3>3. QED  BY <1>1, <2>6, <3>2, KeptAnswers
    <2>8. QED  BY <2>5, <2>7
<1>7. CASE ~Disjoint(fs)
    <2>1. files' = files /\ aborted' = TRUE /\ compact' = compact  BY <1>1, <1>3, <1>7 DEF Install
    <2>2. compact.is_manual /\ Gap(compact.inputs)
        <3>1. SUFFICES ASSUME Solid(compact.inputs) PROVE FALSE
            <4>1. compact.inputs \in SUBSET FileMetaData  BY <1>1 DEF IInv, TypeOK
            <4>2. compact.is_manual \/ Solid(compact.inputs)  BY <1>1 DEF IInv, Merging
            <4>3. QED  BY <4>1, <4>2, GapOrSolid
        <3>2. ApartIn(fs)  BY <1>4, <3>1, FitsApart DEF IInv
        <3>3. fs \in SUBSET FileMetaData  BY <1>4, <3>1 DEF Fits, IInv, TypeOK
        <3>4. QED  BY <1>7, <3>2, <3>3, ApartDisjoint
    <2>3. Apart' /\ NewerFirst' /\ TableEntries' = TableEntries  BY <2>1, SameFiles DEF IInv
    <2>4. AllEntries' = AllEntries  BY <1>1, <2>3 DEF AllEntries
    <2>5. TypeOK'  BY <1>1, <2>1 DEF IInv, TypeOK
    <2>6. DataInv'  BY <1>1, <2>1, <2>3, <2>4 DEF IInv, DataInv
    <2>7. ClientInv'
        <3>1. Gap(compact'.inputs)  BY <2>1, <2>2
        <3>2. QED  BY <1>1, <2>1, <2>2, <3>1 DEF IInv, ClientInv, Gap, Overlaps
    <2>8. Merging'  BY <1>1, <2>1 DEF IInv, Merging, Solid
    <2>9. IInv'  BY <2>3, <2>5, <2>6, <2>7, <2>8 DEF IInv
    <2>10. SameAnswers  BY <1>1, <2>4 DEF SameAnswers
    <2>11. QED  BY <2>9, <2>10
<1>8. QED  BY <1>6, <1>7
-----------------------------------------------------------------------------
(* The theorems *)

LEMMA StepHolds == ASSUME IInv, [Next]_vars PROVE IInv'
<1>1. CASE UNCHANGED vars
    <2>1. Apart' /\ NewerFirst' /\ TableEntries' = TableEntries  BY <1>1, SameFiles DEF IInv, vars
    <2>2. AllEntries' = AllEntries  BY <1>1, <2>1 DEF AllEntries, vars
    <2>3. TypeOK' /\ ClientInv'  BY <1>1 DEF IInv, TypeOK, ClientInv, Gap, Overlaps, vars
    <2>4. DataInv'  BY <1>1, <2>1, <2>2 DEF IInv, DataInv, vars
    <2>5. compact' # NULL => Merging'  BY <1>1 DEF IInv, Merging, Solid, vars
    <2>6. QED  BY <2>1, <2>3, <2>4, <2>5 DEF IInv
<1>2. CASE Write  BY <1>2, WriteStep
<1>3. ASSUME NEW i \in SnapshotIds, GetSnapshot(i) PROVE IInv'
    BY <1>3, SnapshotStep DEF GetSnapshot
<1>4. ASSUME NEW i \in SnapshotIds, ReleaseSnapshot(i) PROVE IInv'
    BY <1>4, SnapshotStep DEF ReleaseSnapshot
<1>5. CASE CompactMemTable  BY <1>5, MemTableIs, MemTableStep
<1>6. CASE CompactAutomatic  BY <1>6, AutomaticStep
<1>7. CASE CompactManual  BY <1>7, ManualStep
<1>8. CASE TrivialMove  BY <1>8, MoveStep
<1>9. CASE CompactDone  BY <1>9, DoneStep
<1>10. QED  BY <1>1, <1>2, <1>3, <1>4, <1>5, <1>6, <1>7, <1>8, <1>9 DEF Next

\* The invariant that the results below rest on: tables with their own entries and
\* bounds, levels apart, and a compaction that still knows all that it may meet.
THEOREM LevelsInductive == KeysTogether => (Spec => []IInv)
<1>1. KeysTogether /\ Init => IInv  BY InitHolds
<1>2. IInv /\ [Next]_vars => IInv'  BY StepHolds
<1>3. QED  BY <1>1, <1>2, PTL DEF Spec

\* The inputs of a running compaction are still tables of the version, whatever is
\* installed meanwhile.
THEOREM LevelTypes == KeysTogether => (Spec => []TypeOK)
<1>1. IInv => TypeOK  BY DEF IInv
<1>2. QED  BY <1>1, LevelsInductive, PTL

\* Version::Get comes to the newer of two entries for a key first, whatever
\* compactions, memtable compactions and trivial moves run and however a memtable
\* compaction places its table while a merge is going on.
THEOREM NewerIsFirst == KeysTogether => (Spec => []NewerFirst)
<1>1. IInv => NewerFirst  BY DEF IInv
<1>2. QED  BY <1>1, LevelsInductive, PTL

\* Builder meets two overlapping tables of a level below 0 only when CompactRange has
\* chosen inputs with a gap: never in a compaction of the scheduler's own, a trivial
\* move or a memtable compaction, wherever that puts its table beside a merge.
THEOREM LevelsDisjoint == KeysTogether => (Spec => []AbortsOnlyInGap)
<1>1. IInv => AbortsOnlyInGap  BY DEF IInv, ClientInv, AbortsOnlyInGap
<1>2. QED  BY <1>1, LevelsInductive, PTL
-----------------------------------------------------------------------------
(* The clients' view *)

\* What SnapshotStore's variables stand for, and the same from all entries.
Latest == [k \in Keys |-> Get(k, last_sequence_)]
View == [i \in SnapshotIds |->
            IF snapshots_[i] = NULL THEN NULL ELSE [k \in Keys |-> Get(k, snapshots_[i])]]

Answers(data, m, s) == [k \in Keys |-> Answer(data, m, k, s)]
Views(data, m, held) ==
    [i \in SnapshotIds |-> IF held[i] = NULL THEN NULL ELSE Answers(data, m, held[i])]

LEMMA LatestIs == IInv => Latest = Answers(AllEntries, mem_, last_sequence_)
<1> SUFFICES ASSUME IInv PROVE Latest = Answers(AllEntries, mem_, last_sequence_)  OBVIOUS
<1>1. last_sequence_ \in Nat  BY SnapshotTypes DEF IInv
<1>2. \A k \in Keys : k \in Nat  BY LSMAssumption DEF Keys
<1>3. \A k \in Keys : Get(k, last_sequence_) = Answer(AllEntries, mem_, k, last_sequence_)
    BY <1>1, <1>2, GetIs DEF IInv
<1>4. QED  BY <1>3 DEF Latest, Answers

LEMMA ViewIs == IInv => View = Views(AllEntries, mem_, snapshots_)
<1> SUFFICES ASSUME IInv PROVE View = Views(AllEntries, mem_, snapshots_)  OBVIOUS
<1>1. \A k \in Keys : k \in Nat  BY LSMAssumption DEF Keys
<1>2. ASSUME NEW i \in SnapshotIds, snapshots_[i] # NULL
      PROVE  [k \in Keys |-> Get(k, snapshots_[i])] = Answers(AllEntries, mem_, snapshots_[i])
    <2>1. snapshots_[i] \in Nat  BY <1>2, SnapshotTypes DEF IInv
    <2>2. \A k \in Keys : Get(k, snapshots_[i]) = Answer(AllEntries, mem_, k, snapshots_[i])
        BY <1>1, <2>1, GetIs DEF IInv
    <2>3. QED  BY <2>2 DEF Answers
<1>3. QED  BY <1>2 DEF View, Views

LEMMA LatestIsPrimed == (IInv => Latest = Answers(AllEntries, mem_, last_sequence_))'
BY LatestIs, PTL

LEMMA ViewIsPrimed == (IInv => View = Views(AllEntries, mem_, snapshots_))'
BY ViewIs, PTL

\* A write is not seen by the snapshots before it, nor at other keys, and is what is
\* seen of its own key.
LEMMA NewEntryLater ==
    ASSUME NEW data \in SUBSET Entry, NEW n \in Entry, NEW k, NEW s \in Nat, s < n.seq
    PROVE  Seen(data \cup {n}, k, s) = Seen(data, k, s)
<1>1. n.seq \in Nat  BY EntryFields
<1>2. {e \in data \cup {n} : e.key = k /\ e.seq <= s} = {e \in data : e.key = k /\ e.seq <= s}
    BY <1>1
<1>3. QED  BY <1>2, Zenon DEF Seen

LEMMA NewEntryElsewhere ==
    ASSUME NEW data \in SUBSET Entry, NEW n \in Entry, NEW last \in Nat,
           \A e \in data : e.seq <= last, NEW k, k # n.key
    PROVE  Seen(data \cup {n}, k, last + 1) = Seen(data, k, last)
<1>1. \A e \in data : e.seq <= last + 1  BY EntryFields
<1>2. {e \in data \cup {n} : e.key = k /\ e.seq <= last + 1}
        = {e \in data : e.key = k /\ e.seq <= last}
    BY <1>1
<1>3. QED  BY <1>2, Zenon DEF Seen

LEMMA NewEntryHere ==
    ASSUME NEW data \in SUBSET Entry, NEW n \in Entry, \A e \in data : e.seq < n.seq
    PROVE  Seen(data \cup {n}, n.key, n.seq) = {n}
<1> DEFINE more == data \cup {n}
<1>1. \A e \in data : e.seq <= n.seq /\ ~(n.seq <= e.seq)  BY EntryFields
<1>2. n.seq <= n.seq  BY EntryFields
<1>3. \A e : e \in Seen(more, n.key, n.seq) <=>
            /\ e \in more /\ e.key = n.key /\ e.seq <= n.seq
            /\ \A d \in more : d.key = n.key /\ d.seq <= n.seq => d.seq <= e.seq
    <2> HIDE DEF more
    <2>1. QED  BY InSeen
<1>4. \A e : e \in Seen(more, n.key, n.seq) <=> e = n  BY <1>1, <1>2, <1>3
<1>5. QED  BY <1>4

\* What a deletion or a Put of a number says.
LEMMA OneSays ==
    \A e, m : Says({e}, m) = IF e.type = "value" THEN [put |-> e.seq, stored |-> e \notin m] ELSE NULL
<1> TAKE e, m
<1>1. CASE e.type = "value"
    <2>1. {d \in {e} : d.type = "value"} = {e}  BY <1>1
    <2>2. (CHOOSE d \in {e} : TRUE) = e  OBVIOUS
    <2>3. QED  BY <1>1, <2>1, <2>2 DEF Says
<1>2. CASE e.type # "value"
    <2>1. {d \in {e} : d.type = "value"} = {}  BY <1>2
    <2>2. QED  BY <1>2, <2>1 DEF Says
<1>3. QED  BY <1>1, <1>2

\* An answer is found in some entry, whose place tells its form, or in none.
LEMMA SaysOne ==
    ASSUME NEW es
    PROVE  \/ \A m : Says(es, m) = NULL
           \/ \E e \in es : \A m : Says(es, m) = [put |-> e.seq, stored |-> e \notin m]
<1> DEFINE found == {e \in es : e.type = "value"}
           e == CHOOSE e \in found : TRUE
<1>1. CASE found = {}
    <2>1. \A m : Says(es, m) = NULL  BY <1>1 DEF Says
    <2>2. QED  BY <2>1
<1>2. CASE found # {}
    <2>1. e \in es  BY <1>2
    <2>2. \A m : Says(es, m) = [put |-> e.seq, stored |-> e \notin m]  BY <1>2 DEF Says
    <2>3. QED  BY <2>1, <2>2
<1>3. QED  BY <1>1, <1>2

\* A new entry of the memtable does not change the form of the others.
LEMMA SaysElsewhere ==
    ASSUME NEW es, NEW m, NEW n, n \notin es
    PROVE  Says(es, m \cup {n}) = Says(es, m)
<1>1. CASE \A x : Says(es, x) = NULL  BY <1>1
<1>2. ASSUME NEW e \in es, \A x : Says(es, x) = [put |-> e.seq, stored |-> e \notin x]
      PROVE  Says(es, m \cup {n}) = Says(es, m)
    <2>1. (e \notin m \cup {n}) = (e \notin m)  OBVIOUS
    <2>2. QED  BY <1>2, <2>1
<1>3. QED  BY <1>1, <1>2, SaysOne

\* What Flushed is: the number before the first of the memtable's, or the last one.
LEMMA FlushedIs ==
    TypeOK =>
        /\ mem_ = {} => Flushed = last_sequence_
        /\ mem_ # {} => \E e \in mem_ : Flushed = e.seq - 1 /\ \A d \in mem_ : e.seq <= d.seq
<1> SUFFICES ASSUME TypeOK
             PROVE  /\ mem_ = {} => Flushed = last_sequence_
                    /\ mem_ # {} => \E e \in mem_ : /\ Flushed = e.seq - 1
                                                   /\ \A d \in mem_ : e.seq <= d.seq
    OBVIOUS
<1> DEFINE seqs == {e.seq : e \in mem_}
<1>1. seqs \in SUBSET Nat
    <2>1. mem_ \in SUBSET Entry  BY DEF TypeOK
    <2>2. QED  BY <2>1, EntryFields
<1>2. ASSUME mem_ # {}
      PROVE  \E e \in mem_ : Flushed = e.seq - 1 /\ \A d \in mem_ : e.seq <= d.seq
    <2>1. seqs # {}  BY <1>2
    <2>2. \E n \in seqs : \A x \in seqs : n <= x
        <3> HIDE DEF seqs
        <3>1. QED  BY <1>1, <2>1, LeastNumber
    <2>3. \E n \in seqs : \A e \in mem_ : n <= e.seq  BY <2>2
    <2> DEFINE n == CHOOSE n \in seqs : \A e \in mem_ : n <= e.seq
    <2>4. n \in seqs /\ \A e \in mem_ : n <= e.seq  BY <2>3, Zenon
    <2>5. Flushed = n - 1  BY <1>2 DEF Flushed
    <2> HIDE DEF n
    <2>6. QED  BY <2>4, <2>5
<1>3. QED  BY <1>2 DEF Flushed

LEMMA FlushedIsPrimed ==
    (TypeOK =>
        /\ mem_ = {} => Flushed = last_sequence_
        /\ mem_ # {} => \E e \in mem_ : Flushed = e.seq - 1 /\ \A d \in mem_ : e.seq <= d.seq)'
BY FlushedIs, PTL

\* Put and Delete are writes of the store.
LEMMA StoreWrite ==
    ASSUME IInv, Write
    PROVE  \E k \in Keys : Store!Put(k) \/ Store!Delete(k)
<1>1. /\ last_sequence_' = last_sequence_ + 1 /\ last_sequence_ \in Nat /\ last_sequence_ < MaxSequence
      /\ UNCHANGED <<files, snapshots_>> /\ IInv'
    <2>1. last_sequence_ < setup.writes  BY DEF Write
    <2>2. last_sequence_ < MaxSequence  BY <2>1, SetupIs, SnapshotTypes DEF IInv
    <2>3. QED  BY <2>2, WriteStep, SnapshotTypes DEF Write, IInv
<1>2. PICK k \in setup.keys, t \in setup.types :
        mem_' = mem_ \cup {[key |-> k, seq |-> last_sequence_', type |-> t]}
    BY DEF Write
<1> DEFINE n == [key |-> k, seq |-> last_sequence_ + 1, type |-> t]
           more == AllEntries \cup {n}
<1>3. k \in Keys /\ t \in {"value", "deletion"}  BY <1>2, SetupIs DEF IInv
<1>4. AllEntries' = more  BY <1>1, <1>2, Zenon DEF AllEntries, TableEntries
<1>5. AllEntries \in SUBSET Entry /\ \A e \in AllEntries : e.seq <= last_sequence_
    BY EntriesAre DEF IInv, DataInv
<1>6. n.key = k /\ n.seq = last_sequence_ + 1 /\ n.type = t /\ n \in Entry
    BY <1>1, <1>2, <1>3, LSMAssumption DEF Entry
<1> HIDE DEF n
<1>7. /\ \A j : \A s \in Nat : s <= last_sequence_ => Seen(more, j, s) = Seen(AllEntries, j, s)
      /\ \A j : j # k => Seen(more, j, last_sequence_ + 1) = Seen(AllEntries, j, last_sequence_)
      /\ Seen(more, k, last_sequence_ + 1) = {n}
    <2>1. \A s \in Nat : s <= last_sequence_ => s < n.seq  BY <1>1, <1>6
    <2>2. \A j : \A s \in Nat : s <= last_sequence_ => Seen(more, j, s) = Seen(AllEntries, j, s)
        BY <1>5, <1>6, <2>1, NewEntryLater
    <2>3. \A j : j # k => Seen(more, j, last_sequence_ + 1) = Seen(AllEntries, j, last_sequence_)
        BY <1>1, <1>5, <1>6, NewEntryElsewhere
    <2>4. \A e \in AllEntries : e.seq < n.seq  BY <1>1, <1>5, <1>6, EntryFields
    <2>5. Seen(more, n.key, n.seq) = {n}  BY <1>5, <1>6, <2>4, NewEntryHere
    <2>6. QED  BY <1>6, <2>2, <2>3, <2>5
<1> HIDE DEF more
<1>14. mem_' = mem_ \cup {n}  BY <1>1, <1>2 DEF n
<1>15. \A j, s : n \notin Seen(AllEntries, j, s)
    <2>1. n \notin AllEntries  BY <1>1, <1>5, <1>6
    <2>2. QED  BY <2>1, InSeen
<1>8. ASSUME NEW s \in Nat, s <= last_sequence_
      PROVE  Answers(more, mem_', s) = Answers(AllEntries, mem_, s)
    <2>1. \A j : Answer(more, mem_', j, s) = Answer(AllEntries, mem_, j, s)
        <3> TAKE j
        <3>1. Answer(more, mem_', j, s) = Says(Seen(AllEntries, j, s), mem_ \cup {n})
            BY <1>7, <1>8, <1>14, Zenon DEF Answer
        <3>2. QED  BY <1>15, <3>1, SaysElsewhere DEF Answer
    <2>2. QED  BY <2>1, Zenon DEF Answers
<1>9. View' = View
    <2>1. \A i \in SnapshotIds : snapshots_[i] # NULL =>
            snapshots_[i] \in Nat /\ snapshots_[i] <= last_sequence_
        BY SnapshotTypes DEF IInv, ClientInv
    <2>2. \A i \in SnapshotIds : snapshots_[i] # NULL =>
            Answers(more, mem_', snapshots_[i]) = Answers(AllEntries, mem_, snapshots_[i])
        BY <1>8, <2>1
    <2>3. Views(more, mem_', snapshots_) = Views(AllEntries, mem_, snapshots_)  BY <2>2 DEF Views
    <2>4. View' = Views(more, mem_', snapshots_)  BY <1>1, <1>4, ViewIsPrimed
    <2>5. QED  BY <2>3, <2>4, ViewIs
<1> DEFINE new == IF t = "value" THEN [put |-> last_sequence_ + 1, stored |-> FALSE] ELSE NULL
<1>10. Latest' = [Latest EXCEPT ![k] = new]
    <2>1. ASSUME NEW j, j # k
          PROVE  Answer(more, mem_', j, last_sequence_ + 1) = Answer(AllEntries, mem_, j, last_sequence_)
        <3>1. Answer(more, mem_', j, last_sequence_ + 1)
                = Says(Seen(AllEntries, j, last_sequence_), mem_ \cup {n})
            BY <1>7, <1>14, <2>1, Zenon DEF Answer
        <3>2. QED  BY <1>15, <3>1, SaysElsewhere DEF Answer
    <2>2. Answer(more, mem_', k, last_sequence_ + 1) = new
        <3>1. Answer(more, mem_', k, last_sequence_ + 1) = Says({n}, mem_')  BY <1>7, Zenon DEF Answer
        <3>2. n \in mem_'  BY <1>14
        <3>3. Says({n}, mem_') =
                IF n.type = "value" THEN [put |-> n.seq, stored |-> n \notin mem_'] ELSE NULL
            BY OneSays
        <3>4. (n \notin mem_') = FALSE  BY <3>2
        <3>5. QED  BY <1>6, <3>1, <3>3, <3>4
    <2> HIDE DEF new
    <2>3. Answers(more, mem_', last_sequence_ + 1) =
            [Answers(AllEntries, mem_, last_sequence_) EXCEPT ![k] = new]
        BY <1>3, <2>1, <2>2 DEF Answers
    <2>4. Latest' = Answers(more, mem_', last_sequence_ + 1)  BY <1>1, <1>4, LatestIsPrimed
    <2>5. QED  BY <2>3, <2>4, LatestIs
<1>16. Flushed' = Flushed
    <2>1. TypeOK /\ TypeOK'  BY <1>1 DEF IInv
    <2>2. \A d \in mem_ : d.seq \in Nat /\ d.seq < n.seq
        <3>1. mem_ \subseteq AllEntries  BY DEF AllEntries
        <3>2. QED  BY <1>1, <1>5, <1>6, <3>1, EntryFields
    <2>3. PICK e \in mem_' : Flushed' = e.seq - 1 /\ \A d \in mem_' : e.seq <= d.seq
        BY <1>14, <2>1, FlushedIsPrimed
    <2>4. CASE mem_ = {}
        <3>1. e = n /\ Flushed = last_sequence_  BY <1>14, <2>1, <2>4, FlushedIs
        <3>2. QED  BY <1>1, <1>6, <2>3, <3>1
    <2>5. CASE mem_ # {}
        <3>1. PICK d \in mem_ : Flushed = d.seq - 1 /\ \A c \in mem_ : d.seq <= c.seq
            BY <2>1, <2>5, FlushedIs
        <3>2. e.seq <= d.seq /\ e \in mem_ /\ d.seq <= e.seq
            <4>1. e.seq <= d.seq  BY <1>14, <2>3
            <4>2. e # n  BY <1>1, <1>6, <2>2, <4>1
            <4>3. QED  BY <1>14, <3>1, <4>1, <4>2
        <3>3. e.seq = d.seq  BY <2>2, <3>2
        <3>4. QED  BY <2>3, <3>1, <3>3
    <2>6. QED  BY <2>4, <2>5
<1>11. CASE t = "value"
    <2>1. Latest' = [Latest EXCEPT ![k] = [put |-> last_sequence_', stored |-> FALSE]]
        BY <1>1, <1>10, <1>11
    <2>2. Store!Put(k)  BY <1>1, <1>9, <1>16, <2>1 DEF Store!Put, Latest, View
    <2>3. QED  BY <1>3, <2>2
<1>12. CASE t = "deletion"
    <2>1. Latest' = [Latest EXCEPT ![k] = NULL]  BY <1>10, <1>12
    <2>2. Store!Delete(k)  BY <1>1, <1>9, <1>16, <2>1 DEF Store!Delete, Latest, View
    <2>3. QED  BY <1>3, <2>2
<1>13. QED  BY <1>3, <1>11, <1>12

\* GetSnapshot and ReleaseSnapshot are the store's.
LEMMA StoreSnapshot ==
    ASSUME IInv, IInv', NEW i \in SnapshotIds, GetSnapshot(i) \/ ReleaseSnapshot(i)
    PROVE  \/ Store!GetSnapshot(i) \/ Store!ReleaseSnapshot(i)
           \/ Flushed' = Flushed /\ Latest' = Latest /\ View' = View
<1>1. UNCHANGED <<mem_, files, last_sequence_>>  BY DEF GetSnapshot, ReleaseSnapshot
<1>2. AllEntries' = AllEntries  BY <1>1 DEF AllEntries, TableEntries
<1>10. Flushed' = Flushed  BY <1>1 DEF Flushed
<1>3. Latest' = Latest  BY <1>1, <1>2, LatestIs, LatestIsPrimed
<1>4. View' = Views(AllEntries, mem_, snapshots_')  BY <1>1, <1>2, ViewIsPrimed
<1>5. View = Views(AllEntries, mem_, snapshots_)  BY ViewIs
<1>6. snapshots_ \in [SnapshotIds -> {NULL} \cup 0 .. MaxSequence]  BY DEF IInv, TypeOK
<1>7. CASE GetSnapshot(i)
    <2>1. snapshots_[i] = NULL /\ snapshots_' = [snapshots_ EXCEPT ![i] = last_sequence_]
        BY <1>7 DEF GetSnapshot
    <2>2. last_sequence_ # NULL  BY SnapshotTypes, LSMAssumption DEF IInv
    <2>3. Views(AllEntries, mem_, snapshots_') =
            [Views(AllEntries, mem_, snapshots_) EXCEPT ![i] = Answers(AllEntries, mem_, last_sequence_)]
        BY <1>6, <2>1, <2>2 DEF Views
    <2>4. View' = [View EXCEPT ![i] = Latest]  BY <1>4, <1>5, <2>3, LatestIs
    <2>5. View[i] = NULL  BY <2>1 DEF View
    <2>6. Store!GetSnapshot(i)  BY <1>1, <1>3, <1>10, <2>4, <2>5 DEF Store!GetSnapshot, Latest, View
    <2>7. QED  BY <2>6
<1>8. CASE ReleaseSnapshot(i)
    <2>1. snapshots_' = [snapshots_ EXCEPT ![i] = NULL]  BY <1>8 DEF ReleaseSnapshot
    <2>2. Views(AllEntries, mem_, snapshots_') = [Views(AllEntries, mem_, snapshots_) EXCEPT ![i] = NULL]
        BY <1>6, <2>1 DEF Views
    <2>3. View' = [View EXCEPT ![i] = NULL]  BY <1>4, <1>5, <2>2
    <2>4. CASE View[i] = NULL
        <3>1. View' = View  BY <2>3, <2>4 DEF View
        <3>2. QED  BY <1>3, <1>10, <3>1
    <2>5. CASE View[i] # NULL
        <3>1. Store!ReleaseSnapshot(i)
            BY <1>1, <1>3, <1>10, <2>3, <2>5 DEF Store!ReleaseSnapshot, Latest, View
        <3>2. QED  BY <3>1
    <2>6. QED  BY <2>4, <2>5
<1>9. QED  BY <1>7, <1>8

\* A step that leaves the answers as they are is not seen.
LEMMA StoreStays ==
    ASSUME IInv, IInv', SameAnswers, UNCHANGED <<last_sequence_, snapshots_>>
    PROVE  Latest' = Latest /\ View' = View
<1>1. \A k \in Keys : k \in Nat  BY LSMAssumption DEF Keys
<1>2. last_sequence_ \in Nat  BY SnapshotTypes DEF IInv
<1>3. Answers(AllEntries', mem_', last_sequence_) = Answers(AllEntries, mem_, last_sequence_)
    <2>1. \A k \in Keys :
            Answer(AllEntries', mem_', k, last_sequence_) = Answer(AllEntries, mem_, k, last_sequence_)
        BY <1>1, <1>2 DEF SameAnswers
    <2>2. QED  BY <2>1 DEF Answers
<1>4. Views(AllEntries', mem_', snapshots_) = Views(AllEntries, mem_, snapshots_)
    <2>1. ASSUME NEW i \in SnapshotIds, snapshots_[i] # NULL
          PROVE  Answers(AllEntries', mem_', snapshots_[i]) = Answers(AllEntries, mem_, snapshots_[i])
        <3>1. snapshots_[i] \in Nat  BY <2>1, SnapshotTypes DEF IInv
        <3>2. \A k \in Keys :
                Answer(AllEntries', mem_', k, snapshots_[i]) = Answer(AllEntries, mem_, k, snapshots_[i])
            BY <1>1, <3>1 DEF SameAnswers
        <3>3. QED  BY <3>2 DEF Answers
    <2>2. QED  BY <2>1 DEF Views
<1>5. Latest' = Answers(AllEntries', mem_', last_sequence_)  BY LatestIsPrimed
<1>6. View' = Views(AllEntries', mem_', snapshots_)  BY ViewIsPrimed
<1>7. QED  BY <1>3, <1>4, <1>5, <1>6, LatestIs, ViewIs

LEMMA OtherForm ==
    \A q, b, c : [[put |-> q, stored |-> b] EXCEPT !.stored = c] = [put |-> q, stored |-> c]
OBVIOUS

\* What is said of some entries when those up to a number have left the memtable.
LEMMA SaysStored ==
    ASSUME NEW es \in SUBSET Entry, NEW m, NEW left, NEW n \in Nat,
           \A e \in es : e \notin left <=> e \notin m \/ e.seq <= n
    PROVE  Says(es, left) = Store!Stored(Says(es, m), n) /\ Says(es, m) \in Values \cup {NULL}
<1>1. CASE \A x : Says(es, x) = NULL
    <2>1. Store!Stored(NULL, n) = NULL  BY DEF Store!Stored
    <2>2. QED  BY <1>1, <2>1
<1>2. ASSUME NEW e \in es, \A x : Says(es, x) = [put |-> e.seq, stored |-> e \notin x]
      PROVE  Says(es, left) = Store!Stored(Says(es, m), n) /\ Says(es, m) \in Values \cup {NULL}
    <2> DEFINE b == e \notin m
               v == [put |-> e.seq, stored |-> b]
    <2>1. e.seq \in Nat  BY EntryFields
    <2>2. b \in BOOLEAN /\ Says(es, m) = v  BY <1>2, Zenon
    <2> HIDE DEF b
    <2>3. v \in Values /\ v # NULL  BY <2>1, <2>2, LSMAssumption DEF Values
    <2>4. Store!Stored(v, n) = IF e.seq <= n THEN [put |-> e.seq, stored |-> TRUE] ELSE v
        <3>1. v.put = e.seq  OBVIOUS
        <3>2. [v EXCEPT !.stored = TRUE] = [put |-> e.seq, stored |-> TRUE]  BY OtherForm, Zenon
        <3> HIDE DEF v
        <3>3. QED  BY <2>3, <3>1, <3>2 DEF Store!Stored
    <2>5. CASE e.seq <= n
        <3>1. (e \notin left) = TRUE  BY <2>5
        <3>2. Says(es, left) = [put |-> e.seq, stored |-> TRUE]  BY <1>2, <3>1, Zenon
        <3>3. QED  BY <2>2, <2>3, <2>4, <2>5, <3>2
    <2>6. CASE ~(e.seq <= n)
        <3>1. (e \notin left) = b  BY <2>6 DEF b
        <3>2. Says(es, left) = v  BY <1>2, <3>1, Zenon
        <3>3. QED  BY <2>2, <2>3, <2>4, <2>6, <3>2
    <2>7. QED  BY <2>5, <2>6
<1>3. QED  BY <1>1, <1>2, SaysOne

\* A memtable compaction is a Flush of the store, of the writes up to the first that
\* stays in the memtable.
LEMMA StoreFlush ==
    ASSUME IInv, NEW last \in mem_, FlushUpTo(last)
    PROVE  \E n \in Flushed + 1 .. last_sequence_ : Store!Flush(n)
<1>1. IInv' /\ AllEntries' = AllEntries  BY MemTableStep
<1>2. UNCHANGED <<last_sequence_, snapshots_>> /\ mem_' = mem_ \ {e \in mem_ : e.seq <= last.seq}
    BY DEF FlushUpTo
<1>3. /\ AllEntries \in SUBSET Entry /\ mem_ \subseteq AllEntries /\ last_sequence_ \in Nat
      /\ \A e \in AllEntries : e.seq \in Nat /\ e.seq >= 1 /\ e.seq <= last_sequence_
    <2>1. AllEntries \in SUBSET Entry /\ mem_ \subseteq AllEntries
        BY EntriesAre DEF IInv, AllEntries
    <2>2. last_sequence_ \in Nat  BY SnapshotTypes DEF IInv
    <2>3. \A e \in AllEntries : e.seq \in 1 .. MaxSequence /\ e.seq \in Nat
        BY <2>1, EntryFields, Zenon
    <2>4. \A e \in AllEntries : e.seq <= last_sequence_  BY Zenon DEF IInv, DataInv
    <2>5. QED  BY <2>1, <2>2, <2>3, <2>4
<1>4. \A e : e \in mem_' <=> e \in mem_ /\ last.seq < e.seq
    BY <1>2, <1>3
<1>5. PICK first \in mem_ : Flushed = first.seq - 1 /\ \A d \in mem_ : first.seq <= d.seq
    BY FlushedIs DEF IInv
<1>12. PICK n : n = Flushed'  OBVIOUS
<1>6. /\ n \in Flushed + 1 .. last_sequence_ /\ n \in Nat
      /\ \A e \in AllEntries : e \notin mem_' <=> e \notin mem_ \/ e.seq <= n
    <2>1. first.seq <= last.seq /\ first.seq \in Nat /\ last.seq \in Nat /\ first.seq >= 1
          /\ last.seq <= last_sequence_
        BY <1>3, <1>5
    <2>2. CASE mem_' = {}
        <3>1. n = last_sequence_  BY <1>1, <1>2, <1>12, <2>2, FlushedIsPrimed DEF IInv
        <3>2. n \in Flushed + 1 .. last_sequence_  BY <1>3, <1>5, <2>1, <3>1
        <3>3. QED  BY <1>3, <2>2, <3>1, <3>2
    <2>3. CASE mem_' # {}
        <3>1. PICK d \in mem_' : n = d.seq - 1 /\ \A c \in mem_' : d.seq <= c.seq
            BY <1>1, <1>12, <2>3, FlushedIsPrimed DEF IInv
        <3>2. d \in mem_ /\ last.seq < d.seq /\ d.seq \in Nat /\ d.seq <= last_sequence_
            BY <1>3, <1>4
        <3>3. n \in Flushed + 1 .. last_sequence_ /\ n \in Nat
            BY <1>3, <1>5, <2>1, <3>1, <3>2
        <3>4. \A e \in mem_ : e \notin mem_' <=> e.seq <= n
            <4> TAKE e \in mem_
            <4>1. e.seq \in Nat  BY <1>3
            <4>2. CASE e \in mem_'  BY <3>1, <3>2, <4>1, <4>2
            <4>3. CASE e \notin mem_'
                <5>1. e.seq <= last.seq  BY <1>4, <2>1, <4>1, <4>3
                <5>2. QED  BY <2>1, <3>1, <3>2, <4>1, <4>3, <5>1
            <4>4. QED  BY <4>2, <4>3
        <3>5. QED  BY <1>4, <3>3, <3>4
    <2>4. QED  BY <2>2, <2>3
<1>7. ASSUME NEW s
      PROVE  /\ Answers(AllEntries, mem_', s) = Store!StoredMap(Answers(AllEntries, mem_, s), n)
             /\ Answers(AllEntries, mem_, s) # NULL
    <2>1. ASSUME NEW k \in Keys
          PROVE  /\ Answer(AllEntries, mem_', k, s) = Store!Stored(Answer(AllEntries, mem_, k, s), n)
                 /\ Answer(AllEntries, mem_, k, s) \in Values \cup {NULL}
        <3>1. Seen(AllEntries, k, s) \subseteq AllEntries  BY InSeen
        <3>2. QED  BY <1>3, <1>6, <3>1, SaysStored DEF Answer
    <2>2. Answers(AllEntries, mem_, s) \in [Keys -> Values \cup {NULL}]  BY <2>1 DEF Answers
    <2>3. \A k \in Keys : Answers(AllEntries, mem_, s)[k] = Answer(AllEntries, mem_, k, s)
        BY DEF Answers
    <2>4. Answers(AllEntries, mem_', s) = Store!StoredMap(Answers(AllEntries, mem_, s), n)
        BY <2>1, <2>3 DEF Answers, Store!StoredMap
    <2>5. QED  BY <2>2, <2>4, LSMAssumption
<1>8. Latest' = Store!StoredMap(Latest, n)
    <2>1. Latest' = Answers(AllEntries, mem_', last_sequence_)  BY <1>1, <1>2, LatestIsPrimed
    <2>2. QED  BY <1>7, <2>1, LatestIs
<1>9. View' = [i \in SnapshotIds |-> IF View[i] = NULL THEN NULL ELSE Store!StoredMap(View[i], n)]
    <2>1. View' = Views(AllEntries, mem_', snapshots_)  BY <1>1, <1>2, ViewIsPrimed
    <2>2. View = Views(AllEntries, mem_, snapshots_)  BY ViewIs
    <2>3. ASSUME NEW i \in SnapshotIds
          PROVE  Views(AllEntries, mem_', snapshots_)[i]
                    = IF View[i] = NULL THEN NULL ELSE Store!StoredMap(View[i], n)
        <3>1. Views(AllEntries, mem_', snapshots_)[i]
                = IF snapshots_[i] = NULL THEN NULL ELSE Answers(AllEntries, mem_', snapshots_[i])
            BY DEF Views
        <3>2. View[i] = IF snapshots_[i] = NULL THEN NULL ELSE Answers(AllEntries, mem_, snapshots_[i])
            BY <2>2 DEF Views
        <3>3. QED  BY <1>7, <3>1, <3>2
    <2>4. Views(AllEntries, mem_', snapshots_) = [i \in SnapshotIds |-> Views(AllEntries, mem_', snapshots_)[i]]
        BY DEF Views
    <2>5. QED  BY <2>1, <2>3, <2>4
<1>10. Store!Flush(n)
    BY <1>2, <1>8, <1>9, <1>12 DEF Store!Flush, Latest, View
<1>11. QED  BY <1>6, <1>10

LEMMA StoreInit ==
    ASSUME KeysTogether, Init PROVE Store!Init
<1>1. IInv /\ last_sequence_ = 0 /\ mem_ = {} /\ files = {} /\ \A i \in SnapshotIds : snapshots_[i] = NULL
    BY InitHolds DEF Init
<1>2. AllEntries = {}  BY <1>1 DEF AllEntries, TableEntries
<1>3. \A k : Answer({}, {}, k, 0) = NULL
    <2> TAKE k
    <2>1. Seen({}, k, 0) = {}  BY DEF Seen
    <2>2. QED  BY <2>1 DEF Answer, Says
<1>4. Latest = [k \in Keys |-> NULL]  BY <1>1, <1>2, <1>3, LatestIs DEF Answers
<1>5. View = [i \in SnapshotIds |-> NULL]  BY <1>1 DEF View
<1>6. Flushed = 0  BY <1>1 DEF Flushed
<1>7. QED  BY <1>1, <1>4, <1>5, <1>6 DEF Store!Init, Latest, View

LEMMA StoreStep ==
    ASSUME IInv, [Next]_vars
    PROVE  [Store!Next]_<<last_sequence_, Flushed, Latest, View>>
<1>1. IInv'  BY StepHolds
<1>2. ASSUME AllEntries' = AllEntries, UNCHANGED <<mem_, last_sequence_, snapshots_>>
      PROVE  UNCHANGED <<last_sequence_, Flushed, Latest, View>>
    <2>1. SameAnswers  BY <1>2 DEF SameAnswers
    <2>2. Flushed' = Flushed  BY <1>2 DEF Flushed
    <2>3. QED  BY <1>1, <1>2, <2>1, <2>2, StoreStays
<1>3. ASSUME UNCHANGED <<mem_, files>> PROVE AllEntries' = AllEntries
    BY <1>3 DEF AllEntries, TableEntries
<1>4. CASE UNCHANGED vars  BY <1>2, <1>3, <1>4 DEF vars
<1>5. CASE Write  BY <1>5, StoreWrite DEF Store!Next
<1>6. ASSUME NEW i \in SnapshotIds, GetSnapshot(i) \/ ReleaseSnapshot(i)
      PROVE  [Store!Next]_<<last_sequence_, Flushed, Latest, View>>
    <2>1. UNCHANGED last_sequence_  BY <1>6 DEF GetSnapshot, ReleaseSnapshot
    <2>2. QED  BY <1>1, <1>6, <2>1, StoreSnapshot DEF Store!Next
<1>7. CASE CompactMemTable
    <2>1. PICK last \in mem_ : FlushUpTo(last)  BY <1>7, MemTableIs
    <2>2. QED  BY <2>1, StoreFlush DEF Store!Next
<1>8. CASE CompactAutomatic \/ CompactManual
    <2>1. UNCHANGED <<mem_, last_sequence_, snapshots_>>
        BY <1>8 DEF CompactAutomatic, CompactManual, Begin
    <2>2. AllEntries' = AllEntries  BY <1>3, <1>8, AutomaticStep, ManualStep
    <2>3. QED  BY <1>2, <2>1, <2>2
<1>9. CASE TrivialMove
    <2>1. UNCHANGED <<mem_, last_sequence_, snapshots_>>  BY <1>9 DEF TrivialMove
    <2>2. QED  BY <1>2, <1>9, <2>1, MoveStep
<1>10. CASE CompactDone
    <2>1. UNCHANGED <<mem_, last_sequence_, snapshots_>>  BY <1>10 DEF CompactDone
    <2>2. SameAnswers  BY <1>10, DoneStep
    <2>3. Flushed' = Flushed  BY <2>1 DEF Flushed
    <2>4. QED  BY <1>1, <2>1, <2>2, <2>3, StoreStays
<1>11. QED  BY <1>4, <1>5, <1>6, <1>7, <1>8, <1>9, <1>10 DEF Next

\* The database is a map with snapshots for its clients, but for the form of its values:
\* each Put, Delete, GetSnapshot and ReleaseSnapshot is that of SnapshotStore, a memtable
\* compaction gives the values of all writes up to one the form BuildTable stores and
\* changes nothing else, and no other compaction, with what it drops and where it puts
\* the rest, changes an answer at all.
THEOREM ImplementsSnapshotStore == KeysTogether => (Spec => ImplementsStore)
<1>1. KeysTogether /\ Init => Store!Init  BY StoreInit
<1>2. IInv /\ [Next]_vars =>
        [Store!Next]_<<last_sequence_, Flushed, [k \in Keys |-> Get(k, last_sequence_)],
                       [i \in SnapshotIds |-> IF snapshots_[i] = NULL THEN NULL
                                              ELSE [k \in Keys |-> Get(k, snapshots_[i])]]>>
    BY StoreStep DEF Latest, View
<1>3. QED  BY <1>1, <1>2, LevelsInductive, PTL DEF Spec, ImplementsStore, Store!Spec
=============================================================================
