------------------------- MODULE MemTableTheorems ---------------------------
(***************************************************************************)
(* The skip list for any number of readers, keys, entries and levels.  The *)
(* writer's plan (Planned) says where its node belongs in each level; from *)
(* it every level stays a sorted list store by store (Lists), and from     *)
(* that a reader that stands on a linked node finds what it should.        *)
(***************************************************************************)
EXTENDS MemTable, Sequences, FiniteSetTheorems, TLAPS

Lt(n, m) == Before(InternalKey(n), InternalKey(m))

\* Members of the list and of its nodes
Typed ==
    /\ Added \in 0 .. MaxSequence /\ DOMAIN entry = 0 .. Added /\ DOMAIN next_ = 0 .. Added
    /\ \A n \in 0 .. Added :
        /\ entry[n].key \in Nat /\ entry[n].height \in 1 .. kMaxHeight
        /\ next_[n] \in [0 .. entry[n].height - 1 -> Nodes \cup {Null, Garbage}]
    /\ entry[head_].height = kMaxHeight
    /\ max_height_ \in 1 .. kMaxHeight /\ last_sequence_ \in 0 .. Added

Inserting == writer.pc \in {"set", "link"}

\* prev[i] of the insertion is where the new node goes in level i: the last node before it.
Place(i, p) ==
    /\ p \in 0 .. Added - 1 /\ entry[p].height > i
    /\ p # head_ => Lt(p, Added)
    /\ \A m \in Chain(i) : Lt(m, Added) => p # head_ /\ (m = p \/ Lt(m, p))

\* The insertion is that of the newest node, which is not published.
Planned ==
    /\ writer = [pc |-> writer.pc, node |-> writer.node, prev |-> writer.prev, level |-> writer.level]
    /\ writer.pc \in {"idle", "set", "link", "retired"}
    /\ ~Inserting => writer.node = Null /\ writer.level = 0
    /\ Inserting =>
        /\ writer.node = Added /\ last_sequence_ < Added
        /\ writer.level \in 0 .. entry[Added].height - 1
        /\ \A i \in 0 .. entry[Added].height - 1 : Place(i, writer.prev[i])
    /\ writer.pc = "link" =>
        next_[Added][writer.level] = next_[writer.prev[writer.level]][writer.level]

\* What follows a node in the list of a level
After(i, n) == {m \in Linked(i) : n = head_ \/ Lt(n, m)}

IsNext(i, n, to) ==
    /\ to = Null => After(i, n) = {}
    /\ to # Null => to \in After(i, n) /\ \A m \in After(i, n) : ~Lt(m, to)

\* Each level is a sorted list of what is linked.
Lists == \A i \in Levels : \A n \in Linked(i) \cup {head_} : IsNext(i, n, next_[n][i])

Search == [pc : {"idle", "search", "done"},
           op : {"New", "Seek", "Get", "SeekToFirst", "SeekToLast", "Next", "Prev"},
           target : [k : Nat, s : Nat], x : Nat, level : Levels,
           node_ : Nat \cup {Null}, published : Nat]

\* A search stands on a linked node, before its target; what it began with is published.
Standing(s) ==
    /\ s \in Search
    /\ s.pc # "search" => s.level = 0
    /\ s.x \in Linked(s.level) \cup {head_}
    /\ s.node_ \in Linked(0) \cup {Null}
    /\ s.published <= last_sequence_
    /\ s.op = "Get" => s.target.s <= s.published
    /\ s.pc = "search" =>
        /\ s.op \in {"Seek", "Get", "SeekToLast", "Prev"}
        /\ s.x # head_ /\ s.op # "SeekToLast" => KeyIsAfterNode(s.target, s.x)

\* What SearchExact says of one search
Exact(search) ==
    search.pc = "done" =>
        LET at == search.node_
            x  == search.x
            to == search.target
            Published == 1 .. search.published
            versions == {s \in 1 .. to.s : entry[s].key = to.k}
        IN  /\ at # Garbage
            /\ search.op = "Seek" =>
                /\ at # Null => ~KeyIsAfterNode(to, at)
                /\ \A n \in Published : Between(n, Null, at) => KeyIsAfterNode(to, n)
            /\ search.op = "Get" =>
                IF at # Null /\ entry[at].key = to.k
                THEN at \in versions /\ \A s \in versions : s <= at
                ELSE versions = {}
            /\ search.op = "SeekToFirst" => \A n \in Published : at # Null /\ ~Between(n, Null, at)
            /\ search.op = "SeekToLast" => \A n \in Published : at # Null /\ ~Between(n, at, Null)
            /\ search.op = "Next" =>
                /\ at # Null => Before(InternalKey(x), InternalKey(at))
                /\ \A n \in Published : ~Between(n, x, at)
            /\ search.op = "Prev" =>
                /\ at # Null => KeyIsAfterNode(to, at)
                /\ \A n \in Published : KeyIsAfterNode(to, n) => at # Null /\ ~Between(n, at, Null)

Searches == {reader[r] : r \in Readers}

Reading == DOMAIN reader = Readers /\ \A s \in Searches : Standing(s) /\ Exact(s)

ListInv == Typed /\ Planned /\ Lists /\ Reading
-----------------------------------------------------------------------------
(* Memory *)

Sizes == Seq(Nat)
RegionSet == [block : Nat, offset : Nat, bytes : Nat]
ArenaSet == [blocks_ : Sizes, ptr_block : Nat, alloc_ptr_ : Nat, alloc_bytes_remaining_ : Nat,
             memory_usage_ : Nat, result : RegionSet]

\* The current block ends where what remains of it ends.
ArenaOK(a) ==
    /\ a \in ArenaSet
    /\ a.ptr_block <= Len(a.blocks_)
    /\ IF a.ptr_block = 0 THEN a.alloc_bytes_remaining_ = 0
       ELSE a.alloc_ptr_ + a.alloc_bytes_remaining_ = a.blocks_[a.ptr_block]

\* A region lies in a block, and not in what is left of the current one.
Inside(a, m) ==
    /\ m.block \in 1 .. Len(a.blocks_) /\ m.offset \in Nat /\ m.bytes \in Nat \ {0}
    /\ m.offset + m.bytes <= a.blocks_[m.block]
    /\ m.block = a.ptr_block => m.offset + m.bytes <= a.alloc_ptr_

Apart(m1, m2) ==
    m1.block = m2.block =>
        m1.offset + m1.bytes <= m2.offset \/ m2.offset + m2.bytes <= m1.offset

Holding == {r \in Readers : reader[r].pc # "idle"}

MemoryInv ==
    /\ ArenaOK(arena_)
    /\ \A m \in Regions : Inside(arena_, m)
    /\ \A n \in DOMAIN entry : entry[n].mem.offset % Align = 0
    /\ IsFiniteSet(Regions) /\ Cardinality(Regions) = 2 * Added + 1
    /\ \A m1, m2 \in Regions : m1 = m2 \/ Apart(m1, m2)
    /\ refs_ = Cardinality(Holding) + (IF writer.pc = "retired" THEN 0 ELSE 1)

IInv == ListInv /\ MemoryInv
-----------------------------------------------------------------------------
(* Order and numbers *)

\* A set of numbers with a bound has a largest one.
LEMMA LargestNumber ==
    ASSUME NEW S \in SUBSET Nat, S # {}, NEW b \in Nat, \A n \in S : n <= b
    PROVE  \E n \in S : \A m \in S : m <= n
<1> DEFINE R == OpToRel(<, Nat)
           T == {k \in Nat : \E n \in S : k = b - n}
<1>1. IsWellFoundedOn(R, Nat)  BY NatLessThanWellFounded
<1>2. T # {}
    <2>1. PICK n \in S : TRUE  OBVIOUS
    <2>2. b - n \in Nat  BY <2>1
    <2>3. QED  BY <2>1, <2>2, Zenon
<1>3. PICK k \in T : \A y \in T : <<y, k>> \notin R
    <2> HIDE DEF R
    <2>1. T \subseteq Nat  OBVIOUS
    <2> HIDE DEF T
    <2>2. QED  BY <1>1, <1>2, <2>1, WFMin
<1>4. \A y \in T : ~(y < k)  BY <1>3 DEF OpToRel
<1>5. PICK n \in S : k = b - n  OBVIOUS
<1>6. ASSUME NEW m \in S PROVE m <= n
    <2>1. b - m \in T  OBVIOUS
    <2>2. ~(b - m < b - n)  BY <1>4, <1>5, <2>1
    <2>3. QED  BY <2>2
<1>7. QED  BY <1>6

\* A set of numbers has a smallest one.
LEMMA SmallestNumber ==
    ASSUME NEW S \in SUBSET Nat, S # {}
    PROVE  \E n \in S : \A m \in S : n <= m
<1> DEFINE R == OpToRel(<, Nat)
<1>1. IsWellFoundedOn(R, Nat)  BY NatLessThanWellFounded
<1>2. PICK k \in S : \A y \in S : <<y, k>> \notin R
    <2> HIDE DEF R
    <2>1. QED  BY <1>1, WFMin
<1>3. \A y \in S : ~(y < k)  BY <1>2 DEF OpToRel
<1>4. QED  BY <1>3

\* The order, in keys and sequence numbers
LEMMA Compared ==
    /\ \A n, m : Lt(n, m) <=> entry[n].key < entry[m].key \/ (entry[n].key = entry[m].key /\ n > m)
    /\ \A n, to : KeyIsAfterNode(to, n) <=>
            n # Null /\ (entry[n].key < to.k \/ (entry[n].key = to.k /\ n > to.s))
BY DEF Lt, Before, InternalKey, KeyIsAfterNode

LEMMA Keyed ==
    ASSUME Typed
    PROVE  Added \in Nat /\ \A n \in 0 .. Added : n \in Nat /\ n # Null /\ entry[n].key \in Nat
BY MemTableAssumption DEF Typed, Null

\* InternalKeyComparator orders nodes by key and, since nodes are sequence numbers, strictly.
LEMMA Order ==
    ASSUME Typed
    PROVE  /\ \A n \in 0 .. Added : ~Lt(n, n)
           /\ \A n, m, k \in 0 .. Added : Lt(n, m) /\ Lt(m, k) => Lt(n, k)
           /\ \A n, m \in 0 .. Added : n = m \/ Lt(n, m) \/ Lt(m, n)
<1>1. ASSUME NEW n \in 0 .. Added PROVE ~Lt(n, n)  BY Keyed, Compared
<1>2. ASSUME NEW n \in 0 .. Added, NEW m \in 0 .. Added, NEW k \in 0 .. Added, Lt(n, m), Lt(m, k)
      PROVE  Lt(n, k)
    BY <1>2, Keyed, Compared
<1>3. ASSUME NEW n \in 0 .. Added, NEW m \in 0 .. Added PROVE n = m \/ Lt(n, m) \/ Lt(m, n)
    BY Keyed, Compared
<1>4. QED  BY <1>1, <1>2, <1>3

\* A node of a search is before its target with all nodes before it.
LEMMA BeforeTarget ==
    ASSUME Typed, NEW to \in [k : Nat, s : Nat], NEW n \in 0 .. Added, NEW m \in 0 .. Added
    PROVE  /\ Lt(n, m) /\ KeyIsAfterNode(to, m) => KeyIsAfterNode(to, n)
           /\ KeyIsAfterNode(to, n) /\ ~KeyIsAfterNode(to, m) => Lt(n, m)
<1>1. to.k \in Nat /\ to.s \in Nat  OBVIOUS
<1>2. n \in Nat /\ m \in Nat /\ entry[n].key \in Nat /\ entry[m].key \in Nat /\ n # Null /\ m # Null
    BY Keyed
<1>3. Lt(n, m) <=> entry[n].key < entry[m].key \/ (entry[n].key = entry[m].key /\ n > m)
    BY Compared
<1>4. KeyIsAfterNode(to, m) <=> entry[m].key < to.k \/ (entry[m].key = to.k /\ m > to.s)
    BY <1>2, Compared
<1>5. KeyIsAfterNode(to, n) <=> entry[n].key < to.k \/ (entry[n].key = to.k /\ n > to.s)
    BY <1>2, Compared
<1>6. QED  BY <1>1, <1>2, <1>3, <1>4, <1>5

LEMMA ChainNodes ==
    ASSUME Typed
    PROVE  /\ \A i : Chain(i) \subseteq 1 .. Added
           /\ \A i : Linked(i) \subseteq Chain(i)
           /\ \A n \in 1 .. Added : n \in Chain(0)
           /\ \A i \in Levels : \A n \in Chain(i) \cup {head_} :
                n \in 0 .. Added /\ i \in 0 .. entry[n].height - 1
<1>1. Added \in Nat  BY Keyed
<1>2. QED  BY <1>1, MemTableAssumption DEF Typed, Chain, Linked, head_, Levels

\* FindGreaterOrEqual of the writer: prev[i] is the last node before the key.
LEMMA PrevIsLast ==
    ASSUME Typed, NEW i \in Levels, NEW key \in [k : Nat, s : Nat]
    PROVE  LET p == Prev(key, i) IN
           /\ p \in 0 .. Added /\ entry[p].height > i
           /\ p # head_ => p \in Chain(i) /\ Before(InternalKey(p), key)
           /\ \A m \in Chain(i) : Before(InternalKey(m), key) => p # head_ /\ (m = p \/ Lt(m, p))
<1> DEFINE less == {n \in Chain(i) : Before(InternalKey(n), key)}
           top == {n \in less : \A m \in less : ~Lt(n, m)}
<1>1. less \subseteq 1 .. Added /\ Added \in Nat  BY ChainNodes, Keyed
<1>2. Prev(key, i) = IF less = {} THEN head_ ELSE CHOOSE n \in less : \A m \in less : ~Lt(n, m)
    BY DEF Prev, Lt
<1>3. CASE less = {}
    <2>1. Prev(key, i) = head_  BY <1>2, <1>3
    <2>2. entry[head_].height > i  BY MemTableAssumption DEF Typed, Levels
    <2>3. QED  BY <1>1, <1>3, <2>1, <2>2 DEF head_
<1>4. CASE less # {}
    <2> DEFINE ks == {entry[n].key : n \in less}
    <2>1. PICK k \in ks : \A other \in ks : other <= k
        <3>1. ks \in SUBSET Nat /\ ks # {}  BY <1>1, <1>4 DEF Typed
        <3>2. \A other \in ks : other <= key.k
            BY <1>1 DEF Typed, Before, InternalKey
        <3>3. QED  BY <3>1, <3>2, LargestNumber
    <2>2. PICK n \in {m \in less : entry[m].key = k} : \A m \in {m \in less : entry[m].key = k} : n <= m
        <3>1. {m \in less : entry[m].key = k} \in SUBSET Nat /\ {m \in less : entry[m].key = k} # {}
            BY <1>1
        <3>2. QED  BY <3>1, SmallestNumber
    <2>3. \A m \in less : ~Lt(n, m)
        <3>1. TAKE m \in less
        <3>2. entry[m].key \in Nat /\ entry[n].key \in Nat /\ m \in Nat /\ n \in Nat  BY <1>1, Keyed
        <3>3. entry[m].key <= entry[n].key  BY <2>1, <2>2
        <3>4. entry[m].key = entry[n].key => n <= m  BY <2>2
        <3>5. QED  BY <3>2, <3>3, <3>4, Compared
    <2>4. Prev(key, i) \in less /\ \A m \in less : ~Lt(Prev(key, i), m)
        BY <1>2, <1>4, <2>2, <2>3
    <2> DEFINE p == Prev(key, i)
    <2> HIDE DEF p
    <2>5. p \in less /\ \A m \in less : ~Lt(p, m)  BY <2>4 DEF p
    <2>6. p \in 1 .. Added /\ p \in Chain(i) /\ Before(InternalKey(p), key)  BY <1>1, <2>5
    <2>7. entry[p].height > i  BY <2>6 DEF Chain
    <2>8. \A m \in less : m = p \/ Lt(m, p)  BY <1>1, <2>5, <2>6, Order
    <2>9. QED  BY <1>1, <2>6, <2>7, <2>8 DEF p, head_
<1>5. QED  BY <1>3, <1>4
-----------------------------------------------------------------------------
(* What a step leaves alone *)

\* Entries are never changed, and nothing is unlinked or unpublished.
Kept ==
    /\ Added <= Added' /\ \A n \in 0 .. Added : entry'[n] = entry[n]
    /\ last_sequence_ <= last_sequence_'
    /\ \A i \in Levels : \A n \in Linked(i) : n \in Linked(i)'

LEMMA KeptKeys ==
    ASSUME Typed, \A n \in 0 .. Added : entry'[n] = entry[n]
    PROVE  /\ \A n, m \in 0 .. Added : Lt(n, m)' <=> Lt(n, m)
           /\ \A n \in 0 .. Added \cup {Null} : \A to :
                KeyIsAfterNode(to, n)' <=> KeyIsAfterNode(to, n)
           /\ \A n \in 0 .. Added : \A lo, hi \in 0 .. Added \cup {Null} :
                Between(n, lo, hi)' <=> Between(n, lo, hi)
<1>1. ASSUME NEW n \in 0 .. Added, NEW m \in 0 .. Added PROVE Lt(n, m)' <=> Lt(n, m)
    BY DEF Lt, InternalKey, Before
<1>2. ASSUME NEW n \in 0 .. Added \cup {Null}, NEW to
      PROVE  KeyIsAfterNode(to, n)' <=> KeyIsAfterNode(to, n)
    BY DEF InternalKey, Before, KeyIsAfterNode
<1>3. ASSUME NEW n \in 0 .. Added, NEW lo \in 0 .. Added \cup {Null}, NEW hi \in 0 .. Added \cup {Null}
      PROVE  Between(n, lo, hi)' <=> Between(n, lo, hi)
    BY DEF InternalKey, Before, Between
<1>4. QED  BY <1>1, <1>2, <1>3

\* A search that does not move stays right whatever the writer does.
LEMMA SearchKept ==
    ASSUME Typed, Typed', Kept, NEW s, Standing(s), Exact(s)
    PROVE  Standing(s)' /\ Exact(s)'
<1>1. Added \in Nat /\ last_sequence_ \in 0 .. Added /\ 0 \in Levels
    BY Keyed, MemTableAssumption DEF Typed, Levels
<1>2. s \in Search /\ s.level \in Levels /\ s.published \in 0 .. last_sequence_
    BY <1>1 DEF Standing, Search
<1>3. s.x \in 0 .. Added /\ s.node_ \in 0 .. Added \cup {Null}
    BY <1>1, <1>2, ChainNodes DEF Standing, head_
<1>4. KeyIsAfterNode(s.target, s.x)' <=> KeyIsAfterNode(s.target, s.x)
    BY <1>3, KeptKeys DEF Kept
<1>5. Standing(s)'
    <2>1. s.x \in Linked(s.level)' \cup {head_}  BY <1>2 DEF Standing, Kept
    <2>2. s.node_ \in Linked(0)' \cup {Null}  BY <1>1 DEF Standing, Kept
    <2>3. s.published <= last_sequence_'
        <3>1. last_sequence_ <= last_sequence_' /\ Added <= Added'  BY DEF Kept
        <3>2. last_sequence_' \in Nat  BY MemTableAssumption DEF Typed
        <3>3. QED  BY <1>1, <1>2, <3>1, <3>2
    <2>4. QED  BY <1>2, <1>4, <2>1, <2>2, <2>3 DEF Standing
<1>6. ASSUME s.pc = "done" PROVE Exact(s)'
    <2> DEFINE at == s.node_
               to == s.target
    <2>1. at \in 0 .. Added \cup {Null} /\ s.x \in 0 .. Added /\ Null \in 0 .. Added \cup {Null}
        BY <1>3
    <2>2. \A n \in 1 .. s.published : n \in 0 .. Added  BY <1>1, <1>2
    <2>3. \A n \in 0 .. Added : \A lo, hi \in 0 .. Added \cup {Null} :
            Between(n, lo, hi)' <=> Between(n, lo, hi)
        BY KeptKeys DEF Kept
    <2>4. \A n \in 0 .. Added \cup {Null} : KeyIsAfterNode(to, n)' <=> KeyIsAfterNode(to, n)
        BY KeptKeys DEF Kept
    <2>5. at \in 0 .. Added => Lt(s.x, at)' <=> Lt(s.x, at)
        BY <1>3, KeptKeys DEF Kept
    <2>6. \A n \in 0 .. Added : entry'[n] = entry[n]  BY DEF Kept
    <2>7. s.op = "Get" => to.s \in Nat /\ \A n \in 1 .. to.s : n \in 0 .. Added
        <3>1. s.target \in [k : Nat, s : Nat]  BY <1>2 DEF Search
        <3>2. QED  BY <1>1, <1>2, <3>1 DEF Standing
    <2> HIDE DEF at, to
    <2>8. QED
        <3>1. (s.op = "Seek") =>
                /\ at # Null => ~KeyIsAfterNode(to, at)'
                /\ \A n \in 1 .. s.published : Between(n, Null, at)' => KeyIsAfterNode(to, n)'
            BY <1>6, <2>1, <2>2, <2>3, <2>4 DEF Exact, at, to
        <3>2. (s.op = "Get") =>
                IF at # Null /\ entry'[at].key = to.k
                THEN /\ at \in {n \in 1 .. to.s : entry'[n].key = to.k}
                     /\ \A n \in {n \in 1 .. to.s : entry'[n].key = to.k} : n <= at
                ELSE {n \in 1 .. to.s : entry'[n].key = to.k} = {}
            <4>1. s.op = "Get" =>
                    {n \in 1 .. to.s : entry'[n].key = to.k} = {n \in 1 .. to.s : entry[n].key = to.k}
                BY <2>6, <2>7
            <4>2. at # Null => entry'[at] = entry[at]  BY <2>1, <2>6
            <4>3. QED  BY <1>6, <4>1, <4>2 DEF Exact, at, to
        <3>3. s.op = "SeekToFirst" => \A n \in 1 .. s.published : at # Null /\ ~Between(n, Null, at)'
            BY <1>6, <2>1, <2>2, <2>3 DEF Exact, at
        <3>4. s.op = "SeekToLast" => \A n \in 1 .. s.published : at # Null /\ ~Between(n, at, Null)'
            BY <1>6, <2>1, <2>2, <2>3 DEF Exact, at
        <3>5. s.op = "Next" => /\ at # Null => Lt(s.x, at)'
                               /\ \A n \in 1 .. s.published : ~Between(n, s.x, at)'
            BY <1>6, <2>1, <2>2, <2>3, <2>5 DEF Exact, Lt, at
        <3>6. s.op = "Prev" =>
                /\ at # Null => KeyIsAfterNode(to, at)'
                /\ \A n \in 1 .. s.published : KeyIsAfterNode(to, n)' => at # Null /\ ~Between(n, at, Null)'
            BY <1>6, <2>1, <2>2, <2>3, <2>4 DEF Exact, at, to
        <3>7. at # Garbage  BY <1>1, <2>1 DEF Null, Garbage
        <3>8. QED  BY <3>1, <3>2, <3>3, <3>4, <3>5, <3>6, <3>7 DEF Exact, Lt, at, to
<1>7. QED  BY <1>5, <1>6 DEF Exact

\* So the searches of a step are right if they are right in the list before it.
LEMMA ReadingKept ==
    ASSUME Typed, Typed', Kept, DOMAIN reader' = Readers, \A s \in Searches' : Standing(s) /\ Exact(s)
    PROVE  Reading'
BY SearchKept DEF Reading
-----------------------------------------------------------------------------
(* Readers *)

\* What was published is linked, since the entry being inserted is not published yet; and
\* what is linked in a level is linked below it.
LEMMA PublishedLinked ==
    ASSUME Typed, Planned
    PROVE  /\ 0 \in Levels /\ Added \in Nat /\ last_sequence_ \in 0 .. Added
           /\ \A n \in 1 .. last_sequence_ : n \in Linked(0)
           /\ \A i \in Levels : i > 0 => i - 1 \in Levels /\ Linked(i) \subseteq Linked(i - 1)
<1>1. Added \in Nat /\ last_sequence_ \in 0 .. Added /\ 0 \in Levels
    BY Keyed, MemTableAssumption DEF Typed, Levels
<1>2. ASSUME NEW n \in 1 .. last_sequence_ PROVE n \in Linked(0)
    <2>1. n \in Chain(0) /\ n # Null  BY <1>1, ChainNodes DEF Null
    <2>2. n # writer.node  BY <1>1, <2>1 DEF Planned, Inserting
    <2>3. QED  BY <2>1, <2>2 DEF Linked
<1>3. ASSUME NEW i \in Levels, i > 0 PROVE i - 1 \in Levels /\ Linked(i) \subseteq Linked(i - 1)
    <2>1. i \in Nat /\ i - 1 \in Levels  BY <1>3, MemTableAssumption DEF Levels
    <2>2. ASSUME NEW n \in Linked(i) PROVE n \in Linked(i - 1)
        <3>1. n \in 0 .. Added /\ entry[n].height \in Nat
            BY <1>1, ChainNodes, MemTableAssumption DEF Typed
        <3>2. n \in Chain(i - 1)  BY <2>1, <3>1 DEF Linked, Chain
        <3>3. n = writer.node => writer.level \in Nat
            <4>1. n # Null  BY <3>1, <1>1 DEF Null
            <4>2. n = writer.node => Inserting  BY <4>1 DEF Planned
            <4>3. entry[Added].height \in Nat  BY <1>1, MemTableAssumption DEF Typed
            <4>4. QED  BY <4>2, <4>3 DEF Planned
        <3>4. QED  BY <2>1, <3>2, <3>3 DEF Linked
    <2>3. QED  BY <2>1, <2>2
<1>4. QED  BY <1>1, <1>2, <1>3

\* A pointer of a linked node is Null or the node that follows it.
LEMMA Follows ==
    ASSUME Typed, Lists, NEW i \in Levels, NEW x \in Linked(i) \cup {head_}
    PROVE  LET n == next_[x][i] IN
           /\ n \in Linked(i) \cup {Null} /\ n # Garbage
           /\ n # Null /\ x # head_ => Lt(x, n)
           /\ \A m \in Linked(i) : x = head_ \/ Lt(x, m) => n # Null /\ ~Lt(m, n)
<1> DEFINE n == next_[x][i]
<1>1. IsNext(i, x, n)  BY DEF Lists
<1>2. n # Null => n \in 1 .. Added  BY <1>1, ChainNodes DEF IsNext, After
<1>3. n # Garbage  BY <1>2, Keyed DEF Garbage, Null
<1>4. QED  BY <1>1, <1>3 DEF IsNext, After

LEMMA BetweenLt ==
    ASSUME Typed, NEW n \in 0 .. Added
    PROVE  /\ \A hi \in 0 .. Added \cup {Null} : Between(n, Null, hi) <=> hi = Null \/ Lt(n, hi)
           /\ \A lo \in 0 .. Added : Between(n, lo, Null) <=> Lt(lo, n)
           /\ \A lo \in 0 .. Added : \A hi \in 0 .. Added \cup {Null} :
                Between(n, lo, hi) <=> Lt(lo, n) /\ (hi = Null \/ Lt(n, hi))
<1>1. \A m \in 0 .. Added : m # Null  BY Keyed DEF Null
<1>2. QED  BY <1>1 DEF Between, Lt

\* The last pointer of FindGreaterOrEqual: a published entry that is not before the target
\* is not before the node it leads to.
LEMMA GreaterOrEqual ==
    ASSUME Typed, Planned, Lists, NEW to \in [k : Nat, s : Nat], NEW x \in Linked(0) \cup {head_},
           x # head_ => KeyIsAfterNode(to, x),
           NEW p \in 1 .. last_sequence_, ~KeyIsAfterNode(to, p)
    PROVE  next_[x][0] # Null /\ ~Lt(p, next_[x][0])
<1>1. 0 \in Levels /\ Added \in Nat /\ p \in Linked(0) /\ p \in 0 .. Added
    BY PublishedLinked
<1>2. x # head_ => x \in 0 .. Added  BY <1>1, ChainNodes
<1>3. x # head_ => Lt(x, p)  BY <1>1, <1>2, BeforeTarget
<1>4. QED  BY <1>1, <1>3, Follows

\* The last pointer of FindLessThan: a published entry before the target is not behind the
\* node the search stands on.
LEMMA LessThan ==
    ASSUME Typed, Planned, Lists, NEW to \in [k : Nat, s : Nat], NEW x \in Linked(0) \cup {head_},
           ~KeyIsAfterNode(to, next_[x][0]),
           NEW p \in 1 .. last_sequence_, KeyIsAfterNode(to, p)
    PROVE  x # head_ /\ ~Lt(x, p)
<1> DEFINE n == next_[x][0]
<1>1. 0 \in Levels /\ Added \in Nat /\ p \in Linked(0) /\ p \in 0 .. Added
    BY PublishedLinked
<1>2. SUFFICES ASSUME x = head_ \/ Lt(x, p) PROVE FALSE  OBVIOUS
<1>3. n # Null /\ ~Lt(p, n) /\ n \in Linked(0)  BY <1>1, <1>2, Follows
<1>4. n \in 0 .. Added  BY <1>1, <1>3, ChainNodes
<1> HIDE DEF n
<1>5. n = p \/ Lt(n, p)  BY <1>1, <1>3, <1>4, Order
<1>6. KeyIsAfterNode(to, n)  BY <1>1, <1>4, <1>5, BeforeTarget
<1>7. QED  BY <1>6 DEF n

\* MemTable::Get: the node at the end of the search is the newest version, or there is none.
LEMMA NewestVersion ==
    ASSUME Typed, Planned, Lists, NEW to \in [k : Nat, s : Nat], NEW x \in Linked(0) \cup {head_},
           x # head_ => KeyIsAfterNode(to, x), to.s <= last_sequence_,
           ~KeyIsAfterNode(to, next_[x][0])
    PROVE  LET at == next_[x][0]
               versions == {s \in 1 .. to.s : entry[s].key = to.k}
           IN  IF at # Null /\ entry[at].key = to.k
               THEN at \in versions /\ \A s \in versions : s <= at
               ELSE versions = {}
<1> DEFINE at == next_[x][0]
           versions == {s \in 1 .. to.s : entry[s].key = to.k}
<1>1. 0 \in Levels /\ Added \in Nat /\ last_sequence_ \in 0 .. Added  BY PublishedLinked
<1>2. at \in Linked(0) \cup {Null}  BY <1>1, Follows
<1>3. at # Null => at \in 1 .. Added /\ entry[at].key \in Nat  BY <1>1, <1>2, ChainNodes, Keyed
<1>4. to.k \in Nat /\ to.s \in Nat  OBVIOUS
<1>5. at # Null => entry[at].key > to.k \/ (entry[at].key = to.k /\ at <= to.s)
    BY <1>3, <1>4, Compared
<1>6. ASSUME NEW s \in versions
      PROVE  at # Null /\ (entry[at].key < to.k \/ (entry[at].key = to.k /\ s <= at))
    <2>1. s \in 1 .. last_sequence_ /\ s \in Nat /\ entry[s].key = to.k  BY <1>1, <1>4
    <2>2. ~KeyIsAfterNode(to, s)  BY <1>4, <2>1, Compared
    <2>3. at # Null /\ ~Lt(s, at)  BY <2>1, <2>2, GreaterOrEqual
    <2>4. QED  BY <1>3, <1>4, <2>1, <2>3, Compared
<1> HIDE DEF at
<1>7. CASE at # Null /\ entry[at].key = to.k  BY <1>3, <1>4, <1>5, <1>6, <1>7 DEF at
<1>8. CASE ~(at # Null /\ entry[at].key = to.k)
    <2>1. versions = {}  BY <1>3, <1>4, <1>5, <1>6, <1>8
    <2>2. QED  BY <1>8, <2>1 DEF at
<1>9. QED  BY <1>7, <1>8
-----------------------------------------------------------------------------
\* Replacing the search of one reader
LEMMA OneSearch ==
    ASSUME Reading, NEW r \in Readers, NEW s, Standing(s), Exact(s),
           reader' = [reader EXCEPT ![r] = s]
    PROVE  DOMAIN reader' = Readers /\ \A t \in Searches' : Standing(t) /\ Exact(t)
<1>1. \A q \in Readers : reader'[q] = s \/ reader'[q] = reader[q]  BY DEF Reading
<1>2. \A t \in Searches' : t = s \/ t \in Searches  BY <1>1 DEF Searches
<1>3. QED  BY <1>2 DEF Reading

LEMMA Idles ==
    ASSUME Typed, Planned
    PROVE  /\ Standing(NoSearch) /\ Exact(NoSearch)
           /\ Standing([NoSearch EXCEPT !.pc = "done"]) /\ Exact([NoSearch EXCEPT !.pc = "done"])
<1>1. 0 \in Levels /\ last_sequence_ \in Nat  BY PublishedLinked
<1>2. QED  BY <1>1 DEF Standing, Exact, NoSearch, Search, head_, Null, Garbage

\* Seek, Get, SeekToLast and Prev begin at head_.
LEMMA Begins ==
    ASSUME ListInv, NEW r \in Readers, NEW op \in {"Seek", "Get", "SeekToLast", "Prev"},
           NEW target \in [k : Nat, s : Nat], op = "Get" => target.s <= last_sequence_,
           StartSearch(r, op, target)
    PROVE  DOMAIN reader' = Readers /\ \A s \in Searches' : Standing(s) /\ Exact(s)
<1>1. last_sequence_ \in Nat /\ max_height_ \in 1 .. kMaxHeight /\ kMaxHeight \in Nat
    BY PublishedLinked, MemTableAssumption DEF ListInv, Typed
<1>2. reader[r] \in Search  BY DEF ListInv, Reading, Searches, Standing
<1>3. PICK height \in 1 .. max_height_ :
        reader' = [reader EXCEPT ![r].pc = "search", ![r].op = op, ![r].target = target,
                                 ![r].x = head_, ![r].level = height - 1, ![r].node_ = Null,
                                 ![r].published = last_sequence_]
    BY Zenon DEF StartSearch
<1> DEFINE s == [reader[r] EXCEPT !.pc = "search", !.op = op, !.target = target, !.x = head_,
                                  !.level = height - 1, !.node_ = Null, !.published = last_sequence_]
<1>4. reader' = [reader EXCEPT ![r] = s]  BY <1>3 DEF ListInv, Reading
<1>5. /\ s \in Search /\ s.level \in Levels
      /\ s.pc = "search" /\ s.op = op /\ s.target = target /\ s.x = head_ /\ s.node_ = Null
      /\ s.published = last_sequence_
    <2>1. height - 1 \in Levels /\ head_ \in Nat  BY <1>1 DEF Levels, head_
    <2>2. QED  BY <1>1, <1>2, <2>1 DEF Search
<1> HIDE DEF s
<1>6. Standing(s)  BY <1>1, <1>5 DEF Standing
<1>7. Exact(s)  BY <1>5 DEF Exact
<1>8. QED  BY <1>4, <1>6, <1>7, OneSearch DEF ListInv

\* SeekToFirst and Next
LEMMA Loads ==
    ASSUME ListInv, NEW r \in Readers, SeekToFirst(r) \/ IteratorNext(r)
    PROVE  DOMAIN reader' = Readers /\ \A s \in Searches' : Standing(s) /\ Exact(s)
<1> DEFINE old == reader[r]
           op  == IF SeekToFirst(r) THEN "SeekToFirst" ELSE "Next"
<1>1. 0 \in Levels /\ Added \in Nat /\ last_sequence_ \in 0 .. Added
      /\ \A n \in 1 .. last_sequence_ : n \in Linked(0)
    BY PublishedLinked DEF ListInv
<1>2. old \in Search /\ Standing(old) /\ DOMAIN reader = Readers
    BY DEF ListInv, Reading, Searches, Standing
<1>3. ASSUME NEW what \in {"SeekToFirst", "Next"}, NEW x \in Linked(0) \cup {head_},
             what = "SeekToFirst" <=> x = head_, OneLoad(r, what, x)
      PROVE  DOMAIN reader' = Readers /\ \A s \in Searches' : Standing(s) /\ Exact(s)
    <2> DEFINE at == next_[x][0]
               s  == [old EXCEPT !.op = what, !.x = x, !.node_ = at, !.published = last_sequence_]
    <2>1. reader' = [reader EXCEPT ![r] = s]
        <3>1. reader' = [reader EXCEPT ![r].op = what, ![r].x = x, ![r].node_ = at,
                                       ![r].published = last_sequence_]
            BY <1>3 DEF OneLoad
        <3>2. QED  BY <1>2, <3>1
    <2>2. /\ at \in Linked(0) \cup {Null} /\ at # Garbage
          /\ at # Null /\ x # head_ => Lt(x, at)
          /\ \A m \in Linked(0) : x = head_ \/ Lt(x, m) => at # Null /\ ~Lt(m, at)
        BY <1>1, Follows DEF ListInv
    <2> HIDE DEF at
    <2>3. Linked(0) \subseteq 1 .. Added  BY ChainNodes DEF ListInv
    <2>4. s \in Search
        <3>1. x \in Nat /\ at \in Nat \cup {Null} /\ last_sequence_ \in Nat
            BY <1>1, <2>2, <2>3 DEF head_
        <3>2. QED  BY <1>2, <3>1 DEF Search
    <2>5. /\ s.pc = "done" /\ s.op = what /\ s.x = x /\ s.node_ = at /\ s.published = last_sequence_
          /\ s.level = 0
        <3>1. old.pc = "done"  BY <1>3 DEF OneLoad
        <3>2. old.level = 0  BY <1>2, <3>1 DEF Standing
        <3>3. QED  BY <1>2, <3>1, <3>2 DEF Search
    <2> HIDE DEF s
    <2>6. Standing(s)  BY <1>1, <2>2, <2>4, <2>5 DEF Standing
    <2>7. \A n \in 1 .. last_sequence_ : n \in 0 .. Added  BY <1>1
    <2>8. at \in 0 .. Added \cup {Null}  BY <2>2, <2>3
    <2>9. what = "SeekToFirst" => \A n \in 1 .. last_sequence_ : at # Null /\ ~Between(n, Null, at)
        BY <1>1, <1>3, <2>2, <2>7, <2>8, BetweenLt DEF ListInv
    <2>10. what = "Next" => /\ at # Null => Lt(x, at)
                            /\ \A n \in 1 .. last_sequence_ : ~Between(n, x, at)
        <3>1. what = "Next" => x \in 0 .. Added  BY <1>3, <2>3
        <3>2. QED  BY <1>1, <1>3, <2>2, <2>7, <2>8, <3>1, BetweenLt DEF ListInv
    <2>11. Exact(s)  BY <1>3, <2>2, <2>5, <2>9, <2>10 DEF Exact, Lt
    <2>12. QED  BY <2>1, <2>6, <2>11, OneSearch DEF ListInv
<1>4. CASE SeekToFirst(r)  BY <1>3, <1>4 DEF SeekToFirst
<1>5. CASE IteratorNext(r)
    <2>1. old.node_ # Null /\ OneLoad(r, "Next", old.node_)  BY <1>5 DEF IteratorNext
    <2>2. old.node_ \in Linked(0)  BY <1>2, <2>1 DEF Standing
    <2>3. old.node_ # head_  BY <1>1, <2>2, ChainNodes DEF head_, ListInv
    <2>4. QED  BY <1>3, <2>1, <2>2, <2>3
<1>6. QED  BY <1>4, <1>5

\* The end of a search
LEMMA Ends ==
    ASSUME Typed, Planned, Lists, NEW old, Standing(old), old.pc = "search", old.level = 0,
           ~Advances(old.op, old.target, next_[old.x][0])
    PROVE  LET n      == next_[old.x][0]
               result == IF old.op \in {"Seek", "Get"} THEN n ELSE IF old.x = head_ THEN Null ELSE old.x
               s      == [old EXCEPT !.pc = "done", !.node_ = result]
           IN  Standing(s) /\ Exact(s)
<1> DEFINE x == old.x
           to == old.target
           n == next_[x][0]
           result == IF old.op \in {"Seek", "Get"} THEN n ELSE IF x = head_ THEN Null ELSE x
           s == [old EXCEPT !.pc = "done", !.node_ = result]
<1>1. /\ 0 \in Levels /\ Added \in Nat /\ last_sequence_ \in 0 .. Added
      /\ \A p \in 1 .. last_sequence_ : p \in Linked(0) /\ p \in 0 .. Added
      /\ Linked(0) \subseteq 1 .. Added
    BY PublishedLinked, ChainNodes
<1>2. /\ old \in Search /\ x \in Linked(0) \cup {head_} /\ to \in [k : Nat, s : Nat]
      /\ old.published \in 0 .. last_sequence_ /\ old.op \in {"Seek", "Get", "SeekToLast", "Prev"}
      /\ x # head_ /\ old.op # "SeekToLast" => KeyIsAfterNode(to, x)
      /\ old.op = "Get" => to.s <= old.published
    BY <1>1 DEF Standing, Search
<1>3. /\ n \in Linked(0) \cup {Null} /\ n # Garbage
      /\ \A m \in Linked(0) : x = head_ \/ Lt(x, m) => n # Null /\ ~Lt(m, n)
    BY <1>1, <1>2, Follows
<1>4. /\ old.op = "SeekToLast" => n = Null
      /\ old.op # "SeekToLast" => ~KeyIsAfterNode(to, n)
    BY DEF Advances, KeyIsAfterNode
<1>5. /\ n \in 0 .. Added \cup {Null} /\ x \in 0 .. Added /\ x # Null
      /\ \A p \in 1 .. old.published : p \in 1 .. last_sequence_ /\ p \in 0 .. Added
    BY <1>1, <1>2, <1>3 DEF head_, Null
<1>6. result \in Linked(0) \cup {Null}  BY <1>2, <1>3
<1>7. /\ s \in Search /\ s.pc = "done" /\ s.op = old.op /\ s.target = to /\ s.x = x /\ s.level = 0
      /\ s.node_ = result /\ s.published = old.published
    <2>1. result \in Nat \cup {Null}  BY <1>1, <1>6
    <2> HIDE DEF result
    <2>2. QED  BY <1>2, <2>1 DEF Search
<1> HIDE DEF s
<1>8. Standing(s)
    <2>1. s.published <= last_sequence_  BY <1>1, <1>2, <1>7
    <2>2. QED  BY <1>2, <1>6, <1>7, <2>1 DEF Standing
<1>9. ASSUME old.op = "Seek"
      PROVE  /\ result # Null => ~KeyIsAfterNode(to, result)
             /\ \A p \in 1 .. old.published : Between(p, Null, result) => KeyIsAfterNode(to, p)
    <2>1. result = n /\ ~KeyIsAfterNode(to, n)  BY <1>4, <1>9
    <2>2. ASSUME NEW p \in 1 .. old.published, ~KeyIsAfterNode(to, p) PROVE ~Between(p, Null, n)
        <3>1. n # Null /\ ~Lt(p, n)  BY <1>2, <1>5, <1>9, <2>2, GreaterOrEqual
        <3>2. QED  BY <1>5, <3>1, BetweenLt
    <2>3. QED  BY <2>1, <2>2
<1>10. ASSUME old.op = "Get"
       PROVE  IF result # Null /\ entry[result].key = to.k
              THEN /\ result \in {v \in 1 .. to.s : entry[v].key = to.k}
                   /\ \A v \in {v \in 1 .. to.s : entry[v].key = to.k} : v <= result
              ELSE {v \in 1 .. to.s : entry[v].key = to.k} = {}
    <2>1. result = n /\ ~KeyIsAfterNode(to, n)  BY <1>4, <1>10
    <2>2. to.s <= last_sequence_  BY <1>1, <1>2, <1>10
    <2>3. x # head_ => KeyIsAfterNode(to, x)  BY <1>2, <1>10
    <2> HIDE DEF result, to
    <2>4. QED  BY <1>2, <2>1, <2>2, <2>3, NewestVersion
<1>11. ASSUME old.op = "SeekToLast", NEW p \in 1 .. old.published
       PROVE  result # Null /\ ~Between(p, result, Null)
    <2>1. x # head_ /\ ~Lt(x, p)  BY <1>1, <1>3, <1>4, <1>5, <1>11
    <2>2. result = x  BY <1>11, <2>1
    <2>3. QED  BY <1>5, <2>1, <2>2, BetweenLt
<1>12. ASSUME old.op = "Prev"
       PROVE  /\ result # Null => KeyIsAfterNode(to, result)
              /\ \A p \in 1 .. old.published :
                    KeyIsAfterNode(to, p) => result # Null /\ ~Between(p, result, Null)
    <2>1. result # Null => result = x /\ x # head_  BY <1>12
    <2>2. ASSUME NEW p \in 1 .. old.published, KeyIsAfterNode(to, p)
          PROVE  result # Null /\ ~Between(p, result, Null)
        <3>1. ~KeyIsAfterNode(to, n)  BY <1>4, <1>12
        <3>2. x # head_ /\ ~Lt(x, p)  BY <1>2, <1>5, <2>2, <3>1, LessThan
        <3>3. result = x  BY <1>12, <3>2
        <3>4. QED  BY <1>5, <3>2, <3>3, BetweenLt
    <2>3. QED  BY <1>2, <1>12, <2>1, <2>2
<1>13. result # Garbage  BY <1>1, <1>6 DEF Garbage, Null
<1>14. Exact(s)
    <2> HIDE DEF result, to, x
    <2>1. QED  BY <1>2, <1>7, <1>9, <1>10, <1>11, <1>12, <1>13 DEF Exact
<1>15. QED  BY <1>8, <1>14 DEF s

\* Move: a pointer is followed, a level is left, or the search ends.
LEMMA Moves ==
    ASSUME ListInv, NEW r \in Readers, Move(r)
    PROVE  DOMAIN reader' = Readers /\ \A s \in Searches' : Standing(s) /\ Exact(s)
<1> DEFINE old == reader[r]
           i   == old.level
           n   == next_[old.x][i]
<1>1. /\ Typed /\ Planned /\ Lists /\ Reading /\ Added \in Nat /\ old.pc = "search"
      /\ \A j \in Levels : Linked(j) \subseteq 1 .. Added
    BY ChainNodes, PublishedLinked DEF ListInv, Move
<1>2. Standing(old) /\ old \in Search /\ i \in Levels /\ old.x \in Linked(i) \cup {head_}
    BY <1>1 DEF Reading, Searches, Standing, Search
<1>3. n \in Linked(i) \cup {Null} /\ n # Garbage  BY <1>1, <1>2, Follows
<1>4. CASE Advances(old.op, old.target, n)
    <2> DEFINE s == [old EXCEPT !.x = n]
    <2>1. reader' = [reader EXCEPT ![r] = s]  BY <1>3, <1>4 DEF Move
    <2>2. n \in Linked(i) /\ n \in Nat  BY <1>1, <1>2, <1>3, <1>4 DEF Advances
    <2> HIDE DEF n
    <2>3. /\ s \in Search /\ s.pc = "search" /\ s.op = old.op /\ s.target = old.target /\ s.x = n
          /\ s.level = i /\ s.node_ = old.node_ /\ s.published = old.published
        BY <1>1, <1>2, <2>2 DEF Search
    <2> HIDE DEF s
    <2>4. Standing(s)  BY <1>1, <1>2, <1>4, <2>2, <2>3 DEF Standing, Advances
    <2>5. Exact(s)  BY <2>3 DEF Exact
    <2>6. QED  BY <1>1, <2>1, <2>4, <2>5, OneSearch
<1>5. CASE ~Advances(old.op, old.target, n) /\ i > 0
    <2> DEFINE s == [old EXCEPT !.level = i - 1]
    <2>1. reader' = [reader EXCEPT ![r] = s]
        <3>1. ~(n = Garbage) /\ ~Advances(old.op, old.target, n) /\ old.level > 0  BY <1>3, <1>5
        <3>2. QED  BY <3>1 DEF Move
    <2>2. i - 1 \in Levels /\ Linked(i) \subseteq Linked(i - 1)
        BY <1>1, <1>2, <1>5, PublishedLinked
    <2>3. /\ s \in Search /\ s.pc = "search" /\ s.op = old.op /\ s.target = old.target /\ s.x = old.x
          /\ s.level = i - 1 /\ s.node_ = old.node_ /\ s.published = old.published
        BY <1>1, <1>2, <2>2 DEF Search
    <2> HIDE DEF s
    <2>4. Standing(s)  BY <1>1, <1>2, <2>2, <2>3 DEF Standing
    <2>5. Exact(s)  BY <2>3 DEF Exact
    <2>6. QED  BY <1>1, <2>1, <2>4, <2>5, OneSearch
<1>6. CASE ~Advances(old.op, old.target, n) /\ ~(i > 0)
    <2> DEFINE result == IF old.op \in {"Seek", "Get"} THEN n ELSE IF old.x = head_ THEN Null ELSE old.x
               s == [old EXCEPT !.pc = "done", !.node_ = result]
    <2>1. reader' = [reader EXCEPT ![r] = s]  BY <1>3, <1>6 DEF Move
    <2>2. i = 0  BY <1>2, <1>6, MemTableAssumption DEF Levels
    <2>3. ~Advances(old.op, old.target, next_[old.x][0])  BY <1>6, <2>2
    <2>4. Standing(s) /\ Exact(s)  BY <1>1, <1>2, <2>2, <2>3, Ends, Zenon
    <2> HIDE DEF s
    <2>5. QED  BY <1>1, <2>1, <2>4, OneSearch
<1>7. QED  BY <1>4, <1>5, <1>6
-----------------------------------------------------------------------------
\* The order and the levels of nodes depend on the entries only.
LEMMA SameOrder ==
    ASSUME UNCHANGED entry
    PROVE  /\ Added' = Added
           /\ \A n, m : Lt(n, m)' <=> Lt(n, m)
           /\ \A i : Chain(i)' = Chain(i)
<1>1. Added' = Added  BY DEF Added
<1>2. \A n, m : Lt(n, m)' <=> Lt(n, m)  BY DEF Lt, Before, InternalKey
<1>3. \A i : Chain(i)' = Chain(i)  BY DEF Chain
<1>4. QED  BY <1>1, <1>2, <1>3

LEMMA SamePlace ==
    ASSUME UNCHANGED entry, NEW i, NEW p, Place(i, p)
    PROVE  Place(i, p)'
<1>1. Added' = Added /\ Chain(i)' = Chain(i) /\ \A n, m : Lt(n, m)' <=> Lt(n, m)  BY SameOrder
<1>2. p \in 0 .. Added' - 1 /\ entry'[p].height > i  BY <1>1 DEF Place
<1>3. p # head_ => Lt(p, Added)'  BY <1>1 DEF Place, Lt, Before, InternalKey
<1>4. ASSUME NEW m \in Chain(i), Lt(m, Added)' PROVE p # head_ /\ (m = p \/ Lt(m, p)')
    <2>1. Lt(m, Added)  BY <1>1, <1>4 DEF Lt, Before, InternalKey
    <2>2. QED  BY <1>1, <2>1 DEF Place
<1>5. QED  BY <1>1, <1>2, <1>3, <1>4 DEF Place

LEMMA SameNext ==
    ASSUME UNCHANGED entry, \A i : Linked(i)' = Linked(i)
    PROVE  \A i, n, to : IsNext(i, n, to)' <=> IsNext(i, n, to)
<1>1. \A n, m : Lt(n, m)' <=> Lt(n, m)  BY SameOrder
<1>2. \A i, n : After(i, n)' = After(i, n)  BY <1>1 DEF After
<1>3. QED  BY <1>1, <1>2 DEF IsNext
-----------------------------------------------------------------------------
\* Steps of a reader leave the list alone.
LEMMA ListAlone ==
    ASSUME ListInv, UNCHANGED <<entry, next_, max_height_, last_sequence_, writer>>
    PROVE  Typed' /\ Planned' /\ Lists' /\ Kept
<1>1. Added' = Added /\ Added \in Nat /\ last_sequence_ \in Nat
    BY Keyed, PublishedLinked DEF Added, ListInv
<1>2. \A i : Linked(i)' = Linked(i)  BY DEF Linked, Chain
<1>3. Typed'  BY <1>1 DEF Typed, ListInv
<1>4. Planned'
    <2>1. ASSUME NEW i \in 0 .. entry[Added].height - 1, Place(i, writer.prev[i])
          PROVE  Place(i, writer.prev[i])'
        <3>1. PICK p : p = writer.prev[i]  OBVIOUS
        <3>2. Place(i, p)'  BY <2>1, <3>1, SamePlace
        <3>3. QED  BY <3>1, <3>2
    <2>2. QED  BY <1>1, <2>1 DEF Planned, ListInv, Inserting
<1>5. Lists'
    <2>1. \A i, n, to : IsNext(i, n, to)' <=> IsNext(i, n, to)
        BY <1>2, SameNext
    <2>2. QED  BY <1>2, <2>1 DEF Lists, ListInv
<1>6. Kept  BY <1>1, <1>2 DEF Kept
<1>7. QED  BY <1>3, <1>4, <1>5, <1>6

\* ListInv is kept by a step of a reader.
LEMMA ReaderSteps ==
    ASSUME ListInv, NEW r \in Readers,
           \/ Ref(r) \/ Unref(r) \/ Seek(r) \/ Get(r) \/ SeekToLast(r)
           \/ IteratorPrev(r) \/ SeekToFirst(r) \/ IteratorNext(r) \/ Move(r)
    PROVE  ListInv'
<1>1. UNCHANGED <<entry, next_, max_height_, last_sequence_, writer>>
    BY Zenon DEF Ref, Unref, Seek, Get, SeekToLast, IteratorPrev, StartSearch, SeekToFirst, IteratorNext,
           OneLoad, Move
<1>2. SUFFICES DOMAIN reader' = Readers /\ \A s \in Searches' : Standing(s) /\ Exact(s)
    <2>1. Typed' /\ Planned' /\ Lists' /\ Kept  BY <1>1, ListAlone
    <2>2. ASSUME DOMAIN reader' = Readers, \A s \in Searches' : Standing(s) /\ Exact(s)
          PROVE  Reading'
        BY <2>1, <2>2, ReadingKept DEF ListInv
    <2>3. QED  BY <2>1, <2>2 DEF ListInv
<1>3. CASE Ref(r) \/ Unref(r)
    <2>1. \/ reader' = [reader EXCEPT ![r] = [NoSearch EXCEPT !.pc = "done"]]
          \/ reader' = [reader EXCEPT ![r] = NoSearch]
        BY <1>3 DEF Ref, Unref
    <2>2. Reading /\ Typed /\ Planned  BY DEF ListInv
    <2>3. QED  BY <2>1, <2>2, Idles, OneSearch
<1>4. last_sequence_ \in Nat /\ \A target \in Targets :
            target \in [k : Nat, s : Nat] /\ target.s <= last_sequence_
    <2>1. last_sequence_ \in Nat  BY PublishedLinked DEF ListInv
    <2>2. Keys \subseteq Nat /\ 0 .. last_sequence_ \subseteq Nat  BY <2>1, MemTableAssumption
    <2>3. ASSUME NEW target \in [k : Keys, s : 0 .. last_sequence_]
          PROVE  target \in [k : Nat, s : Nat] /\ target.s <= last_sequence_
        <3>1. target.k \in Keys /\ target.s \in 0 .. last_sequence_  OBVIOUS
        <3>2. target.k \in Nat /\ target.s \in Nat /\ target.s <= last_sequence_
            <4>1. target.k \in Nat  BY <2>2, <3>1, Zenon
            <4>2. \A n \in 0 .. last_sequence_ : n \in Nat /\ n <= last_sequence_  BY <2>1
            <4>3. QED  BY <3>1, <4>1, <4>2, Zenon
        <3>3. target = [k |-> target.k, s |-> target.s]  OBVIOUS
        <3>4. QED  BY <3>2, <3>3
    <2>4. QED  BY <2>1, <2>3 DEF Targets
<1>5. CASE Seek(r)  BY <1>4, <1>5, Begins DEF Seek
<1>6. CASE Get(r)  BY <1>4, <1>6, Begins DEF Get
<1>7. CASE SeekToLast(r)
    <2>1. [k |-> 0, s |-> 0] \in [k : Nat, s : Nat]  OBVIOUS
    <2>2. QED  BY <1>7, <2>1, Begins DEF SeekToLast
<1>8. CASE IteratorPrev(r)
    <2>1. reader[r].node_ # Null /\ StartSearch(r, "Prev", InternalKey(reader[r].node_))
        BY <1>8 DEF IteratorPrev
    <2>2. Standing(reader[r]) /\ Typed /\ Planned  BY Zenon DEF ListInv, Reading, Searches
    <2>3. PICK n : n = reader[r].node_  OBVIOUS
    <2>4. n \in Linked(0) /\ 0 \in Levels
        BY <2>1, <2>2, <2>3, PublishedLinked DEF Standing
    <2>5. n \in 1 .. Added  BY <2>2, <2>4, ChainNodes
    <2>6. n \in Nat /\ entry[n].key \in Nat  BY <2>2, <2>5, Keyed
    <2>7. InternalKey(n) \in [k : Nat, s : Nat]  BY <2>6 DEF InternalKey
    <2>8. QED  BY <2>1, <2>3, <2>7, Begins
<1>9. CASE SeekToFirst(r) \/ IteratorNext(r)  BY <1>9, Loads
<1>10. CASE Move(r)  BY <1>10, Moves
<1>11. QED  BY <1>3, <1>5, <1>6, <1>7, <1>8, <1>9, <1>10
-----------------------------------------------------------------------------
(* The writer *)

\* SetLastSequence and Retire
LEMMA Publishes ==
    ASSUME ListInv, SetLastSequence \/ Retire
    PROVE  ListInv'
<1>1. Added' = Added /\ Added \in Nat /\ last_sequence_ \in 0 .. Added /\ last_sequence_' \in 0 .. Added
      /\ last_sequence_ <= last_sequence_'
    BY Keyed, PublishedLinked DEF Added, ListInv, SetLastSequence, Retire
<1>2. writer.node = Null /\ writer.level = 0 /\ writer'.node = Null /\ writer'.level = 0
    BY DEF ListInv, Planned, Inserting, SetLastSequence, Retire, Idle
<1>3. UNCHANGED <<entry, next_, max_height_, reader>>  BY DEF SetLastSequence, Retire
<1>4. \A i : Linked(i)' = Linked(i)  BY <1>2, <1>3 DEF Linked, Chain
<1>5. Typed'
    <2>1. Typed  BY DEF ListInv
    <2>2. QED  BY <1>1, <1>3, <2>1, SMTT(30) DEF Typed
<1>6. Planned'
    BY <1>2 DEF Planned, ListInv, Inserting, SetLastSequence, Retire, Idle
<1>7. Lists'
    <2>1. \A i, n, to : IsNext(i, n, to)' <=> IsNext(i, n, to)
        BY <1>3, <1>4, SameNext
    <2>2. QED  BY <1>3, <1>4, <2>1 DEF Lists, ListInv
<1>8. Kept  BY <1>1, <1>3, <1>4 DEF Kept
<1>9. Reading'
    <2>1. DOMAIN reader' = Readers /\ \A s \in Searches' : Standing(s) /\ Exact(s)
        BY <1>3 DEF ListInv, Reading, Searches
    <2>2. QED  BY <1>5, <1>8, <2>1, ReadingKept DEF ListInv
<1>10. QED  BY <1>5, <1>6, <1>7, <1>9 DEF ListInv

\* One more node
LEMMA OneMore ==
    ASSUME Typed, NEW s, s = Added + 1, NEW v, entry' = With(entry, s, v)
    PROVE  /\ Added' = s /\ DOMAIN entry' = 0 .. s /\ s \in Nat /\ s \notin 0 .. Added
           /\ entry'[s] = v /\ \A n \in 0 .. Added : entry'[n] = entry[n]
<1>1. Added \in Nat /\ DOMAIN entry = 0 .. Added  BY Keyed DEF Typed
<1>2. DOMAIN entry' = 0 .. s  BY <1>1 DEF With
<1>3. Cardinality(0 .. s) = s + 1  BY <1>1, FS_Interval
<1>4. Added' = s  BY <1>1, <1>2, <1>3 DEF Added
<1>5. QED  BY <1>1, <1>2, <1>4 DEF With

\* Add: the new node belongs behind prev[i] in each of its levels, and is in no list yet.
LEMMA Adds ==
    ASSUME ListInv, NEW key \in Keys, NEW type \in Types, NEW height \in 1 .. kMaxHeight,
           Add(key, type, height)
    PROVE  ListInv'
<1>0. PICK s : s = Added + 1  OBVIOUS
<1> DEFINE at == [k |-> key, s |-> s]
           buf == A!Allocate(arena_, EntryBytes[type])
           v == [key |-> key, type |-> type, height |-> height, buf |-> buf.result,
                 mem |-> NewNode(buf, height).result]
<1>1. /\ Typed /\ Added \in Nat /\ Added < MaxSequence /\ last_sequence_ \in 0 .. Added
      /\ kMaxHeight \in Nat /\ MaxSequence \in Nat /\ height \in Nat /\ key \in Nat
    <2>1. Typed /\ Planned  BY Zenon DEF ListInv
    <2>2. Added \in Nat /\ last_sequence_ \in 0 .. Added  BY <2>1, PublishedLinked, Zenon
    <2>3. Added < MaxSequence  BY Zenon DEF Add
    <2>4. kMaxHeight \in Nat /\ MaxSequence \in Nat /\ Keys \subseteq Nat  BY MemTableAssumption
    <2>5. height \in Nat /\ key \in Nat  BY <2>4
    <2>6. QED  BY <2>1, <2>2, <2>3, <2>4, <2>5, Zenon
<1>2. /\ entry' = With(entry, s, v)
      /\ next_' = With(next_, s, [i \in 0 .. height - 1 |-> Garbage])
      /\ writer' = [pc |-> "set", node |-> s, level |-> 0, prev |-> [i \in 0 .. height - 1 |-> Prev(at, i)]]
      /\ last_sequence_' = last_sequence_ /\ reader' = reader
      /\ max_height_' = IF height > max_height_ THEN height ELSE max_height_
    BY <1>0, Zenon DEF Add
<1>3. v.key = key /\ v.height = height  OBVIOUS
<1>4. at \in [k : Nat, s : Nat] /\ at.k = key /\ at.s = s  BY <1>0, <1>1
<1>5. s = Added + 1  BY <1>0
<1> HIDE DEF v, at
<1>6. /\ Added' = s /\ DOMAIN entry' = 0 .. s /\ s \in Nat /\ s \notin 0 .. Added
      /\ entry'[s] = v /\ \A n \in 0 .. Added : entry'[n] = entry[n]
    BY <1>1, <1>2, <1>5, OneMore
<1>7. /\ DOMAIN next_' = 0 .. s /\ next_'[s] = [i \in 0 .. height - 1 |-> Garbage]
      /\ \A n \in 0 .. Added : next_'[n] = next_[n]
    <2>1. DOMAIN next_ = 0 .. Added  BY <1>1 DEF Typed
    <2>2. QED  BY <1>1, <1>2, <1>5, <1>6, <2>1 DEF With
<1>8. Typed'
    <2>1. \A n \in 0 .. s : n = s \/ n \in 0 .. Added  BY <1>1, <1>5
    <2>2. ASSUME NEW n \in 0 .. s
          PROVE  /\ entry'[n].key \in Nat /\ entry'[n].height \in 1 .. kMaxHeight
                 /\ next_'[n] \in [0 .. entry'[n].height - 1 -> Nodes \cup {Null, Garbage}]
        <3>1. CASE n = s  BY <1>1, <1>3, <1>6, <1>7, <3>1
        <3>2. CASE n \in 0 .. Added  BY <1>1, <1>6, <1>7, <3>2 DEF Typed
        <3>3. QED  BY <2>1, <3>1, <3>2
    <2>3. s \in 0 .. MaxSequence  BY <1>1, <1>5
    <2>4. entry'[head_].height = kMaxHeight  BY <1>1, <1>6 DEF Typed, head_
    <2>5. max_height_' \in 1 .. kMaxHeight  BY <1>1, <1>2 DEF Typed
    <2>6. last_sequence_' \in 0 .. s  BY <1>1, <1>2, <1>5
    <2>7. QED  BY <1>6, <1>7, <2>2, <2>3, <2>4, <2>5, <2>6 DEF Typed
<1>9. /\ writer'.node = s /\ writer'.level = 0 /\ writer'.pc = "set"
      /\ \A i \in 0 .. height - 1 : writer'.prev[i] = Prev(at, i)
    BY <1>2
<1>10. writer.node = Null /\ writer.pc = "idle"
    BY DEF ListInv, Planned, Inserting, Add
<1>11. ASSUME NEW i \in Levels PROVE Linked(i)' = Linked(i)
    <2>1. i >= 0 /\ i \in Nat  BY <1>1 DEF Levels
    <2>2. \A n \in Chain(i) : n \in 0 .. Added /\ n # Null /\ n # s /\ n \in 0 .. s /\ n # head_
        BY <1>1, <1>5, <1>6, ChainNodes DEF Null, head_
    <2>3. \A n \in Chain(i)' : n = s \/ n \in Chain(i)
        BY <1>1, <1>5, <1>6 DEF Chain, Typed
    <2>4. \A n \in Chain(i) : n \in Chain(i)'  BY <1>6, <2>2 DEF Chain
    <2>5. QED  BY <1>9, <1>10, <2>1, <2>2, <2>3, <2>4 DEF Linked
<1>12. \A n, m \in 0 .. Added : Lt(n, m)' <=> Lt(n, m)  BY <1>1, <1>6, KeptKeys
<1>13. Lists'
    <2>1. SUFFICES ASSUME NEW i \in Levels, NEW n \in Linked(i)' \cup {head_}
                   PROVE  \E to : to = next_'[n][i] /\ IsNext(i, n, to)'
        BY DEF Lists
    <2>2. n \in Linked(i) \cup {head_} /\ n \in 0 .. Added  BY <1>1, <1>11, <2>1, ChainNodes DEF head_
    <2>3. next_'[n][i] = next_[n][i]  BY <1>7, <2>2
    <2>4. IsNext(i, n, next_[n][i])  BY <2>2 DEF ListInv, Lists
    <2>5. Linked(i) \subseteq 0 .. Added  BY <1>1, ChainNodes
    <2>6. After(i, n)' = After(i, n)  BY <1>11, <1>12, <2>2, <2>5 DEF After
    <2>7. After(i, n) \subseteq 0 .. Added  BY <2>5 DEF After
    <2> DEFINE to == next_[n][i]
    <2>8. /\ to = Null => After(i, n) = {}
          /\ to # Null => to \in After(i, n) /\ \A m \in After(i, n) : ~Lt(m, to)
        BY <2>4 DEF IsNext
    <2> HIDE DEF to
    <2>9. \A t : t = to => IsNext(i, n, t)'
        BY <1>12, <2>6, <2>7, <2>8 DEF IsNext
    <2>10. QED  BY <2>3, <2>9 DEF to
<1>14. ASSUME NEW i \in 0 .. height - 1 PROVE \A p : p = Prev(at, i) => Place(i, p)'
    <2>1. i \in Levels  BY <1>1 DEF Levels
    <2>2. TAKE p
    <2>3. HAVE p = Prev(at, i)
    <2>4. /\ p \in 0 .. Added /\ entry[p].height > i
          /\ p # head_ => p \in Chain(i) /\ Before(InternalKey(p), at)
          /\ \A m \in Chain(i) : Before(InternalKey(m), at) => p # head_ /\ (m = p \/ Lt(m, p))
        BY <1>1, <1>4, <2>1, <2>3, PrevIsLast
    <2>5. \A m \in 0 .. Added : Before(InternalKey(m), at) <=> Lt(m, s)'
        BY <1>3, <1>4, <1>6 DEF Before, InternalKey, Lt
    <2>6. ~Lt(s, s)'  BY <1>1, <1>3, <1>6 DEF Lt, Before, InternalKey
    <2>7. \A m \in Chain(i)' : m = s \/ (m \in Chain(i) /\ m \in 0 .. Added)
        BY <1>1, <1>5, <1>6 DEF Chain, Typed
    <2>8. \A m \in Chain(i)' : Lt(m, s)' => p # head_ /\ (m = p \/ Lt(m, p)')
        BY <1>12, <2>4, <2>5, <2>6, <2>7
    <2>9. p # head_ => Lt(p, s)'  BY <2>4, <2>5
    <2>10. p \in 0 .. s - 1 /\ entry'[p].height > i  BY <1>1, <1>5, <1>6, <2>4
    <2>11. QED  BY <1>6, <2>8, <2>9, <2>10 DEF Place, Lt, Before, InternalKey
<1>15. Planned'
    <2>1. \A i \in 0 .. height - 1 : \E p : p = writer'.prev[i] /\ Place(i, p)'  BY <1>9, <1>14
    <2>2. entry'[Added'].height = height  BY <1>3, <1>6
    <2>3. \A i \in 0 .. entry'[Added'].height - 1 : Place(i, writer.prev[i])'
        BY <2>1, <2>2 DEF Place
    <2>4. writer'.level \in 0 .. entry'[Added'].height - 1  BY <1>1, <1>9, <2>2
    <2>5. last_sequence_' < Added'  BY <1>1, <1>2, <1>5, <1>6
    <2>6. writer' = [pc |-> "set", node |-> s, prev |-> writer'.prev, level |-> 0]  BY <1>2
    <2>7. QED  BY <1>6, <1>9, <2>3, <2>4, <2>5, <2>6 DEF Planned, Inserting
<1>16. Kept
    <2>1. \A i \in Levels : \A n \in Linked(i) : n \in Linked(i)'  BY <1>11
    <2>2. Added <= Added'  BY <1>1, <1>5, <1>6
    <2>3. last_sequence_ <= last_sequence_'  BY <1>1, <1>2
    <2>4. QED  BY <1>1, <1>6, <2>1, <2>2, <2>3 DEF Kept
<1>17. Reading'
    <2>1. DOMAIN reader' = Readers /\ \A t \in Searches' : Standing(t) /\ Exact(t)
        BY <1>2 DEF ListInv, Reading, Searches
    <2>2. QED  BY <1>1, <1>8, <1>16, <2>1, ReadingKept
<1>18. QED  BY <1>8, <1>13, <1>15, <1>17 DEF ListInv

\* What an insertion under way has planned for its current level
LEMMA Current ==
    ASSUME ListInv, Inserting
    PROVE  LET node  == writer.node
               level == writer.level
               p     == writer.prev[level]
           IN  /\ node = Added /\ node \in 1 .. Added /\ node \in Nodes /\ level \in Levels
               /\ level \in 0 .. entry[node].height - 1 /\ entry[node].height \in 1 .. kMaxHeight
               /\ p \in 0 .. Added /\ p < node /\ level \in 0 .. entry[p].height - 1
               /\ p \in Linked(level) \cup {head_} /\ node \notin Linked(level)
               /\ p # head_ => Lt(p, node)
               /\ \A m \in Chain(level) : Lt(m, node) => p # head_ /\ (m = p \/ Lt(m, p))
<1> DEFINE level == writer.level
           p     == writer.prev[level]
<1>1. Added \in Nat /\ Added <= MaxSequence /\ MaxSequence \in Nat /\ kMaxHeight \in Nat
    BY Keyed, MemTableAssumption, SMTT(30) DEF ListInv, Typed
<1>2. writer.node = Added /\ entry[Added].height \in 1 .. kMaxHeight /\ level \in 0 .. entry[Added].height - 1
    BY <1>1 DEF ListInv, Typed, Planned
<1>3. Place(level, p)  BY <1>2 DEF ListInv, Planned
<1>4. p \in 0 .. Added - 1 /\ entry[p].height > level /\ p \in 0 .. Added  BY <1>1, <1>3 DEF Place
<1>5. entry[p].height \in Nat /\ DOMAIN entry = 0 .. Added  BY <1>1, <1>4 DEF ListInv, Typed
<1>6. Added \in 1 .. Added /\ Added \in Nodes /\ level \in Levels  BY <1>1, <1>2, <1>4 DEF Nodes, Levels
<1>7. level \in 0 .. entry[p].height - 1  BY <1>1, <1>2, <1>4, <1>5
<1>8. p # head_ => p \in Linked(level)  BY <1>1, <1>2, <1>4, <1>5 DEF Linked, Chain
<1>9. Added \notin Linked(level)  BY <1>1, <1>2 DEF Linked
<1>10. p < Added  BY <1>1, <1>4
<1>11. QED  BY <1>2, <1>3, <1>4, <1>6, <1>7, <1>8, <1>9, <1>10 DEF Place

Store(n, i, to) == [next_ EXCEPT ![n] = [next_[n] EXCEPT ![i] = to]]

\* A store into a pointer keeps the types.
LEMMA Stores ==
    ASSUME Typed, NEW n \in 0 .. Added, NEW i \in 0 .. entry[n].height - 1,
           NEW to \in Nodes \cup {Null, Garbage}, next_' = Store(n, i, to),
           UNCHANGED <<entry, max_height_, last_sequence_>>
    PROVE  /\ Typed' /\ next_'[n][i] = to
           /\ \A m \in 0 .. Added : \A j : m # n \/ j # i => next_'[m][j] = next_[m][j]
<1>1. DOMAIN next_ = 0 .. Added /\ next_[n] \in [0 .. entry[n].height - 1 -> Nodes \cup {Null, Garbage}]
    BY DEF Typed
<1>2. next_'[n] = [next_[n] EXCEPT ![i] = to]  BY <1>1 DEF Store
<1>3. \A m \in 0 .. Added : m # n => next_'[m] = next_[m]  BY <1>1 DEF Store
<1>4. next_'[n] \in [0 .. entry[n].height - 1 -> Nodes \cup {Null, Garbage}]  BY <1>1, <1>2
<1>5. Added' = Added /\ DOMAIN next_' = 0 .. Added  BY <1>1 DEF Added, Store
<1>6. Typed'  BY <1>3, <1>4, <1>5 DEF Typed
<1>7. \A j : j # i => next_'[n][j] = next_[n][j]  BY <1>1, <1>2
<1>8. QED  BY <1>1, <1>2, <1>3, <1>6, <1>7

\* The first store of a level is to a node that is not in it.
LEMMA FirstStore ==
    ASSUME ListInv, NoBarrier_SetNext
    PROVE  ListInv'
<1>1. PICK node, level, p : node = writer.node /\ level = writer.level /\ p = writer.prev[level]
    OBVIOUS
<1>2. Inserting /\ Typed  BY DEF ListInv, NoBarrier_SetNext, Inserting
<1>3. /\ node = Added /\ node \in 1 .. Added /\ node \in Nodes /\ level \in Levels
      /\ level \in 0 .. entry[node].height - 1
      /\ p \in 0 .. Added /\ p < node /\ level \in 0 .. entry[p].height - 1 /\ node \notin Linked(level)
    BY <1>1, <1>2, Current
<1>0. PICK to : to = next_[p][level]  OBVIOUS
<1>4. to \in Nodes \cup {Null, Garbage}  BY <1>0, <1>2, <1>3 DEF Typed
<1>5. next_' = Store(node, level, to)  BY <1>0, <1>1 DEF NoBarrier_SetNext, Store
<1>6. UNCHANGED <<entry, max_height_, last_sequence_, reader>> /\ node \in 0 .. Added
      /\ Added' = Added /\ Added \in Nat
    BY <1>2, <1>3, Keyed DEF NoBarrier_SetNext, Added
<1>7. /\ Typed' /\ next_'[node][level] = to
      /\ \A m \in 0 .. Added : \A j : m # node \/ j # level => next_'[m][j] = next_[m][j]
    <2>1. node \in 0 .. Added /\ level \in 0 .. entry[node].height - 1  BY <1>3, <1>6
    <2>2. UNCHANGED <<entry, max_height_, last_sequence_>>  BY <1>6
    <2>3. QED  BY <1>2, <1>4, <1>5, <2>1, <2>2, Stores
<1>8. writer' = [pc |-> "link", node |-> writer.node, prev |-> writer.prev, level |-> writer.level]
    BY DEF ListInv, Planned, NoBarrier_SetNext
<1>9. Planned'
    <2>1. p # node /\ next_'[p][level] = to  BY <1>0, <1>3, <1>6, <1>7
    <2>2. writer'.pc = "link" /\ writer'.node = Added /\ writer'.level = level /\ writer'.prev = writer.prev
        BY <1>1, <1>3, <1>8, Zenon
    <2>3. next_'[Added'][writer'.level] = next_'[writer'.prev[writer'.level]][writer'.level]
        BY <1>1, <1>3, <1>6, <1>7, <2>1, <2>2
    <2>4. \A i \in 0 .. entry'[Added'].height - 1 : Place(i, writer.prev[i])'
        <3>1. ASSUME NEW i \in 0 .. entry'[Added'].height - 1 PROVE Place(i, writer.prev[i])'
            <4>1. PICK q : q = writer.prev[i]  OBVIOUS
            <4>2. i \in 0 .. entry[Added].height - 1  BY <1>6
            <4>3. Place(i, q)  BY <1>2, <4>1, <4>2 DEF ListInv, Planned
            <4>4. Place(i, q)'  BY <1>6, <4>3, SamePlace
            <4>5. writer'.prev[i] = q  BY <2>2, <4>1
            <4>6. QED  BY <4>4, <4>5
        <3>2. QED  BY <3>1
    <2>5. QED
        BY <1>2, <1>6, <1>8, <2>2, <2>3, <2>4 DEF ListInv, Planned, Inserting
<1>10. \A i : Linked(i)' = Linked(i)  BY <1>6, <1>8, Zenon DEF Linked, Chain
<1>11. Lists'
    <2>1. \A i, n, t : IsNext(i, n, t)' <=> IsNext(i, n, t)
        BY <1>6, <1>10, SameNext
    <2>2. ASSUME NEW i \in Levels, NEW n \in Linked(i) \cup {head_}
          PROVE  next_'[n][i] = next_[n][i]
        <3>1. n \in 0 .. Added  BY <1>2, <1>6, ChainNodes DEF head_
        <3>2. n # node \/ i # level  BY <1>3, <1>6 DEF head_
        <3>3. QED  BY <1>7, <3>1, <3>2
    <2>3. QED  BY <1>10, <2>1, <2>2, Zenon DEF Lists, ListInv
<1>12. Kept
    <2>1. last_sequence_ \in Nat  BY <1>2, <1>6, SMTT(30) DEF Typed
    <2>2. QED  BY <1>6, <1>10, <2>1 DEF Kept
<1>13. Reading'
    <2>1. DOMAIN reader' = Readers /\ \A s \in Searches' : Standing(s) /\ Exact(s)
        BY <1>6 DEF ListInv, Reading, Searches
    <2>2. QED  BY <1>2, <1>7, <1>12, <2>1, ReadingKept
<1>14. QED  BY <1>7, <1>9, <1>11, <1>13 DEF ListInv

\* The second store of a level puts the node behind prev[level].
LEMMA SecondStore ==
    ASSUME ListInv, SetNext
    PROVE  ListInv'
<1>1. PICK node, level, p, old :
        node = writer.node /\ level = writer.level /\ p = writer.prev[level] /\ old = next_[p][level]
    OBVIOUS
<1>2. Inserting /\ Typed /\ writer.pc = "link"  BY DEF ListInv, SetNext, Inserting
<1>3. /\ node = Added /\ node \in 1 .. Added /\ node \in Nodes /\ level \in Levels
      /\ level \in 0 .. entry[node].height - 1 /\ entry[node].height \in 1 .. kMaxHeight
      /\ p \in 0 .. Added /\ p < node /\ level \in 0 .. entry[p].height - 1
      /\ p \in Linked(level) \cup {head_} /\ node \notin Linked(level)
      /\ p # head_ => Lt(p, node)
      /\ \A m \in Chain(level) : Lt(m, node) => p # head_ /\ (m = p \/ Lt(m, p))
    BY <1>1, <1>2, Current
<1>4. /\ UNCHANGED <<entry, max_height_, last_sequence_, reader>> /\ node \in 0 .. Added
      /\ Added' = Added /\ Added \in Nat /\ kMaxHeight \in Nat /\ last_sequence_ \in Nat
    BY <1>2, <1>3, Keyed, PublishedLinked, MemTableAssumption DEF SetNext, Added, ListInv
<1>5. next_' = Store(p, level, node)  BY <1>1 DEF SetNext, Store
<1>6. /\ Typed' /\ next_'[p][level] = node
      /\ \A m \in 0 .. Added : \A j : m # p \/ j # level => next_'[m][j] = next_[m][j]
    <2>1. UNCHANGED <<entry, max_height_, last_sequence_>> /\ node \in Nodes \cup {Null, Garbage}
        BY <1>3, <1>4
    <2>2. QED  BY <1>2, <1>3, <1>5, <2>1, Stores
<1>7. next_[node][level] = old  BY <1>1, <1>2, <1>3 DEF ListInv, Planned
<1>8. /\ writer' = IF level + 1 = entry[node].height THEN Idle
                   ELSE [pc |-> "set", node |-> node, prev |-> writer.prev, level |-> level + 1]
      /\ Idle = [pc |-> "idle", node |-> Null, prev |-> <<>>, level |-> 0]
    <2>1. writer = [pc |-> writer.pc, node |-> node, prev |-> writer.prev, level |-> level]
        BY <1>1 DEF ListInv, Planned
    <2>2. [writer EXCEPT !.pc = "set", !.level = writer.level + 1]
            = [pc |-> "set", node |-> node, prev |-> writer.prev, level |-> level + 1]
        <3>1. PICK prev : prev = writer.prev  OBVIOUS
        <3>2. writer \in [pc : {"link"}, node : {node}, prev : {prev}, level : {level}]
            BY <1>2, <2>1, <3>1
        <3>3. [writer EXCEPT !.pc = "set", !.level = level + 1]
                \in [pc : {"set"}, node : {node}, prev : {prev}, level : {level + 1}]
            BY <3>2
        <3>4. \A w \in [pc : {"set"}, node : {node}, prev : {prev}, level : {level + 1}] :
                w = [pc |-> "set", node |-> node, prev |-> prev, level |-> level + 1]
            OBVIOUS
        <3>5. writer.level = level  BY <1>1
        <3>6. QED  BY <3>1, <3>3, <3>4, <3>5, Zenon
    <2>3. writer' = IF level + 1 = entry[node].height THEN Idle
                    ELSE [writer EXCEPT !.pc = "set", !.level = writer.level + 1]
        BY <1>1 DEF SetNext
    <2>4. QED  BY <2>2, <2>3 DEF Idle
<1>9. Planned'
    <2>1. CASE level + 1 = entry[node].height
        BY <1>8, <2>1 DEF Planned, Inserting
    <2>2. CASE level + 1 # entry[node].height
        <3>1. writer'.pc = "set" /\ writer'.node = Added' /\ writer'.level = level + 1
              /\ writer'.prev = writer.prev
              /\ writer' = [pc |-> "set", node |-> writer'.node, prev |-> writer'.prev, level |-> writer'.level]
            BY <1>3, <1>4, <1>8, <2>2, SMTT(30)
        <3>2. \A i \in 0 .. entry'[Added'].height - 1 : Place(i, writer.prev[i])'
            <4>1. ASSUME NEW i \in 0 .. entry'[Added'].height - 1 PROVE Place(i, writer.prev[i])'
                <5>1. PICK q : q = writer.prev[i]  OBVIOUS
                <5>2. i \in 0 .. entry[Added].height - 1  BY <1>4
                <5>3. Place(i, q)  BY <1>2, <5>1, <5>2 DEF ListInv, Planned
                <5>4. Place(i, q)'  BY <1>4, <5>3, SamePlace
                <5>5. writer'.prev[i] = q  BY <3>1, <5>1
                <5>6. QED  BY <5>4, <5>5
            <4>2. QED  BY <4>1
        <3>3. level + 1 \in 0 .. entry[node].height - 1
            <4>1. level \in 0 .. entry[node].height - 1 /\ entry[node].height \in Nat  BY <1>3, <1>4
            <4>2. QED  BY <2>2, <4>1
        <3>4. QED  BY <1>2, <1>3, <1>4, <3>1, <3>2, <3>3 DEF ListInv, Planned, Inserting
    <2>3. QED  BY <2>1, <2>2
<1>10. Linked(level)' = Linked(level) \cup {node}
       /\ \A i \in Levels : i # level => Linked(i)' = Linked(i)
    <2>1. \A i \in Levels : \A n \in Chain(i) : n # Null /\ n \in 0 .. Added
        BY <1>2, <1>4, ChainNodes DEF Null
    <2>2. \A i \in Levels : i \in Nat /\ (node \in Chain(i) <=> entry[node].height > i)
        BY <1>2, <1>3, <1>4 DEF Chain, Levels, Typed, head_
    <2>3. \A i : Chain(i)' = Chain(i)  BY <1>4 DEF Chain
    <2>4. ASSUME NEW i \in Levels
          PROVE  Linked(i)' = {n \in Chain(i) : n = node => i < level + 1}
        <3>1. CASE level + 1 = entry[node].height
            <4>1. writer'.node = Null /\ writer'.level = 0  BY <1>8, <3>1
            <4>2. QED  BY <1>3, <1>4, <2>1, <2>2, <2>3, <3>1, <4>1 DEF Linked
        <3>2. CASE level + 1 # entry[node].height
            <4>1. writer'.node = node /\ writer'.level = level + 1  BY <1>8, <3>2
            <4>2. QED  BY <2>3, <4>1 DEF Linked
        <3>3. QED  BY <3>1, <3>2
    <2>5. \A i \in Levels : Linked(i) = {n \in Chain(i) : n = node => i < level}
        BY <1>1 DEF Linked
    <2>6. node \in Chain(level)  BY <1>3, <1>4, <2>2
    <2>7. Linked(level)' = Linked(level) \cup {node}
        <3>1. ~(level < level) /\ level < level + 1  BY <1>3, <1>4
        <3>2. QED  BY <1>3, <2>4, <2>5, <2>6, <3>1
    <2>8. \A i \in Levels : i # level => (i < level + 1 <=> i < level)  BY <1>3, <1>4, <2>2
    <2>9. QED  BY <2>4, <2>5, <2>7, <2>8
<1>11. /\ \A n, m : Lt(n, m)' <=> Lt(n, m)
       /\ \A i \in Levels : Linked(i) \subseteq 0 .. Added
       /\ 0 \in 0 .. Added
    BY <1>2, <1>4, ChainNodes DEF Lt, Before, InternalKey
<1>12. /\ \A n \in 0 .. Added : ~Lt(n, n)
       /\ \A n, m, k \in 0 .. Added : Lt(n, m) /\ Lt(m, k) => Lt(n, k)
       /\ \A n, m \in 0 .. Added : n = m \/ Lt(n, m) \/ Lt(m, n)
    BY <1>2, Order
<1>13. ASSUME NEW i \in Levels, i # level, NEW n \in Linked(i) \cup {head_}
       PROVE  \A to : to = next_'[n][i] => IsNext(i, n, to)'
    <2>1. n \in 0 .. Added  BY <1>11, <1>13 DEF head_
    <2>2. next_'[n][i] = next_[n][i]  BY <1>6, <1>13, <2>1
    <2>3. IsNext(i, n, next_[n][i])  BY <1>13 DEF ListInv, Lists
    <2>4. \A to : IsNext(i, n, to)' <=> IsNext(i, n, to)
        BY <1>10, <1>11, <1>13 DEF IsNext, After
    <2>5. QED  BY <2>2, <2>3, <2>4
<1>14. /\ \A m \in Linked(level) : Lt(m, node) => p # head_ /\ (m = p \/ Lt(m, p))
       /\ \A m \in Linked(level) : m # node /\ m \in 0 .. Added
    BY <1>2, <1>3, <1>11, ChainNodes
<1>15. \A n \in Linked(level) \cup {head_} : IsNext(level, n, next_[n][level])
    BY <1>3 DEF ListInv, Lists
<1>16. \A n : After(level, n)' = {m \in Linked(level) \cup {node} : n = head_ \/ Lt(n, m)}
    BY <1>10, <1>11 DEF After
\* prev[level] points to the new node,
<1>17. IsNext(level, p, node)'
    <2>1. node # Null  BY <1>3, <1>4 DEF Null
    <2>2. node \in After(level, p)'  BY <1>3, <1>16
    <2>3. ASSUME NEW m \in After(level, p)' PROVE ~Lt(m, node)
        <3>1. p = head_ \/ Lt(p, m)  BY <1>16
        <3>2. m = node \/ m \in Linked(level)  BY <1>16
        <3>3. CASE m = node  BY <1>4, <1>12, <3>3
        <3>4. CASE m \in Linked(level)  BY <1>3, <1>12, <1>14, <3>1, <3>4
        <3>5. QED  BY <3>2, <3>3, <3>4
    <2>4. QED  BY <1>11, <2>1, <2>2, <2>3 DEF IsNext
\* the new node to what followed prev[level],
<1>18. IsNext(level, node, old)'
    <2>1. IsNext(level, p, old)  BY <1>1, <1>3, <1>15
    <2>2. node # head_ /\ ~Lt(node, node)  BY <1>3, <1>4, <1>12 DEF head_
    <2>3. ASSUME NEW m \in After(level, node)' PROVE m \in After(level, p)
        <3>1. m \in Linked(level) /\ Lt(node, m)  BY <1>16, <2>2
        <3>2. p # head_ => Lt(p, m)  BY <1>3, <1>4, <1>12, <1>14, <3>1
        <3>3. QED  BY <3>1, <3>2 DEF After
    <2>4. ASSUME old # Null PROVE old \in After(level, node)' /\ \A m \in After(level, node)' : ~Lt(m, old)
        <3>1. old \in After(level, p) /\ \A m \in After(level, p) : ~Lt(m, old)
            BY <2>1, <2>4 DEF IsNext
        <3>2. old \in Linked(level) /\ (p = head_ \/ Lt(p, old))  BY <3>1 DEF After
        <3>3. ~Lt(old, node)  BY <1>3, <1>12, <1>14, <3>2
        <3>4. Lt(node, old)  BY <1>4, <1>12, <1>14, <3>2, <3>3
        <3>5. QED  BY <1>16, <2>3, <3>1, <3>2, <3>4
    <2>5. old = Null => After(level, p) = {}  BY <2>1 DEF IsNext
    <2>6. QED  BY <1>11, <2>3, <2>4, <2>5 DEF IsNext
\* and the others where they did.
<1>19. ASSUME NEW n \in Linked(level) \cup {head_}, n # p
       PROVE  \A to : to = next_[n][level] => IsNext(level, n, to)'
    <2>1. TAKE to
    <2>2. HAVE to = next_[n][level]
    <2>3. IsNext(level, n, to)  BY <1>15, <1>19, <2>2
    <2>4. n \in 0 .. Added  BY <1>11, <1>14, <1>19 DEF head_
    <2>5. ASSUME n = head_ \/ Lt(n, node) PROVE p \in After(level, n) /\ Lt(p, node)
        <3>1. p # head_ /\ (n = head_ \/ Lt(n, p))  BY <1>14, <1>19, <2>5
        <3>2. QED  BY <1>3, <3>1 DEF After
    <2>6. ASSUME NEW m \in After(level, n)' PROVE m \in After(level, n) \/ (m = node /\ (n = head_ \/ Lt(n, node)))
        BY <1>16 DEF After
    <2>7. CASE to = Null
        <3>1. After(level, n) = {}  BY <2>3, <2>7 DEF IsNext
        <3>2. After(level, n)' = {}  BY <2>5, <2>6, <3>1
        <3>3. QED  BY <2>7, <3>2 DEF IsNext
    <2>8. CASE to # Null
        <3>1. to \in After(level, n) /\ \A m \in After(level, n) : ~Lt(m, to)
            BY <2>3, <2>8 DEF IsNext
        <3>2. to \in After(level, n)' /\ to \in 0 .. Added  BY <1>14, <1>16, <3>1 DEF After
        <3>3. ASSUME NEW m \in After(level, n)' PROVE ~Lt(m, to)
            <4>1. CASE m \in After(level, n)  BY <3>1, <4>1
            <4>2. CASE m = node /\ (n = head_ \/ Lt(n, node))
                <5>1. ~Lt(p, to) /\ Lt(p, node)  BY <2>5, <3>1, <4>2
                <5>2. QED  BY <1>3, <1>4, <1>12, <3>2, <4>2, <5>1
            <4>3. QED  BY <2>6, <4>1, <4>2
        <3>4. QED  BY <1>11, <2>8, <3>2, <3>3 DEF IsNext
    <2>9. QED  BY <2>7, <2>8
<1>20. Lists'
    <2>1. ASSUME NEW n \in Linked(level)' \cup {head_}
          PROVE  \A to : to = next_'[n][level] => IsNext(level, n, to)'
        <3>1. n = p => next_'[n][level] = node  BY <1>6
        <3>2. n = node => n # p /\ next_'[n][level] = old  BY <1>3, <1>4, <1>6, <1>7
        <3>3. n # p /\ n # node => n \in Linked(level) \cup {head_} /\ n \in 0 .. Added
            BY <1>10, <1>11, <1>14 DEF head_
        <3>4. n # p /\ n # node => next_'[n][level] = next_[n][level]  BY <1>6, <3>3
        <3>5. CASE n = p  BY <1>17, <3>1, <3>5
        <3>6. CASE n = node  BY <1>18, <3>2, <3>6
        <3>7. CASE n # p /\ n # node  BY <1>19, <3>3, <3>4, <3>7
        <3>8. QED  BY <3>5, <3>6, <3>7
    <2>2. ASSUME NEW i \in Levels, NEW n \in Linked(i)' \cup {head_}
          PROVE  \A to : to = next_'[n][i] => IsNext(i, n, to)'
        <3>1. CASE i = level  BY <2>1, <2>2, <3>1
        <3>2. CASE i # level  BY <1>10, <1>13, <2>2, <3>2
        <3>3. QED  BY <3>1, <3>2
    <2>3. QED  BY <2>2 DEF Lists
<1>21. Kept
    <2>1. \A i \in Levels : \A n \in Linked(i) : n \in Linked(i)'  BY <1>3, <1>10
    <2>2. QED  BY <1>4, <2>1 DEF Kept
<1>22. Reading'
    <2>1. DOMAIN reader' = Readers /\ \A s \in Searches' : Standing(s) /\ Exact(s)
        BY <1>4 DEF ListInv, Reading, Searches
    <2>2. QED  BY <1>2, <1>6, <1>21, <2>1, ReadingKept
<1>23. QED  BY <1>6, <1>9, <1>20, <1>22 DEF ListInv
-----------------------------------------------------------------------------
(* The arena *)

LEMMA Remainder ==
    ASSUME NEW n \in Nat \ {0}, NEW p \in Nat
    PROVE  (p % n) \in 0 .. n - 1 /\ (p + (n - (p % n))) % n = 0
<1>1. (p % n) \in 0 .. n - 1  OBVIOUS
<1>2. (p + (n - (p % n))) % n = 0  OBVIOUS
<1>3. QED  BY <1>1, <1>2

LEMMA Remainders ==
    ASSUME NEW n \in Nat \ {0}
    PROVE  /\ (n % n) = 0 /\ (0 % n) = 0 /\ n - 0 = n
           /\ \A r \in 1 .. n - 1 : ((n - r) % n) = n - r /\ n - r \in Nat
OBVIOUS

\* What AllocateAligned skips makes the address aligned.
LEMMA Slop ==
    ASSUME NEW n \in Nat \ {0}, NEW p \in Nat
    PROVE  ((n - (p % n)) % n) \in Nat /\ (p + ((n - (p % n)) % n)) % n = 0
<1>1. PICK r \in 0 .. n - 1 : r = (p % n)  BY Remainder
<1>2. CASE r = 0
    <2>1. ((n - r) % n) = 0  BY <1>2, Remainders, Zenon
    <2>2. p + 0 = p /\ 0 \in Nat  OBVIOUS
    <2>3. (p + ((n - r) % n)) % n = 0  BY <1>1, <1>2, <2>1, <2>2, Zenon
    <2>4. QED  BY <1>1, <2>1, <2>2, <2>3, Zenon
<1>3. CASE r # 0
    <2>1. r \in 1 .. n - 1  BY <1>3
    <2>2. ((n - r) % n) = n - r /\ n - r \in Nat  BY <2>1, Remainders
    <2>3. (p + (n - r)) % n = 0  BY <1>1, Remainder, Zenon
    <2>4. QED  BY <1>1, <2>2, <2>3, Zenon
<1>4. QED  BY <1>2, <1>3

LEMMA RegionIn ==
    ASSUME NEW block \in Nat, NEW offset \in Nat, NEW bytes \in Nat
    PROVE  /\ A!Region(block, offset, bytes) \in RegionSet
           /\ A!Region(block, offset, bytes).block = block
           /\ A!Region(block, offset, bytes).offset = offset
           /\ A!Region(block, offset, bytes).bytes = bytes
BY DEF A!Region, RegionSet

\* What a call gives: a region behind everything that was handed out.
Given(a, b, bytes) ==
    /\ ArenaOK(b) /\ Inside(b, b.result) /\ b.result.bytes = bytes
    /\ \A m : Inside(a, m) => Inside(b, m) /\ Apart(m, b.result)

\* From what remains of the current block
LEMMA TakeGives ==
    ASSUME NEW a, ArenaOK(a), NEW slop \in Nat, NEW bytes \in Nat \ {0},
           slop + bytes <= a.alloc_bytes_remaining_
    PROVE  /\ Given(a, A!Take(a, slop, bytes), bytes)
           /\ A!Take(a, slop, bytes).result.offset = a.alloc_ptr_ + slop
<1> DEFINE b == A!Take(a, slop, bytes)
<1>1. /\ a.blocks_ \in Seq(Nat) /\ a.ptr_block \in Nat /\ a.alloc_ptr_ \in Nat
      /\ a.alloc_bytes_remaining_ \in Nat /\ a.memory_usage_ \in Nat
    BY DEF ArenaOK, ArenaSet, Sizes
<1>2. /\ a.ptr_block \in 1 .. Len(a.blocks_) /\ Len(a.blocks_) \in Nat
      /\ a.alloc_ptr_ + a.alloc_bytes_remaining_ = a.blocks_[a.ptr_block]
    BY <1>1 DEF ArenaOK
<1>3. a.alloc_bytes_remaining_ - (slop + bytes) \in Nat /\ a.alloc_ptr_ + slop \in Nat /\ bytes \in Nat  BY <1>1
<1>4. /\ b \in ArenaSet
      /\ b.blocks_ = a.blocks_ /\ b.ptr_block = a.ptr_block
      /\ b.alloc_ptr_ = a.alloc_ptr_ + (slop + bytes)
      /\ b.alloc_bytes_remaining_ = a.alloc_bytes_remaining_ - (slop + bytes)
      /\ b.result = A!Region(a.ptr_block, a.alloc_ptr_ + slop, bytes)
    <2>1. A!Region(a.ptr_block, a.alloc_ptr_ + slop, bytes) \in RegionSet  BY <1>1, <1>3, RegionIn
    <2>2. a.alloc_ptr_ + slop + bytes = a.alloc_ptr_ + (slop + bytes)
          /\ a.alloc_ptr_ + (slop + bytes) \in Nat
        BY <1>1
    <2>3. QED  BY <1>1, <1>3, <2>1, <2>2 DEF ArenaOK, ArenaSet, A!Take
<1> HIDE DEF b
<1>5. ArenaOK(b)  BY <1>1, <1>2, <1>4, SMTT(30) DEF ArenaOK
<1>9. b.result.block = a.ptr_block /\ b.result.offset = a.alloc_ptr_ + slop /\ b.result.bytes = bytes
    <2>1. PICK ptr \in Nat, at \in Nat : ptr = a.ptr_block /\ at = a.alloc_ptr_ + slop  BY <1>1, <1>3
    <2>2. b.result = A!Region(ptr, at, bytes)  BY <1>4, <2>1
    <2>3. b.result.block = ptr /\ b.result.offset = at /\ b.result.bytes = bytes
        BY <2>2 DEF A!Region
    <2>4. QED  BY <2>1, <2>3
<1>6. Inside(b, b.result)
    <2>1. /\ a.alloc_ptr_ + slop + bytes <= a.alloc_ptr_ + a.alloc_bytes_remaining_
          /\ a.alloc_ptr_ + slop + bytes <= a.alloc_ptr_ + (slop + bytes)
        BY <1>1
    <2>2. QED  BY <1>2, <1>3, <1>4, <1>9, <2>1 DEF Inside
<1>7. ASSUME NEW m, Inside(a, m) PROVE Inside(b, m) /\ Apart(m, b.result)
    <2>1. Inside(b, m)  BY <1>1, <1>4, <1>7 DEF Inside
    <2>2. Apart(m, b.result)  BY <1>1, <1>4, <1>7, <1>9 DEF Inside, Apart
    <2>3. QED  BY <2>1, <2>2
<1>8. QED  BY <1>4, <1>5, <1>6, <1>7, <1>9 DEF Given, b

\* From a block of its own, or from a new current block
LEMMA FallbackGives ==
    ASSUME NEW a, ArenaOK(a), NEW bytes \in Nat \ {0}
    PROVE  /\ Given(a, A!AllocateFallback(a, bytes), bytes)
           /\ A!AllocateFallback(a, bytes).result.offset = 0
<1> DEFINE b == A!AllocateFallback(a, bytes)
           large == bytes > kBlockSize \div 4
           size == IF large THEN bytes ELSE kBlockSize
           c == A!AllocateNewBlock(a, size)
           num == Len(a.blocks_) + 1
<1>1. /\ a.blocks_ \in Seq(Nat) /\ a.ptr_block \in Nat /\ a.alloc_ptr_ \in Nat
      /\ a.alloc_bytes_remaining_ \in Nat /\ a.memory_usage_ \in Nat
      /\ Len(a.blocks_) \in Nat /\ a.ptr_block <= Len(a.blocks_)
      /\ a \in ArenaSet
    BY DEF ArenaOK, ArenaSet, Sizes
<1>2. kBlockSize \in Nat /\ PointerSize \in Nat /\ size \in Nat /\ bytes <= size
    <2>1. kBlockSize \in Nat /\ PointerSize \in Nat  BY MemTableAssumption
    <2>2. kBlockSize \div 4 <= kBlockSize /\ kBlockSize \div 4 \in Nat  BY <2>1
    <2>3. QED  BY <2>1, <2>2
<1>3. /\ Append(a.blocks_, size) \in Seq(Nat) /\ Len(Append(a.blocks_, size)) = num
      /\ Append(a.blocks_, size)[num] = size
      /\ \A i \in 1 .. Len(a.blocks_) : Append(a.blocks_, size)[i] = a.blocks_[i]
    BY <1>1, <1>2
<1>12. num \in Nat /\ bytes \in Nat /\ 0 \in Nat  BY <1>1
<1> HIDE DEF large, size
<1>4. /\ c \in ArenaSet
      /\ c.blocks_ = Append(a.blocks_, size) /\ c.ptr_block = a.ptr_block
      /\ c.alloc_ptr_ = a.alloc_ptr_ /\ c.alloc_bytes_remaining_ = a.alloc_bytes_remaining_
    <2>1. a.memory_usage_ + size + PointerSize \in Nat /\ Append(a.blocks_, size) \in Sizes
        BY <1>1, <1>2, <1>3 DEF Sizes
    <2>2. QED  BY <1>1, <2>1 DEF A!AllocateNewBlock, ArenaSet
<1>5. b = IF large THEN [c EXCEPT !.result = A!Region(num, 0, bytes)]
          ELSE A!Take([c EXCEPT !.ptr_block = num, !.alloc_ptr_ = 0, !.alloc_bytes_remaining_ = size], 0, bytes)
    BY <1>3, <1>4 DEF A!AllocateFallback, large, size
<1> HIDE DEF c, b
<1>6. /\ b \in ArenaSet
      /\ b.blocks_ = Append(a.blocks_, size)
      /\ b.result = A!Region(num, 0, bytes)
      /\ IF large THEN /\ size = bytes /\ b.ptr_block = a.ptr_block /\ b.alloc_ptr_ = a.alloc_ptr_
                       /\ b.alloc_bytes_remaining_ = a.alloc_bytes_remaining_
         ELSE b.ptr_block = num /\ b.alloc_ptr_ = bytes /\ b.alloc_bytes_remaining_ = size - bytes
    <2>0. A!Region(num, 0, bytes) \in RegionSet /\ num \in Nat  BY <1>12, RegionIn
    <2>1. CASE large  BY <1>1, <1>4, <1>5, <2>0, <2>1 DEF size, ArenaSet
    <2>2. CASE ~large
        <3>1. size - bytes \in Nat /\ 0 + bytes = bytes /\ num \in Nat  BY <1>1, <1>2
        <3> DEFINE d == [c EXCEPT !.ptr_block = num, !.alloc_ptr_ = 0, !.alloc_bytes_remaining_ = size]
        <3>2. /\ d \in ArenaSet /\ d.blocks_ = Append(a.blocks_, size) /\ d.ptr_block = num
              /\ d.alloc_ptr_ = 0 /\ d.alloc_bytes_remaining_ = size
            BY <1>2, <1>4, <3>1 DEF ArenaSet
        <3>3. b = A!Take(d, 0, bytes)  BY <1>5, <2>2
        <3> HIDE DEF d, num
        <3>4. 0 + 0 + bytes = bytes /\ size - (0 + bytes) = size - bytes /\ 0 + 0 = 0  BY <1>2
        <3>5. b = [d EXCEPT !.alloc_ptr_ = bytes, !.alloc_bytes_remaining_ = size - bytes,
                            !.result = A!Region(num, 0, bytes)]
            BY <3>2, <3>3, <3>4 DEF A!Take
        <3>6. QED  BY <1>12, <2>0, <2>2, <3>1, <3>2, <3>5 DEF ArenaSet
    <2>3. QED  BY <2>1, <2>2
<1>7. ArenaOK(b)
    <2>1. CASE large  BY <1>1, <1>3, <1>6, <2>1 DEF ArenaOK
    <2>2. CASE ~large  BY <1>1, <1>2, <1>3, <1>6, <2>2 DEF ArenaOK
    <2>3. QED  BY <2>1, <2>2
<1>11. b.result.block = num /\ b.result.offset = 0 /\ b.result.bytes = bytes
    BY <1>6, <1>12, RegionIn
<1>8. Inside(b, b.result)  BY <1>1, <1>2, <1>3, <1>6, <1>11 DEF Inside
<1>9. ASSUME NEW m, Inside(a, m) PROVE Inside(b, m) /\ Apart(m, b.result)
    <2>1. m.block \in 1 .. Len(a.blocks_) /\ m.block # num  BY <1>1, <1>9 DEF Inside
    <2>2. Apart(m, b.result)  BY <1>11, <2>1 DEF Apart
    <2>3. Inside(b, m)  BY <1>1, <1>3, <1>6, <1>9, <2>1 DEF Inside
    <2>4. QED  BY <2>2, <2>3
<1>10. QED  BY <1>7, <1>8, <1>9, <1>11 DEF Given, b

LEMMA AllocateGives ==
    ASSUME NEW a, ArenaOK(a), NEW bytes \in Nat \ {0}
    PROVE  /\ Given(a, A!Allocate(a, bytes), bytes)
           /\ Given(a, A!AllocateAligned(a, bytes), bytes)
           /\ A!AllocateAligned(a, bytes).result.offset % Align = 0
<1>1. a.alloc_bytes_remaining_ \in Nat /\ a.alloc_ptr_ \in Nat  BY DEF ArenaOK, ArenaSet
<1>2. Given(a, A!Allocate(a, bytes), bytes)
    <2>1. CASE bytes <= a.alloc_bytes_remaining_
        <3>1. 0 + bytes <= a.alloc_bytes_remaining_  BY <2>1
        <3>2. Given(a, A!Take(a, 0, bytes), bytes)  BY <3>1, TakeGives
        <3>3. QED  BY <2>1, <3>2 DEF A!Allocate
    <2>2. CASE ~(bytes <= a.alloc_bytes_remaining_)  BY <2>2, FallbackGives DEF A!Allocate
    <2>3. QED  BY <2>1, <2>2
<1>3. PICK slop : slop = (Align - (a.alloc_ptr_ % Align)) % Align  OBVIOUS
<1>4. slop \in Nat /\ (a.alloc_ptr_ + slop) % Align = 0  BY <1>1, <1>3, MemTableAssumption, Slop, Zenon
<1>5. CASE bytes + slop <= a.alloc_bytes_remaining_
    <2>1. A!AllocateAligned(a, bytes) = A!Take(a, slop, bytes)  BY <1>3, <1>5, Zenon DEF A!AllocateAligned
    <2>2. slop + bytes <= a.alloc_bytes_remaining_  BY <1>1, <1>4, <1>5
    <2>3. QED  BY <1>2, <1>4, <2>1, <2>2, TakeGives
<1>6. CASE ~(bytes + slop <= a.alloc_bytes_remaining_)
    <2>1. A!AllocateAligned(a, bytes) = A!AllocateFallback(a, bytes)
        BY <1>3, <1>6, Zenon DEF A!AllocateAligned
    <2>2. 0 % Align = 0  BY MemTableAssumption
    <2>3. QED  BY <1>2, <2>1, <2>2, FallbackGives
<1>7. QED  BY <1>5, <1>6
-----------------------------------------------------------------------------
(* Memory, step by step *)

LEMMA ApartDiffer ==
    ASSUME NEW a, NEW m1, NEW m2, Inside(a, m1), Apart(m1, m2)
    PROVE  m1 # m2 /\ Apart(m2, m1)
BY DEF Inside, Apart

\* Add: the entry and its node get memory of their own.
LEMMA AddsMemory ==
    ASSUME Typed, MemoryInv, NEW key \in Keys, NEW type \in Types, NEW height \in 1 .. kMaxHeight,
           Add(key, type, height)
    PROVE  MemoryInv'
<1>1. PICK s, size, bytes : /\ s = Added + 1 /\ size = EntryBytes[type]
                            /\ bytes = NodeBytes + PointerSize * (height - 1)
    OBVIOUS
<1>2. PICK a, b, c : a = arena_ /\ b = A!Allocate(a, size) /\ c = A!AllocateAligned(b, bytes)
    OBVIOUS
<1>3. PICK v : v = [key |-> key, type |-> type, height |-> height, buf |-> b.result, mem |-> c.result]
    OBVIOUS
<1>4. /\ arena_' = c /\ entry' = With(entry, s, v) /\ refs_' = refs_ /\ reader' = reader
      /\ writer.pc # "retired" /\ writer'.pc # "retired"
    BY <1>1, <1>2, <1>3 DEF Add, NewNode
<1>5. size \in Nat \ {0} /\ bytes \in Nat \ {0}
    <2>1. height - 1 \in Nat /\ PointerSize \in Nat /\ NodeBytes \in Nat \ {0}
        BY MemTableAssumption
    <2>2. PointerSize * (height - 1) \in Nat  BY <2>1
    <2>3. size \in Nat \ {0}  BY <1>1, MemTableAssumption
    <2>4. QED  BY <1>1, <2>1, <2>2, <2>3
<1>6. ArenaOK(a) /\ \A m \in Regions : Inside(a, m)  BY <1>2 DEF MemoryInv
<1>7. Given(a, b, size)  BY <1>2, <1>5, <1>6, AllocateGives
<1>8. ArenaOK(b)  BY <1>7 DEF Given
<1>9. Given(b, c, bytes) /\ c.result.offset % Align = 0  BY <1>2, <1>5, <1>8, AllocateGives
<1>10. /\ Added' = s /\ DOMAIN entry = 0 .. Added /\ DOMAIN entry' = 0 .. s /\ s \in Nat
       /\ s \notin 0 .. Added /\ Added \in Nat /\ s # head_
       /\ entry'[s] = v /\ \A n \in 0 .. Added : entry'[n] = entry[n]
    <2>1. DOMAIN entry = 0 .. Added /\ Added \in Nat  BY Keyed DEF Typed
    <2>2. s # head_  BY <1>1, <2>1 DEF head_
    <2>3. QED  BY <1>1, <1>4, <2>1, <2>2, OneMore
<1>11. v.buf = b.result /\ v.mem = c.result  BY <1>3
<1>12. \A n \in 0 .. s : n = s \/ n \in 0 .. Added  BY <1>1, <1>10
<1>13. \A n \in 0 .. Added : n \in 0 .. s  BY <1>1, <1>10
<1>14. s \in 0 .. s  BY <1>10
<1>15. Regions' = (Regions \cup {b.result}) \cup {c.result}
    <2>1. ASSUME NEW m \in Regions' PROVE m \in (Regions \cup {b.result}) \cup {c.result}
        <3>1. PICK n \in 0 .. s : m = entry'[n].mem \/ (n # head_ /\ m = entry'[n].buf)
            BY <1>10 DEF Regions
        <3>2. CASE n = s  BY <1>10, <1>11, <3>1, <3>2
        <3>3. CASE n \in 0 .. Added  BY <1>10, <3>1, <3>3 DEF Regions
        <3>4. QED  BY <1>12, <3>2, <3>3
    <2>2. ASSUME NEW m \in Regions PROVE m \in Regions'
        <3>1. PICK n \in 0 .. Added : m = entry[n].mem \/ (n # head_ /\ m = entry[n].buf)
            BY <1>10 DEF Regions
        <3>2. n \in DOMAIN entry' /\ entry'[n] = entry[n]  BY <1>10, <1>13
        <3>3. QED  BY <3>1, <3>2 DEF Regions
    <2>3. b.result \in Regions' /\ c.result \in Regions'  BY <1>10, <1>11, <1>14 DEF Regions
    <2>4. QED  BY <2>1, <2>2, <2>3
<1>16. \A m \in Regions : Inside(b, m) /\ Apart(m, b.result)  BY <1>6, <1>7 DEF Given
<1>17. Inside(b, b.result)  BY <1>7 DEF Given
<1>18. /\ Inside(c, c.result) /\ ArenaOK(c)
       /\ \A m \in Regions \cup {b.result} : Inside(c, m) /\ Apart(m, c.result)
    BY <1>9, <1>16, <1>17 DEF Given
<1>19. \A m \in Regions' : Inside(c, m)  BY <1>15, <1>18
<1>20. \A m1, m2 \in Regions' : m1 = m2 \/ Apart(m1, m2)
    <2>1. \A m1, m2 \in Regions : m1 = m2 \/ Apart(m1, m2)  BY DEF MemoryInv
    <2>2. \A m \in Regions : Apart(b.result, m)  BY <1>6, <1>16, ApartDiffer
    <2>3. \A m \in Regions \cup {b.result} : Apart(c.result, m)  BY <1>18, ApartDiffer
    <2>4. QED  BY <1>15, <1>16, <1>18, <2>1, <2>2, <2>3
<1>21. IsFiniteSet(Regions') /\ Cardinality(Regions') = 2 * Added' + 1
    <2>1. IsFiniteSet(Regions) /\ Cardinality(Regions) = 2 * Added + 1  BY DEF MemoryInv
    <2>2. b.result \notin Regions  BY <1>6, <1>16, ApartDiffer
    <2>3. c.result \notin Regions \cup {b.result}  BY <1>18, ApartDiffer
    <2>4. IsFiniteSet(Regions \cup {b.result}) /\ Cardinality(Regions \cup {b.result}) = 2 * Added + 2
        BY <1>10, <2>1, <2>2, FS_AddElement
    <2>5. /\ IsFiniteSet((Regions \cup {b.result}) \cup {c.result})
          /\ Cardinality((Regions \cup {b.result}) \cup {c.result}) = 2 * Added + 3
        <3>1. PICK R : R = Regions \cup {b.result}  OBVIOUS
        <3>2. IsFiniteSet(R \cup {c.result}) /\ Cardinality(R \cup {c.result}) = Cardinality(R) + 1
            BY <2>3, <2>4, <3>1, FS_AddElement
        <3>3. Cardinality(R) = 2 * Added + 2 /\ 2 * Added + 2 + 1 = 2 * Added + 3  BY <1>10, <2>4, <3>1
        <3>4. QED  BY <3>1, <3>2, <3>3
    <2>6. 2 * s + 1 = 2 * Added + 3  BY <1>1, <1>10
    <2>7. QED  BY <1>10, <1>15, <2>5, <2>6
<1>22. \A n \in DOMAIN entry' : entry'[n].mem.offset % Align = 0
    <2>1. SUFFICES ASSUME NEW n \in 0 .. s PROVE entry'[n].mem.offset % Align = 0  BY <1>10
    <2>2. CASE n = s
        <3>1. entry'[n].mem = c.result  BY <1>10, <1>11, <2>2
        <3>2. QED  BY <1>9, <3>1
    <2>3. CASE n \in 0 .. Added
        <3>1. entry'[n] = entry[n] /\ n \in DOMAIN entry  BY <1>10, <2>3
        <3>2. QED  BY <3>1 DEF MemoryInv
    <2>4. QED  BY <1>12, <2>2, <2>3
<1>23. refs_' = Cardinality(Holding') + (IF writer'.pc = "retired" THEN 0 ELSE 1)
    BY <1>4, SMTT(30) DEF MemoryInv, Holding
<1>24. QED  BY <1>4, <1>18, <1>19, <1>20, <1>21, <1>22, <1>23, Zenon DEF MemoryInv

\* Steps that allocate nothing
LEMMA SameMemory ==
    ASSUME MemoryInv, UNCHANGED <<entry, arena_>>,
           refs_' = Cardinality(Holding') + (IF writer'.pc = "retired" THEN 0 ELSE 1)
    PROVE  MemoryInv'
<1>1. Regions' = Regions /\ Added' = Added  BY DEF Regions, Added
<1>2. QED  BY <1>1, Zenon DEF MemoryInv

LEMMA HoldingFinite == IsFiniteSet(Holding) /\ Cardinality(Holding) \in Nat
                       /\ Cardinality(Holding) <= Cardinality(Readers)
BY MemTableAssumption, FS_Subset, FS_CardinalityType DEF Holding

\* An insertion begins when none is under way.
LEMMA AddWriter ==
    ASSUME NEW key, NEW type, NEW height, Add(key, type, height)
    PROVE  writer.pc # "retired" /\ writer'.pc # "retired"
<1>1. PICK s, prev : writer' = [pc |-> "set", node |-> s, level |-> 0, prev |-> prev]
    BY Zenon DEF Add
<1>2. writer.pc = "idle"  BY Zenon DEF Add
<1>3. QED  BY <1>1, <1>2

\* References: one of DBImpl until the memtable is retired, one of each reader.
LEMMA Counts ==
    ASSUME ListInv, MemoryInv, Next
    PROVE  refs_' = Cardinality(Holding') + (IF writer'.pc = "retired" THEN 0 ELSE 1)
<1>1. /\ DOMAIN reader = Readers /\ \A r \in Readers : reader[r] \in Search
      /\ refs_ = Cardinality(Holding) + (IF writer.pc = "retired" THEN 0 ELSE 1)
    BY DEF ListInv, Reading, Searches, Standing, MemoryInv
<1>2. IsFiniteSet(Holding) /\ Cardinality(Holding) \in Nat  BY HoldingFinite
<1>3. CASE \/ \E key \in Keys, type \in Types, height \in 1 .. kMaxHeight : Add(key, type, height)
           \/ NoBarrier_SetNext \/ SetNext \/ SetLastSequence
    <2>1. UNCHANGED <<reader, refs_>>
        BY <1>3 DEF Add, NoBarrier_SetNext, SetNext, SetLastSequence
    <2>2. writer.pc # "retired" /\ writer'.pc # "retired"
        <3>1. CASE \E key \in Keys, type \in Types, height \in 1 .. kMaxHeight : Add(key, type, height)
            <4>1. PICK key \in Keys, type \in Types, height \in 1 .. kMaxHeight : Add(key, type, height)
                BY <3>1, Zenon
            <4>2. QED  BY <4>1, AddWriter
        <3>2. CASE NoBarrier_SetNext
            <4>1. [writer EXCEPT !.pc = "link"].pc = "link"  BY DEF ListInv, Planned
            <4>2. QED  BY <3>2, <4>1 DEF NoBarrier_SetNext
        <3>3. CASE SetNext
            <4>1. PICK next : next = writer.level + 1  OBVIOUS
            <4>2. [writer EXCEPT !.pc = "set", !.level = next].pc = "set"  BY DEF ListInv, Planned
            <4>3. Idle.pc = "idle"  BY DEF Idle
            <4>4. writer' = Idle \/ writer' = [writer EXCEPT !.pc = "set", !.level = next]
                BY <3>3, <4>1 DEF SetNext
            <4>5. QED  BY <3>3, <4>2, <4>3, <4>4 DEF SetNext
        <3>4. CASE SetLastSequence  BY <3>4 DEF SetLastSequence
        <3>5. QED  BY <1>3, <3>1, <3>2, <3>3, <3>4
    <2>3. QED  BY <1>1, <2>1, <2>2 DEF Holding
<1>4. CASE Retire
    <2>1. /\ UNCHANGED reader /\ refs_' = refs_ - 1
          /\ writer.pc # "retired" /\ writer'.pc = "retired"
        BY <1>4 DEF Retire, Idle
    <2>2. Holding' = Holding  BY <2>1 DEF Holding
    <2>3. QED  BY <1>1, <1>2, <2>1, <2>2
<1>5. ASSUME NEW r \in Readers, Ref(r) PROVE refs_' = Cardinality(Holding') + (IF writer'.pc = "retired" THEN 0 ELSE 1)
    <2>1. reader' = [reader EXCEPT ![r] = [NoSearch EXCEPT !.pc = "done"]] /\ reader[r].pc = "idle"
          /\ refs_' = refs_ + 1 /\ writer' = writer
        BY <1>5 DEF Ref
    <2>2. [NoSearch EXCEPT !.pc = "done"].pc = "done"  BY DEF NoSearch
    <2>3. Holding' = Holding \cup {r} /\ r \notin Holding  BY <1>1, <2>1, <2>2 DEF Holding
    <2>4. Cardinality(Holding') = Cardinality(Holding) + 1  BY <1>2, <2>3, FS_AddElement
    <2>5. QED  BY <1>1, <1>2, <2>1, <2>4
<1>6. ASSUME NEW r \in Readers, Unref(r) PROVE refs_' = Cardinality(Holding') + (IF writer'.pc = "retired" THEN 0 ELSE 1)
    <2>1. reader' = [reader EXCEPT ![r] = NoSearch] /\ reader[r].pc = "done"
          /\ refs_' = refs_ - 1 /\ writer' = writer
        BY <1>6 DEF Unref
    <2>2. NoSearch.pc = "idle"  BY DEF NoSearch
    <2>3. Holding' = Holding \ {r} /\ r \in Holding  BY <1>1, <2>1, <2>2 DEF Holding
    <2>4. Cardinality(Holding') = Cardinality(Holding) - 1  BY <1>2, <2>3, FS_RemoveElement
    <2>5. QED  BY <1>1, <1>2, <2>1, <2>4
<1>7. ASSUME NEW r \in Readers, \/ Seek(r) \/ Get(r) \/ SeekToLast(r) \/ IteratorPrev(r)
                                \/ SeekToFirst(r) \/ IteratorNext(r) \/ Move(r)
      PROVE  refs_' = Cardinality(Holding') + (IF writer'.pc = "retired" THEN 0 ELSE 1)
    <2>1. refs_' = refs_ /\ writer' = writer /\ reader[r].pc # "idle"
        BY <1>7, Zenon DEF Seek, Get, SeekToLast, IteratorPrev, StartSearch, SeekToFirst, IteratorNext, OneLoad, Move
    <2>2. \E s : reader' = [reader EXCEPT ![r] = s] /\ s.pc # "idle"
        <3>1. CASE Seek(r) \/ Get(r) \/ SeekToLast(r) \/ IteratorPrev(r)
            <4>1. PICK op, target : StartSearch(r, op, target)
                BY <3>1 DEF Seek, Get, SeekToLast, IteratorPrev
            <4>2. PICK height \in 1 .. max_height_ :
                    reader' = [reader EXCEPT ![r].pc = "search", ![r].op = op, ![r].target = target,
                                 ![r].x = head_, ![r].level = height - 1, ![r].node_ = Null,
                                 ![r].published = last_sequence_]
                BY <4>1, Zenon DEF StartSearch
            <4> DEFINE s == [reader[r] EXCEPT !.pc = "search", !.op = op, !.target = target, !.x = head_,
                                 !.level = height - 1, !.node_ = Null, !.published = last_sequence_]
            <4>3. reader' = [reader EXCEPT ![r] = s]  BY <1>1, <4>2
            <4>4. s.pc = "search"  BY <1>1 DEF Search
            <4>5. QED  BY <4>3, <4>4
        <3>2. CASE SeekToFirst(r) \/ IteratorNext(r)
            <4>1. PICK op, x : OneLoad(r, op, x)  BY <3>2 DEF SeekToFirst, IteratorNext
            <4> DEFINE s == [reader[r] EXCEPT !.op = op, !.x = x, !.node_ = next_[x][0],
                                              !.published = last_sequence_]
            <4>2. reader' = [reader EXCEPT ![r] = s] /\ reader[r].pc = "done"  BY <1>1, <4>1 DEF OneLoad
            <4>3. s.pc = "done"  BY <1>1, <4>2 DEF Search
            <4>4. QED  BY <4>2, <4>3
        <3>3. CASE Move(r)
            <4> DEFINE n == next_[reader[r].x][reader[r].level]
                       result == IF reader[r].op \in {"Seek", "Get"} THEN n
                                 ELSE IF reader[r].x = head_ THEN Null ELSE reader[r].x
            <4>1. reader[r].pc = "search"  BY <3>3 DEF Move
            <4>2. \/ reader' = [reader EXCEPT ![r] = [reader[r] EXCEPT !.pc = "done", !.node_ = Garbage]]
                  \/ reader' = [reader EXCEPT ![r] = [reader[r] EXCEPT !.x = n]]
                  \/ reader' = [reader EXCEPT ![r] = [reader[r] EXCEPT !.level = reader[r].level - 1]]
                  \/ reader' = [reader EXCEPT ![r] = [reader[r] EXCEPT !.pc = "done", !.node_ = result]]
                BY <3>3 DEF Move
            <4> HIDE DEF n, result
            <4>3. /\ [reader[r] EXCEPT !.pc = "done", !.node_ = Garbage].pc # "idle"
                  /\ [reader[r] EXCEPT !.x = n].pc # "idle"
                  /\ [reader[r] EXCEPT !.level = reader[r].level - 1].pc # "idle"
                  /\ [reader[r] EXCEPT !.pc = "done", !.node_ = result].pc # "idle"
                BY <1>1, <4>1 DEF Search
            <4>4. QED  BY <4>2, <4>3
        <3>4. QED  BY <1>7, <3>1, <3>2, <3>3
    <2>3. Holding' = Holding
        <3>1. PICK s : reader' = [reader EXCEPT ![r] = s] /\ s.pc # "idle"  BY <2>2
        <3>2. QED  BY <1>1, <2>1, <3>1 DEF Holding
    <2>4. QED  BY <1>1, <2>1, <2>3
<1>8. QED  BY <1>3, <1>4, <1>5, <1>6, <1>7, SMTT(30) DEF Next
-----------------------------------------------------------------------------
(* The theorems *)

LEMMA InitInvariant == ASSUME Init PROVE IInv
<1> DEFINE e == [key |-> 0, type |-> "Value", height |-> kMaxHeight,
                 buf |-> A!Region(0, 0, 0), mem |-> arena_.result]
<1>1. /\ entry = [n \in {head_} |-> e] /\ next_ = [n \in {head_} |-> [i \in Levels |-> Null]]
      /\ max_height_ = 1 /\ last_sequence_ = 0 /\ writer = Idle /\ refs_ = 1
      /\ reader = [r \in Readers |-> NoSearch] /\ arena_ = NewNode(A!EmptyArena, kMaxHeight)
    BY DEF Init
<1>2. e.key = 0 /\ e.height = kMaxHeight /\ e.mem = arena_.result  OBVIOUS
<1> HIDE DEF e
<1>3. DOMAIN entry = {0} /\ entry[0] = e /\ entry[head_] = e /\ DOMAIN next_ = {0}
      /\ next_[0] = [i \in Levels |-> Null] /\ {0} = 0 .. 0
    BY <1>1 DEF head_
<1>4. Added = 0
    <2>1. Cardinality({0}) = 1  BY FS_Singleton
    <2>2. QED  BY <1>3, <2>1 DEF Added
<1>5. kMaxHeight \in Nat \ {0} /\ MaxSequence \in Nat  BY MemTableAssumption
<1>6. Typed
    <2>1. next_[0] \in [0 .. entry[0].height - 1 -> Nodes \cup {Null, Garbage}]
        BY <1>2, <1>3 DEF Levels
    <2>2. \A n \in 0 .. 0 : n = 0  OBVIOUS
    <2>3. entry[0].key \in Nat /\ entry[0].height \in 1 .. kMaxHeight /\ entry[head_].height = kMaxHeight
        BY <1>2, <1>3, <1>5
    <2>4. 1 \in 1 .. kMaxHeight /\ 0 \in 0 .. 0 /\ 0 \in 0 .. MaxSequence  BY <1>5
    <2>5. QED  BY <1>1, <1>3, <1>4, <2>1, <2>2, <2>3, <2>4 DEF Typed
<1>7. Planned  BY <1>1 DEF Planned, Inserting, Idle
<1>8. \A i : Chain(i) = {} /\ Linked(i) = {}  BY <1>3 DEF Chain, Linked, head_
<1>9. Lists
    <2>1. \A i \in Levels : next_[head_][i] = Null  BY <1>3 DEF head_
    <2>2. \A i \in Levels : \A to : to = Null => IsNext(i, head_, to)  BY <1>8 DEF IsNext, After
    <2>3. QED  BY <1>8, <2>1, <2>2 DEF Lists
<1>10. Reading
    <2>1. \A s \in Searches : s = NoSearch  BY <1>1 DEF Searches
    <2>2. QED  BY <1>1, <1>6, <1>7, <2>1, Idles DEF Reading
<1>11. PICK bytes : bytes = NodeBytes + PointerSize * (kMaxHeight - 1)  OBVIOUS
<1>12. bytes \in Nat \ {0} /\ arena_ = A!AllocateAligned(A!EmptyArena, bytes)
    <2>1. PointerSize \in Nat /\ NodeBytes \in Nat \ {0} /\ kMaxHeight - 1 \in Nat
        BY <1>5, MemTableAssumption
    <2>2. PointerSize * (kMaxHeight - 1) \in Nat  BY <2>1
    <2>3. QED  BY <1>1, <1>11, <2>1, <2>2 DEF NewNode
<1>13. ArenaOK(A!EmptyArena)
    <2>1. A!Region(0, 0, 0) \in RegionSet  BY RegionIn
    <2>2. <<>> \in Sizes /\ Len(<<>>) = 0  BY DEF Sizes
    <2>3. QED  BY <2>1, <2>2 DEF ArenaOK, ArenaSet, A!EmptyArena
<1>14. ArenaOK(arena_) /\ Inside(arena_, arena_.result) /\ arena_.result.offset % Align = 0
    <2>1. Given(A!EmptyArena, arena_, bytes) /\ arena_.result.offset % Align = 0
        BY <1>12, <1>13, AllocateGives
    <2>2. QED  BY <2>1 DEF Given
<1>15. Regions = {arena_.result}  BY <1>2, <1>3 DEF Regions, head_
<1>16. IsFiniteSet({arena_.result}) /\ Cardinality({arena_.result}) = 1  BY FS_Singleton
<1>17. Cardinality(Holding) = 0
    <2>1. Holding = {}  BY <1>1 DEF Holding, NoSearch
    <2>2. QED  BY <2>1, FS_EmptySet
<1>18. writer.pc # "retired"  BY <1>1 DEF Idle
<1>19. \A n \in DOMAIN entry : entry[n].mem.offset % Align = 0
    <2>1. entry[0].mem = arena_.result  BY <1>2, <1>3
    <2>2. QED  BY <1>3, <1>14, <2>1
<1>20. MemoryInv
    <2>1. \A m \in Regions : Inside(arena_, m)  BY <1>14, <1>15
    <2>2. IsFiniteSet(Regions) /\ Cardinality(Regions) = 2 * Added + 1  BY <1>4, <1>15, <1>16
    <2>3. \A m1, m2 \in Regions : m1 = m2 \/ Apart(m1, m2)  BY <1>15
    <2>4. refs_ = Cardinality(Holding) + (IF writer.pc = "retired" THEN 0 ELSE 1)
        BY <1>1, <1>17, <1>18
    <2>5. QED  BY <1>14, <1>19, <2>1, <2>2, <2>3, <2>4, Zenon DEF MemoryInv
<1>21. QED  BY <1>6, <1>7, <1>9, <1>10, <1>20 DEF IInv, ListInv

LEMMA NextInvariant == ASSUME IInv, [Next]_vars PROVE IInv'
<1>1. CASE Next
    <2>1. ListInv /\ MemoryInv /\ Typed  BY DEF IInv, ListInv
    <2>2. refs_' = Cardinality(Holding') + (IF writer'.pc = "retired" THEN 0 ELSE 1)
        BY <1>1, <2>1, Counts
    <2>3. CASE \E key \in Keys, type \in Types, height \in 1 .. kMaxHeight : Add(key, type, height)
        BY <2>1, <2>3, Adds, AddsMemory DEF IInv
    <2>4. CASE ~\E key \in Keys, type \in Types, height \in 1 .. kMaxHeight : Add(key, type, height)
        <3>1. UNCHANGED <<entry, arena_>>
            <4>1. CASE NoBarrier_SetNext \/ SetNext \/ SetLastSequence \/ Retire
                BY <4>1 DEF NoBarrier_SetNext, SetNext, SetLastSequence, Retire
            <4>2. ASSUME NEW r \in Readers,
                         \/ Ref(r) \/ Unref(r) \/ Seek(r) \/ Get(r) \/ SeekToLast(r)
                         \/ IteratorPrev(r) \/ SeekToFirst(r) \/ IteratorNext(r) \/ Move(r)
                  PROVE  UNCHANGED <<entry, arena_>>
                BY <4>2, Zenon DEF Ref, Unref, Seek, Get, SeekToLast, IteratorPrev, StartSearch, SeekToFirst,
                            IteratorNext, OneLoad, Move
            <4>3. QED  BY <1>1, <2>4, <4>1, <4>2 DEF Next
        <3>2. MemoryInv'  BY <2>1, <2>2, <3>1, SameMemory
        <3>3. ListInv'
            BY <1>1, <2>1, <2>4, FirstStore, SecondStore, Publishes, ReaderSteps DEF Next
        <3>4. QED  BY <3>2, <3>3 DEF IInv
    <2>5. QED  BY <2>3, <2>4
<1>2. CASE UNCHANGED vars
    <2>1. UNCHANGED <<entry, next_, max_height_, last_sequence_, writer, reader, arena_, refs_>>
        BY <1>2 DEF vars
    <2>2. ListInv /\ Typed /\ MemoryInv  BY DEF IInv, ListInv
    <2>3. Typed' /\ Planned' /\ Lists' /\ Kept  BY <2>1, <2>2, ListAlone
    <2>4. DOMAIN reader' = Readers /\ \A s \in Searches' : Standing(s) /\ Exact(s)
        BY <2>1, <2>2 DEF ListInv, Reading, Searches
    <2>5. Reading'  BY <2>2, <2>3, <2>4, ReadingKept
    <2>6. MemoryInv'
        <3>1. refs_' = Cardinality(Holding') + (IF writer'.pc = "retired" THEN 0 ELSE 1)
            BY <2>1, <2>2 DEF MemoryInv, Holding
        <3>2. QED  BY <2>1, <2>2, <3>1, SameMemory
    <2>7. QED  BY <2>3, <2>5, <2>6 DEF IInv, ListInv
<1>3. QED  BY <1>1, <1>2

\* The inductive invariant of the memtable: the writer's plan, the sorted lists, what each
\* reader knows, and the memory that was handed out.
THEOREM Invariant == Spec => []IInv
<1>1. Init => IInv  BY InitInvariant
<1>2. IInv /\ [Next]_vars => IInv'  BY NextInvariant
<1>3. QED  BY <1>1, <1>2, PTL DEF Spec

LEMMA InvTypes == ASSUME IInv PROVE TypeOK
<1>1. /\ Typed /\ Planned /\ Reading /\ MemoryInv /\ Added \in Nat /\ last_sequence_ \in 0 .. Added
      /\ 0 \in Levels /\ kMaxHeight \in Nat /\ MaxSequence \in Nat /\ Added <= MaxSequence
    BY PublishedLinked, MemTableAssumption DEF IInv, ListInv, Typed
<1>2. \A i \in Levels : Linked(i) \subseteq 1 .. Added  BY <1>1, ChainNodes
<1>3. writer.pc \in {"idle", "set", "link", "retired"} /\ writer.level \in Levels
    <2>1. CASE Inserting
        <3>1. writer.level \in Levels  BY <2>1, Current DEF IInv
        <3>2. QED  BY <1>1, <3>1 DEF Planned
    <2>2. CASE ~Inserting  BY <1>1, <2>2 DEF Planned
    <2>3. QED  BY <2>1, <2>2
<1>4. ASSUME NEW r \in Readers
      PROVE  /\ reader[r].pc \in {"idle", "search", "done"}
             /\ reader[r].x \in DOMAIN entry /\ reader[r].level \in Levels
             /\ reader[r].node_ \in Nodes \cup {Null, Garbage}
    <2>1. PICK s : s = reader[r]  OBVIOUS
    <2>2. Standing(s)  BY <1>1, <2>1 DEF Reading, Searches
    <2>3. s.pc \in {"idle", "search", "done"} /\ s.level \in Levels  BY <2>2 DEF Standing, Search
    <2>4. s.x \in 0 .. Added  BY <1>1, <1>2, <2>2, <2>3 DEF Standing, head_
    <2>5. s.node_ \in 1 .. MaxSequence \cup {Null}
        BY <1>1, <1>2, <2>2 DEF Standing
    <2>6. DOMAIN entry = 0 .. Added  BY <1>1 DEF Typed
    <2>7. QED  BY <2>1, <2>3, <2>4, <2>5, <2>6 DEF Nodes
<1>5. refs_ \in 0 .. Cardinality(Readers) + 1
    <2>1. refs_ = Cardinality(Holding) + (IF writer.pc = "retired" THEN 0 ELSE 1)
        BY <1>1 DEF MemoryInv
    <2>2. Cardinality(Readers) \in Nat  BY MemTableAssumption, FS_CardinalityType
    <2>3. QED  BY <2>1, <2>2, HoldingFinite
<1>6. QED  BY <1>1, <1>3, <1>4, <1>5 DEF TypeOK, Typed

\* After every store of SkipList::Insert each level is a sorted list of exactly the nodes
\* linked so far, whatever readers do, for any keys, heights and number of entries.
THEOREM SortedLists == Spec => []LinksExact
<1>1. ASSUME IInv PROVE LinksExact
    <2>1. TypeOK  BY <1>1, InvTypes
    <2>2. Lists  BY <1>1 DEF IInv, ListInv
    <2>3. QED  BY <2>1, <2>2 DEF LinksExact, Lists, IsNext, After, Lt
<1>2. QED  BY <1>1, Invariant, PTL

\* The searches of the skip list and MemTable::Get end where they should, for any number
\* of readers and any interleaving with the stores of the writer.
THEOREM ExactSearches == Spec => []SearchExact
<1>1. ASSUME IInv PROVE SearchExact
    <2>1. \A r \in Readers : Exact(reader[r])  BY <1>1 DEF IInv, ListInv, Reading, Searches
    <2>2. QED  BY <2>1, Zenon DEF SearchExact, Exact
<1>2. QED  BY <1>1, Invariant, PTL

\* What the arena hands out lies in its blocks, aligned and apart, for any block size,
\* alignment and entry sizes; and a reader holds the memtable it searches.
THEOREM SoundMemory == Spec => []MemorySound
<1>1. ASSUME IInv PROVE MemorySound
    <2>1. MemoryInv  BY <1>1 DEF IInv
    <2>2. arena_.blocks_ \in Seq(Nat)  BY <2>1, Zenon DEF MemoryInv, ArenaOK, ArenaSet, Sizes
    <2>3. \A m \in Regions : m.block \in DOMAIN arena_.blocks_ /\ m.offset + m.bytes <= arena_.blocks_[m.block]
        BY <2>1, <2>2 DEF MemoryInv, Inside
    <2>4. ASSUME NEW r \in Readers, reader[r].pc # "idle" PROVE refs_ > 0
        <3>1. r \in Holding  BY <2>4 DEF Holding
        <3>2. Cardinality(Holding) # 0 /\ Cardinality(Holding) \in Nat  BY <3>1, HoldingFinite, FS_EmptySet
        <3>3. QED  BY <2>1, <3>2 DEF MemoryInv
    <2>5. QED  BY <2>1, <2>3, <2>4 DEF MemorySound, MemoryInv, Apart
<1>2. QED  BY <1>1, Invariant, PTL
=============================================================================
