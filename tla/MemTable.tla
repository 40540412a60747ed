------------------------------ MODULE MemTable ------------------------------
(***************************************************************************)
(* A memtable (db/memtable.cpp, db/skiplist.h): one writer, which the      *)
(* writer queue of DBImpl chooses, links a node level by level while       *)
(* readers walk the list without a lock, one pointer at a time.  A node is *)
(* named by its sequence number; 0 is head_.  A pointer that was not set   *)
(* yet is Garbage, since NewNode leaves next_ as the arena returned it.    *)
(***************************************************************************)
EXTENDS Integers, FiniteSets

CONSTANTS
    Keys,           \* user keys, a set of numbers
    kMaxHeight,
    MaxSequence,    \* bound: entries added
    Readers,
    EntryBytes,     \* length of an encoded entry of each type
    NodeBytes,      \* sizeof(Node)
    kBlockSize, Align, PointerSize

Types == {"Deletion", "Value"}
head_ == 0
Null == -1
Garbage == -2
Nodes == 1 .. MaxSequence
Levels == 0 .. kMaxHeight - 1

ASSUME MemTableAssumption ==
    /\ Keys \subseteq Nat /\ kMaxHeight \in Nat \ {0} /\ MaxSequence \in Nat
    /\ IsFiniteSet(Readers) /\ EntryBytes \in [Types -> Nat \ {0}]
    /\ NodeBytes \in Nat \ {0} /\ kBlockSize \in Nat /\ Align \in Nat \ {0} /\ PointerSize \in Nat

VARIABLES
    entry,          \* by node: key, type, height, and the memory of entry and node
    next_,          \* by node and level
    max_height_,
    last_sequence_, \* published by DBImpl::Write
    writer,         \* the insertion under way
    reader,         \* by reader: its search, and its position node_
    arena_,
    refs_           \* of the memtable; 0 once it is deleted

vars == <<entry, next_, max_height_, last_sequence_, writer, reader, arena_, refs_>>

A == INSTANCE Arena

Idle == [pc |-> "idle", node |-> Null, prev |-> <<>>, level |-> 0]
NoSearch == [pc |-> "idle", op |-> "New", target |-> [k |-> 0, s |-> 0], x |-> head_,
             level |-> 0, node_ |-> Null, published |-> 0]

\* A function with one more argument
With(f, x, v) == [y \in DOMAIN f \cup {x} |-> IF y = x THEN v ELSE f[y]]

\* NewNode, for a node with a number of pointers
NewNode(a, height) == A!AllocateAligned(a, NodeBytes + PointerSize * (height - 1))

\* The memtable is new and referenced by DBImpl.
Init ==
    /\ arena_ = NewNode(A!EmptyArena, kMaxHeight)
    /\ entry = [n \in {head_} |-> [key |-> 0, type |-> "Value", height |-> kMaxHeight,
                                 buf |-> A!Region(0, 0, 0), mem |-> arena_.result]]
    /\ next_ = [n \in {head_} |-> [i \in Levels |-> Null]]
    /\ max_height_ = 1 /\ last_sequence_ = 0
    /\ writer = Idle
    /\ reader = [r \in Readers |-> NoSearch]
    /\ refs_ = 1

InternalKey(n) == [k |-> entry[n].key, s |-> n]

\* The order of internal keys: user key, then decreasing sequence number
Before(a, b) == a.k < b.k \/ (a.k = b.k /\ a.s > b.s)

KeyIsAfterNode(key, n) == n # Null /\ Before(InternalKey(n), key)
-----------------------------------------------------------------------------
(* The writer: WriteBatchInternal::InsertInto calls Add for each operation *)

Added == Cardinality(DOMAIN entry) - 1

\* The nodes of a level, as the writer's FindGreaterOrEqual meets them.  Nobody else
\* changes the list, so the search is one step.
Chain(i) == {n \in DOMAIN entry \ {head_} : entry[n].height > i}

Prev(key, i) ==
    LET less == {n \in Chain(i) : Before(InternalKey(n), key)}
    IN  IF less = {} THEN head_
        ELSE CHOOSE n \in less : \A m \in less : ~Before(InternalKey(n), InternalKey(m))

\* Add up to the first store of Insert that readers can see, max_height_
Add(key, type, height) ==
    /\ writer.pc = "idle" /\ Added < MaxSequence
    /\ LET s    == Added + 1
           buf  == A!Allocate(arena_, EntryBytes[type])
           node == NewNode(buf, height)
       IN  /\ writer' = [pc |-> "set", node |-> s, level |-> 0,
                         prev |-> [i \in 0 .. height - 1 |-> Prev([k |-> key, s |-> s], i)]]
           /\ entry' = With(entry, s, [key |-> key, type |-> type, height |-> height,
                                       buf |-> buf.result, mem |-> node.result])
           /\ next_' = With(next_, s, [i \in 0 .. height - 1 |-> Garbage])
           /\ arena_' = node
    /\ max_height_' = IF height > max_height_ THEN height ELSE max_height_
    /\ UNCHANGED <<last_sequence_, reader, refs_>>

\* Mutant: the pointer of the previous node is stored first.
NoBarrier_SetNext_Late ==
    /\ writer.pc = "set"
    /\ next_' = [next_ EXCEPT ![writer.prev[writer.level]][writer.level] = writer.node]
    /\ writer' = [writer EXCEPT !.pc = "link"]
    /\ UNCHANGED <<entry, max_height_, last_sequence_, reader, arena_, refs_>>

\* x->NoBarrier_SetNext(i, prev[i]->NoBarrier_Next(i))
NoBarrier_SetNext ==
    /\ writer.pc = "set"
    /\ next_' = [next_ EXCEPT ![writer.node][writer.level] = next_[writer.prev[writer.level]][writer.level]]
    /\ writer' = [writer EXCEPT !.pc = "link"]
    /\ UNCHANGED <<entry, max_height_, last_sequence_, reader, arena_, refs_>>

\* prev[i]->SetNext(i, x)
SetNext ==
    /\ writer.pc = "link"
    /\ next_' = [next_ EXCEPT ![writer.prev[writer.level]][writer.level] = writer.node]
    /\ writer' = IF writer.level + 1 = entry[writer.node].height THEN Idle
                 ELSE [writer EXCEPT !.pc = "set", !.level = @ + 1]
    /\ UNCHANGED <<entry, max_height_, last_sequence_, reader, arena_, refs_>>

\* DBImpl::Write, after the batch was inserted
SetLastSequence ==
    /\ writer.pc = "idle" /\ last_sequence_ < Added
    /\ last_sequence_' = Added
    /\ UNCHANGED <<entry, next_, max_height_, writer, reader, arena_, refs_>>
-----------------------------------------------------------------------------
(* A reader *)

\* DBImpl takes a reference under its mutex, while the memtable is mem_ or imm_.
Ref(r) ==
    /\ reader[r].pc = "idle" /\ writer.pc # "retired"
    /\ reader' = [reader EXCEPT ![r] = [NoSearch EXCEPT !.pc = "done"]]
    /\ refs_' = refs_ + 1
    /\ UNCHANGED <<entry, next_, max_height_, last_sequence_, writer, arena_>>

Unref(r) ==
    /\ reader[r].pc = "done"
    /\ reader' = [reader EXCEPT ![r] = NoSearch]
    /\ refs_' = refs_ - 1
    /\ UNCHANGED <<entry, next_, max_height_, last_sequence_, writer, arena_>>

\* The memtable was written to a table: DBImpl drops its reference.
Retire ==
    /\ writer.pc = "idle" /\ last_sequence_ = Added
    /\ writer' = [Idle EXCEPT !.pc = "retired"]
    /\ refs_' = refs_ - 1
    /\ UNCHANGED <<entry, next_, max_height_, last_sequence_, reader, arena_>>

\* A search begins at head_, at the level of a max_height_ that may be stale.
StartSearch(r, op, target) ==
    /\ reader[r].pc = "done"
    /\ \E height \in 1 .. max_height_ :
        reader' = [reader EXCEPT ![r].pc = "search", ![r].op = op, ![r].target = target,
                                 ![r].x = head_, ![r].level = height - 1, ![r].node_ = Null,
                                 ![r].published = last_sequence_]
    /\ UNCHANGED <<entry, next_, max_height_, last_sequence_, writer, arena_, refs_>>

\* A lookup key: a user key at a snapshot
Targets == [k : Keys, s : 0 .. last_sequence_]

Seek(r) == \E target \in Targets : StartSearch(r, "Seek", target)
Get(r) == \E target \in Targets : StartSearch(r, "Get", target)
SeekToLast(r) == StartSearch(r, "SeekToLast", [k |-> 0, s |-> 0])
IteratorPrev(r) == /\ reader[r].node_ # Null
                   /\ StartSearch(r, "Prev", InternalKey(reader[r].node_))

\* SeekToFirst and Next read one pointer.
OneLoad(r, op, x) ==
    /\ reader[r].pc = "done"
    /\ reader' = [reader EXCEPT ![r].op = op, ![r].x = x, ![r].node_ = next_[x][0],
                                ![r].published = last_sequence_]
    /\ UNCHANGED <<entry, next_, max_height_, last_sequence_, writer, arena_, refs_>>

SeekToFirst(r) == OneLoad(r, "SeekToFirst", head_)
IteratorNext(r) == reader[r].node_ # Null /\ OneLoad(r, "Next", reader[r].node_)

\* Mutant: FindLast compares like FindLessThan.
Advances_Compared(op, target, n) == KeyIsAfterNode(target, n)

\* Whether the loop of FindGreaterOrEqual, FindLessThan or FindLast goes on in its list
Advances(op, target, n) == n # Null /\ (op = "SeekToLast" \/ KeyIsAfterNode(target, n))

Move(r) ==
    /\ reader[r].pc = "search"
    /\ LET search == reader[r]
           n      == next_[search.x][search.level]
           result == IF search.op \in {"Seek", "Get"} THEN n
                     ELSE IF search.x = head_ THEN Null ELSE search.x
       IN  reader' = [reader EXCEPT ![r] =
               IF n = Garbage THEN [@ EXCEPT !.pc = "done", !.node_ = Garbage]
               ELSE IF Advances(search.op, search.target, n) THEN [@ EXCEPT !.x = n]
               ELSE IF search.level > 0 THEN [@ EXCEPT !.level = search.level - 1]
               ELSE [@ EXCEPT !.pc = "done", !.node_ = result]]
    /\ UNCHANGED <<entry, next_, max_height_, last_sequence_, writer, arena_, refs_>>

Next ==
    \/ \E key \in Keys, type \in Types, height \in 1 .. kMaxHeight : Add(key, type, height)
    \/ NoBarrier_SetNext \/ SetNext \/ SetLastSequence \/ Retire
    \/ \E r \in Readers : \/ Ref(r) \/ Unref(r) \/ Seek(r) \/ Get(r) \/ SeekToLast(r)
                          \/ IteratorPrev(r) \/ SeekToFirst(r) \/ IteratorNext(r) \/ Move(r)

Spec == Init /\ [][Next]_vars
-----------------------------------------------------------------------------
(* Properties *)

TypeOK ==
    /\ Added \in 0 .. MaxSequence /\ DOMAIN entry = 0 .. Added /\ DOMAIN next_ = 0 .. Added
    /\ \A n \in DOMAIN next_ : next_[n] \in [0 .. entry[n].height - 1 -> Nodes \cup {Null, Garbage}]
    /\ max_height_ \in 1 .. kMaxHeight /\ last_sequence_ \in 0 .. Added
    /\ writer.pc \in {"idle", "set", "link", "retired"} /\ writer.level \in Levels
    /\ \A r \in Readers : /\ reader[r].pc \in {"idle", "search", "done"}
                          /\ reader[r].x \in DOMAIN entry /\ reader[r].level \in Levels
                          /\ reader[r].node_ \in Nodes \cup {Null, Garbage}
    /\ refs_ \in 0 .. Cardinality(Readers) + 1

\* The nodes that are in the list of a level
Linked(i) ==
    {n \in Chain(i) : n = writer.node => i < writer.level}

\* SkipList::Insert: the members keep their types, and after every single store each level is a sorted list of exactly the
\* nodes linked so far, so that the lists of the upper levels are sublists of those below
\* and a reader meets no pointer that was not set.
LinksExact ==
    TypeOK /\ \A i \in Levels : \A n \in Linked(i) \cup {head_} :
        LET after == {m \in Linked(i) : n = head_ \/ Before(InternalKey(n), InternalKey(m))}
            to    == next_[n][i]
        IN  /\ to = Null => after = {}
            /\ to # Null => /\ to \in after
                            /\ \A m \in after : ~Before(InternalKey(m), InternalKey(to))

Between(n, lo, hi) ==
    /\ lo = Null \/ Before(InternalKey(lo), InternalKey(n))
    /\ hi = Null \/ Before(InternalKey(n), InternalKey(hi))

\* SkipList::Iterator, with an insertion at any of its steps meanwhile: the position that
\* Seek, SeekToFirst, SeekToLast, Next or Prev ends at is on the right side of where it
\* was asked to go, and passes over no entry that was published when the call began.
\* MemTable::Get finds the newest entry of the key that is not newer than the snapshot,
\* although it does not look at the sequence number of the entry it found.
SearchExact ==
    \A r \in Readers : reader[r].pc = "done" =>
        LET at == reader[r].node_
            x  == reader[r].x
            to == reader[r].target
            Published == 1 .. reader[r].published
            versions == {s \in 1 .. to.s : entry[s].key = to.k}
        IN  /\ at # Garbage
            /\ reader[r].op = "Seek" =>
                /\ at # Null => ~KeyIsAfterNode(to, at)
                /\ \A n \in Published : Between(n, Null, at) => KeyIsAfterNode(to, n)
            /\ reader[r].op = "Get" =>
                IF at # Null /\ entry[at].key = to.k
                THEN at \in versions /\ \A s \in versions : s <= at
                ELSE versions = {}
            /\ reader[r].op = "SeekToFirst" => \A n \in Published : at # Null /\ ~Between(n, Null, at)
            /\ reader[r].op = "SeekToLast" => \A n \in Published : at # Null /\ ~Between(n, at, Null)
            /\ reader[r].op = "Next" =>
                /\ at # Null => Before(InternalKey(x), InternalKey(at))
                /\ \A n \in Published : ~Between(n, x, at)
            /\ reader[r].op = "Prev" =>
                /\ at # Null => KeyIsAfterNode(to, at)
                /\ \A n \in Published : KeyIsAfterNode(to, n) => at # Null /\ ~Between(n, at, Null)

Regions == {entry[n].mem : n \in DOMAIN entry} \cup {entry[n].buf : n \in DOMAIN entry \ {head_}}

\* Arena: entries and nodes do not overlap and stay inside their blocks, and nodes are
\* aligned (the assertion on it is commented out in AllocateAligned).  A reader searches a
\* memtable that nobody deleted, although DBImpl drops its own reference as soon as the
\* table file is installed.
MemorySound ==
    /\ \A m \in Regions : /\ m.block \in DOMAIN arena_.blocks_
                           /\ m.offset + m.bytes <= arena_.blocks_[m.block]
    /\ \A n \in DOMAIN entry : entry[n].mem.offset % Align = 0
    /\ Cardinality(Regions) = 2 * Added + 1
    /\ \A m1, m2 \in Regions :
        m1 # m2 /\ m1.block = m2.block =>
            m1.offset + m1.bytes <= m2.offset \/ m2.offset + m2.bytes <= m1.offset
    /\ \A r \in Readers : reader[r].pc # "idle" => refs_ > 0
=============================================================================
