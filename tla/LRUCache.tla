------------------------------ MODULE LRUCache ------------------------------
(***************************************************************************)
(* One shard of the cache of util/cache.cpp.  A cache is a record: its     *)
(* handles (alive until their last reference goes), the two lists, usage_  *)
(* and the hash table.  Each method runs under mutex_ and is an operator   *)
(* from a cache to a cache; a handle whose count reaches 0 leaves the      *)
(* domain of "handle", which stands for the call of its deleter.           *)
(***************************************************************************)
EXTENDS Naturals, Sequences, FiniteSets, SequencesExt, Functions, FiniteSetsExt

CONSTANTS
    Keys,
    Hash,       \* the hash of each key
    Capacity,   \* capacity_ of the shard
    MinLength   \* buckets of the smallest table (4 in Resize)

None == 0       \* the NULL handle; handles are numbered from 1

LRUHandle(key, value, charge, cached) ==
    [key |-> key, value |-> value, charge |-> charge, in_cache |-> cached,
     refs |-> IF cached THEN 2 ELSE 1]

EmptyCache == [handle |-> <<>>, lru |-> <<>>, in_use |-> {}, usage |-> 0,
               list |-> [b \in 0 .. MinLength - 1 |-> <<>>]]
-----------------------------------------------------------------------------
(* HandleTable: an array of chains *)

Length(c) == Cardinality(DOMAIN c.list)

Elems(c) == FoldFunction(LAMBDA chain, n : Len(chain) + n, 0, c.list)

\* hash & (length - 1), the length being a power of 2
Bucket(key, length) == Hash[key] % length

\* The place of the key in its chain; the place behind the last if it is not there.
FindPointer(c, key) ==
    LET chain == c.list[Bucket(key, Length(c))]
        match == {i \in DOMAIN chain : c.handle[chain[i]].key = key}
    IN  IF match = {} THEN Len(chain) + 1 ELSE Min(match)

TableLookup(c, key) ==
    LET chain == c.list[Bucket(key, Length(c))]
        i     == FindPointer(c, key)
    IN  IF i \in DOMAIN chain THEN chain[i] ELSE None

\* Mutant: the last entry of every chain stays behind in the old array.
Resize_Short(c) ==
    LET elems  == Elems(c)
        length == Min({n \in {MinLength * 2^i : i \in 0 .. elems} : n >= elems})
        all    == FlattenSeq([b \in 1 .. Length(c) |->
                                 IF c.list[b - 1] = <<>> THEN <<>> ELSE Front(c.list[b - 1])])
        In(b)  == SelectSeq(all, LAMBDA e : Bucket(c.handle[e].key, length) = b)
    IN  [c EXCEPT !.list = [b \in 0 .. length - 1 |-> Reverse(In(b))]]

\* Entries move in the order of the old chains, each to the front of its new one.
Resize(c) ==
    LET elems  == Elems(c)
        length == Min({n \in {MinLength * 2^i : i \in 0 .. elems} : n >= elems})
        all    == FlattenSeq([b \in 1 .. Length(c) |-> c.list[b - 1]])
        In(b)  == SelectSeq(all, LAMBDA e : Bucket(c.handle[e].key, length) = b)
    IN  [c EXCEPT !.list = [b \in 0 .. length - 1 |-> Reverse(In(b))]]

TableInsert(c, e) ==
    LET key == c.handle[e].key
        b   == Bucket(key, Length(c))
        i   == FindPointer(c, key)
        d   == [c EXCEPT !.list[b] = IF i \in DOMAIN @ THEN ReplaceAt(@, i, e)
                                                       ELSE Append(@, e)]
    IN  IF i \notin DOMAIN c.list[b] /\ Elems(d) > Length(d) THEN Resize(d) ELSE d

TableRemove(c, key) ==
    LET b == Bucket(key, Length(c))
        i == FindPointer(c, key)
    IN  IF i \in DOMAIN c.list[b] THEN [c EXCEPT !.list[b] = RemoveAt(@, i)] ELSE c
-----------------------------------------------------------------------------
(* LRUCache *)

LRU_Remove(c, e) == [c EXCEPT !.lru = SelectSeq(@, LAMBDA x : x # e), !.in_use = @ \ {e}]

Ref(c, e) ==
    LET moved == IF c.handle[e].refs = 1 /\ c.handle[e].in_cache
                 THEN [LRU_Remove(c, e) EXCEPT !.in_use = @ \cup {e}]
                 ELSE c
    IN  [moved EXCEPT !.handle[e].refs = @ + 1]

\* Mutant: a second reference drops the last one of the cache.
Unref_Early(c, e) ==
    IF c.handle[e].refs <= 2 /\ ~c.handle[e].in_cache
    THEN [c EXCEPT !.handle = Restrict(@, DOMAIN @ \ {e})]
    ELSE LET d == [c EXCEPT !.handle[e].refs = @ - 1]
         IN  IF d.handle[e].in_cache /\ d.handle[e].refs = 1
             THEN [LRU_Remove(d, e) EXCEPT !.lru = Append(@, e)]
             ELSE d

Unref(c, e) ==
    IF c.handle[e].refs = 1
    THEN [c EXCEPT !.handle = Restrict(@, DOMAIN @ \ {e})]
    ELSE LET d == [c EXCEPT !.handle[e].refs = @ - 1]
         IN  IF d.handle[e].in_cache /\ d.handle[e].refs = 1
             THEN [LRU_Remove(d, e) EXCEPT !.lru = Append(@, e)]
             ELSE d

FinishErase(c, e) ==
    IF e = None THEN c
    ELSE Unref([LRU_Remove(c, e) EXCEPT !.handle[e].in_cache = FALSE,
                                        !.usage = @ - c.handle[e].charge], e)

Lookup(c, key) ==
    LET e == TableLookup(c, key)
    IN  IF e = None THEN c ELSE Ref(c, e)

Release(c, e) == Unref(c, e)

\* The table's entry goes first, then what remains of the handle.
Erase(c, key) ==
    LET e == TableLookup(c, key)
    IN  FinishErase(TableRemove(c, key), e)

\* The loop of Insert: from the oldest of lru_, until the usage fits.
EvictOldest(c) ==
    FoldLeft(LAMBDA d, e : IF d.usage > Capacity THEN Erase(d, c.handle[e].key) ELSE d,
             c, c.lru)

\* The handle that Insert allocates
NewHandle(c) == Min((1 .. Cardinality(DOMAIN c.handle) + 1) \ DOMAIN c.handle)

Insert(c, key, value, charge) ==
    LET e   == NewHandle(c)
        old == TableLookup(c, key)
        d   == [c EXCEPT !.handle = e :> LRUHandle(key, value, charge, Capacity > 0) @@ @]
        k   == TableInsert([d EXCEPT !.in_use = @ \cup {e}, !.usage = @ + charge], e)
    IN  EvictOldest(IF Capacity > 0 THEN FinishErase(k, old) ELSE d)

Prune(c) == FoldLeft(LAMBDA d, e : Erase(d, c.handle[e].key), c, c.lru)
=============================================================================
