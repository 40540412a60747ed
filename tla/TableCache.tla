----------------------------- MODULE TableCache -----------------------------
(***************************************************************************)
(* Open tables and their blocks (db/table_cache.cpp, Table::BlockReader of *)
(* table/table.cpp, the Limiter of util/env_posix.cpp): threads find a     *)
(* table in one LRUCache and its block in another, open what they miss     *)
(* without a lock, and drop their handles; files come from BuildTable and  *)
(* go with DeleteObsoleteFiles.  A table has one block, with the cache id  *)
(* of its Open as key.                                                     *)
(***************************************************************************)
EXTENDS Integers, FiniteSets

CONSTANTS
    Threads,
    Files,          \* bound: numbers of table files
    TableHash, BlockHash,
    TableCapacity, BlockCapacity,
    MinLength,
    MaxOpenFiles,   \* fd_limit_
    MaxOpens,       \* bound: Table::Open calls that succeed
    MaxCalls,       \* bound: reads
    Failures        \* what may fail: reading the table ("table"), a block ("block")

CacheIds == 1 .. MaxOpens

ASSUME CacheAssumption ==
    /\ IsFiniteSet(Threads) /\ Files \subseteq Nat
    /\ TableHash \in [Files -> Nat] /\ BlockHash \in [CacheIds -> Nat]
    /\ TableCapacity \in Nat /\ BlockCapacity \in Nat
    /\ MinLength \in {2^i : i \in 0 .. 5}
    /\ MaxOpenFiles \in Nat /\ MaxOpens \in Nat /\ MaxCalls \in Nat
    /\ Failures \subseteq {"table", "block"}

VARIABLES
    cache_,         \* TableCache: open tables by file number
    block_cache,    \* blocks by cache id
    allowed_,       \* the Limiter's count
    last_id_,       \* of block_cache, for NewId
    file,           \* "absent", "building", "live", "obsolete" or "gone"
    thread,         \* what each thread is doing
    kept,           \* table handles of the iterators BuildTable never deletes
    calls,          \* reads begun
    state           \* "open", "closed", or "aborted" by the assertion of ~LRUCache

vars == <<cache_, block_cache, allowed_, last_id_, file, thread, kept, calls, state>>

Tables == INSTANCE LRUCache WITH Keys <- Files, Hash <- TableHash, Capacity <- TableCapacity
Blocks == INSTANCE LRUCache WITH Keys <- CacheIds, Hash <- BlockHash, Capacity <- BlockCapacity

None == Tables!None
Idle == [pc |-> "idle", op |-> "read", file |-> 0, temporary_fd_ |-> FALSE,
         table |-> None, block |-> None]

Init ==
    /\ cache_ = Tables!EmptyCache /\ block_cache = Blocks!EmptyCache
    /\ allowed_ = MaxOpenFiles /\ last_id_ = 0
    /\ file = [f \in Files |-> "absent"]
    /\ thread = [t \in Threads |-> Idle]
    /\ kept = {} /\ calls = 0 /\ state = "open"

\* Flushes, compactions and the removal of their inputs are work of one thread at a time.
NobodyWrites == \A t \in Threads : thread[t].pc = "idle" \/ thread[t].op = "read"

At(t, pc) == state = "open" /\ thread[t].pc = pc

\* DeleteEntry closes the file of every table that goes, which gives its descriptor back.
DeleteEntries(c, c2) ==
    Cardinality({e \in DOMAIN c.handle \ DOMAIN c2.handle : ~c.handle[e].value.temporary_fd_})
-----------------------------------------------------------------------------
(* FindTable *)

\* A read of a file of the version the thread has referenced
Begin(t, f) ==
    /\ At(t, "idle") /\ file[f] = "live" /\ calls < MaxCalls
    /\ thread' = [thread EXCEPT ![t].pc = "lookup", ![t].op = "read", ![t].file = f]
    /\ calls' = calls + 1
    /\ UNCHANGED <<cache_, block_cache, allowed_, last_id_, file, kept, state>>

\* BuildTable ("verify") or FinishCompactionOutputFile ("output") has written the file
\* and opens it to see that it is usable.
WriteTable(t, f, op) ==
    /\ At(t, "idle") /\ NobodyWrites /\ file[f] = "absent"
    /\ file' = [file EXCEPT ![f] = "building"]
    /\ thread' = [thread EXCEPT ![t].pc = "lookup", ![t].op = op, ![t].file = f]
    /\ UNCHANGED <<cache_, block_cache, allowed_, last_id_, kept, calls, state>>

FindTable(t) ==
    /\ At(t, "lookup")
    /\ LET e == Tables!TableLookup(cache_, thread[t].file)
       IN  /\ cache_' = Tables!Lookup(cache_, thread[t].file)
           /\ thread' = [thread EXCEPT ![t].pc = IF e = None THEN "limit" ELSE "found",
                                       ![t].table = e]
    /\ UNCHANGED <<block_cache, allowed_, last_id_, file, kept, calls, state>>

\* The first test of Limiter::Acquire, without its mutex
AcquireTest(t) ==
    /\ At(t, "limit")
    /\ thread' = [thread EXCEPT ![t].pc = IF allowed_ = 0 THEN "open" ELSE "acquire",
                                ![t].temporary_fd_ = TRUE]
    /\ UNCHANGED <<cache_, block_cache, allowed_, last_id_, file, kept, calls, state>>

Acquire(t) ==
    /\ At(t, "acquire")
    /\ thread' = [thread EXCEPT ![t].pc = "open", ![t].temporary_fd_ = allowed_ = 0]
    /\ allowed_' = IF allowed_ > 0 THEN allowed_ - 1 ELSE 0
    /\ UNCHANGED <<cache_, block_cache, last_id_, file, kept, calls, state>>

\* Table::Open and the Insert behind it; nobody else sees the table between them.
OpenTable(t) ==
    /\ At(t, "open") /\ last_id_ < MaxOpens
    /\ LET value == [temporary_fd_ |-> thread[t].temporary_fd_, cache_id |-> last_id_ + 1]
           c     == Tables!Insert(cache_, thread[t].file, value, 1)
       IN  /\ cache_' = c
           /\ allowed_' = allowed_ + DeleteEntries(cache_, c)
           /\ thread' = [thread EXCEPT ![t].pc = "found",
                                       ![t].table = Tables!NewHandle(cache_)]
    /\ last_id_' = last_id_ + 1
    /\ UNCHANGED <<block_cache, file, kept, calls, state>>

\* BuildTable deletes the file it could not open; a compaction leaves it to
\* DeleteObsoleteFiles.
AfterFailure(op, was) == CASE op = "read" -> was [] op = "verify" -> "gone" [] op = "output" -> "obsolete"

\* Mutant: the RandomAccessFile of a table that cannot be opened is not deleted.
OpenTableFails_Leak(t) ==
    /\ At(t, "open") /\ "table" \in Failures
    /\ file' = [file EXCEPT ![thread[t].file] = AfterFailure(thread[t].op, @)]
    /\ thread' = [thread EXCEPT ![t] = Idle]
    /\ UNCHANGED <<cache_, block_cache, allowed_, last_id_, kept, calls, state>>

\* The footer or the index block cannot be read; the call returns the error.
OpenTableFails(t) ==
    /\ At(t, "open") /\ "table" \in Failures
    /\ allowed_' = IF thread[t].temporary_fd_ THEN allowed_ ELSE allowed_ + 1
    /\ file' = [file EXCEPT ![thread[t].file] = AfterFailure(thread[t].op, @)]
    /\ thread' = [thread EXCEPT ![t] = Idle]
    /\ UNCHANGED <<cache_, block_cache, last_id_, kept, calls, state>>
-----------------------------------------------------------------------------
(* Reading *)

\* The iterator over a table BuildTable wrote is dropped without being deleted.  The
\* caller makes the file part of the next version.
VerifyTable(t) ==
    /\ At(t, "found") /\ thread[t].op = "verify"
    /\ kept' = kept \cup {thread[t].table}
    /\ file' = [file EXCEPT ![thread[t].file] = "live"]
    /\ thread' = [thread EXCEPT ![t] = Idle]
    /\ UNCHANGED <<cache_, block_cache, allowed_, last_id_, calls, state>>

\* The compaction deletes its iterator.
VerifyOutput(t) ==
    /\ At(t, "found") /\ thread[t].op = "output"
    /\ file' = [file EXCEPT ![thread[t].file] = "live"]
    /\ thread' = [thread EXCEPT ![t].pc = "done"]
    /\ UNCHANGED <<cache_, block_cache, allowed_, last_id_, kept, calls, state>>

CacheId(t) == cache_.handle[thread[t].table].value.cache_id

\* BlockReader: the block from the cache, or the beginning of ReadBlock
BlockReader(t) ==
    /\ At(t, "found") /\ thread[t].op = "read"
    /\ LET e == Blocks!TableLookup(block_cache, CacheId(t))
       IN  /\ block_cache' = Blocks!Lookup(block_cache, CacheId(t))
           /\ thread' = [thread EXCEPT ![t].pc = IF e = None THEN "load" ELSE "reading",
                                       ![t].block = e]
    /\ UNCHANGED <<cache_, allowed_, last_id_, file, kept, calls, state>>

\* A block that was read goes to the cache, unless the caller said not to fill it.
ReadBlock(t, fill_cache) ==
    /\ At(t, "load")
    /\ block_cache' = IF fill_cache THEN Blocks!Insert(block_cache, CacheId(t), CacheId(t), 1)
                                    ELSE block_cache
    /\ thread' = [thread EXCEPT ![t].pc = "reading",
                                ![t].block = IF fill_cache THEN Blocks!NewHandle(block_cache)
                                                           ELSE None]
    /\ UNCHANGED <<cache_, allowed_, last_id_, file, kept, calls, state>>

\* An error iterator; the read ends.
ReadBlockFails(t) ==
    /\ At(t, "load") /\ "block" \in Failures
    /\ thread' = [thread EXCEPT ![t].pc = "done"]
    /\ UNCHANGED <<cache_, block_cache, allowed_, last_id_, file, kept, calls, state>>

\* The block iterator is deleted: ReleaseBlock, or DeleteBlock if it was not cached.
DeleteBlockIterator(t) ==
    /\ At(t, "reading")
    /\ block_cache' = IF thread[t].block = None THEN block_cache
                      ELSE Blocks!Release(block_cache, thread[t].block)
    /\ thread' = [thread EXCEPT ![t].pc = "done", ![t].block = None]
    /\ UNCHANGED <<cache_, allowed_, last_id_, file, kept, calls, state>>

\* Get, or the clean-up of a table iterator (UnrefEntry)
ReleaseTable(t) ==
    /\ At(t, "done")
    /\ LET c == Tables!Release(cache_, thread[t].table)
       IN  cache_' = c /\ allowed_' = allowed_ + DeleteEntries(cache_, c)
    /\ thread' = [thread EXCEPT ![t] = Idle]
    /\ UNCHANGED <<block_cache, last_id_, file, kept, calls, state>>

\* The application prunes the block cache of its options.
PruneBlocks ==
    /\ state = "open" /\ block_cache.lru # <<>>
    /\ block_cache' = Blocks!Prune(block_cache)
    /\ UNCHANGED <<cache_, allowed_, last_id_, file, thread, kept, calls, state>>
-----------------------------------------------------------------------------
(* Files *)

\* A compaction's edit drops the file from the current version.
DropFile(f) ==
    /\ state = "open" /\ NobodyWrites /\ file[f] = "live"
    /\ file' = [file EXCEPT ![f] = "obsolete"]
    /\ UNCHANGED <<cache_, block_cache, allowed_, last_id_, thread, kept, calls, state>>

\* Mutant: the file is deleted and its table stays in the cache.
Evict_Missing(f) ==
    /\ state = "open" /\ NobodyWrites /\ file[f] = "obsolete"
    /\ \A t \in Threads : thread[t].pc # "idle" => thread[t].file # f
    /\ file' = [file EXCEPT ![f] = "gone"]
    /\ UNCHANGED <<cache_, block_cache, allowed_, last_id_, thread, kept, calls, state>>

\* DeleteObsoleteFiles: no version that a thread reads has the file any more.
Evict(f) ==
    /\ state = "open" /\ NobodyWrites /\ file[f] = "obsolete"
    /\ \A t \in Threads : thread[t].pc # "idle" => thread[t].file # f
    /\ LET c == Tables!Erase(cache_, f)
       IN  cache_' = c /\ allowed_' = allowed_ + DeleteEntries(cache_, c)
    /\ file' = [file EXCEPT ![f] = "gone"]
    /\ UNCHANGED <<block_cache, last_id_, thread, kept, calls, state>>

\* ~TableCache, when nobody uses the database: ~LRUCache asserts that no handle is out.
Close ==
    /\ state = "open" /\ \A t \in Threads : thread[t].pc = "idle"
    /\ state' = IF cache_.in_use = {} THEN "closed" ELSE "aborted"
    /\ UNCHANGED <<cache_, block_cache, allowed_, last_id_, file, thread, kept, calls>>

Next ==
    \/ \E t \in Threads :
        \/ \E f \in Files :
            \/ Begin(t, f)
            \/ \E op \in {"verify", "output"} : WriteTable(t, f, op)
        \/ FindTable(t) \/ AcquireTest(t) \/ Acquire(t) \/ OpenTable(t) \/ OpenTableFails(t)
        \/ VerifyTable(t) \/ VerifyOutput(t) \/ BlockReader(t)
        \/ \E fill \in BOOLEAN : ReadBlock(t, fill)
        \/ ReadBlockFails(t) \/ DeleteBlockIterator(t) \/ ReleaseTable(t)
    \/ PruneBlocks
    \/ \E f \in Files : DropFile(f) \/ Evict(f)
    \/ Close

Spec == Init /\ [][Next]_vars
-----------------------------------------------------------------------------
(* Properties *)

Handle(c) == {c.handle[e] : e \in DOMAIN c.handle}

TypeOK ==
    /\ allowed_ \in 0 .. MaxOpenFiles /\ last_id_ \in 0 .. MaxOpens
    /\ file \in [Files -> {"absent", "building", "live", "obsolete", "gone"}]
    /\ thread \in [Threads -> [pc : {"idle", "lookup", "limit", "acquire", "open", "found",
                                     "load", "reading", "done"},
                               op : {"read", "verify", "output"}, file : Files \cup {0},
                               temporary_fd_ : BOOLEAN, table : Nat, block : Nat]]
    /\ \A h \in Handle(cache_) : h.key \in Files /\ h.refs \in 1 .. Cardinality(Threads) + 2
    /\ \A h \in Handle(block_cache) : h.key \in CacheIds /\ h.refs \in 1 .. Cardinality(Threads) + 1
    /\ kept \subseteq DOMAIN cache_.handle
    /\ calls \in 0 .. MaxCalls /\ state \in {"open", "closed", "aborted"}

TableHolders(e) == Cardinality({t \in Threads : thread[t].table = e})
                   + (IF e \in kept THEN 1 ELSE 0)
BlockHolders(e) == Cardinality({t \in Threads : thread[t].block = e})

\* On exactly one list, lru_ when only the cache refers to it; an erased entry is on neither.
Listed(c) ==
    /\ \A e \in DOMAIN c.handle :
        /\ e \in c.in_use <=> c.handle[e].in_cache /\ c.handle[e].refs >= 2
        /\ Cardinality({i \in DOMAIN c.lru : c.lru[i] = e})
             = IF c.handle[e].in_cache /\ c.handle[e].refs = 1 THEN 1 ELSE 0
    /\ c.in_use \cup {c.lru[i] : i \in DOMAIN c.lru} \subseteq DOMAIN c.handle

\* Ref and Unref of util/cache.cpp: an entry that a reader holds is alive and is the one
\* of its file, the count of every entry is exactly its holders and the cache, and it is
\* on the list that goes with its count.  So nothing is used after its deleter ran and
\* nothing in use is evicted, whatever Insert, Erase and Release do meanwhile.
RefsExact ==
    /\ TypeOK
    /\ \A t \in Threads :
        /\ thread[t].table # None => /\ thread[t].table \in DOMAIN cache_.handle
                                     /\ cache_.handle[thread[t].table].key = thread[t].file
        /\ thread[t].block # None => /\ thread[t].block \in DOMAIN block_cache.handle
                                     /\ block_cache.handle[thread[t].block].key = CacheId(t)
    /\ \A e \in DOMAIN cache_.handle :
        cache_.handle[e].refs = TableHolders(e) + (IF cache_.handle[e].in_cache THEN 1 ELSE 0)
    /\ \A e \in DOMAIN block_cache.handle :
        block_cache.handle[e].refs = BlockHolders(e)
                                     + (IF block_cache.handle[e].in_cache THEN 1 ELSE 0)
    /\ Listed(cache_) /\ Listed(block_cache)

Findable(c, lookup(_)) ==
    /\ \A e \in DOMAIN c.handle : c.handle[e].in_cache <=> lookup(c.handle[e].key) = e
    /\ c.usage = Cardinality({e \in DOMAIN c.handle : c.handle[e].in_cache})
    /\ c.usage = Tables!Elems(c)

\* HandleTable of util/cache.cpp: it finds an entry exactly if it is in the cache, through
\* every Resize, and usage_ is the charge of these entries.
CachedIsFound ==
    /\ Findable(cache_, LAMBDA key : Tables!TableLookup(cache_, key))
    /\ Findable(block_cache, LAMBDA key : Blocks!TableLookup(block_cache, key))

\* Limiter: no descriptor is given out twice and none is lost, although Acquire looks at
\* the count before it locks and the deleters of the cache return descriptors.
DescriptorsExact ==
    allowed_ + Cardinality({e \in DOMAIN cache_.handle : ~cache_.handle[e].value.temporary_fd_})
             + Cardinality({t \in Threads : thread[t].pc = "open" /\ ~thread[t].temporary_fd_})
        = MaxOpenFiles

\* FindTable opens the file long after it looked in the cache.  The file is there all the
\* same (ocall_fopen of a missing one would give a NULL stream to fseek), because
\* DeleteObsoleteFiles spares what a referenced version has.  And Evict is the last word
\* on a table: no thread puts it back, so that only the handles BuildTable kept can hold
\* the descriptor of a deleted file.
GoneIsForgotten ==
    /\ \A t \in Threads :
        thread[t].pc \in {"open", "load"} => file[thread[t].file] \notin {"absent", "gone"}
    /\ \A e \in DOMAIN cache_.handle :
        file[cache_.handle[e].key] = "gone" => ~cache_.handle[e].in_cache /\ e \in kept
=============================================================================
