# A TLA+ verification project for eLSM-P2

eLSM-P2 is LevelDB moved into an SGX enclave: the database runs inside, its
files are reached through ocalls, and tables carry Merkle proofs. This
directory models the database in TLA+, checks the models with TLC on small
instances, and proves the main properties of its concurrency control, of its
crash recovery, of its levels, of its memtable, of its Merkle trees and of
its repair with TLAPS for every value of the constants. Paths below are
relative to `src/Enclave/leveldb/`.

## 1. The system

| Part | Source | State | Operations | Meets |
|---|---|---|---|---|
| Writer queue | `db/db_impl.cpp` | `writers_`, `last_sequence_`, `mem_`, `imm_` | `Write`, `BuildBatchGroup`, `MakeRoomForWrite`, `TEST_CompactMemTable` | clients, background call |
| Background work | `db/db_impl.cpp`, `util/env_posix.cpp` | `bg_compaction_scheduled_`, `manual_compaction_`, `bg_error_`, `shutting_down_`, the Env's queue | `MaybeScheduleCompaction`, `BackgroundCall`, `BackgroundCompaction`, `TEST_CompactRange`, `~DBImpl` | writers, versions |
| Versions and files | `db/version_set.cpp`, `db/db_impl.cpp`, `db/filename.cpp` | versions with reference counts, manifest, CURRENT, tables, `pending_outputs_` | `LogAndApply`, `Recover`, `NewDB`, `DB::Open`, `WriteLevel0Table`, steps of a compaction, `DeleteObsoleteFiles` | readers, the directory |
| LSM tree | `db/version_set.cpp`, `db/db_impl.cpp`, `db/snapshot.h` | entries in `mem_` and in the tables of each level, snapshots | `Version::Get`, `PickLevelForMemTableOutput`, `PickCompaction`, `SetupOtherInputs`, `CompactRange`, `DoCompactionWork` | clients |
| Memtable | `db/skiplist.h`, `db/memtable.cpp`, `util/arena.cpp` | nodes and their links, blocks of memory | `Insert`, lookups and iterators without a lock | writer queue |
| Caches | `util/cache.cpp`, `db/table_cache.cpp`, `table/table.cpp` | entries, references, LRU lists, open files | `Insert`, `Lookup`, `Release`, `Erase`, `FindTable`, `BlockReader`, `Evict` | readers, compactions |
| Log format | `db/log_writer.cpp`, `db/log_reader.cpp` | offset in the block, fragments | `AddRecord`, `ReadRecord` | manifest, logs |
| Codecs | `db/write_batch.cpp`, `db/version_edit.cpp`, `util/coding.cpp` | none | encode, decode | log format |
| Tables | `table/*_builder.cpp`, `table/table.cpp`, `table/filter_block.cpp`, `util/bloom.cpp` | blocks, index, filters | `Add`, `Finish`, `InternalGet` | caches, iterators |
| Iterators | `db/db_iter.cpp`, `table/merger.cpp`, `table/two_level_iterator.cpp`, `table/block.cpp` | positions, direction | `Seek`, `Next`, `Prev` | reads |
| Merkle trees | `db/builder.cpp` | nodes in an array, the root hash | `BuildTable` | tables |
| Repair | `db/repair.cpp` | files found | `RepairDB` | the directory |
| Env and ocalls | `util/env_posix.cpp`, `src/App/App.cpp` | open files, thread queue, Limiter | file operations, `Schedule` | everything |

What is hard in it: threads that hand over leadership and sleep on two kinds
of condition variables; a mutex that is released in the middle of `Write`, of
a compaction and of `LogAndApply`; memtable compactions nested inside a merge;
background errors that stop all scheduling; a process that dies between two
file operations; files deleted while readers use older versions; entries
dropped while snapshots come and go; readers that walk a list while it is
changed; two threads that open the same table; iterators that turn round in
the middle of deleted and overwritten keys; records that are torn, damaged, or
end at the edge of a block. `PROJECT.json` lists these hazards at their lines,
with the properties that cover them.

## 2. Modules

| Module | What it is | Checked by |
|---|---|---|
| `DBImpl` | threads, writer queue, background call, manual compaction, destructor | runs `write`, `manual`, `request`; proofs |
| `DBImplControl`, `DBImplTheorems` | proofs about `DBImpl` | |
| `VersionSet` | directory, manifest, versions, compactions as far as files go, death and recovery | run `crash`; proofs |
| `VersionSetFiles`, `VersionSetTheorems` | proofs about `VersionSet` | |
| `LSMTree` | entries, levels, reads, choice of inputs, drop rules, snapshots | runs `levels`, `hop`; proofs |
| `SnapshotStore` | the abstract map with snapshots that `LSMTree` implements | |
| `LSMTreeTheorems` | proofs about `LSMTree` | |
| `MemTable`, using `Arena` | skip list, lookups without a lock, memory | run `memtable`; proofs |
| `MemTableTheorems` | proofs about `MemTable` and `Arena` | |
| `TableCache`, using `LRUCache` | open tables and cached blocks, the Limiter | run `cache` |
| `Records`, using `LogFormat`, `VersionEdit`, `WriteBatch`, `Coding` | a manifest or a log from the edit to the bytes and back | run `records` |
| `DBIter`, using `Iterators`, `TwoLevelIterator`, `TableBuilder`, `InternalKey` | tables as they are written, and reads through every layer of iterators | run `read` |
| `SnapshotCursor` | the abstract cursor that `DBIter` implements | |
| `MerkleTree` | the tree and the proofs of a new table | run `merkle`; proofs |
| `MerkleTreeTheorems` | proofs about `MerkleTree` | |
| `Repair` | `RepairDB`, with deaths of the process | run `repair`; proofs |
| `RepairTheorems` | proofs about `Repair` | |
| `MC...` | instances for TLC | |

Definitions keep the names of the code. A definition `Op_Something` under the
comment "Mutant" is a plausible wrong version of `Op`; the specifications do
not use it. It is there to show that a property notices the change.

The models look at one database from several sides, and each abstracts what
the others keep: `DBImpl` has a version that is only the number of files of
each level, `VersionSet` has no writer queue, and `LSMTree` has neither
failures nor files. What one assumes of another is a property there:

* `DBImpl` inserts one operation in a step. `MemTable` has the single stores and
  loads, and one writer, which `LeaderIsFront` justifies.
* The states of a manifest in `VersionSet` (whole, torn at its end, damaged
  because a record stands behind a torn one) are what `Records` shows that a
  reader makes of the bytes: `TornTail`, `CommitsWhole`.
* `LSMTree` reads the entries of tables and memtables as sets. `SearchExact`,
  `GetExact` and `WalksSnapshot` say that a lookup and an iterator find in them
  what it assumes.
* `TableCache` opens files while `DeleteObsoleteFiles` removes others. Which
  ones may go is `VersionsOnDisk`.

### DBImpl

An action is a critical section of `mutex_` or a step taken without it. The
mutex is held between actions only by a thread inside `MakeRoomForWrite`
(`pc = "room"`); `MutexFree` guards every other action that locks. `pc`
follows a thread through `Write` (`cv_wait`, `room`, `sync`, `insert`),
`TEST_CompactMemTable` (`mem_check`, `mem_wait`) and `TEST_CompactRange`
(`manual`, `manual_wait`); `bg` follows the background thread, with `nested`
for the memtable compaction inside a merge. A sleeping thread takes no step
until it is signalled. A batch is its number of operations, and a memtable the
set of operations inserted so far, so the insert of a group is as many steps
as it has operations.

Left out: what keys and values are, sizes in bytes (counted in operations),
wall-clock time (the 1 ms delay is a step).

### VersionSet

The directory (`table`, `logs`, `manifest`, `current`, `temps`) survives
`Crash`; everything else does not. A manifest is what its replay gives, with a
state: whole, torn at its end, damaged. `LogAndApply` is the steps "record",
then "install"; `DB::Open` is one step for each file operation;
`DeleteObsoleteFiles` deletes one file in a step, with the mutex held (no other
action of the process while `garbage` is not empty). `Failures` says which I/O
may fail: building a table, merging, opening, an append to the manifest that
leaves nothing or a part of a record, and a rename, which the code cannot
notice.

Left out: the contents of log files, which stay empty because `Write` appends
nothing to them (`db/db_impl.cpp:1258`); several `Open`s in one process; loss
of files that the operating system has, as after a power failure.

### LSMTree and SnapshotStore

An entry has a key, a sequence number and a type; a table has a level, its
entries and its smallest and largest. A memtable compaction is one step: no
other compaction runs beside it and writes that come meanwhile go to the new
memtable, so they commute with it. A merge is two steps, begin and install,
with writes, snapshots and nested memtable compactions between; it keeps the
version and the oldest snapshot of its beginning, as the code does. Tests on
sizes go either way; a merge cuts its outputs behind any entries, `setup.outputs`
tables at most. Builder's overlap check stops the program (`aborted`), as
in a build with assertions.

A value has two forms: as it was written, and as `BuildTable` stores it, which
is `VSIZE` bytes from where it begins with a proof behind them
(`db/builder.cpp:137`). `SaveValue` (`db/version_set.cpp:278`) hands out whatever
form it finds, so `Get` answers differently before and after the memtable
compaction. `Value` keeps the number of the `Put` and the form.
`ImplementsStore` maps `latest` to what `Get` returns for each key, `view` to what it
returns with each snapshot, `writes` to `last_sequence_` and `flushed` to the writes
that are no longer in the memtable. So a memtable compaction must be the step
`Flush` of `SnapshotStore`, which changes the form of the values it covers and
nothing else, and every other compaction a stutter. The variable `setup` is
chosen in `Init` and holds the bounds of a behaviour, so that one run has several
instances.

### MemTable and Arena

A node is named by its sequence number. `Add` is one step up to the store of
`max_height_`, then each store of a pointer is a step; a reader takes a step
for each pointer it loads. `SetNext` is a release store
(`port/atomic_pointer.h`), so whoever sees the node sees what was stored in it
before; `max_height_` has no barrier, and a search may begin with an older
value. A pointer that was not set yet is `Garbage`, which no reader may meet.
`Arena` computes where each entry and node goes.

### TableCache and LRUCache

`LRUCache` has the methods of a shard as operators: reference counts, the LRU
list, the entries in use, and the hash table with its chains and its growth.
`TableCache` has threads that look up, open, read a block, insert and release
in separate steps, `Evict` and the deletion of files, and `Limiter`. A table
has one block. `kept` has the handles of the iterators that `BuildTable` makes to
see that a new table is usable and never deletes (`db/builder.cpp:171`): they stay
in use, and a `Close` after one flush ends in the assertion of `~LRUCache`
(`util/cache.cpp:212`).

### Records

A log is a sequence of bytes. A header has three bytes instead of seven, and a
checksum is the pair of what it was computed from, so that it never agrees by
accident. Every state is a log with some records added; the properties read it
back, from offset 0 or any other, with `Read`, which is `ReadRecord` with its
helpers, with checksums on, as `VersionSet::Recover` and `DBImpl::RecoverLogFile`
make their readers. `Faults` are a tear, which cuts the last record at any byte; a
trailer whose `Append` fails, which `AddRecord` does not look at
(`db/log_writer.cpp:56`), so that the record goes where the trailer should be and
the caller is told that all is well; and damage, which changes one byte. Later
records may follow a tear and a lost trailer.

### DBIter and the iterators below it

`TableBuilder` is pure: entries go in and a function from offsets to blocks
comes out, with index, filters and footer. Blocks have shared prefixes and
restart points. `Iterators` has the operations of each class as operators;
`TwoLevelIterator` is instantiated twice, for a table and for a level. `DBIter`
is the state machine: a step is one operation of the merging iterator inside
`FindNextUserEntry` or `FindPrevUserEntry`, with writes to the memtable between
steps. It implements `SnapshotCursor`, where the view of a snapshot never
changes and a call moves to the neighbour, unless the status is not OK.

`BuildTable` stores a value with a proof behind it, and any bytes for the value of
a deletion, which has none (`StoredValue`); a merge copies what is there. An append
to the file may fail, and so may the flush behind a block
(`table/table_builder.cpp:133`).

Left out: compression and checksums of blocks; a key has few bytes and a value
one part or two; the Bloom hash has 6 bits, and the least size of a filter is scaled with
it.

### MerkleTree

The loops of `BuildTable` (`LPADP2`), one iteration a step: the leaves, the
levels, and for each record of the second pass the siblings that are its
proof. `Cmac` and `CmacOfPair` are constants. Nodes that no loop has written
hold anything (`Uninitialized`), and so does what lies behind the array (`NodeAt`).
A record is a key and a value of any number of bytes, and a memtable any number
of records, because no line of the code limits either. A leaf is the hash of
the whole record (`db/builder.cpp:51`); what is stored is exactly `VSIZE` bytes
(`StoredValues`), behind a shorter value any. A record that does not fit the buffer of
the first pass ends the model (`Overrun`): what the program does then is
undefined.

### Repair

`RepairDB` step by step: the listing, each log, each table, the copy of a
damaged one, the descriptor, the archives, CURRENT. A file is plain or
protected: `NewSequentialFile` and `NewWritableFile` are the SGX protected file
system, which reads no plain file and whose files no plain reader can read.
Failures and a death of the process may come at each step, and a second call
works on what the first one left. Each call is in a process of its own, since
the host's list of names (`src/App/App.cpp:364`) is never cleared.

## 3. Runs

`tlc -config <cfg> <module>`; `PROJECT.json` lists them. Type invariants are
proved for `DBImpl`, `VersionSet`, `LSMTree` and `MerkleTree` and are a conjunct
of an invariant of each of the other modules.

| Run | Checks |
|---|---|
| `write` | 3 threads, batches of up to 2 with and without sync, forced flushes, every I/O step may fail: one leader, no lost signal, unique sequence numbers, acknowledged operations visible, published state stable, all calls and the destructor return |
| `manual` | 2 threads with 2 calls each, manual compactions over 3 levels and seek compactions: one background call, sleepers have a waker, calls return |
| `crash` | I/O errors at any step, also in nested memtable compactions, torn records, unnoticed renames, and up to 2 deaths of the process: the directory is recoverable, manifest and memory agree, flushed entries and counters survive, readers keep their tables, references are exact, `Open` ends |
| `levels` | 3 keys with outputs cut in two, 2 keys with snapshots, these with `CompactRange`, and 3 keys with `CompactRange` and 5 writes: tables of a level meet in one way only, newer found first, reads are those of a map with two forms of values |
| `memtable` | a reader inside the list at every store of an insertion: links exact, searches exact, `Get` newest, memory disjoint and not freed under a reader |
| `cache` | 2 threads, capacities of 1: counts, lists, chains and descriptors exact, no deleted file opened, none remembered |
| `records` | every cut, every lost trailer and every single damaged byte: what is read back is a subsequence of what was added, whole groups, from every offset |
| `read` | walks in both directions over memtable, level 0 and level 1 with a concurrent write and a block that cannot be read; lookups with filters; appends and flushes that fail |
| `merkle` | 0 to 18 records in a tree of 8 leaves, with values of every length: which reads are inside the array, the tree is exact, each proof leads to the root, which records of the file verify |
| `repair` | directories with whole and damaged tables and a log, failures, deaths, a second call: whole tables stay, the descriptor lists exactly what is whole, the first call loses nothing that could be read |

Runs that are expected to fail. Each shows a place where the code does not do
what a comment says:

| Run | Shows |
|---|---|
| `request` | a failed memtable compaction lets the requester withdraw while the merge goes on; the merge then uses the NULL `manual_compaction_` |
| `hop` | outputs cut between two entries of one key: a later compaction moves the newer one below the older |

`levels` passes because `hop` needs both ingredients together: a snapshot that
keeps two entries of a key, and outputs cut between them.

### What else the models show

These follow from the models and are not stated as properties:

* `Write` appends no record to the log file (`db/db_impl.cpp:1258`), so what is
  in the memtables is lost with the process, although `include/leveldb/options.h:194`
  says that no write will be. `Recoverable` promises what remains true.
* `Write` clears `w.sync` (`db/db_impl.cpp:1232`), so `BuildBatchGroup` never
  ends a group at a sync write, although its comment at line 1325 says so.
  `GroupReaches` has no such test.
* The empty batch with which `TEST_CompactMemTable` asks for a memtable switch may
  join another writer's group (`db/db_impl.cpp:1329`). It then returns and no
  memtable was switched.
* `RenameFile` cannot fail (`util/env_posix.cpp:774`). After a rename that did
  fail, `DeleteObsoleteFiles` deletes the manifest that CURRENT names. A record
  appended behind a torn one (`db/version_set.cpp:877`) is installed but cannot be
  read back. `Intact` excludes both in the properties about the directory, not
  in `VersionsOnDisk`.
* The Builder can abort (`db/version_set.cpp:747`). Keys 1 and 3 are flushed
  together to level 2, then 1 and 3 one after the other to level 0;
  `CompactRange` merges the two of level 0; key 2 is flushed while the merge runs,
  falls into the gap between the two, and `PickLevelForMemTableOutput`
  (`db/version_set.cpp:508`) puts it in level 1, where the output is going; the
  output, with keys 1 and 3, spans it. Run `levels` reaches this, and `AbortsOnlyInGap` says that
  there is no other way: an abort needs a manual compaction, and a gap between its
  inputs. Compactions that the scheduler chooses never abort.
* `Get` returns other bytes for a key after a flush than before it, without a write
  between: the value gets `VSIZE` bytes and a proof of 240
  (`db/builder.cpp:137`), and nothing takes them off again (`db/version_set.cpp:278`).
  `include/leveldb/db.h:76` says that `Get` stores the corresponding value in
  `*value`. `ImplementsStore` and `GetExact` promise what is true: which write
  answers, and in which form.
* Leaves of a Merkle tree behind the last record keep what `new char[]` left,
  although `db/builder.cpp:40` says that the file is padded with all-zero records.
  The root hash is that of the leaves as they are.
* Of the records of a table, those verify that are among the first `FILE_RECORDS`
  and have a value of exactly `VSIZE` bytes (`FileVerifies`). A deletion, or a value
  of any other length, is hashed as it is and stored as `VSIZE` bytes.
* "The file size is fixed to store 32768 records" (`db/builder.cpp:40`), but no
  line keeps it so. The proofs of records beyond `2 * FILE_RECORDS` are read outside the
  array (`db/builder.cpp:131`), at every step (`StaysInside`). With the write buffer of 4 MB
  (`util/options.cpp:19`) a memtable of deletions, of about 40 bytes each, has more
  than that; a memtable of values of 112 bytes has not.
* A trailer that could not be written (`db/log_writer.cpp:56`) shifts everything behind
  it, and `AddRecord` returns OK. What was acknowledged since may be lost, also without
  a report to the reader. `TornTail` promises what is left: all that was added before.
* `BuildTable` never deletes the iterator with which it looks at a new table
  (`db/builder.cpp:171`). Each keeps its entry of the table cache in use, also after
  `Evict`, and with it a descriptor or a mapping. `DescriptorsExact` counts
  these as given out: it says that the Limiter's count is right, not that it comes
  back. Closing the database after a flush reaches the assertion of `~LRUCache`
  (`util/cache.cpp:212`); a build without assertions goes on and never frees the entry.
* `RepairDB` opens logs as protected files (`db/repair.cpp:179`), so it converts
  no log of this database, although line 6 says that logs are first converted.
  (The comment at line 189 says "do checksumming" of the reader that line 193 makes
  without checksums; the call never gets there.)
  It writes the descriptor (378) and the copies of damaged tables (328) as
  protected files, which `VersionSet::Recover` and `TableCache` do not read: `DB::Open`
  fails after `RepairDB` returned OK. A second call archives such a copy over
  the input that the first call kept in `lost/`; `FirstRunKeeps` is about the
  first call.

### Bounds

* `DBImpl`: three threads are the least with a leader, a follower in its group
  and a writer behind the group; batches of two operations make a group's
  count differ from its number of writers. `WriteBuffer` of 0 switches the
  memtable at every write, so that `imm_`, level 0 and the triggers are at their
  limits at once. Two levels suffice for automatic compactions, three for a
  manual one that goes on to a next level.
* `VersionSet`: two writes give a table in each of two levels and a merge;
  two deaths let a recovery be interrupted and then recovered again; four
  versions are current, new, and one each for a reader and a compaction. File
  numbers are bounded so that every later `Open` still finds its two; the bound
  is `NumbersLeft`.
* `LSMTree`: four writes give a key three generations and one more key; three
  keys give a gap in a range and a table that connects two others; five writes
  fill the gap while `CompactRange` merges what is around it; three levels give an
  output level with a deeper one below.
* `MemTable`: three entries of one or two levels on two keys give a new node
  before, between and behind the others and between two versions of a key.
  One reader is enough, since readers do not affect each other. Blocks of 32
  bytes make both kinds of allocation cross the end of a block.
* `TableCache`: two threads miss the same file, with a third file to displace it;
  capacities of 1 and one bucket to begin with put the eviction, the growth of
  the table and the chains within three insertions. One descriptor makes the
  Limiter refuse the second.
* `Records`: blocks of 10 bytes and records of 3 to 13 give every type of
  fragment, a trailer of 0, 1 and 2 bytes, and a fragment of length 0.
* `DBIter`: three keys, two with a common prefix, each with a value, a deletion
  or two versions; blocks of one or two entries, so that a table has several;
  every split of the entries over memtable, level 0 and level 1.
* `MerkleTree`: 8 leaves and height 3, with no record, an odd number, exactly 8,
  more than 8, exactly 16 and more than 16; values of 2 bytes, with shorter ones,
  none, longer ones and one that does not fit. The proofs are for every size.
* `Repair`: two tables, each whole or damaged, and a log, under any of three
  numbers; two calls.

Runs have `CHECK_DEADLOCK FALSE` where the system may come to rest: all writes
and calls used, a damaged manifest, a table or a repair that is finished.

### Fairness

`DBImpl!Fairness` is weak fairness of each step of a thread inside a call and
of the background thread: the mutex and the condition variables of the SGX
SDK queue their waiters, and a step that stays enabled is not blocked by
anyone. A merge is strongly fair: it turns aside to compact memtables as often
as writers fill one, but its loop runs over a finite input and takes a record
after each of them. No client has to make a call, and no failure has to happen or not to
happen. `VersionSet` assumes weak fairness of the steps of `Open` and of
`DeleteObsoleteFiles`, which are straight-line code of one thread; deaths of
the process are bounded by `MaxCrashes`. The other
modules state no fairness. `LoopsAdvance` shows as an action property that each
round of the loops of `DBIter` moves over an entry, which bounds them.

## 4. Proofs

### Concurrency control

`tlapm DBImplTheorems.tla` proves for any finite set of threads, any sizes,
triggers and levels that satisfy `DBAssumption` and `TriggerAssumption`:

| Theorem | States |
|---|---|
| `TypeCorrect` | `TypeOK`; a compaction's inputs are still in the version when it is installed |
| `OneLeaderAtATime` | `LeaderIsFront` |
| `NoLostSignal` | `FrontIsAwake` |
| `AtMostOneCall` | `OneBackgroundCall` |
| `NoSleeperForgotten` | `SleepersHaveWaker` |
| `UniqueSequences` | `SequencesUnique` |
| `AckedWritesVisible` | `AckedVisible` |
| `StableSnapshots` | `SnapshotsStable`, as an action property |

`TriggerAssumption` says that level 0 needs a compaction no later than it
stops writers. It holds for the constants of `db/dbformat.h`, and without it a
writer could wait for a compaction that nobody schedules.

All rest on one inductive invariant, `IInv == Typed /\ QueueInv /\ SchedInv /\
DataInv /\ AckInv`:

* `Typed` (module `DBImplControl`): types, and that the inputs of the running
  compaction are no more than the files of its levels. Without the second part
  an installation could take away files that are not there.
* `QueueInv` (`DBImplControl`): a thread is in `writers_`, and once, exactly while
  it is in `Write` and no leader has completed it (`Distinct`, `QueuedWait`,
  `WaitersQueued`, `NotYetDone`); the leader is the front, the front is awake,
  and a group ends within the queue (`GroupWithin`). Leadership alone is not
  inductive: after a group is popped a new front must be awake, and the popped
  writers must be those that are marked done.
* `SchedInv` (`DBImplControl`): the flag stands for one item, and whenever there
  is work (`imm_`, a request, a score, a seek) and no error or shutdown, the
  flag is set (`WorkScheduled`). A sleeper waits for such work, so the flag stays
  set until the end of the call wakes it. `Closing` adds that the destructor
  runs only when no call of a client does.
* `DataInv` (`DBImplTheorems`): no entries in `imm_` when there is none
  (`NoImm`), sequence numbers above `last_sequence_` only while a leader inserts
  and only as many as it has inserted (`Bound`), which is no more than its group
  counts (`InsertedWithin`).
* `AckInv` (`DBImplTheorems`): where the operations of a thread's last call are.
  A writer that waits has none in the database (`Waiting`). While its group is
  inserted it has those operations of the group, numbered from `last_sequence_`,
  that are past the batches before its own and are inserted already
  (`Inserting`). After its return it has its batch below `last_sequence_`, or
  nothing (`Returned`). `AckedVisible` speaks of the last of the three only, and
  says nothing of the followers whose operations a leader inserts. The count
  rests on `GroupSizeStep` (the `n`-th writer adds its own batch to the group),
  `GroupSizeGrows` (so that an operation is in one batch only) and `OpsCounted`.

The step proof has a case for each action of `Next`, and a lemma for the
actions that several cases share.

### Versions, files and recovery

`tlapm VersionSetTheorems.tla` proves for any finite set of readers, any bounds on
versions, numbers and deaths, and any choice of failures (`FilesAssumption`):

| Theorem | States |
|---|---|
| `TablesStay` | `VersionsOnDisk` |
| `CrashSafety` | `Recoverable` |
| `CountersAbove` | `CountersResume` |
| `SavedThenInstalled` | `InstalledIsSaved` |
| `ExactCounts` | `RefsMatchHolders` |

They rest on the inductive invariant `IInv == Control /\ FilesInv /\ DiskInv`
(theorem `Invariant`), which holds in every state, also while the process is
down:

* `Control` (module `VersionSetFiles`): types; each count is the number of those
  who hold the version (`RefsExact`), without which a count could drop below 0;
  which step of `Open` has what (`Phases`); which steps of the two compactions
  can meet (`Jobs`).
* `FilesInv` (`VersionSetFiles`, the steps of the compactions in
  `VersionSetTheorems`): what memory says of the directory. Everything
  that a version, an edit or a compaction lists is there, whole, and has a
  number of its own (`ListedWhole`); all numbers are below the counter, so that a
  new file overwrites none (`Numbered`); what is being written is in
  `pending_outputs_` (`Pending`); and what `DeleteObsoleteFiles` still has to
  delete is none of this (`GarbageFree`). `VersionsOnDisk` alone is not inductive: a
  table is listed by an edit before it is by a version, and a deletion takes
  several steps.
* `DiskInv` (`VersionSetFiles`, kept by `VersionSetTheorems`): what a death leaves.
  A manifest that can be replayed has counters above its tables, and its tables
  are whole or gone (`SavedWhole`); `Open` has in memory what it read (`Reopened`);
  memory and manifest agree but for a record that is not installed yet
  (`InStep`); an edit covers the entries of what it deletes (`Covered`) and its
  counters are above what it adds (`EditAbove`); and as long as no rename was
  missed, the tables of the manifest are there and have all that was flushed (`Kept`).
  `SavedWhole` speaks of tables that are gone because of the renames that the
  code cannot notice: numbers must stay apart then too, since `VersionsOnDisk`
  is promised without `Intact`.

`FilesInv` and `DiskInv` need each other: `Recover` lists what the manifest says, and
the manifest gets what `LogAndApply` lists. Each has a lemma for each action,
and lemmas for what several actions share (`JobFiles`, `UneditedDisk`).

### Levels

`tlapm LSMTreeTheorems.tla` proves for any number of keys, writes, levels, snapshots
and output tables (`LSMAssumption`):

| Theorem | States |
|---|---|
| `NewerIsFirst` | `NewerFirst` |
| `ImplementsSnapshotStore` | `ImplementsStore`: `LSMTree` implements `SnapshotStore` |
| `LevelsDisjoint` | `AbortsOnlyInGap`: the tables of a level overlap only in the way described in section 3 |
| `LevelTypes` | the inputs of a merge stay in the version |

All have the hypothesis `KeysTogether`: clients take no snapshots, or a
compaction writes one table, so that the entries of a key are never cut
between two outputs. Without it `NewerFirst` is false, as run `hop` shows, and with
it the theorems say nothing of a database that has snapshots and compactions with
several outputs at once. Clients may call `CompactRange` with any range in all of
them.

The inductive invariant (`LevelsInductive`) has, beside the types and `NewerFirst`:

* `DataInv`: sequence numbers are unique, those of the memtable are the newest, and
  the bounds of a table are its first and last entry.
* `Apart`: below level 0 no two tables of a level share a user key. It is stronger
  than Builder's check, which compares internal keys, and it is what lets
  `PickCompaction` take one table without its neighbours.
* `Merging`: what a merge may rely on until it is installed. Memtable compactions
  inside it add tables, so a property of its beginning is not enough. A table that
  is not merged and shares a key with an input is not in the output level; in level
  0 it is newer; two or more levels below it was in the version that
  `IsBaseLevelForKey` looks at. Every snapshot is at or above `smallest_snapshot`. The
  ranges of the inputs leave no gap (`Solid`), unless a client chose the range.
* `ClientInv`: the hypothesis, and that an abort is one of a client's range with a gap.

`Solid` is why automatic compactions cannot abort: a table that a memtable compaction
places in the output level meets no input, and without a gap it meets no output
either. It holds because `PickCompaction` begins with one table, or with level-0
tables that overlap, and `SetupOtherInputs` adds tables that overlap what is there.

For the refinement, `KeptAnswers` shows that what a merge drops changes no answer at
or above `smallest_snapshot`: a hidden entry has a newer one below the snapshot, and with
a deletion that is dropped every older entry of its key is gone. By `NewerFirst` the
search of `Get` ends at the newest visible entry of all (`GetIs`), so each step
changes `latest` and `view` as `SnapshotStore` does. A memtable compaction is `Flush`
(`StoreFlush`): it takes the entries up to some write (`FlushUpTo`), each of them
answers before and after, and its value has the other form from then on.

### Memtable

`tlapm MemTableTheorems.tla` proves for any finite set of readers, any keys, levels and
number of entries, and any entry sizes, block size and alignment
(`MemTableAssumption`):

| Theorem | States |
|---|---|
| `SortedLists` | `LinksExact` |
| `ExactSearches` | `SearchExact` |
| `SoundMemory` | `MemorySound` |

The run has one reader and three entries; the theorems leave both open. The
inductive invariant is `IInv == ListInv /\ MemoryInv` (theorem `Invariant`):

* `Planned`: while a node is inserted, `prev[i]` is the last node of level `i`
  before it (`Place`), also in the levels that are not reached yet, and the node
  is not published. `LinksExact` alone does not say why the second store of a level
  keeps it sorted: the node must go between `prev[i]` and what followed it when the
  first store copied the pointer.
* `Lists`: each level is a sorted list of the linked nodes.
* `Reading`: a search stands on a node that is linked in its level, before its
  target (`Standing`), and what was published when it began is linked in level 0.
  So the last pointer it reads passes over nothing that was published (`GreaterOrEqual`,
  `LessThan`, `NewestVersion`). A search that does not move stays right because
  entries never change and nothing is unlinked (`Kept`, `SearchKept`).
* `MemoryInv`: the regions lie in their blocks and before `alloc_ptr_` in the current
  one, they are apart, and `refs_` counts the readers and `DBImpl`.
  `AllocateGives` says what a call of the arena returns: a region behind
  everything that was handed out, aligned if `AllocateAligned` was asked (`Slop`).

That `prev[i]` exists rests on a largest and a smallest number (`LargestNumber`,
`SmallestNumber`), which come from the well-foundedness of `<`.

### Merkle trees

`tlapm MerkleTreeTheorems.tla` proves, for every number of leaves that halves down
to one in `TREE_HEIGHT` steps (`TreeAssumption`), memtables with any number of
records and values of any length (`RecordsAssumption` gives them only their type),
and every hash function:

| Theorem | States |
|---|---|
| `LoopsStayInside` | `StaysInside`: proofs are read inside the array exactly for the first `2 * FILE_RECORDS` records |
| `TreeIsExact` | `TreeExact` |
| `ProofsLead` | `ProofLeads` |
| `FilesVerify` | `FileVerifies`: what was hashed is stored exactly if a value has `VSIZE` bytes, and then the record verifies if it is in the tree |

The code has 32768 leaves, which no model checker builds. `Size` is the sizes
of the levels, taken from the assumption. The inductive invariant `IInv` says
how far each loop is: the leaves below `thr` are hashes of records
(`LeavesUpTo`); in level `i` the counters are `previous = 2N - 2 * stride` and
`mp = 2N - stride + j / 2`, and all nodes below `mp` are built (`BuiltUpTo`);
on the way of a proof `index` is a node of level `i` and `folded`, which is what
the reader would have computed so far, equals that node. The last is what
makes `ProofLeads` inductive: at the top the only node is the root. The positions need
two facts of arithmetic: `n / 2 + N` is the parent of `n` and of its sibling in the
array (`PairFacts`), and an index that is `2N` or more stays so (`OutsideFacts`).

`FileVerifies` folds a finished proof with a recursive function, `Way`. What
such a function computes would need an induction over its argument; here the
behaviour is the induction. `InWay` says of the proof in progress that a function
which climbs as `Way` does exists up to step `i`, that all such functions agree
there, and that their value is `folded`; a step of the loop extends it by one.
When the record is added, `Way` is one of those functions, and `InAdded` keeps
the result for the records that are in the file.

### Repair

`tlapm RepairTheorems.tla` proves for any finite set of file numbers, any set of
entries with a largest sequence number, any number of tables and of calls
(`RepairAssumption`), with a failure or a death of the process at every step:

| Theorem | States |
|---|---|
| `IntactTablesStay` | `IntactStay` |
| `DescriptorIsExact` | `DescriptorExact` |
| `FirstCallKeeps` | `FirstRunKeeps` |

The inductive invariant `IInv` (theorem `RepairInductive`) follows the numbers:

* `NameInv`: tables and logs of the directory have numbers below
  `next_file_number_`, so that a copy overwrites nothing. The temporary file
  and CURRENT, which also count there, have the numbers 1 and 0.
* `CountInv`: how many numbers a call may still use. A damaged table costs one,
  and a death leaves at most one copy more in the directory, which the next call
  takes for a damaged table: it is why `MaxNumber` grows with the square of `MaxRuns`.
  A copy and its input are both in the directory only in step "copied".
* `RepairerInv`: a listed table is whole, is described as it is, and is not scanned
  again.
* `CopyInv`: the input of a copy and the copy are not listed, not to be scanned, and
  none of the tables that were whole before. `IntactStay` alone does not say that
  the renames at the end of `RepairTable` hit no such table.
* `IntactInv`, `FirstInv`: where each file of before is. In the first call, a table
  that is still to be scanned is in its place and plain, so that a scan
  reads it if it is whole; the input of a copy is in `lost/` from its archiving on;
  and what is whole is listed, to be scanned, or the copy that is about to be renamed.
* `DescriptorInv`: the descriptor under its temporary name, then under its own, is
  the `Edit` of the tables listed, and CURRENT names it last.

Largest numbers exist by the well-foundedness of `<` (`MaxIs`), and the counts
rest on the library's facts about finite sets.

### Only model-checked

* `CallsReturn` and `OpenCompletes`: liveness is out of the prover's reach.
* `ReadsBack`, `TornTail`, `DamageContained`, `CommitsWhole` (`Records`), `GetExact`,
  `FailureNoticed`, `WalksSnapshot`, `LoopsAdvance` (`DBIter`): what recursive
  definitions over bytes, blocks and entries compute, which needs induction over
  data.
* `RefsExact`, `CachedIsFound`, `DescriptorsExact`, `GoneIsForgotten` (`TableCache`): the
  shard is changed by folds over its lists and chains, with the same need.
* `LSMTree` outside of `KeysTogether`, where `NewerFirst` fails (run `hop`).

## 5. Not modelled

* The log files' way from `Write` to recovery: `Write` appends nothing to them.
  `Records` has `DBImpl::RecoverLogFile` on the records of a log, damaged or not.
* Several `Open`s in one process, `LockFile`, and the list of names that
  `ocall_getchildren` keeps: a stale name leads to a use of a file that was not
  opened, whose outcome nothing in the code defines.
* Verification of Merkle proofs by a reader: commented out in
  `TableCache::Get` and `DoCompactionWork`. `rh` is not written to the manifest.
* `ConvertLogToTable` behind the opening of the log, which it does not get past. Its
  reader has no checksums, so nothing that `Records` says of damage is about it.
* How far `Writer::block_offset_` is ahead of the file after a failed append
  (`db/log_writer.cpp:113`): in `VersionSet` what stands behind a torn record cannot be
  read. `Records` has the bytes, where some of it can; then a reader stops earlier or
  later, and `Intact` excludes both.
* `DestroyDB`, `reuse_logs`, `GetProperty`, `GetApproximateSizes`, `DumpFile`: listings,
  or options that are off.
* Countdown of seeks and read samples: a seek compaction may come at any time
  in `DBImpl`. (`bytes_counter_` of `DBIter` is unsigned, so no read is sampled.)
* Checksums and compression of blocks, CRC and CMAC, hashes, text formatting,
  statistics: arithmetic or text without state.
* The ecalls, the C bindings, benchmarks and the YCSB driver: each call is one
  of the database, and no promise depends on them.

`PROJECT.json` gives the reason for each part.
