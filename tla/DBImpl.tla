------------------------------- MODULE DBImpl -------------------------------
(***************************************************************************)
(* The concurrency control of DBImpl (db/db_impl.cpp): client threads that *)
(* write and that ask for compactions, the writer queue with its group     *)
(* commit, the memtable switch, the single background thread, manual       *)
(* compactions, the background error and the destructor.                   *)
(*                                                                         *)
(* An action is one critical section of mutex_, or one step taken without  *)
(* it.  Between two actions the mutex is held only by a thread whose pc is *)
(* "room" (inside MakeRoomForWrite): MutexFree guards all other actions    *)
(* that lock.  A thread asleep on a condition variable takes no step until *)
(* it is signalled.  A batch is the number of its operations, a memtable   *)
(* the set of operations inserted into it, a version the number of files   *)
(* of each level.                                                          *)
(***************************************************************************)
EXTENDS Naturals, Sequences, FiniteSets

CONSTANTS
    Threads, NULL,
    ClientOps,          \* calls clients make: "write", "flush", "compact"
    SyncChoices,        \* values of WriteOptions::sync they use
    MaxBatch,           \* bound: operations of a batch
    MaxCalls,           \* bound: calls of a thread
    SmallGroup,         \* the 128 KB of BuildBatchGroup, in operations
    LargeGroup,         \* its 1 MB
    WriteBuffer,        \* options_.write_buffer_size, in operations
    NumLevels,          \* config::kNumLevels
    MaxMemCompactLevel, \* config::kMaxMemCompactLevel
    LevelLimit,         \* files with which a level's score reaches 1
    SlowdownTrigger, StopTrigger,   \* config::kL0_...WritesTrigger
    Seeks,              \* TRUE when reads charge seeks to files
    Failures            \* I/O steps that may fail

Levels == 0 .. NumLevels - 1

ASSUME DBAssumption ==
    /\ NULL \notin Threads \cup Levels
    /\ IsFiniteSet(Threads)
    /\ ClientOps \subseteq {"write", "flush", "compact"}
    /\ SyncChoices \subseteq BOOLEAN /\ Seeks \in BOOLEAN
    /\ MaxBatch \in Nat /\ MaxCalls \in Nat /\ WriteBuffer \in Nat
    /\ SmallGroup \in Nat /\ LargeGroup \in Nat
    /\ NumLevels \in Nat /\ NumLevels > 1 /\ MaxMemCompactLevel \in Levels
    /\ LevelLimit \in [Levels -> Nat \ {0}]
    /\ SlowdownTrigger \in Nat /\ StopTrigger \in Nat
    /\ Failures \subseteq {"newlog", "sync", "build", "manifest", "merge"}

\* Writers that stop at level 0's limit wait for a compaction that its score triggers.
ASSUME TriggerAssumption == LevelLimit[0] <= StopTrigger

VARIABLES
    pc,             \* where each client thread is
    w,              \* its Writer and Write's locals, kept after the call returns
    m,              \* its ManualCompaction and CompactRange's local
    writers_, last_sequence_,
    mem_, imm_,     \* contents of the memtables; imm_ is {} when there is none
    has_imm_,       \* imm_ # NULL
    tables,         \* operations that are in table files
    files,          \* current version: number of files of each level
    seek,           \* current version: file_to_compact_level_, or NULL
    manual_compaction_,         \* the thread whose request it points to, or NULL
    bg_compaction_scheduled_,
    bg_queue,       \* items in the Env's queue
    bg,             \* the background thread and BackgroundCompaction's locals
    bg_error_,      \* ~bg_error_.ok()
    shutting_down_,
    dtor            \* where ~DBImpl is

memVars   == <<mem_, imm_, has_imm_, tables>>
verVars   == <<files, seek>>
schedVars == <<bg_compaction_scheduled_, bg_queue>>
endVars   == <<shutting_down_, dtor>>

vars == <<pc, w, m, writers_, last_sequence_, memVars, verVars, manual_compaction_,
          schedVars, bg, bg_error_, endVars>>
-----------------------------------------------------------------------------
Status == {"OK", "Error"}

PC == {"idle", "cv_wait", "cv_ready", "room", "delay", "room_wait", "room_ready", "sync",
       "insert", "sync_failed", "mem_check", "mem_wait", "manual", "manual_wait", "dead"}

Writer == [op : {"write", "flush", "compact"}, batch : 0 .. MaxBatch, sync : BOOLEAN,
           num : Nat, done : BOOLEAN, status : Status,
           allow_delay : BOOLEAN, group : Nat, inserted : Nat]

ManualCompaction == [level : 0 .. NumLevels - 2, done : BOOLEAN, max : 1 .. NumLevels - 1]

BgPC == {"idle", "called", "build", "flush_log", "merge", "merge_log", "move_log", "crashed"}

Background == [pc : BgPC, nested : BOOLEAN, manual : BOOLEAN,
               level : 0 .. NumLevels - 2, in0 : Nat, in1 : Nat]

Op == [seq : Nat, thread : Threads, num : Nat]

BgIdle == [pc |-> "idle", nested |-> FALSE, manual |-> FALSE,
           level |-> 0, in0 |-> 0, in1 |-> 0]

Init ==
    /\ pc = [t \in Threads |-> "idle"]
    /\ w = [t \in Threads |->
              [op |-> "write", batch |-> 0, sync |-> FALSE, num |-> 0,
               done |-> FALSE, status |-> "OK", allow_delay |-> FALSE,
               group |-> 0, inserted |-> 0]]
    /\ m = [t \in Threads |-> [level |-> 0, done |-> FALSE, max |-> 1]]
    /\ writers_ = << >> /\ last_sequence_ = 0
    /\ mem_ = {} /\ imm_ = {} /\ has_imm_ = FALSE /\ tables = {}
    /\ files = [l \in Levels |-> 0] /\ seek = NULL
    /\ manual_compaction_ = NULL
    /\ bg_compaction_scheduled_ = FALSE /\ bg_queue = 0 /\ bg = BgIdle
    /\ bg_error_ = FALSE /\ shutting_down_ = FALSE /\ dtor = "open"

MutexFree == \A t \in Threads : pc[t] # "room"
-----------------------------------------------------------------------------
(* bg_cv_ and MaybeScheduleCompaction *)

\* The threads asleep on bg_cv_ become ready to take the mutex again.
Woken == [t \in Threads |-> CASE pc[t] = "room_wait"   -> "room_ready"
                              [] pc[t] = "mem_wait"    -> "mem_check"
                              [] pc[t] = "manual_wait" -> "manual"
                              [] OTHER                 -> pc[t]]

SignalAll ==
    /\ pc' = Woken
    /\ dtor' = IF dtor = "waiting" THEN "closing" ELSE dtor

\* Finalize: the score of some level is at least 1.
ScoreReached(fs) == \E l \in 0 .. NumLevels - 2 : fs[l] >= LevelLimit[l]

NeedsCompaction(fs, sk) == ScoreReached(fs) \/ sk # NULL

\* Mutants of ShouldSchedule: a call is scheduled twice, or not for a
\* manual compaction.
ShouldSchedule_Twice(scheduled, imm, manual, fs, sk, err) ==
    ~shutting_down_ /\ ~err /\ (imm \/ manual # NULL \/ NeedsCompaction(fs, sk))

ShouldSchedule_NoManual(scheduled, imm, manual, fs, sk, err) ==
    ~scheduled /\ ~shutting_down_ /\ ~err /\ (imm \/ NeedsCompaction(fs, sk))

\* The tests of MaybeScheduleCompaction, in the state that the arguments describe.
ShouldSchedule(scheduled, imm, manual, fs, sk, err) ==
    /\ ~scheduled /\ ~shutting_down_ /\ ~err
    /\ imm \/ manual # NULL \/ NeedsCompaction(fs, sk)

MaybeScheduleCompaction(scheduled, imm, manual, fs, sk, err) ==
    LET go == ShouldSchedule(scheduled, imm, manual, fs, sk, err)
    IN  /\ bg_compaction_scheduled_' = (scheduled \/ go)
        /\ bg_queue' = IF go THEN bg_queue + 1 ELSE bg_queue
-----------------------------------------------------------------------------
(* Write, up to the front of the queue *)

\* CompactRange: the largest level >= 1 with files in the range, 1 if there is none.
MaxLevelWithFiles(n) == n \in 1 .. NumLevels - 1 /\ (files[n] > 0 \/ n = 1)

\* Mutant of FirstPC: the writer does not wait for its turn.
FirstPC_NoWait == "room"

\* A new writer goes on if it is at the front of the queue, else it waits.
FirstPC == IF writers_ = << >> THEN "room" ELSE "cv_wait"

\* A client calls Put, Delete or Write ("write"), TEST_CompactMemTable ("flush") or
\* CompactRange ("compact"); the last two call Write with a NULL batch, shown as a
\* batch of 0 operations.
Enqueue(t, op, b, sync, n) ==
    /\ pc[t] = "idle" /\ w[t].num < MaxCalls
    /\ dtor = "open"
    /\ MutexFree
    /\ (op = "write") = (b # 0)
    /\ op # "write" => ~sync
    /\ IF op = "compact" THEN MaxLevelWithFiles(n) ELSE n = 1
    /\ w' = [w EXCEPT ![t] =
               [op |-> op, batch |-> b, sync |-> sync, num |-> w[t].num + 1,
                done |-> FALSE, status |-> "OK",
                allow_delay |-> b # 0, group |-> 0, inserted |-> 0]]
    /\ m' = [m EXCEPT ![t].max = n]
    /\ writers_' = Append(writers_, t)
    /\ pc' = [pc EXCEPT ![t] = FirstPC]
    /\ UNCHANGED <<last_sequence_, memVars, verVars, manual_compaction_, schedVars, bg,
                   bg_error_, endVars>>

\* Where a thread goes when its Write returns s.
AfterWrite(t, s) ==
    IF w[t].op = "write" \/ (w[t].op = "flush" /\ s # "OK") THEN "idle"
    ELSE IF s = "OK" THEN "mem_check" ELSE "manual"

\* w.cv.Wait() returns: the write is done, or the writer may be at the front.
Awake(t) ==
    /\ pc[t] = "cv_ready"
    /\ MutexFree
    /\ pc' = [pc EXCEPT ![t] = IF w[t].done THEN AfterWrite(t, w[t].status)
                               ELSE IF Head(writers_) = t THEN "room" ELSE "cv_wait"]
    /\ UNCHANGED <<w, m, writers_, last_sequence_, memVars, verVars, manual_compaction_,
                   schedVars, bg, bg_error_, endVars>>

\* Mutant of Signalled: the new front of the queue is not signalled.
Signalled_OnlyPopped(u, popped, rest) == u \in popped

\* The writers that the end of Write signals: those it pops and the new front.
Signalled(u, popped, rest) == u \in popped \/ (rest # << >> /\ u = Head(rest))

\* The end of Write: the first n writers, up to *last_writer, are popped, done with
\* result s and signalled, and then the new front is.  p is pc as the critical section
\* leaves it before that.
Finish(t, n, s, p) ==
    LET popped == {writers_[i] : i \in 1 .. n}
        rest   == SubSeq(writers_, n + 1, Len(writers_))
    IN  /\ writers_' = rest
        /\ w' = [u \in Threads |->
                   IF u \in popped
                   THEN [w[u] EXCEPT !.done = TRUE, !.status = s, !.group = 0, !.inserted = 0]
                   ELSE w[u]]
        /\ pc' = [u \in Threads |->
                    IF u = t THEN AfterWrite(t, s)
                    ELSE IF Signalled(u, popped, rest) /\ p[u] = "cv_wait" THEN "cv_ready"
                    ELSE p[u]]
-----------------------------------------------------------------------------
(* BuildBatchGroup *)

\* Operations in the batches of the first n writers.
GroupSize(n) ==
    Cardinality({x \in (1 .. n) \X (1 .. MaxBatch) : x[2] <= w[writers_[x[1]]].batch})

MaxGroup == IF GroupSize(1) <= SmallGroup THEN GroupSize(1) + SmallGroup ELSE LargeGroup

\* The loop gets to the n-th writer: a NULL batch is passed over, any other must keep
\* the size within the limit.  Write has set w.sync to false, so the test on sync stops
\* nothing.
GroupReaches(n) == \A i \in 2 .. n : w[writers_[i]].batch = 0 \/ GroupSize(i) <= MaxGroup

\* The n-th writer is *last_writer when the loop ends.
BuildBatchGroup(n) ==
    /\ n \in 1 .. Len(writers_)
    /\ GroupReaches(n)
    /\ n < Len(writers_) => ~GroupReaches(n + 1)

\* MakeRoomForWrite has returned OK: build the group and unlock; a NULL batch is done.
StartGroup(t) ==
    IF w[t].batch = 0
    THEN Finish(t, 1, "OK", pc)
    ELSE \E n \in 1 .. Len(writers_) :
         /\ BuildBatchGroup(n)
         /\ w' = [w EXCEPT ![t].group = n]
         /\ pc' = [pc EXCEPT ![t] = IF w[t].sync THEN "sync" ELSE "insert"]
         /\ UNCHANGED writers_
-----------------------------------------------------------------------------
(* MakeRoomForWrite *)

Delays(t) == w[t].allow_delay /\ files[0] >= SlowdownTrigger

\* The memtable has room, and no switch is forced by a NULL batch.
HasRoom(t) == w[t].batch # 0 /\ Cardinality(mem_) <= WriteBuffer

\* Mutant of MustWait: an immutable memtable is not waited for.
MustWait_NoImm == files[0] >= StopTrigger

MustWait == has_imm_ \/ files[0] >= StopTrigger

\* The delay of 1 ms, or a wait on bg_cv_.
Room_Wait(t) ==
    /\ pc[t] = "room"
    /\ ~bg_error_
    /\ \/ /\ Delays(t)
          /\ pc' = [pc EXCEPT ![t] = "delay"]
          /\ w' = [w EXCEPT ![t].allow_delay = FALSE]
       \/ /\ ~Delays(t) /\ ~HasRoom(t) /\ MustWait
          /\ pc' = [pc EXCEPT ![t] = "room_wait"]
          /\ UNCHANGED w
    /\ UNCHANGED <<m, writers_, last_sequence_, memVars, verVars, manual_compaction_,
                   schedVars, bg, bg_error_, endVars>>

\* The mutex is taken again after the delay or after the wait.
Room_Again(t) ==
    /\ pc[t] \in {"delay", "room_ready"}
    /\ MutexFree
    /\ pc' = [pc EXCEPT ![t] = "room"]
    /\ UNCHANGED <<w, m, writers_, last_sequence_, memVars, verVars, manual_compaction_,
                   schedVars, bg, bg_error_, endVars>>

\* There is room, or the memtable is switched: then the next turn of the loop, still
\* under the mutex, finds room in the new one.
Room_Made(t) ==
    /\ pc[t] = "room"
    /\ ~bg_error_ /\ ~Delays(t)
    /\ \/ HasRoom(t) /\ UNCHANGED <<memVars, schedVars>>
       \/ /\ ~HasRoom(t) /\ ~MustWait
          /\ imm_' = mem_ /\ has_imm_' = TRUE /\ mem_' = {} /\ UNCHANGED tables
          /\ MaybeScheduleCompaction(bg_compaction_scheduled_, TRUE, manual_compaction_,
                                     files, seek, bg_error_)
    /\ StartGroup(t)
    /\ UNCHANGED <<m, last_sequence_, verVars, manual_compaction_, bg, bg_error_, endVars>>

\* There is a background error, or the new log file cannot be created.
Room_Fails(t) ==
    /\ pc[t] = "room"
    /\ \/ bg_error_
       \/ ~Delays(t) /\ ~HasRoom(t) /\ ~MustWait /\ "newlog" \in Failures
    /\ Finish(t, 1, "Error", pc)
    /\ UNCHANGED <<m, last_sequence_, memVars, verVars, manual_compaction_, schedVars, bg,
                   bg_error_, endVars>>
-----------------------------------------------------------------------------
(* The unlocked part of Write, and its end *)

\* logfile_->Sync(), made when the leader's own options ask for it.
Sync(t) ==
    /\ pc[t] = "sync"
    /\ \/ pc' = [pc EXCEPT ![t] = "insert"]
       \/ "sync" \in Failures /\ pc' = [pc EXCEPT ![t] = "sync_failed"]
    /\ UNCHANGED <<w, m, writers_, last_sequence_, memVars, verVars, manual_compaction_,
                   schedVars, bg, bg_error_, endVars>>

\* Mutant of Count: first->batch is taken in place of tmp_batch_.
Count_First(t) == GroupSize(1)

\* WriteBatchInternal::Count(updates)
Count(t) == GroupSize(w[t].group)

\* Mutant of LastSequence: one sequence number is used up by a group of any size.
LastSequence_One(t) == last_sequence_ + 1

\* Write's local last_sequence once the group is built.
LastSequence(t) == last_sequence_ + Count(t)

\* InsertInto adds the next operation of the group, one of the i-th writer's batch, to
\* mem_.
Insert(t) ==
    /\ pc[t] = "insert"
    /\ w[t].inserted < Count(t)
    /\ \E i \in 1 .. w[t].group :
          LET k == w[t].inserted  u == writers_[i]
          IN  /\ GroupSize(i - 1) <= k /\ k < GroupSize(i)
              /\ mem_' = mem_ \cup
                    {[seq |-> last_sequence_ + 1 + k, thread |-> u, num |-> w[u].num]}
    /\ w' = [w EXCEPT ![t].inserted = @ + 1]
    /\ UNCHANGED <<pc, m, writers_, last_sequence_, imm_, has_imm_, tables, verVars,
                   manual_compaction_, schedVars, bg, bg_error_, endVars>>

\* The group is inserted, or its sync has failed: publish the sequence number (used up
\* also by a group that failed), record the error, end the group.
Commit(t) ==
    /\ \/ pc[t] = "insert" /\ w[t].inserted >= Count(t)
       \/ pc[t] = "sync_failed"
    /\ MutexFree
    /\ last_sequence_' = LastSequence(t)
    /\ IF pc[t] = "insert"
       THEN /\ Finish(t, w[t].group, "OK", pc)
            /\ UNCHANGED bg_error_
       ELSE /\ Finish(t, w[t].group, "Error", IF bg_error_ THEN pc ELSE Woken)
            /\ bg_error_' = TRUE
    /\ UNCHANGED <<m, memVars, verVars, manual_compaction_, schedVars, bg, endVars>>
-----------------------------------------------------------------------------
(* Forced flushes and manual compactions *)

\* TEST_CompactMemTable waits until there is no immutable memtable.
MemCheck(t) ==
    /\ pc[t] = "mem_check"
    /\ MutexFree
    /\ IF has_imm_ /\ ~bg_error_
       THEN pc' = [pc EXCEPT ![t] = "mem_wait"] /\ UNCHANGED w
       ELSE /\ pc' = [pc EXCEPT ![t] = IF w[t].op = "flush" THEN "idle" ELSE "manual"]
            /\ w' = [w EXCEPT ![t].status = IF has_imm_ THEN "Error" ELSE "OK"]
    /\ UNCHANGED <<m, writers_, last_sequence_, memVars, verVars, manual_compaction_,
                   schedVars, bg, bg_error_, endVars>>

Aborted == shutting_down_ \/ bg_error_

\* TEST_CompactRange: install the request when there is none, then wait.
Manual_Wait(t) ==
    /\ pc[t] = "manual"
    /\ MutexFree
    /\ ~m[t].done /\ ~Aborted
    /\ IF manual_compaction_ = NULL
       THEN /\ manual_compaction_' = t
            /\ MaybeScheduleCompaction(bg_compaction_scheduled_, has_imm_, t, files, seek,
                                       bg_error_)
       ELSE UNCHANGED <<manual_compaction_, schedVars>>
    /\ pc' = [pc EXCEPT ![t] = "manual_wait"]
    /\ UNCHANGED <<w, m, writers_, last_sequence_, memVars, verVars, bg, bg_error_, endVars>>

\* Its loop ends, and CompactRange goes on to the next level.
Manual_Done(t) ==
    /\ pc[t] = "manual"
    /\ MutexFree
    /\ m[t].done \/ Aborted
    /\ manual_compaction_' = IF manual_compaction_ = t THEN NULL ELSE manual_compaction_
    /\ IF m[t].level + 1 < m[t].max
       THEN /\ m' = [m EXCEPT ![t] = [level |-> @.level + 1, done |-> FALSE, max |-> @.max]]
            /\ UNCHANGED pc
       ELSE /\ m' = [m EXCEPT ![t] = [level |-> 0, done |-> FALSE, max |-> @.max]]
            /\ pc' = [pc EXCEPT ![t] = "idle"]
    /\ UNCHANGED <<w, writers_, last_sequence_, memVars, verVars, schedVars, bg, bg_error_,
                   endVars>>
-----------------------------------------------------------------------------
(* The background thread *)

\* PosixEnv::BGThread takes the next item off its queue and calls BGWork.
BGThread ==
    /\ bg.pc = "idle" /\ bg_queue > 0
    /\ bg_queue' = bg_queue - 1
    /\ bg' = [bg EXCEPT !.pc = "called"]
    /\ UNCHANGED <<pc, w, m, writers_, last_sequence_, memVars, verVars, manual_compaction_,
                   bg_compaction_scheduled_, bg_error_, endVars>>

\* The end of BackgroundCall, in the state that the arguments describe.
EndCall(imm, manual, fs, sk, err) ==
    /\ MaybeScheduleCompaction(FALSE, imm, manual, fs, sk, err)
    /\ bg' = BgIdle
    /\ SignalAll

Called == bg.pc = "called" /\ MutexFree

\* BackgroundCall does nothing when shutting down or after an error, nor when there is
\* no memtable, no request and no compaction to pick.
BackgroundCall_Nothing ==
    /\ Called
    /\ Aborted \/ (~has_imm_ /\ manual_compaction_ = NULL /\ ~NeedsCompaction(files, seek))
    /\ EndCall(has_imm_, manual_compaction_, files, seek, bg_error_)
    /\ UNCHANGED <<w, m, writers_, last_sequence_, memVars, verVars, manual_compaction_,
                   bg_error_, shutting_down_>>

\* BackgroundCompaction finds no file of the level in the requested range and leaves the
\* request done, or not.
RequestDropped(done) ==
    /\ Called /\ ~Aborted /\ ~has_imm_
    /\ manual_compaction_ # NULL
    /\ m' = [m EXCEPT ![manual_compaction_].done = done]
    /\ manual_compaction_' = NULL
    /\ EndCall(has_imm_, NULL, files, seek, bg_error_)
    /\ UNCHANGED <<w, writers_, last_sequence_, memVars, verVars, bg_error_, shutting_down_>>

\* Mutant of Manual_Empty: m->done is not set.
Manual_Empty_NotDone == RequestDropped(FALSE)

Manual_Empty == RequestDropped(TRUE)

\* PickCompaction's level: the best score if one reaches 1, else the level of the file
\* that has had too many seeks.
PicksLevel(l) ==
    IF ScoreReached(files)
    THEN \A k \in 0 .. NumLevels - 2 :
            LET mine == files[l] * LevelLimit[k]  other == files[k] * LevelLimit[l]
            IN  mine > other \/ (mine = other /\ l <= k)
    ELSE l = seek

\* The inputs of a compaction of level l: files of l and files of l + 1.
Inputs(l) == (1 .. files[l]) \X (0 .. files[l + 1])

Begin(p, l, in, manual) ==
    bg' = [bg EXCEPT !.pc = p, !.level = l, !.in0 = in[1], !.in1 = in[2], !.manual = manual]

\* BackgroundCompaction starts to write a table, to merge, or to move a file, and
\* releases the mutex.
BackgroundCompaction ==
    /\ Called /\ ~Aborted
    /\ \/ /\ has_imm_
          /\ bg' = [bg EXCEPT !.pc = "build"]
          /\ UNCHANGED m
       \/ /\ ~has_imm_ /\ manual_compaction_ # NULL
          /\ \E in \in Inputs(m[manual_compaction_].level) :
                Begin("merge", m[manual_compaction_].level, in, TRUE)
          /\ m' = [m EXCEPT ![manual_compaction_].done = FALSE]
       \/ /\ ~has_imm_ /\ manual_compaction_ = NULL
          /\ \E l \in 0 .. NumLevels - 2 : \E in \in Inputs(l) :
                /\ PicksLevel(l)
                /\ \/ Begin("merge", l, in, FALSE)
                   \/ in = <<1, 0>> /\ Begin("move_log", l, in, FALSE)
          /\ UNCHANGED m
    /\ UNCHANGED <<pc, w, writers_, last_sequence_, memVars, verVars, manual_compaction_,
                   schedVars, bg_error_, endVars>>
-----------------------------------------------------------------------------
(* CompactMemTable *)

\* It returns to BackgroundCompaction, or to DoCompactionWork, which wakes the waiters of
\* bg_cv_ and goes on with its merge.
FlushReturns(imm, fs, sk, err) ==
    IF bg.nested
    THEN /\ bg' = [bg EXCEPT !.pc = "merge", !.nested = FALSE]
         /\ SignalAll
         /\ UNCHANGED schedVars
    ELSE EndCall(imm, manual_compaction_, fs, sk, err)

\* The table is written; LogAndApply releases the mutex to write the manifest.
Flush_Built ==
    /\ bg.pc = "build"
    /\ MutexFree
    /\ ~shutting_down_
    /\ bg' = [bg EXCEPT !.pc = "flush_log"]
    /\ UNCHANGED <<pc, w, m, writers_, last_sequence_, memVars, verVars, manual_compaction_,
                   schedVars, bg_error_, endVars>>

\* The version with the table at level l is installed (an empty memtable gives no table)
\* and imm_ is dropped.
Flush_Installed(l) ==
    /\ bg.pc = "flush_log"
    /\ MutexFree
    /\ files' = IF imm_ = {} THEN files ELSE [files EXCEPT ![l] = @ + 1]
    /\ seek' = NULL
    /\ tables' = tables \cup imm_ /\ imm_' = {} /\ has_imm_' = FALSE
    /\ FlushReturns(FALSE, files', NULL, bg_error_)
    /\ UNCHANGED <<w, m, writers_, last_sequence_, mem_, manual_compaction_, bg_error_,
                   shutting_down_>>

\* The table or the manifest cannot be written, or the database is being closed;
\* RecordBackgroundError makes err the new bg_error_.
FlushEnds(err) ==
    /\ MutexFree
    /\ \/ bg.pc = "build" /\ (shutting_down_ \/ "build" \in Failures)
       \/ bg.pc = "flush_log" /\ "manifest" \in Failures
    /\ bg_error_' = err
    /\ FlushReturns(has_imm_, files, seek, err)
    /\ UNCHANGED <<w, m, writers_, last_sequence_, memVars, verVars, manual_compaction_,
                   shutting_down_>>

\* Mutant of Flush_Fails: the error is not recorded.
Flush_Fails_Silent == FlushEnds(bg_error_)

Flush_Fails == FlushEnds(TRUE)
-----------------------------------------------------------------------------
(* DoCompactionWork and the rest of BackgroundCompaction *)

\* Between two records of the merge an immutable memtable is compacted first; when all
\* records are merged, LogAndApply releases the mutex.
Merge_Step ==
    /\ bg.pc = "merge"
    /\ MutexFree
    /\ \/ has_imm_ /\ bg' = [bg EXCEPT !.pc = "build", !.nested = TRUE]
       \/ ~shutting_down_ /\ bg' = [bg EXCEPT !.pc = "merge_log"]
    /\ UNCHANGED <<pc, w, m, writers_, last_sequence_, memVars, verVars, manual_compaction_,
                   schedVars, bg_error_, endVars>>

\* manual_compaction_ is read again after the merge, and dereferenced.
EndCompaction(ok, fs, sk, err) ==
    IF bg.manual /\ manual_compaction_ = NULL
    THEN /\ bg' = [bg EXCEPT !.pc = "crashed"]
         /\ pc' = [t \in Threads |-> "dead"] /\ dtor' = "dead"
         /\ UNCHANGED <<manual_compaction_, m, schedVars>>
    ELSE IF bg.manual
    THEN /\ m' = [m EXCEPT ![manual_compaction_].done = @ \/ ~ok]
         /\ manual_compaction_' = NULL
         /\ EndCall(has_imm_, NULL, fs, sk, err)
    ELSE /\ EndCall(has_imm_, manual_compaction_, fs, sk, err)
         /\ UNCHANGED <<manual_compaction_, m>>

\* How many files replace the inputs.
Outputs == IF bg.pc = "move_log" THEN {1} ELSE 0 .. bg.in0 + bg.in1

\* The version with n files in place of the inputs is installed.
Merge_Installed(n) ==
    /\ bg.pc \in {"merge_log", "move_log"}
    /\ MutexFree
    /\ files' = [files EXCEPT ![bg.level] = @ - bg.in0, ![bg.level + 1] = @ - bg.in1 + n]
    /\ seek' = NULL
    /\ EndCompaction(TRUE, files', NULL, bg_error_)
    /\ UNCHANGED <<w, writers_, last_sequence_, memVars, bg_error_, shutting_down_>>

Merge_Fails ==
    /\ MutexFree
    /\ \/ bg.pc = "merge" /\ (shutting_down_ \/ "merge" \in Failures)
       \/ bg.pc \in {"merge_log", "move_log"} /\ "manifest" \in Failures
    /\ bg_error_' = TRUE
    /\ EndCompaction(FALSE, files, seek, TRUE)
    /\ UNCHANGED <<w, writers_, last_sequence_, memVars, verVars, shutting_down_>>
-----------------------------------------------------------------------------
(* Reads and the destructor *)

\* A Get that read a file of level l went on to a second one.
SecondFile(l) ==
    \/ l = 0 /\ files[0] > 1
    \/ \E k \in l + 1 .. NumLevels - 1 : files[k] > 0

\* The end of such a Get: the first file has used up its allowed seeks.
Get_UpdateStats(l) ==
    /\ Seeks /\ dtor = "open"
    /\ MutexFree
    /\ files[l] > 0 /\ SecondFile(l) /\ seek = NULL
    /\ seek' = l
    /\ MaybeScheduleCompaction(bg_compaction_scheduled_, has_imm_, manual_compaction_, files,
                               l, bg_error_)
    /\ UNCHANGED <<pc, w, m, writers_, last_sequence_, memVars, files, manual_compaction_, bg,
                   bg_error_, endVars>>

\* ~DBImpl, called when no other call is active, waits for the background thread.
Close ==
    /\ \/ dtor = "open" /\ \A t \in Threads : pc[t] = "idle"
       \/ dtor = "closing"
    /\ shutting_down_' = TRUE
    /\ dtor' = IF bg_compaction_scheduled_ THEN "waiting" ELSE "closed"
    /\ UNCHANGED <<pc, w, m, writers_, last_sequence_, memVars, verVars, manual_compaction_,
                   schedVars, bg, bg_error_>>

\* The database is closed, or the process has died.
Over == dtor \in {"closed", "dead"} /\ UNCHANGED vars
-----------------------------------------------------------------------------
ClientStep(t) ==
    \/ Awake(t) \/ Room_Wait(t) \/ Room_Again(t) \/ Room_Made(t) \/ Room_Fails(t)
    \/ Sync(t) \/ Insert(t) \/ Commit(t)
    \/ MemCheck(t) \/ Manual_Wait(t) \/ Manual_Done(t)

BackgroundStep ==
    \/ BGThread \/ BackgroundCall_Nothing \/ Manual_Empty \/ BackgroundCompaction
    \/ Flush_Built \/ (\E l \in 0 .. MaxMemCompactLevel : Flush_Installed(l)) \/ Flush_Fails
    \/ Merge_Step \/ (\E n \in Outputs : Merge_Installed(n)) \/ Merge_Fails

NewCall(t) ==
    \E op \in ClientOps, b \in 0 .. MaxBatch, sync \in SyncChoices, n \in Levels :
        Enqueue(t, op, b, sync, n)

Next ==
    \/ \E t \in Threads : NewCall(t) \/ ClientStep(t)
    \/ BackgroundStep
    \/ \E l \in 0 .. NumLevels - 2 : Get_UpdateStats(l)
    \/ Close \/ Over

Spec == Init /\ [][Next]_vars

\* Every thread that can take the next step of its call takes it, as a fair scheduler
\* and a fair mutex provide.  A merge ends although it turns aside to compact memtables:
\* its loop runs over the records of a finite input.
Fairness ==
    /\ \A t \in Threads : WF_vars(ClientStep(t))
    /\ WF_vars(BackgroundStep)
    /\ SF_vars(bg.pc = "merge" /\ BackgroundStep /\ bg'.pc # "build")
    /\ WF_vars(dtor = "closing" /\ Close)

FairSpec == Spec /\ Fairness
-----------------------------------------------------------------------------
(* Properties *)

ClientTypes ==
    /\ pc \in [Threads -> PC]
    /\ w \in [Threads -> Writer]
    /\ m \in [Threads -> ManualCompaction]
    /\ writers_ \in Seq(Threads)

DataTypes ==
    /\ last_sequence_ \in Nat
    /\ mem_ \in SUBSET Op /\ imm_ \in SUBSET Op /\ tables \in SUBSET Op
    /\ has_imm_ \in BOOLEAN

VersionTypes == files \in [Levels -> Nat] /\ seek \in 0 .. NumLevels - 2 \cup {NULL}

BackgroundTypes ==
    /\ manual_compaction_ \in Threads \cup {NULL}
    /\ bg_compaction_scheduled_ \in BOOLEAN /\ bg_queue \in Nat /\ bg \in Background
    /\ bg_error_ \in BOOLEAN /\ shutting_down_ \in BOOLEAN
    /\ dtor \in {"open", "closing", "waiting", "closed", "dead"}

\* Every variable has its type; for files this says that a compaction's inputs are still
\* in the current version when it is installed.
TypeOK == ClientTypes /\ DataTypes /\ VersionTypes /\ BackgroundTypes

\* The pcs of a thread that MakeRoomForWrite or the rest of Write has made the leader.
LeaderPC == {"room", "delay", "room_wait", "room_ready", "sync", "insert", "sync_failed"}

\* "&w is currently responsible for logging and protects against ... concurrent writes
\* into mem_": whoever is past the front-of-queue test is the front of the queue, so
\* no two threads insert into mem_ or switch it at the same time.
LeaderIsFront ==
    \A t \in Threads : pc[t] \in LeaderPC => writers_ # << >> /\ Head(writers_) = t

\* The front of the queue is never asleep on its own condition variable: Write's last
\* Signal is not lost, whatever the group was.
FrontIsAwake == writers_ # << >> => pc[Head(writers_)] # "cv_wait"

\* A thread asleep on bg_cv_ (no room, a forced flush, a manual compaction) has a
\* background call scheduled, whose end wakes it: MaybeScheduleCompaction has missed
\* no work.
SleepersHaveWaker ==
    ( \/ \E t \in Threads : pc[t] \in {"room_wait", "mem_wait", "manual_wait"}
      \/ dtor = "waiting" ) => bg_compaction_scheduled_

\* bg_compaction_scheduled_ stands for exactly one item, queued or running; so the
\* destructor, which waits for it to clear, leaves no background call that would use
\* the destroyed object.
OneBackgroundCall ==
    /\ bg_queue = IF bg_compaction_scheduled_ /\ bg.pc = "idle" THEN 1 ELSE 0
    /\ bg.pc # "idle" => bg_compaction_scheduled_
    /\ dtor = "closed" => ~bg_compaction_scheduled_

\* All operations that a reader of the three sources can meet.
Entries == mem_ \cup imm_ \cup tables

Published == {e \in Entries : e.seq <= last_sequence_}

\* What a reader sees at a published sequence number never changes: entries are
\* inserted above last_sequence_, and neither the switch of the memtable nor its
\* compaction loses or repeats one.
SnapshotsStable == [][{e \in Entries' : e.seq <= last_sequence_} = Published]_vars

\* Each sequence number is given to one operation.
SequencesUnique == \A e, f \in Entries : e.seq = f.seq => e = f

\* A write that has returned OK (as leader or as follower of a group) has all of its
\* operations visible at the published sequence number; one that failed has none.
AckedVisible ==
    \A t \in Threads :
        pc[t] = "idle" \/ (pc[t] = "cv_ready" /\ w[t].done) =>
            Cardinality({e \in Published : e.thread = t /\ e.num = w[t].num})
              = IF w[t].status = "OK" THEN w[t].batch ELSE 0

\* Every call returns, also after a background error, and so does the destructor, whatever
\* the background thread was doing.
CallsReturn ==
    /\ \A t \in Threads : pc[t] # "idle" ~> pc[t] = "idle"
    /\ shutting_down_ ~> dtor = "closed"
-----------------------------------------------------------------------------
(* What comments of the repository say and the code does not do *)

\* db_impl.cpp:779, "We only compacted part of the requested range.  Update *m to the
\* range that is left to be compacted.": the request that BackgroundCompaction updates
\* is still there after the compaction.
RequestStillThere == bg.pc # "crashed"
=============================================================================
