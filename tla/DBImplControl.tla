--------------------------- MODULE DBImplControl ----------------------------
(***************************************************************************)
(* Type correctness of DBImpl, the scheduling of background calls, and the *)
(* writer queue of DBImpl::Write.                                          *)
(*                                                                         *)
(* TypeOK is not inductive alone: that a compaction's inputs can be taken  *)
(* off the files of its levels needs InputsPresent, and that a group ends  *)
(* with as many writers as the queue has needs GroupWithin.                *)
(*                                                                         *)
(* SleepersHaveWaker holds because what a thread sleeps for is work        *)
(* (WaitIsScheduled) and work always has a background call (WorkScheduled),*)
(* as long as nobody is closing the database while calls are active        *)
(* (Closing).                                                              *)
(*                                                                         *)
(* LeaderIsFront and FrontIsAwake rest on what the queue holds: each writer*)
(* once (Distinct), exactly the threads that are in Write and not done     *)
(* (QueuedWait, WaitersQueued, NotYetDone), and the whole group of the     *)
(* leader (GroupWithin).                                                   *)
(***************************************************************************)
EXTENDS DBImpl, FiniteSetTheorems, SequenceTheorems, TLAPS

\* The inputs of the compaction that is running are files of the current version: only
\* the one background call removes files, and a flush inside the merge adds one.
InputsPresent ==
    bg.pc # "crashed" => files[bg.level] >= bg.in0 /\ files[bg.level + 1] >= bg.in1

\* Type correctness, strengthened by InputsPresent.
Typed == TypeOK /\ InputsPresent

\* Between BuildBatchGroup and the end of Write.
GroupPC == {"sync", "insert", "sync_failed"}

\* A group consists of writers that are in the queue.
GroupWithin == \A t \in Threads : pc[t] \in GroupPC => w[t].group \in 1 .. Len(writers_)

\* BuildBatchGroup adds up the sizes of finitely many batches.
LEMMA GroupSizeType == \A n \in Nat : GroupSize(n) \in Nat
  <1> TAKE n \in Nat
  <1> DEFINE P == (1 .. n) \X (1 .. MaxBatch)
             S == {x \in P : x[2] <= w[writers_[x[1]]].batch}
  <1>1. IsFiniteSet(1 .. n) /\ IsFiniteSet(1 .. MaxBatch)
    BY FS_Interval, DBAssumption
  <1>2. IsFiniteSet(P)
    BY <1>1, FS_Product
  <1>3. IsFiniteSet(S)
    BY <1>2, FS_Subset
  <1> QED
    BY <1>3, FS_CardinalityType DEF GroupSize

\* What the thread knows of its compaction: a level that has one below it, and counts.
LEMMA BackgroundFields ==
    ASSUME NEW b \in Background
    PROVE  /\ b.level \in Levels /\ b.level + 1 \in Levels /\ b.level # b.level + 1
           /\ b.in0 \in Nat /\ b.in1 \in Nat
  <1>1. b.level \in 0 .. NumLevels - 2 /\ b.in0 \in Nat /\ b.in1 \in Nat
    BY DEF Background
  <1> QED
    BY <1>1, DBAssumption DEF Levels

\* The constructor of DBImpl leaves all members with their types.
LEMMA TypedInit == Init => Typed
  <1> SUFFICES ASSUME Init PROVE Typed
    OBVIOUS
  <1> USE DBAssumption DEF Init
  <1>1. ClientTypes
    BY DEF ClientTypes, PC, Writer, ManualCompaction, Status
  <1>2. DataTypes
    BY DEF DataTypes
  <1>3. VersionTypes
    BY DEF VersionTypes
  <1>4. BackgroundTypes
    <2>1. bg \in Background
      BY DEF Background, BgIdle, BgPC
    <2> QED
      BY <2>1 DEF BackgroundTypes
  <1>5. InputsPresent
    BY DEF InputsPresent, BgIdle, Levels
  <1> QED
    BY <1>1, <1>2, <1>3, <1>4, <1>5 DEF Typed, TypeOK

\* The end of Write leaves the queue and the writers with their types.
LEMMA FinishType ==
    ASSUME ClientTypes, NEW t \in Threads, NEW n \in Nat, NEW s \in Status,
           NEW p \in [Threads -> PC],
           Finish(t, n, s, p)
    PROVE  /\ writers_' \in Seq(Threads)
           /\ w' \in [Threads -> Writer]
           /\ pc' \in [Threads -> PC]
  <1> DEFINE popped == {writers_[i] : i \in 1 .. n}
             rest == SubSeq(writers_, n + 1, Len(writers_))
  <1>1. writers_' \in Seq(Threads)
    <2>1. writers_ \in Seq(Threads) /\ writers_' = SubSeq(writers_, n + 1, Len(writers_))
      BY Zenon DEF ClientTypes, Finish
    <2>2. Len(writers_) \in Nat /\ \A i \in 1 .. Len(writers_) : writers_[i] \in Threads
      BY <2>1
    <2>3. \A i \in n + 1 .. Len(writers_) : writers_[i] \in Threads
      BY <2>2
    <2> QED
      BY <2>1, <2>2, <2>3, SubSeqProperties
  <1>2. w' \in [Threads -> Writer]
    <2>1. ASSUME NEW u \in Threads
          PROVE  [w[u] EXCEPT !.done = TRUE, !.status = s, !.group = 0, !.inserted = 0] \in Writer
      BY DEF ClientTypes, Writer
    <2>2. w' = [u \in Threads |->
                   IF u \in popped
                   THEN [w[u] EXCEPT !.done = TRUE, !.status = s, !.group = 0, !.inserted = 0]
                   ELSE w[u]]
      BY Zenon DEF Finish
    <2> QED
      BY <2>1, <2>2, Zenon DEF ClientTypes
  <1>3. pc' \in [Threads -> PC]
    <2>1. AfterWrite(t, s) \in PC
      BY DEF AfterWrite, PC
    <2>2. "cv_ready" \in PC
      BY DEF PC
    <2> QED
      BY <2>1, <2>2, Zenon DEF Finish
  <1> QED
    BY <1>1, <1>2, <1>3

\* The Writer that Write fills in on its stack has its type.
LEMMA NewWriterType ==
    ASSUME NEW op \in {"write", "flush", "compact"}, NEW b \in 0 .. MaxBatch,
           NEW sync \in BOOLEAN, NEW num \in Nat
    PROVE  [op |-> op, batch |-> b, sync |-> sync, num |-> num + 1,
            done |-> FALSE, status |-> "OK",
            allow_delay |-> b # 0, group |-> 0, inserted |-> 0] \in Writer
  BY DEF Writer, Status

\* An assignment to a member of a Writer keeps its type.
LEMMA WriterType ==
    ASSUME NEW x \in Writer
    PROVE  /\ [x EXCEPT !.allow_delay = FALSE] \in Writer
           /\ \A n \in Nat : [x EXCEPT !.group = n] \in Writer
           /\ [x EXCEPT !.inserted = @ + 1] \in Writer
           /\ \A s \in Status : [x EXCEPT !.status = s] \in Writer
  <1>1. [x EXCEPT !.allow_delay = FALSE] \in Writer
    BY DEF Writer
  <1>2. \A n \in Nat : [x EXCEPT !.group = n] \in Writer
    BY DEF Writer
  <1>3. [x EXCEPT !.inserted = @ + 1] \in Writer
    BY DEF Writer
  <1>4. \A s \in Status : [x EXCEPT !.status = s] \in Writer
    BY DEF Writer
  <1> QED
    BY <1>1, <1>2, <1>3, <1>4

\* An assignment to a member of a ManualCompaction keeps its type.
LEMMA ManualType ==
    ASSUME NEW x \in ManualCompaction
    PROVE  /\ \A n \in 1 .. NumLevels - 1 : [x EXCEPT !.max = n] \in ManualCompaction
           /\ \A d \in BOOLEAN : [x EXCEPT !.done = d] \in ManualCompaction
  <1>1. \A n \in 1 .. NumLevels - 1 : [x EXCEPT !.max = n] \in ManualCompaction
    BY DEF ManualCompaction
  <1>2. \A d \in BOOLEAN : [x EXCEPT !.done = d] \in ManualCompaction
    BY DEF ManualCompaction
  <1> QED
    BY <1>1, <1>2

\* bg_cv_.SignalAll() sends the sleepers to places of the code.
LEMMA WokenType == ClientTypes => Woken \in [Threads -> PC]
  BY DEF ClientTypes, Woken, PC

\* MaybeScheduleCompaction keeps the types of the flag and of the queue it changes.
LEMMA ScheduleType ==
    ASSUME BackgroundTypes, NEW scheduled, NEW imm, NEW manual, NEW fs, NEW sk, NEW err,
           MaybeScheduleCompaction(scheduled, imm, manual, fs, sk, err)
    PROVE  bg_compaction_scheduled_' \in BOOLEAN /\ bg_queue' \in Nat
  <1>1. bg_queue' = bg_queue \/ bg_queue' = bg_queue + 1
    BY Zenon DEF MaybeScheduleCompaction
  <1>2. bg_compaction_scheduled_' \in BOOLEAN
    BY Zenon DEF MaybeScheduleCompaction
  <1> QED
    BY <1>1, <1>2 DEF BackgroundTypes

\* The end of BackgroundCall keeps the types of what it changes.
LEMMA EndCallType ==
    ASSUME ClientTypes, BackgroundTypes, NEW imm, NEW manual, NEW fs, NEW sk, NEW err,
           EndCall(imm, manual, fs, sk, err)
    PROVE  /\ pc' \in [Threads -> PC]
           /\ bg_compaction_scheduled_' \in BOOLEAN /\ bg_queue' \in Nat
           /\ bg' = BgIdle
           /\ dtor' \in {"open", "closing", "waiting", "closed", "dead"}
  <1>1. pc' \in [Threads -> PC] /\ bg' = BgIdle
    BY WokenType DEF EndCall, SignalAll
  <1>2. bg_queue' \in Nat /\ bg_compaction_scheduled_' \in BOOLEAN
    BY ScheduleType DEF EndCall
  <1>4. dtor' \in {"open", "closing", "waiting", "closed", "dead"}
    <2>1. dtor' = IF dtor = "waiting" THEN "closing" ELSE dtor
      BY DEF EndCall, SignalAll
    <2> QED
      BY <2>1 DEF BackgroundTypes
  <1> QED
    BY <1>1, <1>2, <1>4

\* A background thread that runs no call has its type.
LEMMA BgIdleType == BgIdle \in Background
  BY DBAssumption DEF BgIdle, Background, BgPC

\* The steps inside BackgroundCompaction keep the type of its locals.
LEMMA BackgroundType ==
    ASSUME NEW x \in Background, NEW p \in BgPC
    PROVE  /\ [x EXCEPT !.pc = p] \in Background
           /\ \A d \in BOOLEAN : [x EXCEPT !.pc = p, !.nested = d] \in Background
           /\ \A l \in 0 .. NumLevels - 2, i \in Nat, j \in Nat, d \in BOOLEAN :
                [x EXCEPT !.pc = p, !.level = l, !.in0 = i, !.in1 = j, !.manual = d]
                  \in Background
  <1>1. [x EXCEPT !.pc = p] \in Background
    BY DEF Background
  <1>2. \A d \in BOOLEAN : [x EXCEPT !.pc = p, !.nested = d] \in Background
    BY DEF Background
  <1>3. ASSUME NEW l \in 0 .. NumLevels - 2, NEW i \in Nat, NEW j \in Nat, NEW d \in BOOLEAN
        PROVE  [x EXCEPT !.pc = p, !.level = l, !.in0 = i, !.in1 = j, !.manual = d]
                  \in Background
    BY DEF Background
  <1> QED
    BY <1>1, <1>2, <1>3, Zenon

\* bg_cv_.SignalAll() keeps the types of the pcs and of the destructor.
LEMMA SignalAllType ==
    ASSUME ClientTypes, BackgroundTypes, SignalAll
    PROVE  /\ pc' \in [Threads -> PC]
           /\ dtor' \in {"open", "closing", "waiting", "closed", "dead"}
  <1>1. dtor' = IF dtor = "waiting" THEN "closing" ELSE dtor
    BY DEF SignalAll
  <1> QED
    BY <1>1, WokenType DEF SignalAll, BackgroundTypes

\* CompactMemTable returns with the types kept, to BackgroundCompaction or to the merge.
LEMMA FlushReturnsType ==
    ASSUME ClientTypes, BackgroundTypes, NEW imm, NEW fs, NEW sk, NEW err,
           FlushReturns(imm, fs, sk, err)
    PROVE  /\ pc' \in [Threads -> PC]
           /\ bg_compaction_scheduled_' \in BOOLEAN /\ bg_queue' \in Nat
           /\ bg' \in Background
           /\ bg' = BgIdle \/ bg' = [bg EXCEPT !.pc = "merge", !.nested = FALSE]
           /\ dtor' \in {"open", "closing", "waiting", "closed", "dead"}
  <1>1. CASE bg.nested
    <2>1. SignalAll /\ UNCHANGED schedVars
          /\ bg' = [bg EXCEPT !.pc = "merge", !.nested = FALSE]
      BY <1>1 DEF FlushReturns
    <2>2. bg' \in Background
      <3>1. "merge" \in BgPC
        BY DEF BgPC
      <3> QED
        BY <2>1, <3>1, BackgroundType, Zenon DEF BackgroundTypes
    <2> QED
      BY <2>1, <2>2, SignalAllType DEF schedVars, BackgroundTypes
  <1>2. CASE ~bg.nested
    <2>1. EndCall(imm, manual_compaction_, fs, sk, err)
      BY <1>2 DEF FlushReturns
    <2> QED
      BY <2>1, EndCallType, BgIdleType
  <1> QED
    BY <1>1, <1>2

\* The end of BackgroundCompaction keeps the types, also when it dereferences NULL.
LEMMA EndCompactionType ==
    ASSUME ClientTypes, BackgroundTypes, NEW ok \in BOOLEAN, NEW fs, NEW sk, NEW err,
           EndCompaction(ok, fs, sk, err)
    PROVE  /\ pc' \in [Threads -> PC] /\ m' \in [Threads -> ManualCompaction]
           /\ manual_compaction_' \in Threads \cup {NULL}
           /\ bg_compaction_scheduled_' \in BOOLEAN /\ bg_queue' \in Nat
           /\ bg' \in Background /\ (bg' = BgIdle \/ bg'.pc = "crashed")
           /\ dtor' \in {"open", "closing", "waiting", "closed", "dead"}
  <1>0. m \in [Threads -> ManualCompaction] /\ manual_compaction_ \in Threads \cup {NULL}
        /\ bg \in Background
    BY DEF ClientTypes, BackgroundTypes
  <1>1. CASE bg.manual /\ manual_compaction_ = NULL
    <2>1. /\ bg' = [bg EXCEPT !.pc = "crashed"]
          /\ pc' = [t \in Threads |-> "dead"] /\ dtor' = "dead"
          /\ UNCHANGED <<manual_compaction_, m, schedVars>>
      BY <1>1, Zenon DEF EndCompaction
    <2>2. bg' \in Background /\ bg'.pc = "crashed"
      <3>1. "crashed" \in BgPC
        BY DEF BgPC
      <3>2. bg' \in Background
        BY <1>0, <2>1, <3>1, BackgroundType, Zenon
      <3> QED
        BY <1>0, <2>1, <3>2 DEF Background
    <2> QED
      BY <1>0, <2>1, <2>2 DEF PC, schedVars, BackgroundTypes
  <1>2. CASE bg.manual /\ manual_compaction_ # NULL
    <2>1. /\ m' = [m EXCEPT ![manual_compaction_].done = @ \/ ~ok]
          /\ manual_compaction_' = NULL
          /\ EndCall(has_imm_, NULL, fs, sk, err)
      BY <1>2, Zenon DEF EndCompaction
    <2>2. m' \in [Threads -> ManualCompaction]
      <3>1. manual_compaction_ \in Threads
        BY <1>0, <1>2
      <3>2. [m[manual_compaction_] EXCEPT !.done = @ \/ ~ok] \in ManualCompaction
        BY <1>0, <3>1, ManualType
      <3> QED
        BY <1>0, <2>1, <3>1, <3>2
    <2> QED
      BY <2>1, <2>2, EndCallType, BgIdleType
  <1>3. CASE ~bg.manual
    <2>1. EndCall(has_imm_, manual_compaction_, fs, sk, err)
          /\ UNCHANGED <<manual_compaction_, m>>
      BY <1>3, Zenon DEF EndCompaction
    <2> QED
      BY <1>0, <2>1, EndCallType, BgIdleType
  <1> QED
    BY <1>1, <1>2, <1>3

\* Every critical section of db_impl.cpp keeps the types, given that a leader's group is
\* within the queue.
LEMMA TypedNext == Typed /\ GroupWithin /\ [Next]_vars => Typed'
  <1> SUFFICES ASSUME Typed, GroupWithin, [Next]_vars PROVE Typed'
    OBVIOUS
  <1> USE DBAssumption DEF Typed, TypeOK
  <1>1. ASSUME NEW t \in Threads, NEW op \in ClientOps, NEW b \in 0 .. MaxBatch,
               NEW sync \in SyncChoices, NEW n \in Levels, Enqueue(t, op, b, sync, n)
        PROVE  Typed'
    <2>1. ClientTypes'
      <3>1. pc' \in [Threads -> PC]
        BY <1>1 DEF Enqueue, ClientTypes, PC, FirstPC
      <3>2. w' \in [Threads -> Writer]
        <4>1. op \in {"write", "flush", "compact"} /\ sync \in BOOLEAN
          OBVIOUS
        <4>2. w[t].num \in Nat /\ last_sequence_ \in Nat
          BY DEF ClientTypes, DataTypes, Writer
        <4> QED
          BY <1>1, <4>1, <4>2, NewWriterType DEF Enqueue, ClientTypes
      <3>3. m' \in [Threads -> ManualCompaction]
        <4>1. n \in 1 .. NumLevels - 1
          BY <1>1 DEF Enqueue, MaxLevelWithFiles
        <4> QED
          BY <1>1, <4>1, ManualType DEF Enqueue, ClientTypes
      <3>4. writers_' \in Seq(Threads)
        BY <1>1, AppendProperties DEF Enqueue, ClientTypes
      <3> QED
        BY <3>1, <3>2, <3>3, <3>4 DEF ClientTypes
    <2> QED
      BY <1>1, <2>1 DEF Enqueue, DataTypes, VersionTypes, BackgroundTypes, InputsPresent,
         memVars, verVars, schedVars, endVars
  <1>2. ASSUME NEW t \in Threads, Awake(t)
        PROVE  Typed'
    <2>1. ClientTypes'
      BY <1>2 DEF Awake, AfterWrite, ClientTypes, PC
    <2> QED
      BY <1>2, <2>1 DEF Awake, DataTypes, VersionTypes, BackgroundTypes, InputsPresent,
         memVars, verVars, schedVars, endVars
  <1>3. ASSUME NEW t \in Threads, Room_Wait(t) \/ Room_Again(t)
        PROVE  Typed'
    <2>1. ClientTypes'
      <3>1. pc' \in [Threads -> PC]
        BY <1>3 DEF Room_Wait, Room_Again, ClientTypes, PC
      <3>2. w' \in [Threads -> Writer]
        <4>1. w' = w \/ w' = [w EXCEPT ![t].allow_delay = FALSE]
          BY <1>3 DEF Room_Wait, Room_Again
        <4>2. w \in [Threads -> Writer] /\ [w[t] EXCEPT !.allow_delay = FALSE] \in Writer
          BY WriterType DEF ClientTypes
        <4> QED
          BY <4>1, <4>2
      <3> QED
        BY <1>3, <3>1, <3>2 DEF Room_Wait, Room_Again, ClientTypes
    <2> QED
      BY <1>3, <2>1 DEF Room_Wait, Room_Again, DataTypes, VersionTypes, BackgroundTypes,
         InputsPresent, memVars, verVars, schedVars, endVars
  <1>4. ASSUME NEW t \in Threads, Room_Made(t)
        PROVE  Typed'
    <2>1. writers_' \in Seq(Threads) /\ w' \in [Threads -> Writer] /\ pc' \in [Threads -> PC]
      <3>1. CASE w[t].batch = 0
        <4>1. Finish(t, 1, "OK", pc)
          BY <1>4, <3>1 DEF Room_Made, StartGroup
        <4>2. "OK" \in Status /\ pc \in [Threads -> PC] /\ 1 \in Nat
          BY DEF Status, ClientTypes
        <4> QED
          BY <4>1, <4>2, FinishType
      <3>2. CASE w[t].batch # 0
        <4>1. PICK n \in 1 .. Len(writers_) :
                /\ w' = [w EXCEPT ![t].group = n]
                /\ pc' = [pc EXCEPT ![t] = IF w[t].sync THEN "sync" ELSE "insert"]
                /\ UNCHANGED writers_
          BY <1>4, <3>2 DEF Room_Made, StartGroup
        <4>2. w \in [Threads -> Writer] /\ [w[t] EXCEPT !.group = n] \in Writer
          <5>1. n \in Nat
            OBVIOUS
          <5> QED
            BY <5>1, WriterType DEF ClientTypes
        <4>3. (IF w[t].sync THEN "sync" ELSE "insert") \in PC
          BY DEF PC
        <4>4. w' \in [Threads -> Writer]
          BY <4>1, <4>2
        <4>5. pc' \in [Threads -> PC]
          BY <4>1, <4>3 DEF ClientTypes
        <4> QED
          BY <4>1, <4>4, <4>5 DEF ClientTypes
      <3> QED
        BY <3>1, <3>2
    <2>2. ClientTypes'
      BY <1>4, <2>1 DEF Room_Made, ClientTypes
    <2>3. DataTypes'
      BY <1>4 DEF Room_Made, DataTypes, memVars
    <2>4. BackgroundTypes'
      BY <1>4, ScheduleType DEF Room_Made, BackgroundTypes, schedVars, endVars
    <2> QED
      BY <1>4, <2>2, <2>3, <2>4 DEF Room_Made, VersionTypes, InputsPresent, verVars
  <1>5. ASSUME NEW t \in Threads, Room_Fails(t)
        PROVE  Typed'
    <2>1. "Error" \in Status /\ pc \in [Threads -> PC] /\ 1 \in Nat
      BY DEF Status, ClientTypes
    <2>2. writers_' \in Seq(Threads) /\ w' \in [Threads -> Writer] /\ pc' \in [Threads -> PC]
      BY <1>5, <2>1, FinishType DEF Room_Fails
    <2> QED
      BY <1>5, <2>2 DEF Room_Fails, ClientTypes, DataTypes, VersionTypes, BackgroundTypes,
         InputsPresent, memVars, verVars, schedVars, endVars
  <1>6. ASSUME NEW t \in Threads, Sync(t)
        PROVE  Typed'
    <2>1. ClientTypes'
      BY <1>6 DEF Sync, ClientTypes, PC
    <2> QED
      BY <1>6, <2>1 DEF Sync, DataTypes, VersionTypes, BackgroundTypes,
         InputsPresent, memVars, verVars, schedVars, endVars
  <1>7. ASSUME NEW t \in Threads, Insert(t)
        PROVE  Typed'
    <2>1. w' \in [Threads -> Writer]
      <3>1. w \in [Threads -> Writer] /\ [w[t] EXCEPT !.inserted = @ + 1] \in Writer
        BY WriterType DEF ClientTypes
      <3> QED
        BY <1>7, <3>1 DEF Insert
    <2>2. mem_' \in SUBSET Op
      <3>1. PICK i \in 1 .. w[t].group :
              mem_' = mem_ \cup {[seq |-> last_sequence_ + 1 + w[t].inserted,
                                  thread |-> writers_[i], num |-> w[writers_[i]].num]}
        BY <1>7 DEF Insert
      <3>2. writers_[i] \in Threads
        <4>1. w[t].group \in Nat /\ w[t].group <= Len(writers_)
          BY <1>7 DEF Insert, GroupWithin, GroupPC, ClientTypes, Writer
        <4> QED
          BY <4>1 DEF ClientTypes
      <3>3. last_sequence_ + 1 + w[t].inserted \in Nat /\ w[writers_[i]].num \in Nat
        <4>1. w[t] \in Writer /\ w[writers_[i]] \in Writer
          BY <3>2 DEF ClientTypes
        <4>2. w[t].inserted \in Nat /\ w[writers_[i]].num \in Nat
          BY <4>1 DEF Writer
        <4> QED
          BY <4>2 DEF DataTypes
      <3> QED
        BY <3>1, <3>2, <3>3 DEF DataTypes, Op
    <2> QED
      BY <1>7, <2>1, <2>2 DEF Insert, ClientTypes, DataTypes, VersionTypes, BackgroundTypes,
         InputsPresent, memVars, verVars, schedVars, endVars
  <1>8. ASSUME NEW t \in Threads, Commit(t)
        PROVE  Typed'
    <2>1. writers_' \in Seq(Threads) /\ w' \in [Threads -> Writer] /\ pc' \in [Threads -> PC]
      <3>1. /\ "Error" \in Status /\ "OK" \in Status
            /\ pc \in [Threads -> PC] /\ Woken \in [Threads -> PC]
            /\ w[t].group \in Nat
        BY WokenType DEF Status, ClientTypes, Writer
      <3>2. PICK s \in Status, p \in {pc, Woken} : Finish(t, w[t].group, s, p)
        BY <1>8, <3>1, Zenon DEF Commit
      <3> QED
        BY <3>1, <3>2, FinishType
    <2>2. last_sequence_' \in Nat
      <3>1. w[t].group \in Nat
        BY DEF ClientTypes, Writer
      <3> QED
        BY <1>8, <3>1, GroupSizeType DEF Commit, DataTypes, LastSequence, Count
    <2>3. bg_error_' \in BOOLEAN
      BY <1>8, Zenon DEF Commit, BackgroundTypes
    <2> QED
      BY <1>8, <2>1, <2>2, <2>3 DEF Commit, ClientTypes, DataTypes, VersionTypes,
         BackgroundTypes, InputsPresent, memVars, verVars, schedVars, endVars
  <1>9. ASSUME NEW t \in Threads, MemCheck(t)
        PROVE  Typed'
    <2>1. pc' \in [Threads -> PC]
      BY <1>9 DEF MemCheck, ClientTypes, PC
    <2>2. w' \in [Threads -> Writer]
      <3>1. w' = w \/ \E s \in Status : w' = [w EXCEPT ![t].status = s]
        BY <1>9 DEF MemCheck, Status
      <3>2. w \in [Threads -> Writer] /\ \A s \in Status : [w[t] EXCEPT !.status = s] \in Writer
        BY WriterType DEF ClientTypes
      <3> QED
        BY <3>1, <3>2
    <2> QED
      BY <1>9, <2>1, <2>2 DEF MemCheck, ClientTypes, DataTypes, VersionTypes, BackgroundTypes,
         InputsPresent, memVars, verVars, schedVars, endVars
  <1>10. ASSUME NEW t \in Threads, Manual_Wait(t)
         PROVE  Typed'
    <2>1. ClientTypes'
      BY <1>10 DEF Manual_Wait, ClientTypes, PC
    <2>2. manual_compaction_' \in Threads \cup {NULL}
      BY <1>10 DEF Manual_Wait, BackgroundTypes
    <2>3. bg_compaction_scheduled_' \in BOOLEAN /\ bg_queue' \in Nat
      BY <1>10, ScheduleType DEF Manual_Wait, BackgroundTypes, schedVars
    <2> QED
      BY <1>10, <2>1, <2>2, <2>3 DEF Manual_Wait, DataTypes, VersionTypes, BackgroundTypes,
         InputsPresent, memVars, verVars, schedVars, endVars
  <1>11. ASSUME NEW t \in Threads, Manual_Done(t)
         PROVE  Typed'
    <2>1. pc' \in [Threads -> PC]
      BY <1>11 DEF Manual_Done, ClientTypes, PC
    <2>2. m' \in [Threads -> ManualCompaction]
      <3>1. m[t] \in ManualCompaction /\ m \in [Threads -> ManualCompaction]
        BY DEF ClientTypes
      <3>2. m[t].level \in 0 .. NumLevels - 2 /\ m[t].max \in 1 .. NumLevels - 1
        BY <3>1 DEF ManualCompaction
      <3>3. PICK l \in 0 .. NumLevels - 2 :
              m' = [m EXCEPT ![t] = [level |-> l, done |-> FALSE, max |-> m[t].max]]
        BY <1>11, <3>1, <3>2 DEF Manual_Done
      <3> QED
        BY <3>1, <3>2, <3>3 DEF ManualCompaction
    <2>3. manual_compaction_' \in Threads \cup {NULL}
      BY <1>11 DEF Manual_Done, BackgroundTypes
    <2> QED
      BY <1>11, <2>1, <2>2, <2>3 DEF Manual_Done, ClientTypes, DataTypes, VersionTypes,
         BackgroundTypes, InputsPresent, memVars, verVars, schedVars, endVars
  <1>12. CASE BGThread
    <2>1. bg' \in Background
      BY <1>12, BackgroundType, Zenon DEF BGThread, BackgroundTypes, BgPC
    <2>2. InputsPresent'
      BY <1>12, <2>1 DEF BGThread, InputsPresent, verVars, BackgroundTypes, Background
    <2> QED
      BY <1>12, <2>1, <2>2 DEF BGThread, ClientTypes, DataTypes, VersionTypes,
         BackgroundTypes, memVars, verVars, schedVars, endVars
  <1>13. CASE BackgroundCall_Nothing
    <2>1. BackgroundTypes' /\ pc' \in [Threads -> PC] /\ bg' = BgIdle
      BY <1>13, EndCallType, BgIdleType DEF BackgroundCall_Nothing, BackgroundTypes
    <2> QED
      BY <1>13, <2>1 DEF BackgroundCall_Nothing, ClientTypes, DataTypes, VersionTypes,
         InputsPresent, BgIdle, Levels, memVars, verVars
  <1>14. CASE Manual_Empty
    <2>1. EndCall(has_imm_, NULL, files, seek, bg_error_)
      BY <1>14 DEF Manual_Empty, RequestDropped
    <2>2. /\ pc' \in [Threads -> PC]
          /\ bg_compaction_scheduled_' \in BOOLEAN /\ bg_queue' \in Nat
          /\ bg' = BgIdle
          /\ dtor' \in {"open", "closing", "waiting", "closed", "dead"}
      BY <2>1, EndCallType
    <2>3. manual_compaction_ \in Threads /\ manual_compaction_' = NULL
      <3>1. manual_compaction_ # NULL /\ manual_compaction_' = NULL
        BY <1>14, Zenon DEF Manual_Empty, RequestDropped
      <3> QED
        BY <3>1 DEF BackgroundTypes
    <2>4. m' \in [Threads -> ManualCompaction]
      <3>1. m \in [Threads -> ManualCompaction]
        BY DEF ClientTypes
      <3>2. [m[manual_compaction_] EXCEPT !.done = TRUE] \in ManualCompaction
        BY <2>3, <3>1, ManualType
      <3> QED
        BY <1>14, <2>3, <3>1, <3>2 DEF Manual_Empty, RequestDropped
    <2>5. UNCHANGED <<w, writers_, last_sequence_, memVars, verVars, bg_error_, shutting_down_>>
      BY <1>14, Zenon DEF Manual_Empty, RequestDropped
    <2>6. BackgroundTypes'
      BY <2>2, <2>3, <2>5, BgIdleType DEF BackgroundTypes
    <2>7. InputsPresent'
      BY <2>2, <2>5 DEF InputsPresent, BgIdle, Levels, VersionTypes, verVars
    <2> QED
      BY <2>2, <2>4, <2>5, <2>6, <2>7 DEF ClientTypes, DataTypes, VersionTypes, memVars,
         verVars
  <1>15. CASE BackgroundCompaction
    <2>1. m' \in [Threads -> ManualCompaction]
      <3>1. m' = m \/ (manual_compaction_ \in Threads
                         /\ m' = [m EXCEPT ![manual_compaction_].done = FALSE])
        BY <1>15 DEF BackgroundCompaction, BackgroundTypes
      <3>2. m \in [Threads -> ManualCompaction]
        BY DEF ClientTypes
      <3>3. ASSUME NEW t \in Threads PROVE [m[t] EXCEPT !.done = FALSE] \in ManualCompaction
        BY <3>2, ManualType
      <3> QED
        BY <3>1, <3>2, <3>3
    <2>2. bg' \in Background /\ InputsPresent'
      <3>1. CASE has_imm_
        <4>1. bg' = [bg EXCEPT !.pc = "build"]
          BY <1>15, <3>1 DEF BackgroundCompaction
        <4>2. bg \in Background /\ "build" \in BgPC /\ bg.pc # "crashed" /\ files' = files
          BY <1>15 DEF BackgroundTypes, BgPC, BackgroundCompaction, Called, verVars
        <4>3. bg' \in Background
          BY <4>1, <4>2, BackgroundType, Zenon
        <4> QED
          BY <4>1, <4>2, <4>3 DEF InputsPresent, Background
      <3>2. CASE ~has_imm_
        <4>0. PICK p \in BgPC, l \in 0 .. NumLevels - 2, d \in BOOLEAN :
                \E in \in Inputs(l) : Begin(p, l, in, d)
          <5>1. "merge" \in BgPC /\ "move_log" \in BgPC
            BY DEF BgPC
          <5>2. CASE manual_compaction_ # NULL
            <6>1. manual_compaction_ \in Threads
              BY <5>2 DEF BackgroundTypes
            <6>2. m[manual_compaction_].level \in 0 .. NumLevels - 2
              BY <6>1 DEF ClientTypes, ManualCompaction
            <6> QED
              BY <1>15, <3>2, <5>1, <5>2, <6>2, Zenon DEF BackgroundCompaction
          <5>3. CASE manual_compaction_ = NULL
            BY <1>15, <3>2, <5>1, <5>3, Zenon DEF BackgroundCompaction
          <5> QED
            BY <5>2, <5>3
        <4>1. PICK in \in Inputs(l) : Begin(p, l, in, d)
          BY <4>0
        <4>2. in[1] \in Nat /\ in[2] \in Nat /\ files[l] >= in[1] /\ files[l + 1] >= in[2]
          BY DEF Inputs, VersionTypes, Levels
        <4>3. bg \in Background /\ files' = files
          BY <1>15 DEF BackgroundTypes, BackgroundCompaction, verVars
        <4>4. bg' \in Background
          BY <4>1, <4>2, <4>3, BackgroundType, Zenon DEF Begin
        <4>5. bg'.level = l /\ bg'.in0 = in[1] /\ bg'.in1 = in[2]
          BY <4>1, <4>3 DEF Begin, Background
        <4> QED
          BY <4>2, <4>3, <4>4, <4>5 DEF InputsPresent
      <3> QED
        BY <3>1, <3>2
    <2> QED
      BY <1>15, <2>1, <2>2 DEF BackgroundCompaction, ClientTypes, DataTypes, VersionTypes,
         BackgroundTypes, memVars, verVars, schedVars, endVars
  <1>16. CASE Flush_Built \/ Merge_Step
    <2>1. PICK p \in BgPC, d \in BOOLEAN :
            /\ p # "crashed" /\ bg.pc # "crashed"
            /\ bg' = [bg EXCEPT !.pc = p] \/ bg' = [bg EXCEPT !.pc = p, !.nested = d]
      BY <1>16, Zenon DEF Flush_Built, Merge_Step, BgPC
    <2>2. bg \in Background /\ files' = files
      BY <1>16 DEF Flush_Built, Merge_Step, BackgroundTypes, verVars
    <2>3. bg' \in Background
      <3>1. /\ [bg EXCEPT !.pc = p] \in Background
            /\ [bg EXCEPT !.pc = p, !.nested = d] \in Background
        BY <2>2, BackgroundType, Zenon
      <3> QED
        BY <2>1, <3>1
    <2>4. InputsPresent'
      BY <2>1, <2>2, <2>3 DEF InputsPresent, Background
    <2> QED
      BY <1>16, <2>3, <2>4 DEF Flush_Built, Merge_Step, ClientTypes, DataTypes, VersionTypes,
         BackgroundTypes, memVars, verVars, schedVars, endVars
  <1>17. ASSUME NEW l \in 0 .. MaxMemCompactLevel, Flush_Installed(l)
         PROVE  Typed'
    <2>1. FlushReturns(FALSE, files', NULL, bg_error_)
      BY <1>17 DEF Flush_Installed
    <2>2. files' \in [Levels -> Nat] /\ \A k \in Levels : files'[k] >= files[k]
      <3>1. files \in [Levels -> Nat] /\ l \in Levels
        BY DEF VersionTypes, Levels
      <3>2. files' = files \/ files' = [files EXCEPT ![l] = @ + 1]
        BY <1>17 DEF Flush_Installed
      <3> QED
        BY <3>1, <3>2
    <2>3. DataTypes' /\ VersionTypes'
      BY <1>17, <2>2 DEF Flush_Installed, DataTypes, VersionTypes
    <2>4. InputsPresent'
      <3>1. bg \in Background /\ bg.pc # "crashed"
        BY <1>17 DEF Flush_Installed, BackgroundTypes
      <3>2. bg.level \in Levels /\ bg.level + 1 \in Levels /\ bg.in0 \in Nat /\ bg.in1 \in Nat
        BY <3>1, BackgroundFields, Zenon
      <3>3. CASE bg' = BgIdle
        BY <2>2, <3>3 DEF BgIdle, InputsPresent, Levels
      <3>4. CASE bg' = [bg EXCEPT !.pc = "merge", !.nested = FALSE]
        <4>1. bg'.level = bg.level /\ bg'.in0 = bg.in0 /\ bg'.in1 = bg.in1
          BY <3>1, <3>4 DEF Background
        <4> QED
          BY <2>2, <3>1, <3>2, <4>1 DEF InputsPresent, VersionTypes
      <3> QED
        BY <2>1, <3>3, <3>4, FlushReturnsType
    <2> QED
      BY <1>17, <2>1, <2>3, <2>4, FlushReturnsType DEF Flush_Installed, ClientTypes,
         BackgroundTypes
  <1>18. CASE Flush_Fails
    <2>1. FlushReturns(has_imm_, files, seek, TRUE) /\ bg_error_' = TRUE /\ files' = files
      BY <1>18 DEF Flush_Fails, FlushEnds, verVars
    <2>2. InputsPresent'
      <3>1. bg \in Background /\ bg.pc # "crashed"
        BY <1>18 DEF Flush_Fails, FlushEnds, BackgroundTypes
      <3>3. CASE bg' = BgIdle
        BY <2>1, <3>3 DEF BgIdle, InputsPresent, Levels, VersionTypes
      <3>4. CASE bg' = [bg EXCEPT !.pc = "merge", !.nested = FALSE]
        <4>1. bg'.level = bg.level /\ bg'.in0 = bg.in0 /\ bg'.in1 = bg.in1
          BY <3>1, <3>4 DEF Background
        <4> QED
          BY <2>1, <3>1, <4>1 DEF InputsPresent
      <3> QED
        BY <2>1, <3>3, <3>4, FlushReturnsType
    <2> QED
      BY <1>18, <2>1, <2>2, FlushReturnsType DEF Flush_Fails, FlushEnds, ClientTypes,
         DataTypes, VersionTypes, BackgroundTypes, memVars, verVars
  <1>19. ASSUME NEW n \in Outputs, Merge_Installed(n)
         PROVE  Typed'
    <2>1. EndCompaction(TRUE, files', NULL, bg_error_)
      BY <1>19 DEF Merge_Installed
    <2>2. files' \in [Levels -> Nat]
      <3>1. bg \in Background /\ bg.pc # "crashed" /\ files \in [Levels -> Nat]
        BY <1>19 DEF Merge_Installed, BackgroundTypes, VersionTypes
      <3>2. bg.level \in Levels /\ bg.level + 1 \in Levels /\ bg.in0 \in Nat /\ bg.in1 \in Nat
        BY <3>1, BackgroundFields, Zenon
      <3>3. n \in Nat
        BY <3>2 DEF Outputs
      <3>4. files[bg.level] - bg.in0 \in Nat /\ files[bg.level + 1] - bg.in1 + n \in Nat
        BY <3>1, <3>2, <3>3 DEF InputsPresent
      <3>5. bg.level # bg.level + 1
        BY <3>1, BackgroundFields, Zenon
      <3> QED
        BY <1>19, <3>1, <3>2, <3>4, <3>5 DEF Merge_Installed
    <2>3. DataTypes' /\ VersionTypes'
      BY <1>19, <2>2 DEF Merge_Installed, DataTypes, VersionTypes, memVars
    <2>4. InputsPresent'
      <3>1. bg' = BgIdle \/ bg'.pc = "crashed"
        BY <2>1, EndCompactionType
      <3> QED
        BY <2>2, <3>1 DEF InputsPresent, BgIdle, Levels
    <2> QED
      BY <1>19, <2>1, <2>3, <2>4, EndCompactionType DEF Merge_Installed, ClientTypes,
         BackgroundTypes
  <1>20. CASE Merge_Fails
    <2>1. EndCompaction(FALSE, files, seek, TRUE) /\ bg_error_' = TRUE /\ files' = files
      BY <1>20 DEF Merge_Fails, verVars
    <2>2. InputsPresent'
      <3>1. bg' = BgIdle \/ bg'.pc = "crashed"
        BY <2>1, EndCompactionType
      <3> QED
        BY <2>1, <3>1 DEF InputsPresent, BgIdle, Levels, VersionTypes
    <2> QED
      BY <1>20, <2>1, <2>2, EndCompactionType DEF Merge_Fails, ClientTypes, DataTypes,
         VersionTypes, BackgroundTypes, memVars, verVars
  <1>21. ASSUME NEW l \in 0 .. NumLevels - 2, Get_UpdateStats(l)
         PROVE  Typed'
    <2>1. bg_compaction_scheduled_' \in BOOLEAN /\ bg_queue' \in Nat
      BY <1>21, ScheduleType DEF Get_UpdateStats
    <2> QED
      BY <1>21, <2>1 DEF Get_UpdateStats, ClientTypes, DataTypes, VersionTypes,
         BackgroundTypes, InputsPresent, memVars, endVars
  <1>22. CASE Close
    <2>1. dtor' \in {"open", "closing", "waiting", "closed", "dead"} /\ shutting_down_' \in BOOLEAN
      BY <1>22 DEF Close
    <2> QED
      BY <1>22, <2>1 DEF Close, ClientTypes, DataTypes, VersionTypes,
         BackgroundTypes, InputsPresent, memVars, verVars, schedVars
  <1>23. CASE UNCHANGED vars
    BY <1>23 DEF vars, ClientTypes, DataTypes, VersionTypes, BackgroundTypes, InputsPresent,
       memVars, verVars, schedVars, endVars
  <1> QED
    BY <1>1, <1>2, <1>3, <1>4, <1>5, <1>6, <1>7, <1>8, <1>9, <1>10, <1>11, <1>12, <1>13,
       <1>14, <1>15, <1>16, <1>17, <1>18, <1>19, <1>20, <1>21, <1>22, <1>23
       DEF Next, NewCall, ClientStep, BackgroundStep, Over
-----------------------------------------------------------------------------
(* The scheduling of background calls *)

\* What MaybeScheduleCompaction looks for.
Work == has_imm_ \/ manual_compaction_ # NULL \/ NeedsCompaction(files, seek)

\* Work has a background call, unless an error or the destructor stops it.
WorkScheduled ==
    Work /\ ~shutting_down_ /\ ~bg_error_ /\ bg.pc # "crashed" => bg_compaction_scheduled_

\* The destructor runs when no call is active, and it has set shutting_down_.
Closing ==
    /\ dtor = "open" => ~shutting_down_ /\ bg.pc # "crashed"
    /\ dtor \in {"closing", "waiting", "closed"} => shutting_down_
    /\ dtor # "open" => \A t \in Threads : pc[t] \in {"idle", "dead"}

\* The inductive invariant of the scheduling.
SchedInv == OneBackgroundCall /\ WorkScheduled /\ SleepersHaveWaker /\ Closing

\* The waits on bg_cv_.
SleepPC == {"room_wait", "mem_wait", "manual_wait"}

\* A new database has no work and no background call.
LEMMA SchedInit == Init => SchedInv
  <1> SUFFICES ASSUME Init PROVE SchedInv
    OBVIOUS
  <1>1. OneBackgroundCall
    BY DEF Init, OneBackgroundCall, BgIdle
  <1>2. SleepersHaveWaker /\ Closing
    BY DEF Init, SleepersHaveWaker, Closing, BgIdle
  <1>3. ~NeedsCompaction(files, seek)
    BY DBAssumption DEF Init, NeedsCompaction, ScoreReached, Levels
  <1>4. WorkScheduled
    BY <1>3, Zenon DEF Init, WorkScheduled, Work
  <1> QED
    BY <1>1, <1>2, <1>4 DEF SchedInv

\* MaybeScheduleCompaction, called outside BackgroundCall, schedules at most one call.
LEMMA ScheduleKeeps ==
    ASSUME BackgroundTypes, SchedInv, NEW imm, NEW manual, NEW fs, NEW sk,
           UNCHANGED <<bg, dtor>>,
           MaybeScheduleCompaction(bg_compaction_scheduled_, imm, manual, fs, sk, bg_error_)
    PROVE  /\ OneBackgroundCall'
           /\ bg_compaction_scheduled_ => bg_compaction_scheduled_'
           /\ (imm \/ manual # NULL \/ NeedsCompaction(fs, sk))
                /\ ~shutting_down_ /\ ~bg_error_ => bg_compaction_scheduled_'
  <1>1. bg_queue \in Nat /\ bg_queue' \in Nat
    BY ScheduleType DEF BackgroundTypes
  <1>2. CASE bg_compaction_scheduled_
    <2>1. bg_compaction_scheduled_' /\ bg_queue' = bg_queue
      BY <1>2, Zenon DEF MaybeScheduleCompaction, ShouldSchedule
    <2> QED
      BY <1>1, <1>2, <2>1 DEF SchedInv, OneBackgroundCall
  <1>3. CASE ~bg_compaction_scheduled_
    <2>1. bg_queue = 0 /\ bg.pc = "idle"
      BY <1>1, <1>3 DEF SchedInv, OneBackgroundCall
    <2>2. CASE ShouldSchedule(bg_compaction_scheduled_, imm, manual, fs, sk, bg_error_)
      <3>1. bg_compaction_scheduled_' /\ bg_queue' = bg_queue + 1
        BY <2>2, Zenon DEF MaybeScheduleCompaction
      <3>2. dtor # "closed"
        BY <2>2, Zenon DEF ShouldSchedule, SchedInv, Closing
      <3> QED
        BY <1>1, <1>3, <2>1, <3>1, <3>2 DEF OneBackgroundCall
    <2>3. CASE ~ShouldSchedule(bg_compaction_scheduled_, imm, manual, fs, sk, bg_error_)
      <3>1. ~bg_compaction_scheduled_' /\ bg_queue' = bg_queue
        BY <1>3, <2>3, Zenon DEF MaybeScheduleCompaction
      <3>2. ~((imm \/ manual # NULL \/ NeedsCompaction(fs, sk))
                /\ ~shutting_down_ /\ ~bg_error_)
        BY <1>3, <2>3, Zenon DEF ShouldSchedule
      <3> QED
        BY <1>1, <1>3, <2>1, <3>1, <3>2 DEF OneBackgroundCall
    <2> QED
      BY <2>2, <2>3
  <1> QED
    BY <1>2, <1>3

\* The end of BackgroundCall clears the flag, looks for more work and wakes all sleepers:
\* none of them is left behind without a call.
LEMMA EndCallKeeps ==
    ASSUME ClientTypes, BackgroundTypes, SchedInv, bg.pc # "idle", bg.pc # "crashed",
           EndCall(has_imm_', manual_compaction_', files', seek', bg_error_'),
           UNCHANGED shutting_down_
    PROVE  SchedInv'
  <1>1. bg_queue \in Nat /\ bg_queue' \in Nat /\ bg_queue = 0
    BY EndCallType DEF BackgroundTypes, SchedInv, OneBackgroundCall
  <1>2. bg' = BgIdle /\ bg'.pc = "idle" /\ SignalAll
    BY DEF EndCall, BgIdle
  <1> DEFINE go == ShouldSchedule(FALSE, has_imm_', manual_compaction_', files', seek', bg_error_')
  <1>3. /\ go => bg_compaction_scheduled_' /\ bg_queue' = bg_queue + 1
        /\ ~go => ~bg_compaction_scheduled_' /\ bg_queue' = bg_queue
    BY Zenon DEF EndCall, MaybeScheduleCompaction
  <1>4. dtor' # "closed" /\ dtor' # "waiting"
        /\ (dtor' \in {"closing", "waiting", "closed"} => dtor \in {"closing", "waiting"})
    <2>1. dtor # "closed"
      BY <1>1 DEF SchedInv, OneBackgroundCall
    <2> QED
      BY <1>2, <2>1 DEF SignalAll
  <1>5. OneBackgroundCall'
    <2>1. CASE go
      BY <1>1, <1>2, <1>3, <1>4, <2>1 DEF OneBackgroundCall
    <2>2. CASE ~go
      BY <1>1, <1>2, <1>3, <1>4, <2>2 DEF OneBackgroundCall
    <2> QED
      BY <2>1, <2>2
  <1>6. WorkScheduled'
    BY <1>3, Zenon DEF ShouldSchedule, WorkScheduled, Work, NeedsCompaction, ScoreReached
  <1>7. SleepersHaveWaker'
    BY <1>2, <1>4 DEF SignalAll, Woken, SleepersHaveWaker
  <1>8. Closing'
    <2>1. dtor' # "open" => dtor # "open"
      BY <1>2 DEF SignalAll
    <2>2. dtor' = "open" => dtor = "open"
      BY <1>2 DEF SignalAll
    <2>3. dtor # "open" => \A t \in Threads : pc'[t] \in {"idle", "dead"}
      BY <1>2 DEF SignalAll, Woken, SchedInv, Closing
    <2>4. dtor' \in {"closing", "waiting", "closed"} => shutting_down_'
      BY <1>4 DEF SchedInv, Closing
    <2> QED
      BY <1>2, <2>1, <2>2, <2>3, <2>4 DEF SchedInv, Closing
  <1> QED
    BY <1>5, <1>6, <1>7, <1>8 DEF SchedInv

\* A step that neither schedules a call nor ends one.
LEMMA SchedQuiet ==
    ASSUME SchedInv, UNCHANGED <<schedVars, endVars>>,
           \/ bg'.pc = bg.pc
           \/ bg.pc # "idle" /\ bg'.pc \notin {"idle", "crashed"},
           bg_error_ => bg_error_',
           Work' => Work \/ bg_compaction_scheduled_,
           \A t \in Threads : pc'[t] \in SleepPC => pc[t] \in SleepPC \/ bg_compaction_scheduled_,
           dtor # "open" => \A t \in Threads : pc'[t] \in {"idle", "dead"}
    PROVE  SchedInv'
  <1> USE DEF schedVars, endVars
  <1>1. OneBackgroundCall'
    BY DEF SchedInv, OneBackgroundCall
  <1>2. WorkScheduled'
    BY DEF SchedInv, WorkScheduled, OneBackgroundCall
  <1>3. SleepersHaveWaker'
    BY DEF SchedInv, SleepersHaveWaker, SleepPC
  <1>4. Closing'
    BY DEF SchedInv, Closing
  <1> QED
    BY <1>1, <1>2, <1>3, <1>4 DEF SchedInv

\* Work depends on imm_, on the request and on the version only.
LEMMA WorkSame ==
    ASSUME UNCHANGED <<has_imm_, manual_compaction_, files, seek>>
    PROVE  Work' = Work
  BY DEF Work, NeedsCompaction, ScoreReached

\* Finish puts nobody to sleep on bg_cv_.
LEMMA FinishPC ==
    ASSUME NEW t \in Threads, NEW n, NEW s, NEW p, Finish(t, n, s, p)
    PROVE  \A u \in Threads : pc'[u] \in SleepPC => pc'[u] = p[u]
  BY Zenon DEF Finish, AfterWrite, SleepPC

\* Steps of a client that leave the scheduling alone.
LEMMA ClientQuiet ==
    ASSUME Typed, SchedInv, NEW t \in Threads, pc[t] \notin {"idle", "dead"},
           UNCHANGED <<schedVars, endVars, bg, has_imm_, manual_compaction_, files, seek>>,
           bg_error_ => bg_error_',
           \A u \in Threads : pc'[u] \in SleepPC => pc[u] \in SleepPC \/ bg_compaction_scheduled_
    PROVE  SchedInv'
  <1>1. Work' = Work
    BY WorkSame
  <1>2. dtor = "open"
    BY DEF SchedInv, Closing
  <1> QED
    BY <1>1, <1>2, SchedQuiet

\* What a thread waits for in MakeRoomForWrite or TEST_CompactMemTable is work.
LEMMA WaitIsScheduled ==
    ASSUME Typed, SchedInv, NEW t \in Threads, pc[t] \notin {"idle", "dead"}, ~bg_error_,
           MustWait \/ has_imm_ \/ manual_compaction_ # NULL
    PROVE  bg_compaction_scheduled_
  <1>1. ~shutting_down_ /\ bg.pc # "crashed"
    BY DEF SchedInv, Closing
  <1>2. files[0] >= StopTrigger => ScoreReached(files)
    <2>1. files[0] \in Nat /\ LevelLimit[0] \in Nat /\ 0 \in 0 .. NumLevels - 2
      BY DBAssumption DEF Typed, TypeOK, VersionTypes, Levels
    <2> QED
      BY <2>1, TriggerAssumption, DBAssumption DEF ScoreReached
  <1>3. Work
    BY <1>2 DEF Work, MustWait, NeedsCompaction
  <1> QED
    BY <1>1, <1>3 DEF SchedInv, WorkScheduled

\* Every step of a client keeps the invariant of the scheduling.
LEMMA SchedClient ==
    ASSUME Typed, SchedInv, NEW t \in Threads, ClientStep(t)
    PROVE  SchedInv'
  <1> USE DEF SleepPC, memVars, verVars, endVars
  <1>t. pc \in [Threads -> PC]
    BY DEF Typed, TypeOK, ClientTypes
  <1>1. CASE Awake(t)
    BY <1>t, <1>1, ClientQuiet DEF Awake, AfterWrite
  <1>2. CASE Room_Wait(t)
    <2>1. CASE pc' = [pc EXCEPT ![t] = "delay"]
      BY <1>t, <1>2, <2>1, ClientQuiet DEF Room_Wait
    <2>2. CASE MustWait /\ pc' = [pc EXCEPT ![t] = "room_wait"]
      <3>1. bg_compaction_scheduled_
        BY <1>2, <2>2, WaitIsScheduled DEF Room_Wait
      <3> QED
        BY <1>t, <1>2, <3>1, ClientQuiet DEF Room_Wait
    <2> QED
      BY <1>2, <2>1, <2>2 DEF Room_Wait
  <1>3. CASE Room_Again(t)
    BY <1>t, <1>3, ClientQuiet DEF Room_Again
  <1>4. CASE Room_Made(t)
    <2>1. \A u \in Threads : pc'[u] \in SleepPC => pc[u] \in SleepPC
      <3>1. CASE Finish(t, 1, "OK", pc)
        BY <3>1, FinishPC
      <3>2. CASE pc' = [pc EXCEPT ![t] = IF w[t].sync THEN "sync" ELSE "insert"]
        BY <1>t, <3>2
      <3> QED
        BY <1>4, <3>1, <3>2 DEF Room_Made, StartGroup
    <2>2. CASE UNCHANGED <<memVars, schedVars>>
      BY <1>4, <2>1, <2>2, ClientQuiet DEF Room_Made
    <2>3. CASE MaybeScheduleCompaction(bg_compaction_scheduled_, TRUE, manual_compaction_,
                                       files, seek, bg_error_)
      <3>1. BackgroundTypes /\ UNCHANGED <<bg, dtor>>
        BY <1>4 DEF Room_Made, Typed, TypeOK
      <3>2. /\ OneBackgroundCall'
            /\ bg_compaction_scheduled_ => bg_compaction_scheduled_'
            /\ ~shutting_down_ /\ ~bg_error_ => bg_compaction_scheduled_'
        BY <2>3, <3>1, ScheduleKeeps
      <3>3. dtor = "open" /\ ~shutting_down_ /\ ~bg_error_
        BY <1>4 DEF Room_Made, SchedInv, Closing
      <3>4. bg_compaction_scheduled_'
        BY <3>2, <3>3
      <3>5. WorkScheduled' /\ SleepersHaveWaker'
        BY <3>4 DEF WorkScheduled, SleepersHaveWaker
      <3>6. Closing'
        BY <1>4, <3>3, Zenon DEF Room_Made, SchedInv, Closing
      <3> QED
        BY <3>2, <3>5, <3>6 DEF SchedInv
    <2> QED
      BY <1>4, <2>2, <2>3 DEF Room_Made
  <1>5. CASE Room_Fails(t)
    BY <1>t, <1>5, FinishPC, ClientQuiet DEF Room_Fails
  <1>6. CASE Sync(t)
    BY <1>t, <1>6, ClientQuiet DEF Sync
  <1>7. CASE Insert(t)
    BY <1>t, <1>7, ClientQuiet DEF Insert
  <1>8. CASE Commit(t)
    <2>1. \A u \in Threads : pc'[u] \in SleepPC => pc[u] \in SleepPC
      <3>1. CASE Finish(t, w[t].group, "OK", pc)
        BY <3>1, FinishPC
      <3>2. CASE Finish(t, w[t].group, "Error", IF bg_error_ THEN pc ELSE Woken)
        <4>1. \A u \in Threads : Woken[u] \in SleepPC => pc[u] \in SleepPC
          BY DEF Woken
        <4> QED
          BY <3>2, <4>1, FinishPC
      <3> QED
        BY <1>8, <3>1, <3>2 DEF Commit
    <2>2. bg_error_ => bg_error_'
      BY <1>8 DEF Commit
    <2> QED
      BY <1>8, <2>1, <2>2, ClientQuiet DEF Commit
  <1>9. CASE MemCheck(t)
    <2>1. CASE has_imm_ /\ ~bg_error_
      <3>1. bg_compaction_scheduled_
        BY <1>9, <2>1, WaitIsScheduled DEF MemCheck
      <3> QED
        BY <1>t, <1>9, <2>1, <3>1, ClientQuiet DEF MemCheck
    <2>2. CASE ~(has_imm_ /\ ~bg_error_)
      BY <1>t, <1>9, <2>2, ClientQuiet DEF MemCheck
    <2> QED
      BY <2>1, <2>2
  <1>10. CASE Manual_Wait(t)
    <2>1. dtor = "open" /\ ~shutting_down_ /\ ~bg_error_
      BY <1>10 DEF Manual_Wait, SchedInv, Closing, Aborted
    <2>2. CASE manual_compaction_ # NULL
      <3>1. bg_compaction_scheduled_
        BY <1>10, <2>1, <2>2, WaitIsScheduled DEF Manual_Wait
      <3> QED
        BY <1>t, <1>10, <2>2, <3>1, ClientQuiet DEF Manual_Wait
    <2>3. CASE manual_compaction_ = NULL
      <3>1. BackgroundTypes /\ UNCHANGED <<bg, dtor>> /\ t # NULL
        BY <1>10, DBAssumption DEF Manual_Wait, Typed, TypeOK
      <3>2. MaybeScheduleCompaction(bg_compaction_scheduled_, has_imm_, t, files, seek, bg_error_)
        BY <1>10, <2>3 DEF Manual_Wait
      <3>3. OneBackgroundCall' /\ bg_compaction_scheduled_'
        BY <2>1, <3>1, <3>2, ScheduleKeeps
      <3>4. WorkScheduled' /\ SleepersHaveWaker'
        BY <3>3 DEF WorkScheduled, SleepersHaveWaker
      <3>5. Closing'
        BY <1>10, <2>1 DEF Manual_Wait, SchedInv, Closing
      <3> QED
        BY <3>3, <3>4, <3>5 DEF SchedInv
    <2> QED
      BY <2>2, <2>3
  <1>11. CASE Manual_Done(t)
    <2>1. Work' => Work
      BY <1>11 DEF Manual_Done, Work, NeedsCompaction, ScoreReached
    <2>2. dtor = "open"
      BY <1>11 DEF Manual_Done, SchedInv, Closing
    <2>3. \A u \in Threads : pc'[u] \in SleepPC => pc[u] \in SleepPC
      BY <1>t, <1>11 DEF Manual_Done
    <2> QED
      BY <1>11, <2>1, <2>2, <2>3, SchedQuiet DEF Manual_Done
  <1> QED
    BY <1>1, <1>2, <1>3, <1>4, <1>5, <1>6, <1>7, <1>8, <1>9, <1>10, <1>11 DEF ClientStep

\* Steps of the background thread inside a call.
LEMMA BackgroundQuiet ==
    ASSUME SchedInv, bg.pc # "idle", bg'.pc \notin {"idle", "crashed"},
           UNCHANGED <<pc, schedVars, endVars, bg_error_>>
    PROVE  SchedInv'
  <1>1. bg_compaction_scheduled_
    BY DEF SchedInv, OneBackgroundCall
  <1>2. dtor # "open" => \A t \in Threads : pc'[t] \in {"idle", "dead"}
    BY DEF SchedInv, Closing
  <1> QED
    BY <1>1, <1>2, SchedQuiet

\* A nested CompactMemTable returns to DoCompactionWork.
LEMMA NestedReturns ==
    ASSUME SchedInv, bg.pc \notin {"idle", "crashed"}, bg'.pc = "merge", SignalAll,
           UNCHANGED <<schedVars, shutting_down_>>
    PROVE  SchedInv'
  <1> USE DEF schedVars
  <1>1. bg_compaction_scheduled_ /\ bg_compaction_scheduled_' /\ dtor # "closed"
    BY DEF SchedInv, OneBackgroundCall
  <1>2. WorkScheduled' /\ SleepersHaveWaker'
    BY <1>1 DEF WorkScheduled, SleepersHaveWaker
  <1>3. OneBackgroundCall'
    BY <1>1 DEF SignalAll, SchedInv, OneBackgroundCall
  <1>4. \A t \in Threads : pc[t] \in {"idle", "dead"} => pc'[t] \in {"idle", "dead"}
    BY DEF SignalAll, Woken
  <1>5. Closing'
    BY <1>4 DEF SignalAll, SchedInv, Closing
  <1> QED
    BY <1>2, <1>3, <1>5 DEF SchedInv

\* The process dies at the dereference of manual_compaction_.
LEMMA CrashKeeps ==
    ASSUME SchedInv, bg.pc \notin {"idle", "crashed"}, bg'.pc = "crashed",
           pc' = [t \in Threads |-> "dead"], dtor' = "dead", UNCHANGED schedVars
    PROVE  SchedInv'
  <1> USE DEF schedVars
  <1>1. bg_compaction_scheduled_'
    BY DEF SchedInv, OneBackgroundCall
  <1>2. OneBackgroundCall'
    BY <1>1 DEF SchedInv, OneBackgroundCall
  <1>3. WorkScheduled' /\ SleepersHaveWaker'
    BY <1>1 DEF WorkScheduled, SleepersHaveWaker
  <1>4. Closing'
    BY DEF Closing
  <1> QED
    BY <1>2, <1>3, <1>4 DEF SchedInv

\* CompactMemTable returns to the end of the call or to the merge.
LEMMA FlushReturnsKeeps ==
    ASSUME Typed, SchedInv, bg.pc \in {"build", "flush_log"},
           FlushReturns(has_imm_', files', seek', bg_error_'),
           UNCHANGED <<shutting_down_, manual_compaction_>>
    PROVE  SchedInv'
  <1>1. CASE bg.nested
    <2>1. bg'.pc = "merge"
      BY <1>1 DEF FlushReturns, Typed, TypeOK, BackgroundTypes, Background
    <2> QED
      BY <1>1, <2>1, NestedReturns DEF FlushReturns
  <1>2. CASE ~bg.nested
    <2>1. EndCall(has_imm_', manual_compaction_', files', seek', bg_error_')
      BY <1>2 DEF FlushReturns
    <2> QED
      BY <2>1, EndCallKeeps DEF Typed, TypeOK
  <1> QED
    BY <1>1, <1>2

\* BackgroundCompaction ends the call, or the process dies.
LEMMA EndCompactionKeeps ==
    ASSUME Typed, SchedInv, bg.pc \in {"merge", "merge_log", "move_log"},
           NEW ok \in BOOLEAN, EndCompaction(ok, files', seek', bg_error_'),
           UNCHANGED <<shutting_down_, has_imm_>>
    PROVE  SchedInv'
  <1>1. CASE bg.manual /\ manual_compaction_ = NULL
    <2>1. bg'.pc = "crashed"
      BY <1>1 DEF EndCompaction, Typed, TypeOK, BackgroundTypes, Background
    <2> QED
      BY <1>1, <2>1, CrashKeeps DEF EndCompaction
  <1>2. CASE ~(bg.manual /\ manual_compaction_ = NULL)
    <2>1. EndCall(has_imm_', manual_compaction_', files', seek', bg_error_')
      <3>1. CASE bg.manual
        BY <1>2, <3>1 DEF EndCompaction
      <3>2. CASE ~bg.manual
        BY <1>2, <3>2 DEF EndCompaction
      <3> QED
        BY <3>1, <3>2
    <2> QED
      BY <2>1, EndCallKeeps DEF Typed, TypeOK
  <1> QED
    BY <1>1, <1>2

\* Every step of the background thread keeps the invariant of the scheduling.
LEMMA SchedBackground ==
    ASSUME Typed, SchedInv, BackgroundStep
    PROVE  SchedInv'
  <1> USE DEF memVars, verVars, endVars
  <1>t. bg \in Background /\ bg_queue \in Nat /\ ClientTypes /\ BackgroundTypes
    BY DEF Typed, TypeOK, BackgroundTypes
  <1>1. CASE BGThread
    <2>1. bg'.pc = "called" /\ bg.pc = "idle"
      BY <1>t, <1>1 DEF BGThread, Background
    <2>2. bg_queue > 0 /\ bg_queue' = bg_queue - 1 /\ UNCHANGED bg_compaction_scheduled_
      BY <1>1 DEF BGThread
    <2>3. bg_compaction_scheduled_ /\ bg_queue = 1
      BY <1>t, <2>2 DEF SchedInv, OneBackgroundCall
    <2>4. OneBackgroundCall'
      BY <1>1, <2>1, <2>2, <2>3 DEF BGThread, SchedInv, OneBackgroundCall
    <2>5. WorkScheduled' /\ SleepersHaveWaker'
      BY <2>2, <2>3 DEF WorkScheduled, SleepersHaveWaker
    <2>6. Closing'
      BY <1>1, <2>1 DEF BGThread, SchedInv, Closing
    <2> QED
      BY <2>4, <2>5, <2>6 DEF SchedInv
  <1>2. CASE BackgroundCall_Nothing
    BY <1>t, <1>2, EndCallKeeps DEF BackgroundCall_Nothing, Called
  <1>3. CASE Manual_Empty
    BY <1>t, <1>3, EndCallKeeps DEF Manual_Empty, RequestDropped, Called
  <1>4. CASE BackgroundCompaction
    <2>1. bg.pc # "idle" /\ bg'.pc \notin {"idle", "crashed"}
      BY <1>t, <1>4, Zenon DEF BackgroundCompaction, Called, Begin, Background
    <2> QED
      BY <1>4, <2>1, BackgroundQuiet DEF BackgroundCompaction
  <1>5. CASE Flush_Built
    <2>1. bg.pc # "idle" /\ bg'.pc \notin {"idle", "crashed"}
      BY <1>t, <1>5 DEF Flush_Built, Background
    <2> QED
      BY <1>5, <2>1, BackgroundQuiet DEF Flush_Built
  <1>6. CASE \E l \in 0 .. MaxMemCompactLevel : Flush_Installed(l)
    <2>1. FlushReturns(has_imm_', files', seek', bg_error_')
      BY <1>6 DEF Flush_Installed
    <2> QED
      BY <1>6, <2>1, FlushReturnsKeeps DEF Flush_Installed
  <1>7. CASE Flush_Fails
    <2>1. FlushReturns(has_imm_', files', seek', bg_error_')
      BY <1>7 DEF Flush_Fails, FlushEnds
    <2> QED
      BY <1>7, <2>1, FlushReturnsKeeps DEF Flush_Fails, FlushEnds
  <1>8. CASE Merge_Step
    <2>1. bg.pc # "idle" /\ bg'.pc \notin {"idle", "crashed"}
      BY <1>t, <1>8 DEF Merge_Step, Background
    <2> QED
      BY <1>8, <2>1, BackgroundQuiet DEF Merge_Step
  <1>9. CASE \E n \in Outputs : Merge_Installed(n)
    <2>1. EndCompaction(TRUE, files', seek', bg_error_')
      BY <1>9 DEF Merge_Installed
    <2> QED
      BY <1>9, <2>1, EndCompactionKeeps DEF Merge_Installed
  <1>10. CASE Merge_Fails
    <2>1. EndCompaction(FALSE, files', seek', bg_error_')
      BY <1>10 DEF Merge_Fails
    <2> QED
      BY <1>10, <2>1, EndCompactionKeeps DEF Merge_Fails
  <1> QED
    BY <1>1, <1>2, <1>3, <1>4, <1>5, <1>6, <1>7, <1>8, <1>9, <1>10 DEF BackgroundStep

\* Every step of the system keeps the invariant of the scheduling.
LEMMA SchedNext == Typed /\ SchedInv /\ [Next]_vars => SchedInv'
  <1> SUFFICES ASSUME Typed, SchedInv, [Next]_vars PROVE SchedInv'
    OBVIOUS
  <1>1. CASE \E t \in Threads : NewCall(t)
    <2>1. PICK t \in Threads, op \in ClientOps, b \in 0 .. MaxBatch, s \in SyncChoices, n \in Levels :
            Enqueue(t, op, b, s, n)
      BY <1>1 DEF NewCall
    <2>2. dtor = "open" /\ pc'= [pc EXCEPT ![t] = FirstPC] /\ pc \in [Threads -> PC]
      BY <2>1 DEF Enqueue, Typed, TypeOK, ClientTypes
    <2>3. \A u \in Threads : pc'[u] \in SleepPC => pc[u] \in SleepPC
      BY <2>2 DEF FirstPC, SleepPC
    <2>4. Work' = Work
      BY <2>1, WorkSame DEF Enqueue, memVars, verVars
    <2> QED
      BY <2>1, <2>2, <2>3, <2>4, SchedQuiet DEF Enqueue
  <1>2. CASE \E t \in Threads : ClientStep(t)
    BY <1>2, SchedClient
  <1>3. CASE BackgroundStep
    BY <1>3, SchedBackground
  <1>4. CASE \E l \in 0 .. NumLevels - 2 : Get_UpdateStats(l)
    <2>1. PICK l \in 0 .. NumLevels - 2 : Get_UpdateStats(l)
      BY <1>4
    <2>2. BackgroundTypes /\ UNCHANGED <<bg, dtor, shutting_down_, bg_error_, pc, has_imm_,
                                       manual_compaction_, files>> /\ seek' = l
      BY <2>1 DEF Get_UpdateStats, Typed, TypeOK, endVars, memVars
    <2>3. MaybeScheduleCompaction(bg_compaction_scheduled_, has_imm_, manual_compaction_, files,
                                  l, bg_error_)
      BY <2>1 DEF Get_UpdateStats
    <2>4. /\ OneBackgroundCall'
          /\ bg_compaction_scheduled_ => bg_compaction_scheduled_'
          /\ (has_imm_ \/ manual_compaction_ # NULL \/ NeedsCompaction(files, l))
                /\ ~shutting_down_ /\ ~bg_error_ => bg_compaction_scheduled_'
      BY <2>2, <2>3, ScheduleKeeps
    <2>5. WorkScheduled'
      <3>1. Work' => has_imm_ \/ manual_compaction_ # NULL \/ NeedsCompaction(files, l)
        BY <2>2 DEF Work, NeedsCompaction, ScoreReached
      <3> QED
        BY <2>2, <2>4, <3>1 DEF WorkScheduled
    <2>6. SleepersHaveWaker'
      BY <2>2, <2>4 DEF SchedInv, SleepersHaveWaker
    <2>7. Closing'
      BY <2>2 DEF SchedInv, Closing
    <2> QED
      BY <2>4, <2>5, <2>6, <2>7 DEF SchedInv
  <1>5. CASE Close
    <2>1. OneBackgroundCall'
      BY <1>5 DEF Close, SchedInv, OneBackgroundCall, schedVars
    <2>2. WorkScheduled'
      BY <1>5 DEF Close, WorkScheduled
    <2>3. SleepersHaveWaker'
      BY <1>5 DEF Close, SchedInv, SleepersHaveWaker, schedVars
    <2>4. Closing'
      BY <1>5 DEF Close, SchedInv, Closing
    <2> QED
      BY <2>1, <2>2, <2>3, <2>4 DEF SchedInv
  <1>6. CASE UNCHANGED vars
    <2>1. Work' = Work
      BY <1>6, WorkSame DEF vars, memVars, verVars
    <2>2. dtor # "open" => \A t \in Threads : pc'[t] \in {"idle", "dead"}
      BY <1>6 DEF vars, SchedInv, Closing
    <2> QED
      BY <1>6, <2>1, <2>2, SchedQuiet DEF vars
  <1> QED
    BY <1>1, <1>2, <1>3, <1>4, <1>5, <1>6 DEF Next, Over
-----------------------------------------------------------------------------
(* The queue of writers *)

\* Where a thread is that is certainly in the queue.
QueuePC == LeaderPC \cup {"cv_wait"}

\* Thread t is in Write and no leader has done its work yet.
InQueue(t) == pc[t] \in QueuePC \/ (pc[t] = "cv_ready" /\ ~w[t].done)

\* No writer is in the queue twice.
Distinct == \A i, j \in 1 .. Len(writers_) : writers_[i] = writers_[j] => i = j

\* Whoever is in the queue is in Write (or the process has died).
QueuedWait ==
    \A i \in 1 .. Len(writers_) : InQueue(writers_[i]) \/ pc[writers_[i]] = "dead"

\* Whoever is in Write and not done is in the queue.
WaitersQueued == \A t \in Threads : InQueue(t) => \E i \in 1 .. Len(writers_) : writers_[i] = t

\* A writer that waits, or leads, has not been completed by a leader.
NotYetDone == \A t \in Threads : pc[t] \in QueuePC => w[t].done = FALSE

\* The inductive invariant of the queue.
QueueInv ==
    /\ Distinct /\ QueuedWait /\ WaitersQueued /\ NotYetDone
    /\ LeaderIsFront /\ FrontIsAwake /\ GroupWithin

\* An empty queue satisfies the invariant.
LEMMA QueueInit == Init => QueueInv
  <1> SUFFICES ASSUME Init PROVE QueueInv
    OBVIOUS
  <1>1. Len(writers_) = 0
    BY DEF Init
  <1>2. writers_ = << >> /\ \A t \in Threads : pc[t] = "idle"
    BY DEF Init
  <1> QED
    BY <1>1, <1>2 DEF QueueInv, Distinct, QueuedWait, WaitersQueued, NotYetDone,
       LeaderIsFront, FrontIsAwake, GroupWithin, InQueue, QueuePC, LeaderPC, GroupPC

\* A step that moves no thread into or out of the queue and leaves the queue as it is.
QueueStep ==
    /\ UNCHANGED writers_
    /\ \A u \in Threads : w'[u].done = w[u].done /\ w'[u].group = w[u].group
    /\ \A u \in Threads :
         \/ pc'[u] = pc[u]
         \/ pc[u] \notin QueuePC \cup {"cv_ready"} /\ pc'[u] \notin QueuePC \cup {"cv_ready"}
         \/ pc[u] \in LeaderPC /\ pc'[u] \in LeaderPC /\ (pc'[u] \in GroupPC => pc[u] \in GroupPC)
    /\ \A u \in Threads : pc[u] = "dead" => pc'[u] = "dead"

\* Such a step keeps the invariant.
LEMMA QueueStepKeeps == ClientTypes /\ QueueInv /\ QueueStep => QueueInv'
  <1> SUFFICES ASSUME ClientTypes, QueueInv, QueueStep PROVE QueueInv'
    OBVIOUS
  <1>1. \A u \in Threads : InQueue(u) <=> InQueue(u)'
    BY DEF QueueStep, InQueue, QueuePC, LeaderPC
  <1>2. \A i \in 1 .. Len(writers_) : writers_[i] \in Threads
    BY DEF ClientTypes
  <1>3. writers_' = writers_
    BY DEF QueueStep
  <1>4. Distinct'
    BY <1>3 DEF QueueInv, Distinct
  <1>5. QueuedWait'
    BY <1>1, <1>2, <1>3 DEF QueueInv, QueuedWait, QueueStep
  <1>6. WaitersQueued'
    BY <1>1, <1>3 DEF QueueInv, WaitersQueued
  <1>7. LeaderIsFront'
    BY <1>3 DEF QueueInv, LeaderIsFront, QueueStep, QueuePC
  <1>8. FrontIsAwake'
    <2>1. ASSUME writers_ # << >> PROVE Head(writers_) \in Threads
      BY <2>1 DEF ClientTypes
    <2> QED
      BY <1>3, <2>1 DEF QueueInv, FrontIsAwake, QueueStep, QueuePC, LeaderPC
  <1>9. GroupWithin'
    BY <1>3 DEF QueueInv, GroupWithin, QueueStep, QueuePC, LeaderPC, GroupPC
  <1>10. NotYetDone'
    BY DEF QueueInv, NotYetDone, QueueStep, QueuePC
  <1> QED
    BY <1>4, <1>5, <1>6, <1>7, <1>8, <1>9, <1>10 DEF QueueInv

\* The end of Write keeps the invariant: it pops the group, wakes every popped follower,
\* and wakes the new front, so that no signal is lost.
LEMMA FinishKeepsQueue ==
    ASSUME ClientTypes, QueueInv, NEW t \in Threads, pc[t] \in LeaderPC,
           NEW n \in 1 .. Len(writers_), NEW s \in Status, NEW p, p = pc \/ p = Woken,
           Finish(t, n, s, p)
    PROVE  QueueInv'
  <1> DEFINE popped == {writers_[i] : i \in 1 .. n}
             rest == SubSeq(writers_, n + 1, Len(writers_))
  <1>1. /\ writers_ \in Seq(Threads) /\ Len(writers_) \in Nat
        /\ \A i \in 1 .. Len(writers_) : writers_[i] \in Threads
        /\ pc \in [Threads -> PC]
    BY DEF ClientTypes
  <1>2. /\ writers_' \in Seq(Threads)
        /\ Len(writers_') = Len(writers_) - n
        /\ \A i \in 1 .. Len(writers_') : writers_'[i] = writers_[n + i]
    <2>1. writers_' = rest
      BY DEF Finish
    <2>2. \A i \in n + 1 .. Len(writers_) : writers_[i] \in Threads
      BY <1>1
    <2>3. /\ rest \in Seq(Threads)
          /\ Len(rest) = IF n + 1 <= Len(writers_) THEN Len(writers_) - (n + 1) + 1 ELSE 0
          /\ \A i \in 1 .. Len(writers_) - (n + 1) + 1 : rest[i] = writers_[n + 1 + i - 1]
      BY <1>1, <2>2, SubSeqProperties
    <2>4. Len(rest) = Len(writers_) - n
      BY <1>1, <2>3
    <2>5. /\ Len(writers_) - (n + 1) + 1 = Len(writers_) - n
          /\ \A i \in 1 .. Len(writers_) - n : n + 1 + i - 1 = n + i
      BY <1>1
    <2>6. \A i \in 1 .. Len(writers_) - n : rest[i] = writers_[n + i]
      BY <2>3, <2>5, Zenon
    <2> QED
      BY <2>1, <2>3, <2>4, <2>6, Zenon
  <1>3. writers_[1] = t /\ t \in popped
    <2>1. writers_ # << >> /\ Head(writers_) = t
      BY DEF QueueInv, LeaderIsFront
    <2>2. writers_[1] = Head(writers_)
      BY <1>1, <2>1
    <2> QED
      BY <2>1, <2>2
  <1>4. \A i \in 1 .. Len(writers_') : writers_'[i] \notin popped /\ writers_'[i] \in Threads
    <2> SUFFICES ASSUME NEW i \in 1 .. Len(writers_')
                 PROVE  writers_[n + i] \notin popped /\ writers_[n + i] \in Threads
      BY <1>2
    <2>1. n + i \in 1 .. Len(writers_) /\ n + i > n
      BY <1>1, <1>2
    <2>2. \A j \in 1 .. n : j \in 1 .. Len(writers_) /\ j # n + i
      BY <1>1, <2>1
    <2>3. \A j \in 1 .. n : writers_[j] # writers_[n + i]
      BY <2>1, <2>2 DEF QueueInv, Distinct
    <2> QED
      BY <1>1, <2>1, <2>3
  <1>5. \A u \in Threads : u # t => pc[u] \notin LeaderPC
    BY <1>3 DEF QueueInv, LeaderIsFront
  <1>6. /\ \A u \in Threads : u \in popped => w'[u].done = TRUE
        /\ \A u \in Threads : u \notin popped => w'[u] = w[u]
    <2>1. ASSUME NEW u \in Threads
          PROVE  w'[u] = IF u \in popped
                         THEN [w[u] EXCEPT !.done = TRUE, !.status = s, !.group = 0,
                                           !.inserted = 0]
                         ELSE w[u]
      BY DEF Finish
    <2>2. ASSUME NEW u \in Threads
          PROVE  [w[u] EXCEPT !.done = TRUE, !.status = s, !.group = 0, !.inserted = 0].done
                   = TRUE
      BY DEF ClientTypes, Writer
    <2> QED
      BY <2>1, <2>2
  <1>7. \A u \in Threads : pc'[u] = IF u = t THEN AfterWrite(t, s)
                                   ELSE IF Signalled(u, popped, rest) /\ p[u] = "cv_wait"
                                   THEN "cv_ready" ELSE p[u]
    BY DEF Finish
  <1>8. AfterWrite(t, s) \notin QueuePC \cup {"cv_ready", "dead"}
    BY DEF AfterWrite, QueuePC, LeaderPC
  <1>9. \A u \in Threads : u # t =>
           /\ pc[u] \in QueuePC \cup {"cv_ready", "dead"} => p[u] = pc[u]
           /\ p[u] \in QueuePC \cup {"cv_ready", "dead"} => p[u] = pc[u]
    BY <1>1, <1>5 DEF Woken, QueuePC, LeaderPC, PC
  <1>10. \A u \in Threads : u \notin popped =>
            pc'[u] = p[u] \/ (pc[u] = "cv_wait" /\ pc'[u] = "cv_ready")
    BY <1>3, <1>7, <1>9 DEF QueuePC
  <1>11. \A u \in popped : u \in Threads /\ ~InQueue(u)'
    <2> SUFFICES ASSUME NEW u \in popped PROVE u \in Threads /\ ~InQueue(u)'
      OBVIOUS
    <2>1. u \in Threads /\ (InQueue(u) \/ pc[u] = "dead")
      <3>1. PICK i \in 1 .. n : u = writers_[i]
        OBVIOUS
      <3>2. i \in 1 .. Len(writers_)
        BY <1>1
      <3> QED
        BY <1>1, <3>1, <3>2, Zenon DEF QueueInv, QueuedWait
    <2>2. CASE u = t
      BY <1>7, <1>8, <2>1, <2>2 DEF InQueue
    <2>3. CASE u # t
      <3>1. pc'[u] = "cv_ready" \/ pc'[u] = "dead"
        BY <1>5, <1>7, <1>9, <2>1, <2>3 DEF InQueue, QueuePC, Signalled
      <3>2. w'[u].done = TRUE
        BY <1>6, <2>1
      <3> QED
        BY <2>1, <3>1, <3>2 DEF InQueue, QueuePC, LeaderPC
    <2> QED
      BY <2>2, <2>3
  <1>12. \A u \in Threads : u \notin popped => (InQueue(u)' <=> InQueue(u))
    <2> SUFFICES ASSUME NEW u \in Threads, u \notin popped PROVE InQueue(u)' <=> InQueue(u)
      OBVIOUS
    <2>1. w'[u].done = w[u].done /\ u # t
      BY <1>3, <1>6
    <2>2. CASE pc'[u] = p[u]
      BY <1>9, <2>1, <2>2 DEF InQueue, QueuePC
    <2>3. CASE pc[u] = "cv_wait" /\ pc'[u] = "cv_ready"
      BY <2>1, <2>3 DEF InQueue, QueuePC, QueueInv, NotYetDone
    <2> QED
      BY <1>10, <2>2, <2>3
  <1>13. Distinct'
    <2> SUFFICES ASSUME NEW i \in 1 .. Len(writers_'), NEW j \in 1 .. Len(writers_'),
                        writers_[n + i] = writers_[n + j]
                 PROVE  i = j
      BY <1>2 DEF Distinct
    <2>1. n + i \in 1 .. Len(writers_) /\ n + j \in 1 .. Len(writers_)
      BY <1>1, <1>2
    <2>2. n + i = n + j
      BY <2>1 DEF QueueInv, Distinct
    <2> QED
      BY <2>2
  <1>14. QueuedWait'
    <2> SUFFICES ASSUME NEW i \in 1 .. Len(writers_'), NEW u \in Threads, u = writers_'[i]
                 PROVE  InQueue(u)' \/ pc'[u] = "dead"
      BY <1>4 DEF QueuedWait, InQueue
    <2>1. u \notin popped /\ (InQueue(u) \/ pc[u] = "dead")
      BY <1>1, <1>2, <1>4 DEF QueueInv, QueuedWait
    <2>2. CASE InQueue(u)
      BY <1>12, <2>1, <2>2
    <2>3. CASE pc[u] = "dead"
      BY <1>3, <1>9, <1>10, <2>1, <2>3
    <2> QED
      BY <2>1, <2>2, <2>3
  <1>15. WaitersQueued'
    <2> SUFFICES ASSUME NEW u \in Threads, InQueue(u)'
                 PROVE  \E i \in 1 .. Len(writers_') : writers_'[i] = u
      BY DEF WaitersQueued, InQueue
    <2>1. u \notin popped
      BY <1>11
    <2>2. PICK j \in 1 .. Len(writers_) : writers_[j] = u
      BY <1>12, <2>1 DEF QueueInv, WaitersQueued
    <2>3. j \notin 1 .. n
      BY <2>1, <2>2
    <2>4. j - n \in 1 .. Len(writers_') /\ n + (j - n) = j
      BY <1>1, <1>2, <2>3
    <2> QED
      BY <1>2, <2>2, <2>4
  <1>16. NotYetDone'
    <2> SUFFICES ASSUME NEW u \in Threads, pc'[u] \in QueuePC PROVE w'[u].done = FALSE
      BY DEF NotYetDone
    <2>1. u \notin popped
      BY <1>11 DEF InQueue
    <2>2. pc[u] \in QueuePC
      BY <1>3, <1>9, <1>10, <2>1 DEF QueuePC, LeaderPC
    <2> QED
      BY <1>6, <2>1, <2>2 DEF QueueInv, NotYetDone
  <1>17. \A u \in Threads : pc'[u] \notin LeaderPC
    BY <1>5, <1>7, <1>8, <1>9 DEF QueuePC, LeaderPC
  <1>18. LeaderIsFront' /\ GroupWithin'
    BY <1>17 DEF LeaderIsFront, GroupWithin, GroupPC, LeaderPC
  <1>19. FrontIsAwake'
    <2> SUFFICES ASSUME writers_' # << >>, NEW u \in Threads, u = Head(writers_')
                 PROVE  pc'[u] # "cv_wait"
      BY <1>2 DEF FrontIsAwake
    <2>1. u = writers_'[1] /\ 1 \in 1 .. Len(writers_')
      BY <1>2
    <2>2. u # t
      BY <1>3, <1>4, <2>1
    <2>3. rest = writers_'
      BY DEF Finish
    <2>4. Signalled(u, popped, rest)
      BY <2>3 DEF Signalled
    <2> QED
      BY <1>7, <2>2, <2>4
  <1> QED
    BY <1>13, <1>14, <1>15, <1>16, <1>18, <1>19 DEF QueueInv

\* bg_cv_.SignalAll() moves nobody into or out of the queue.
LEMMA WokenStep ==
    ASSUME ClientTypes, SignalAll, UNCHANGED <<writers_, w>>
    PROVE  QueueStep
  BY DEF ClientTypes, PC, SignalAll, Woken, QueueStep, QueuePC, LeaderPC, GroupPC

\* The death of the process keeps the invariant.
LEMMA CrashKeepsQueue ==
    ASSUME ClientTypes, QueueInv, UNCHANGED <<writers_, w>>,
           pc' = [t \in Threads |-> "dead"]
    PROVE  QueueInv'
  <1>1. \A t \in Threads : pc'[t] = "dead"
    OBVIOUS
  <1>2. \A i \in 1 .. Len(writers_) : writers_[i] \in Threads
    BY DEF ClientTypes
  <1>3. writers_' = writers_
    OBVIOUS
  <1>4. FrontIsAwake'
    <2>1. writers_ # << >> => Head(writers_) \in Threads
      BY DEF ClientTypes
    <2> QED
      BY <1>1, <1>3, <2>1 DEF FrontIsAwake
  <1> QED
    BY <1>1, <1>2, <1>3, <1>4 DEF QueueInv, Distinct, QueuedWait, WaitersQueued, NotYetDone,
       LeaderIsFront, GroupWithin, InQueue, QueuePC, LeaderPC, GroupPC

\* BuildBatchGroup keeps the invariant: the group is a prefix of the queue.
LEMMA GroupStartKeepsQueue ==
    ASSUME ClientTypes, QueueInv, NEW t \in Threads, pc[t] = "room",
           \E n \in 1 .. Len(writers_) :
             /\ BuildBatchGroup(n)
             /\ w' = [w EXCEPT ![t].group = n]
             /\ pc' = [pc EXCEPT ![t] = IF w[t].sync THEN "sync" ELSE "insert"]
             /\ UNCHANGED writers_
    PROVE  QueueInv'
  <1>1. PICK n \in 1 .. Len(writers_) :
             /\ w' = [w EXCEPT ![t].group = n]
             /\ pc' = [pc EXCEPT ![t] = IF w[t].sync THEN "sync" ELSE "insert"]
             /\ UNCHANGED writers_
    OBVIOUS
  <1>2. /\ \A u \in Threads : w'[u].done = w[u].done
        /\ \A u \in Threads : u # t => w'[u] = w[u]
        /\ w'[t].group = n
    <2>1. w' = [w EXCEPT ![t].group = n]
      BY <1>1
    <2>2. w \in [Threads -> Writer]
      BY DEF ClientTypes
    <2>3. [w[t] EXCEPT !.group = n].group = n /\ [w[t] EXCEPT !.group = n].done = w[t].done
      BY <2>2 DEF Writer
    <2> QED
      BY <2>1, <2>2, <2>3
  <1>3. /\ \A u \in Threads : u # t => pc'[u] = pc[u]
        /\ pc'[t] \in GroupPC
    BY <1>1 DEF ClientTypes, GroupPC
  <1>4. writers_' = writers_ /\ \A i \in 1 .. Len(writers_) : writers_[i] \in Threads
    BY <1>1 DEF ClientTypes
  <1>5. \A u \in Threads : (InQueue(u) <=> InQueue(u)') /\ (pc'[u] \in LeaderPC <=> pc[u] \in LeaderPC)
                             /\ (pc'[u] \in QueuePC <=> pc[u] \in QueuePC)
                             /\ (pc'[u] = "dead" <=> pc[u] = "dead")
                             /\ (pc'[u] = "cv_wait" => pc[u] = "cv_wait")
    BY <1>2, <1>3 DEF InQueue, QueuePC, LeaderPC, GroupPC
  <1>6. Distinct' /\ QueuedWait' /\ WaitersQueued'
    BY <1>4, <1>5 DEF QueueInv, Distinct, QueuedWait, WaitersQueued
  <1>7. NotYetDone' /\ LeaderIsFront'
    BY <1>2, <1>4, <1>5 DEF QueueInv, NotYetDone, LeaderIsFront
  <1>8. FrontIsAwake'
    <2>1. writers_ # << >> => Head(writers_) \in Threads
      BY DEF ClientTypes
    <2> QED
      BY <1>4, <1>5, <2>1 DEF QueueInv, FrontIsAwake
  <1>9. GroupWithin'
    BY <1>1, <1>2, <1>3, <1>4 DEF QueueInv, GroupWithin
  <1> QED
    BY <1>6, <1>7, <1>8, <1>9 DEF QueueInv

\* A writer that wakes up returns if it is done, else it is still queued and leads only
\* if it is at the front.
LEMMA AwakeKeepsQueue ==
    ASSUME ClientTypes, QueueInv, NEW t \in Threads, Awake(t)
    PROVE  QueueInv'
  <1>1. /\ writers_' = writers_ /\ w' = w /\ pc[t] = "cv_ready"
        /\ \A u \in Threads : u # t => pc'[u] = pc[u]
    BY DEF Awake, ClientTypes
  <1>2. \A i \in 1 .. Len(writers_) : writers_[i] \in Threads
    BY DEF ClientTypes
  <1>3. writers_ # << >> => Head(writers_) \in Threads
    BY DEF ClientTypes
  <1>4. CASE w[t].done
    <2>1. pc'[t] \notin QueuePC \cup {"cv_ready", "dead"}
      BY <1>4 DEF Awake, ClientTypes, AfterWrite, QueuePC, LeaderPC
    <2>2. ~InQueue(t) /\ ~InQueue(t)'
      BY <1>1, <1>4, <2>1 DEF InQueue, QueuePC, LeaderPC
    <2>3. \A u \in Threads : InQueue(u) <=> InQueue(u)'
      BY <1>1, <2>2 DEF InQueue
    <2>4. Distinct' /\ QueuedWait' /\ WaitersQueued'
      BY <1>1, <1>2, <2>3 DEF QueueInv, Distinct, QueuedWait, WaitersQueued
    <2> QED
      BY <1>1, <1>3, <2>1, <2>4 DEF QueueInv, NotYetDone, LeaderIsFront, FrontIsAwake,
         GroupWithin, QueuePC, LeaderPC, GroupPC
  <1>5. CASE ~w[t].done
    <2>1. pc'[t] = IF Head(writers_) = t THEN "room" ELSE "cv_wait"
      BY <1>5 DEF Awake, ClientTypes
    <2>2. InQueue(t) /\ InQueue(t)'
      BY <1>1, <1>5, <2>1 DEF InQueue, QueuePC, LeaderPC
    <2>3. \A u \in Threads : InQueue(u) <=> InQueue(u)'
      BY <1>1, <2>2 DEF InQueue
    <2>4. Distinct' /\ QueuedWait' /\ WaitersQueued'
      BY <1>1, <1>2, <2>3 DEF QueueInv, Distinct, QueuedWait, WaitersQueued
    <2>5. writers_ # << >>
      BY <2>2 DEF QueueInv, WaitersQueued
    <2>6. LeaderIsFront' /\ FrontIsAwake' /\ GroupWithin'
      BY <1>1, <1>3, <2>1, <2>5 DEF QueueInv, LeaderIsFront, FrontIsAwake, GroupWithin,
         LeaderPC, GroupPC
    <2>7. NotYetDone'
      <3>1. w[t].done = FALSE
        BY <1>5 DEF ClientTypes, Writer
      <3> QED
        BY <1>1, <3>1 DEF QueueInv, NotYetDone
    <2> QED
      BY <2>4, <2>6, <2>7 DEF QueueInv
  <1> QED
    BY <1>4, <1>5

\* A queue that is one longer.
LEMMA Appended ==
    ASSUME NEW q \in Seq(Threads), NEW t \in Threads
    PROVE  /\ Append(q, t) \in Seq(Threads) /\ Len(Append(q, t)) = Len(q) + 1
           /\ \A i \in 1 .. Len(q) : Append(q, t)[i] = q[i]
           /\ Append(q, t)[Len(q) + 1] = t
  BY AppendProperties

LEMMA LastOrBefore ==
    ASSUME NEW n \in Nat, NEW i \in 1 .. n + 1
    PROVE  i \in 1 .. n \/ i = n + 1
  OBVIOUS

\* writers_.push_back(&w) keeps the invariant: w was not in the queue.
LEMMA EnqueueKeepsQueue ==
    ASSUME ClientTypes, QueueInv, NEW t \in Threads, NEW op, NEW b, NEW sync, NEW n,
           Enqueue(t, op, b, sync, n)
    PROVE  QueueInv'
  <1>1. /\ pc[t] = "idle" /\ writers_' = Append(writers_, t)
        /\ pc' = [pc EXCEPT ![t] = FirstPC]
    BY Zenon DEF Enqueue
  <1>2. /\ w'[t].done = FALSE
        /\ \A u \in Threads : u # t => w'[u] = w[u] /\ pc'[u] = pc[u]
    BY DEF Enqueue, ClientTypes
  <1>3. /\ writers_ \in Seq(Threads) /\ Len(writers_) \in Nat
        /\ \A i \in 1 .. Len(writers_) : writers_[i] \in Threads
    BY DEF ClientTypes
  <1>4. /\ writers_' \in Seq(Threads) /\ Len(writers_') = Len(writers_) + 1
        /\ \A i \in 1 .. Len(writers_) : writers_'[i] = writers_[i]
        /\ writers_'[Len(writers_) + 1] = t
    <2>1. /\ Append(writers_, t) \in Seq(Threads) /\ Len(Append(writers_, t)) = Len(writers_) + 1
          /\ \A i \in 1 .. Len(writers_) : Append(writers_, t)[i] = writers_[i]
          /\ Append(writers_, t)[Len(writers_) + 1] = t
      BY <1>3, Appended, Zenon
    <2> QED
      BY <1>1, <2>1, Zenon
  <1>5. \A i \in 1 .. Len(writers_) : writers_[i] # t
    BY <1>1 DEF QueueInv, QueuedWait, InQueue, QueuePC, LeaderPC
  <1>6. pc'[t] = IF writers_ = << >> THEN "room" ELSE "cv_wait"
    BY <1>1 DEF FirstPC, ClientTypes
  <1>7. InQueue(t)' /\ \A u \in Threads : u # t => (InQueue(u) <=> InQueue(u)')
    <2>1. InQueue(t)'
      BY <1>6 DEF InQueue, QueuePC, LeaderPC
    <2>2. \A u \in Threads : u # t => (InQueue(u) <=> InQueue(u)')
      BY <1>2, Zenon DEF InQueue
    <2> QED
      BY <2>1, <2>2
  <1>8. Distinct'
    BY <1>3, <1>4, <1>5 DEF QueueInv, Distinct
  <1>9. QueuedWait'
    <2> SUFFICES ASSUME NEW i \in 1 .. Len(writers_'), NEW u \in Threads, u = writers_'[i]
                 PROVE  InQueue(u)' \/ pc'[u] = "dead"
      BY <1>4 DEF QueuedWait, InQueue
    <2>1. CASE i \in 1 .. Len(writers_)
      <3>1. u = writers_[i] /\ u # t
        BY <1>4, <1>5, <2>1, Zenon
      <3>2. InQueue(u) \/ pc[u] = "dead"
        BY <2>1, <3>1, Zenon DEF QueueInv, QueuedWait
      <3> QED
        BY <1>2, <1>7, <3>1, <3>2, Zenon
    <2>2. CASE i = Len(writers_) + 1
      BY <1>4, <1>7, <2>2, Zenon
    <2>3. i \in 1 .. Len(writers_) + 1
      BY <1>4, Zenon
    <2> QED
      BY <1>3, <2>1, <2>2, <2>3, LastOrBefore, Zenon
  <1>10. WaitersQueued'
    <2> SUFFICES ASSUME NEW u \in Threads, InQueue(u)'
                 PROVE  \E i \in 1 .. Len(writers_') : writers_'[i] = u
      BY DEF WaitersQueued, InQueue
    <2>1. CASE u = t
      <3>1. Len(writers_) + 1 \in 1 .. Len(writers_')
        BY <1>3, <1>4
      <3> QED
        BY <1>4, <2>1, <3>1
    <2>2. CASE u # t
      <3>1. PICK i \in 1 .. Len(writers_) : writers_[i] = u
        BY <1>7, <2>2 DEF QueueInv, WaitersQueued
      <3>2. i \in 1 .. Len(writers_')
        BY <1>3, <1>4
      <3> QED
        BY <1>4, <3>1, <3>2
    <2> QED
      BY <2>1, <2>2
  <1>11. NotYetDone'
    BY <1>2 DEF QueueInv, NotYetDone
  <1>12. /\ writers_' # << >>
         /\ writers_ = << >> => Head(writers_') = t
         /\ writers_ # << >> => Head(writers_') = Head(writers_) /\ Head(writers_) \in Threads
                                 /\ Head(writers_) # t
    <2>1. writers_' # << >> /\ Head(writers_') = writers_'[1]
      BY <1>3, <1>4
    <2>2. CASE writers_ = << >>
      BY <1>4, <2>1, <2>2
    <2>3. CASE writers_ # << >>
      <3>1. 1 \in 1 .. Len(writers_) /\ Head(writers_) = writers_[1]
        BY <1>3, <2>3
      <3> QED
        BY <1>3, <1>4, <1>5, <2>1, <2>3, <3>1
    <2> QED
      BY <2>1, <2>2, <2>3
  <1>13. LeaderIsFront' /\ FrontIsAwake'
    BY <1>2, <1>6, <1>12 DEF QueueInv, LeaderIsFront, FrontIsAwake, LeaderPC
  <1>14. GroupWithin'
    <2>1. pc'[t] \notin GroupPC
      BY <1>6 DEF GroupPC
    <2>2. 1 .. Len(writers_) \subseteq 1 .. Len(writers_')
      BY <1>3, <1>4
    <2> QED
      BY <1>2, <2>1, <2>2 DEF QueueInv, GroupWithin
  <1> QED
    BY <1>8, <1>9, <1>10, <1>11, <1>13, <1>14 DEF QueueInv

\* Every step of the system keeps the invariant of the queue.
LEMMA QueueNext == Typed /\ QueueInv /\ [Next]_vars => QueueInv'
  <1> SUFFICES ASSUME Typed, QueueInv, [Next]_vars PROVE QueueInv'
    OBVIOUS
  <1>0. ClientTypes
    BY DEF Typed, TypeOK
  <1>1. ASSUME NEW t \in Threads, NEW op \in ClientOps, NEW b \in 0 .. MaxBatch,
               NEW sync \in SyncChoices, NEW n \in Levels, Enqueue(t, op, b, sync, n)
        PROVE  QueueInv'
    BY <1>0, <1>1, EnqueueKeepsQueue
  <1>2. ASSUME NEW t \in Threads, Awake(t)
        PROVE  QueueInv'
    BY <1>0, <1>2, AwakeKeepsQueue
  <1>3. ASSUME NEW t \in Threads, Room_Wait(t) \/ Room_Again(t)
        PROVE  QueueInv'
    <2>1. \A u \in Threads : w'[u].done = w[u].done /\ w'[u].group = w[u].group
      <3>1. w \in [Threads -> Writer]
        BY <1>0 DEF ClientTypes
      <3>2. w' = w \/ w' = [w EXCEPT ![t].allow_delay = FALSE]
        BY <1>3 DEF Room_Wait, Room_Again
      <3> QED
        BY <3>1, <3>2 DEF Writer
    <2>2. QueueStep
      BY <1>0, <1>3, <2>1 DEF Room_Wait, Room_Again, ClientTypes, QueueStep, QueuePC,
         LeaderPC, GroupPC
    <2> QED
      BY <1>0, <2>2, QueueStepKeeps
  <1>4. ASSUME NEW t \in Threads, Room_Made(t)
        PROVE  QueueInv'
    <2>1. pc[t] = "room" /\ pc[t] \in LeaderPC /\ StartGroup(t)
      BY <1>4, Zenon DEF Room_Made, LeaderPC
    <2>2. CASE w[t].batch = 0
      <3>1. "OK" \in Status /\ Finish(t, 1, "OK", pc)
        BY <2>1, <2>2 DEF StartGroup, Status
      <3>2. 1 \in 1 .. Len(writers_)
        BY <1>0, <2>1 DEF QueueInv, LeaderIsFront, ClientTypes
      <3> QED
        BY <1>0, <2>1, <3>1, <3>2, FinishKeepsQueue
    <2>3. CASE w[t].batch # 0
      BY <1>0, <2>1, <2>3, GroupStartKeepsQueue DEF StartGroup
    <2> QED
      BY <2>2, <2>3
  <1>5. ASSUME NEW t \in Threads, Room_Fails(t)
        PROVE  QueueInv'
    <2>1. "Error" \in Status /\ pc[t] \in LeaderPC /\ Finish(t, 1, "Error", pc)
      BY <1>5 DEF Room_Fails, Status, LeaderPC
    <2>2. 1 \in 1 .. Len(writers_)
      BY <1>0, <2>1 DEF QueueInv, LeaderIsFront, ClientTypes
    <2> QED
      BY <1>0, <2>1, <2>2, FinishKeepsQueue
  <1>6. ASSUME NEW t \in Threads, Sync(t)
        PROVE  QueueInv'
    <2>1. QueueStep
      BY <1>0, <1>6 DEF Sync, ClientTypes, QueueStep, QueuePC, LeaderPC, GroupPC
    <2> QED
      BY <1>0, <2>1, QueueStepKeeps
  <1>7. ASSUME NEW t \in Threads, Insert(t)
        PROVE  QueueInv'
    <2>1. \A u \in Threads : w'[u].done = w[u].done /\ w'[u].group = w[u].group
      BY <1>0, <1>7 DEF Insert, ClientTypes, Writer
    <2>2. QueueStep
      BY <1>7, <2>1 DEF Insert, QueueStep
    <2> QED
      BY <1>0, <2>2, QueueStepKeeps
  <1>8. ASSUME NEW t \in Threads, Commit(t)
        PROVE  QueueInv'
    <2>1. pc[t] \in LeaderPC /\ pc[t] \in GroupPC
      BY <1>8 DEF Commit, LeaderPC, GroupPC
    <2>2. w[t].group \in 1 .. Len(writers_)
      BY <2>1 DEF QueueInv, GroupWithin
    <2>3. PICK s \in Status, p \in {pc, Woken} : Finish(t, w[t].group, s, p)
      BY <1>8, Zenon DEF Commit, Status
    <2> QED
      BY <1>0, <2>1, <2>2, <2>3, FinishKeepsQueue
  <1>9. ASSUME NEW t \in Threads, MemCheck(t)
        PROVE  QueueInv'
    <2>1. \A u \in Threads : w'[u].done = w[u].done /\ w'[u].group = w[u].group
      <3>1. w \in [Threads -> Writer]
        BY <1>0 DEF ClientTypes
      <3>2. w' = w \/ \E s : w' = [w EXCEPT ![t].status = s]
        BY <1>9 DEF MemCheck
      <3> QED
        BY <3>1, <3>2 DEF Writer
    <2>2. QueueStep
      BY <1>0, <1>9, <2>1 DEF MemCheck, ClientTypes, QueueStep, QueuePC, LeaderPC, GroupPC
    <2> QED
      BY <1>0, <2>2, QueueStepKeeps
  <1>10. ASSUME NEW t \in Threads, Manual_Wait(t) \/ Manual_Done(t)
         PROVE  QueueInv'
    <2>1. QueueStep
      BY <1>0, <1>10 DEF Manual_Wait, Manual_Done, ClientTypes, QueueStep, QueuePC, LeaderPC,
         GroupPC
    <2> QED
      BY <1>0, <2>1, QueueStepKeeps
  <1>11. CASE BGThread \/ BackgroundCompaction \/ Flush_Built \/ Merge_Step \/ Close
              \/ \E l \in 0 .. NumLevels - 2 : Get_UpdateStats(l)
    <2>1. UNCHANGED <<pc, w, writers_>>
      BY <1>11 DEF BGThread, BackgroundCompaction, Flush_Built, Merge_Step, Close,
         Get_UpdateStats
    <2>2. QueueStep
      BY <2>1 DEF QueueStep
    <2> QED
      BY <1>0, <2>2, QueueStepKeeps
  <1>12. CASE BackgroundCall_Nothing \/ Manual_Empty \/ Flush_Fails
              \/ \E l \in 0 .. MaxMemCompactLevel : Flush_Installed(l)
    <2>1. SignalAll /\ UNCHANGED <<writers_, w>>
      BY <1>12, Zenon DEF BackgroundCall_Nothing, Manual_Empty, RequestDropped, Flush_Fails,
         FlushEnds, Flush_Installed, FlushReturns, EndCall
    <2> QED
      BY <1>0, <2>1, WokenStep, QueueStepKeeps
  <1>13. CASE Merge_Fails \/ \E n \in Outputs : Merge_Installed(n)
    <2>1. UNCHANGED <<writers_, w>>
      BY <1>13, Zenon DEF Merge_Fails, Merge_Installed
    <2>2. SignalAll \/ pc' = [t \in Threads |-> "dead"]
      BY <1>13, Zenon DEF Merge_Fails, Merge_Installed, EndCompaction, EndCall
    <2>3. CASE SignalAll
      BY <1>0, <2>1, <2>3, WokenStep, QueueStepKeeps
    <2>4. CASE pc' = [t \in Threads |-> "dead"]
      BY <1>0, <2>1, <2>4, CrashKeepsQueue
    <2> QED
      BY <2>2, <2>3, <2>4
  <1>14. CASE UNCHANGED vars
    <2>1. QueueStep
      BY <1>14 DEF QueueStep, vars
    <2> QED
      BY <1>0, <2>1, QueueStepKeeps
  <1> QED
    BY <1>1, <1>2, <1>3, <1>4, <1>5, <1>6, <1>7, <1>8, <1>9, <1>10, <1>11, <1>12, <1>13,
       <1>14 DEF Next, NewCall, ClientStep, BackgroundStep, Over
=============================================================================
