--------------------------- MODULE DBImplTheorems ---------------------------
(***************************************************************************)
(* The theorems about DBImpl, for any number of threads, any batches and   *)
(* any triggers that satisfy DBAssumption and TriggerAssumption.           *)
(*                                                                         *)
(* What is in mem_, imm_ and the tables has sequence numbers up to         *)
(* last_sequence_ and, while the one leader inserts, up to what it has     *)
(* inserted (Bound); it never inserts more than the count by which         *)
(* last_sequence_ then grows (InsertedWithin).                             *)
(*                                                                         *)
(* What a write that has returned leaves in the database comes next: the   *)
(* operations of a thread's last call are followed from the queue, where   *)
(* there are none (Waiting), through the insertion, where the group's k-th *)
(* operation has the sequence number last_sequence_ + k (Inserting), to the*)
(* return, where the whole batch is published or nothing is (Returned).    *)
(***************************************************************************)
EXTENDS DBImplControl

(* The entries *)

\* has_imm_ is clear only when imm_ is NULL.
NoImm == ~has_imm_ => imm_ = {}

\* No entry is above the published sequence number but those being inserted.
Bound ==
    dtor = "open" => \A e \in Entries :
        \/ e.seq <= last_sequence_
        \/ \E t \in Threads : pc[t] = "insert" /\ e.seq <= last_sequence_ + w[t].inserted

\* InsertInto adds at most Count(updates) operations, and starts at none.
InsertedWithin ==
    \A t \in Threads :
        /\ pc[t] = "insert" => w[t].inserted <= Count(t)
        /\ pc[t] \notin {"insert", "dead"} => w[t].inserted = 0

\* The inductive invariant of the data.
DataInv == NoImm /\ SequencesUnique /\ Bound /\ InsertedWithin

\* A new database has no entries.
LEMMA DataInit == Init => DataInv
  BY DEF Init, DataInv, NoImm, SequencesUnique, Bound, InsertedWithin, Entries

\* Two threads are never both past the front-of-queue test.
LEMMA OneLeader ==
    ASSUME QueueInv, NEW t \in Threads, NEW u \in Threads, pc[t] \in LeaderPC, pc[u] \in LeaderPC
    PROVE  t = u
  BY DEF QueueInv, LeaderIsFront

\* The size of the first n batches depends on those batches only.
LEMMA GroupSizeSame ==
    ASSUME NEW n \in Nat,
           \A i \in 1 .. n : w'[writers_'[i]].batch = w[writers_[i]].batch
    PROVE  GroupSize(n)' = GroupSize(n)
  <1>1. \A x \in (1 .. n) \X (1 .. MaxBatch) : w'[writers_'[x[1]]].batch = w[writers_[x[1]]].batch
    OBVIOUS
  <1>2. {x \in (1 .. n) \X (1 .. MaxBatch) : x[2] <= w'[writers_'[x[1]]].batch}
          = {x \in (1 .. n) \X (1 .. MaxBatch) : x[2] <= w[writers_[x[1]]].batch}
    BY <1>1
  <1> QED
    BY <1>2, Zenon DEF GroupSize

\* A step that inserts nothing, publishes nothing and moves nobody into or out of the
\* insertion.
LEMMA DataFrame ==
    ASSUME Typed, QueueInv, DataInv, NoImm', Entries' = Entries, UNCHANGED last_sequence_,
           dtor' = "open" => dtor = "open" /\ \A u \in Threads : pc[u] = "insert" => pc'[u] = "insert",
           \A u \in Threads : pc'[u] = "insert" =>
               /\ pc[u] = "insert" /\ w'[u].group = w[u].group
               /\ \A i \in 1 .. Len(writers_) : w'[writers_'[i]].batch = w[writers_[i]].batch,
           \A u \in Threads : w'[u].inserted = w[u].inserted \/ (w'[u].inserted = 0 /\ pc[u] # "insert"),
           \A u \in Threads : pc'[u] \notin {"insert", "dead"} => pc[u] \notin {"insert", "dead"}
    PROVE  DataInv'
  <1>1. SequencesUnique'
    BY DEF DataInv, SequencesUnique
  <1>2. Bound'
    BY DEF DataInv, Bound
  <1>3. ASSUME NEW u \in Threads, pc'[u] = "insert" PROVE w'[u].inserted <= Count(u)'
    <2>1. pc[u] = "insert" /\ w[u].group \in 1 .. Len(writers_) /\ Len(writers_) \in Nat
      BY <1>3 DEF QueueInv, GroupWithin, GroupPC, Typed, TypeOK, ClientTypes
    <2>2. PICK n \in Nat : n = w[u].group
      BY <2>1
    <2>3. w'[u].group = n /\ \A i \in 1 .. n : w'[writers_'[i]].batch = w[writers_[i]].batch
      BY <1>3, <2>1, <2>2
    <2>4. GroupSize(n)' = GroupSize(n)
      BY <2>3, GroupSizeSame
    <2>5. Count(u)' = Count(u)
      BY <2>2, <2>3, <2>4 DEF Count, GroupSize
    <2>6. w[u].inserted <= Count(u) /\ w'[u].inserted = w[u].inserted
      BY <2>1 DEF DataInv, InsertedWithin
    <2> QED
      BY <2>5, <2>6
  <1>4. ASSUME NEW u \in Threads, pc'[u] \notin {"insert", "dead"} PROVE w'[u].inserted = 0
    BY <1>4 DEF DataInv, InsertedWithin
  <1>5. InsertedWithin'
    BY <1>3, <1>4 DEF InsertedWithin
  <1> QED
    BY <1>1, <1>2, <1>5 DEF DataInv

\* A step that touches no memtable and no table touches no entry.
LEMMA EntriesSame ==
    ASSUME NoImm, UNCHANGED memVars
    PROVE  NoImm' /\ Entries' = Entries
  BY DEF memVars, NoImm, Entries

\* The end of Write by the leader t: nobody inserts any more.
LEMMA FinishData ==
    ASSUME Typed, QueueInv, DataInv, NEW t \in Threads, pc[t] \in LeaderPC,
           NEW n \in 1 .. Len(writers_), NEW s, NEW p,
           \A u \in Threads : p[u] = pc[u] \/ (pc[u] \in SleepPC /\ p[u] \notin {"insert", "dead"}),
           Finish(t, n, s, p)
    PROVE  /\ \A u \in Threads : pc'[u] # "insert"
           /\ \A u \in Threads : pc'[u] # "dead" => w'[u].inserted = 0
           /\ InsertedWithin'
  <1>1. Head(writers_) = t /\ writers_[1] = t
    BY DEF QueueInv, LeaderIsFront, Typed, TypeOK, ClientTypes
  <1>2. t \in {writers_[i] : i \in 1 .. n}
    BY <1>1 DEF Typed, TypeOK, ClientTypes
  <1>3. ASSUME NEW u \in Threads
        PROVE  pc'[u] # "insert" /\ (pc'[u] # "dead" => w'[u].inserted = 0)
    <2>1. w'[u] = IF u \in {writers_[i] : i \in 1 .. n}
                  THEN [w[u] EXCEPT !.done = TRUE, !.status = s, !.group = 0, !.inserted = 0]
                  ELSE w[u]
      BY Zenon DEF Finish
    <2>2. w[u] \in Writer
      BY DEF Typed, TypeOK, ClientTypes
    <2>3. u \in {writers_[i] : i \in 1 .. n} => w'[u].inserted = 0
      BY <2>1, <2>2 DEF Writer
    <2>4. u \notin {writers_[i] : i \in 1 .. n} => w'[u] = w[u]
      BY <2>1
    <2>5. CASE u = t
      BY <1>2, <2>3, <2>5, Zenon DEF Finish, AfterWrite
    <2>6. CASE u # t
      <3>1. pc[u] # "insert"
        BY <2>6, OneLeader DEF LeaderPC
      <3>2. (pc'[u] = "cv_ready" /\ p[u] = "cv_wait") \/ pc'[u] = p[u]
        BY <2>6, Zenon DEF Finish
      <3>3. pc'[u] # "insert"
        BY <3>1, <3>2
      <3>4. pc'[u] # "dead" => pc[u] \notin {"insert", "dead"}
        BY <3>1, <3>2 DEF SleepPC
      <3>5. pc[u] \notin {"insert", "dead"} => w[u].inserted = 0
        BY DEF DataInv, InsertedWithin
      <3> QED
        BY <2>3, <2>4, <3>3, <3>4, <3>5
    <2> QED
      BY <2>5, <2>6
  <1> QED
    BY <1>3 DEF InsertedWithin

\* last_sequence_ grows over everything that the group has inserted.
LEMMA CommitData ==
    ASSUME Typed, QueueInv, DataInv, NEW t \in Threads, Commit(t)
    PROVE  DataInv'
  <1>1. pc[t] \in GroupPC /\ pc[t] \in LeaderPC
    BY DEF Commit, LeaderPC, GroupPC
  <1>2. w[t].group \in 1 .. Len(writers_) /\ Len(writers_) \in Nat
    BY <1>1 DEF QueueInv, GroupWithin, Typed, TypeOK, ClientTypes
  <1>3. Count(t) \in Nat /\ last_sequence_ \in Nat
    <2>1. w[t].group \in Nat
      BY <1>2
    <2>2. Count(t) \in Nat
      BY <2>1, GroupSizeType, Zenon DEF Count
    <2> QED
      BY <2>2 DEF Typed, TypeOK, DataTypes
  <1>4. InsertedWithin'
    <2>1. CASE Finish(t, w[t].group, "OK", pc)
      BY <1>1, <1>2, <2>1, FinishData
    <2>2. CASE Finish(t, w[t].group, "Error", IF bg_error_ THEN pc ELSE Woken)
      <3>1. \A u \in Threads :
              \/ (IF bg_error_ THEN pc ELSE Woken)[u] = pc[u]
              \/ pc[u] \in SleepPC /\ (IF bg_error_ THEN pc ELSE Woken)[u] \notin {"insert", "dead"}
        BY DEF Woken, SleepPC
      <3> QED
        BY <1>1, <1>2, <2>2, <3>1, FinishData
    <2> QED
      BY <2>1, <2>2 DEF Commit
  <1>5. NoImm' /\ Entries' = Entries
    BY EntriesSame DEF Commit, DataInv
  <1>6. SequencesUnique'
    BY <1>5 DEF DataInv, SequencesUnique
  <1>7. Bound'
    <2> SUFFICES ASSUME dtor' = "open", NEW e \in Entries PROVE e.seq <= last_sequence_'
      BY <1>5 DEF Bound
    <2>1. dtor = "open" /\ last_sequence_' = last_sequence_ + Count(t)
      BY DEF Commit, endVars, LastSequence
    <2>2. e.seq \in Nat
      BY DEF Entries, Typed, TypeOK, DataTypes, Op
    <2>3. CASE e.seq <= last_sequence_
      BY <1>3, <2>1, <2>2, <2>3
    <2>4. CASE ~(e.seq <= last_sequence_)
      <3>1. PICK u \in Threads : pc[u] = "insert" /\ e.seq <= last_sequence_ + w[u].inserted
        BY <2>1, <2>4 DEF DataInv, Bound
      <3>2. u = t
        BY <1>1, <3>1, OneLeader DEF LeaderPC
      <3>3. w[t].inserted <= Count(t) /\ w[t].inserted \in Nat
        BY <3>1, <3>2 DEF DataInv, InsertedWithin, Typed, TypeOK, ClientTypes, Writer
      <3> QED
        BY <1>3, <2>1, <2>2, <3>1, <3>2, <3>3
    <2> QED
      BY <2>3, <2>4
  <1> QED
    BY <1>4, <1>5, <1>6, <1>7 DEF DataInv

\* The entry inserted next is above all others.
LEMMA InsertData ==
    ASSUME Typed, QueueInv, SchedInv, DataInv, NEW t \in Threads, Insert(t)
    PROVE  DataInv'
  <1> DEFINE k == w[t].inserted
  <1>1. pc[t] = "insert" /\ pc[t] \in LeaderPC /\ k \in Nat /\ last_sequence_ \in Nat
    BY DEF Insert, LeaderPC, Typed, TypeOK, DataTypes, ClientTypes, Writer
  <1>2. dtor = "open"
    BY <1>1 DEF SchedInv, Closing
  <1>3. PICK x \in Op : mem_' = mem_ \cup {x} /\ x.seq = last_sequence_ + 1 + k
    <2>1. PICK i \in 1 .. w[t].group :
             mem_' = mem_ \cup {[seq |-> last_sequence_ + 1 + k, thread |-> writers_[i],
                                num |-> w[writers_[i]].num]}
      BY DEF Insert
    <2>2. w[t].group \in 1 .. Len(writers_)
      BY <1>1 DEF QueueInv, GroupWithin, GroupPC
    <2>3. writers_[i] \in Threads
      BY <2>1, <2>2 DEF Typed, TypeOK, ClientTypes
    <2>4. w[writers_[i]].num \in Nat
      BY <2>3 DEF Typed, TypeOK, ClientTypes, Writer
    <2>5. last_sequence_ + 1 + k \in Nat
      BY <1>1
    <2>6. [seq |-> last_sequence_ + 1 + k, thread |-> writers_[i], num |-> w[writers_[i]].num] \in Op
      BY <2>3, <2>4, <2>5 DEF Op
    <2> QED
      BY <2>1, <2>6
  <1>4. Entries' = Entries \cup {x} /\ NoImm'
    BY <1>3 DEF Insert, Entries, DataInv, NoImm
  <1>5. \A e \in Entries : e.seq \in Nat /\ e.seq <= last_sequence_ + k
    <2> TAKE e \in Entries
    <2>1. e.seq \in Nat
      BY DEF Entries, Typed, TypeOK, DataTypes, Op
    <2>2. e.seq <= last_sequence_
            \/ \E u \in Threads : pc[u] = "insert" /\ e.seq <= last_sequence_ + w[u].inserted
      BY <1>2 DEF DataInv, Bound
    <2>3. \A u \in Threads : pc[u] = "insert" => u = t
      BY <1>1, OneLeader DEF LeaderPC
    <2> QED
      BY <1>1, <2>1, <2>2, <2>3
  <1>6. SequencesUnique'
    <2>1. \A e \in Entries : e.seq # x.seq
      BY <1>1, <1>3, <1>5
    <2> QED
      BY <1>4, <2>1 DEF DataInv, SequencesUnique
  <1>7. /\ UNCHANGED <<pc, writers_, last_sequence_, dtor>>
        /\ w' = [w EXCEPT ![t].inserted = k + 1] /\ w \in [Threads -> Writer]
    BY DEF Insert, endVars, Typed, TypeOK, ClientTypes
  <1>8. /\ w'[t].inserted = k + 1 /\ \A u \in Threads : u # t => w'[u] = w[u]
        /\ \A u \in Threads : w'[u].batch = w[u].batch /\ w'[u].group = w[u].group
    BY <1>7 DEF Writer
  <1>9. Bound'
    <2>1. x.seq <= last_sequence_ + w'[t].inserted
      BY <1>1, <1>3, <1>8
    <2>2. \A e \in Entries : e.seq <= last_sequence_ + w'[t].inserted
      BY <1>1, <1>5, <1>8
    <2> QED
      BY <1>1, <1>4, <1>7, <2>1, <2>2 DEF Bound
  <1>10. InsertedWithin'
    <2>1. \A u \in Threads : pc'[u] = "insert" => u = t
      BY <1>1, <1>7, OneLeader DEF LeaderPC
    <2>2. \A u \in Threads : pc'[u] \notin {"insert", "dead"} => w'[u].inserted = 0
      BY <1>1, <1>7, <1>8 DEF DataInv, InsertedWithin
    <2>3. w[t].group \in 1 .. Len(writers_) /\ Len(writers_) \in Nat
      BY <1>1 DEF QueueInv, GroupWithin, GroupPC, Typed, TypeOK, ClientTypes
    <2>4. PICK n \in Nat : n = w[t].group
      BY <2>3
    <2>5. \A i \in 1 .. n : writers_[i] \in Threads
      BY <2>3, <2>4 DEF Typed, TypeOK, ClientTypes
    <2>6. \A i \in 1 .. n : w'[writers_'[i]].batch = w[writers_[i]].batch
      BY <1>7, <1>8, <2>5
    <2>7. GroupSize(n)' = GroupSize(n)
      BY <2>6, GroupSizeSame
    <2>8. w'[t].group = n
      BY <1>8, <2>4
    <2>9. Count(t)' = Count(t)
      BY <2>4, <2>7, <2>8 DEF Count, GroupSize
    <2>10. Count(t) \in Nat
      BY <2>4, GroupSizeType, Zenon DEF Count
    <2>11. k < Count(t)
      BY DEF Insert
    <2>12. w'[t].inserted <= Count(t)'
      BY <1>1, <1>8, <2>9, <2>10, <2>11
    <2> QED
      BY <2>1, <2>2, <2>12 DEF InsertedWithin
  <1> QED
    BY <1>4, <1>6, <1>9, <1>10 DEF DataInv

\* GroupSizeType in the next state.
LEMMA GroupSizeTypePrimed == \A n \in Nat : GroupSize(n)' \in Nat
  <1> TAKE n \in Nat
  <1> DEFINE P == (1 .. n) \X (1 .. MaxBatch)
             S == {x \in P : x[2] <= w'[writers_'[x[1]]].batch}
  <1>1. IsFiniteSet(1 .. n) /\ IsFiniteSet(1 .. MaxBatch)
    BY FS_Interval, DBAssumption
  <1>2. IsFiniteSet(P)
    BY <1>1, FS_Product
  <1>3. IsFiniteSet(S)
    BY <1>2, FS_Subset
  <1> QED
    BY <1>3, FS_CardinalityType DEF GroupSize

\* The group starts, in the memtable there was or in a new one.
LEMMA RoomMadeData ==
    ASSUME Typed, QueueInv, DataInv, NEW t \in Threads, Room_Made(t)
    PROVE  DataInv'
  <1>1. NoImm' /\ Entries' = Entries
    <2>1. CASE UNCHANGED <<memVars, schedVars>>
      BY <2>1, EntriesSame DEF DataInv
    <2>2. CASE ~MustWait /\ imm_' = mem_ /\ has_imm_' = TRUE /\ mem_' = {} /\ UNCHANGED tables
      BY <2>2 DEF MustWait, DataInv, NoImm, Entries
    <2> QED
      BY <2>1, <2>2 DEF Room_Made
  <1>2. /\ pc[t] = "room" /\ pc[t] \in LeaderPC /\ UNCHANGED <<last_sequence_, dtor>>
        /\ pc \in [Threads -> PC] /\ w \in [Threads -> Writer] /\ writers_ \in Seq(Threads)
    BY DEF Room_Made, LeaderPC, endVars, Typed, TypeOK, ClientTypes
  <1>3. \A u \in Threads : pc[u] # "insert"
    BY <1>2, OneLeader DEF LeaderPC
  <1>4. SequencesUnique'
    BY <1>1 DEF DataInv, SequencesUnique
  <1>5. Bound'
    BY <1>1, <1>2, <1>3 DEF DataInv, Bound
  <1>6. InsertedWithin'
    <2>1. CASE Finish(t, 1, "OK", pc)
      <3>1. 1 \in 1 .. Len(writers_)
        BY <1>2 DEF QueueInv, LeaderIsFront
      <3> QED
        BY <1>2, <2>1, <3>1, FinishData
    <2>2. CASE \E n \in 1 .. Len(writers_) :
                 /\ w' = [w EXCEPT ![t].group = n]
                 /\ pc' = [pc EXCEPT ![t] = IF w[t].sync THEN "sync" ELSE "insert"]
                 /\ UNCHANGED writers_
      <3>1. PICK n \in 1 .. Len(writers_) : w' = [w EXCEPT ![t].group = n]
        BY <2>2
      <3>2. /\ \A u \in Threads : w'[u].inserted = w[u].inserted
            /\ w'[t].group = n
        BY <1>2, <3>1 DEF Writer
      <3>3. \A u \in Threads : u # t => pc'[u] = pc[u]
        BY <1>2, <2>2
      <3>4. \A u \in Threads : pc'[u] \notin {"insert", "dead"} => w'[u].inserted = 0
        BY <1>2, <3>2, <3>3 DEF DataInv, InsertedWithin
      <3>5. w'[t].inserted = 0
        BY <1>2, <3>2 DEF DataInv, InsertedWithin
      <3>6. Count(t)' \in Nat
        <4>1. w'[t].group \in Nat
          BY <1>2, <3>1, <3>2
        <4>2. \A j \in Nat : GroupSize(j)' \in Nat
          BY GroupSizeTypePrimed
        <4> QED
          BY <4>1, <4>2, Zenon DEF Count
      <3> QED
        BY <1>3, <3>3, <3>4, <3>5, <3>6 DEF InsertedWithin
    <2> QED
      BY <2>1, <2>2 DEF Room_Made, StartGroup
  <1> QED
    BY <1>1, <1>4, <1>5, <1>6 DEF DataInv

\* A step of a client other than the ones above: it is not inserting before or after.
LEMMA ClientFrame ==
    ASSUME Typed, QueueInv, DataInv, NEW t \in Threads, pc[t] \notin {"insert", "dead"},
           NEW v, v # "insert", pc' = [pc EXCEPT ![t] = v] \/ pc' = pc,
           UNCHANGED <<writers_, last_sequence_, memVars, dtor>>,
           \A u \in Threads : /\ w'[u].batch = w[u].batch /\ w'[u].group = w[u].group
                             /\ w'[u].inserted = w[u].inserted
    PROVE  DataInv'
  <1>1. NoImm' /\ Entries' = Entries
    BY EntriesSame DEF DataInv
  <1>2. pc \in [Threads -> PC] /\ \A i \in 1 .. Len(writers_) : writers_[i] \in Threads
    BY DEF Typed, TypeOK, ClientTypes
  <1>3. \A u \in Threads : pc'[u] = pc[u] \/ (u = t /\ pc'[u] = v)
    BY <1>2
  <1>4. \A u \in Threads : pc[u] = "insert" <=> pc'[u] = "insert"
    BY <1>3
  <1>5. \A u \in Threads : pc'[u] \notin {"insert", "dead"} => pc[u] \notin {"insert", "dead"}
    BY <1>3
  <1>6. \A i \in 1 .. Len(writers_) : w'[writers_'[i]].batch = w[writers_[i]].batch
    BY <1>2
  <1> QED
    BY <1>1, <1>4, <1>5, <1>6, DataFrame

\* logfile_->Sync() comes before the first insertion.
LEMMA SyncData ==
    ASSUME Typed, QueueInv, DataInv, NEW t \in Threads, Sync(t)
    PROVE  DataInv'
  <1>1. CASE pc' = [pc EXCEPT ![t] = "sync_failed"]
    BY <1>1, ClientFrame DEF Sync, endVars
  <1>2. CASE pc' = [pc EXCEPT ![t] = "insert"]
    <2>1. NoImm' /\ Entries' = Entries /\ SequencesUnique'
      BY EntriesSame DEF Sync, DataInv, SequencesUnique
    <2>2. pc \in [Threads -> PC] /\ pc[t] = "sync" /\ UNCHANGED <<w, writers_, last_sequence_, dtor>>
      BY DEF Sync, endVars, Typed, TypeOK, ClientTypes
    <2>3. \A u \in Threads : pc[u] # "insert"
      BY <2>2, OneLeader DEF LeaderPC
    <2>4. Bound'
      BY <2>1, <2>2, <2>3 DEF DataInv, Bound
    <2>5. w'[t].inserted = 0
      BY <2>2 DEF DataInv, InsertedWithin
    <2>6. Count(t)' \in Nat
      <3>1. w'[t].group \in Nat
        BY <2>2 DEF Typed, TypeOK, ClientTypes, Writer
      <3> QED
        BY <3>1, GroupSizeTypePrimed, Zenon DEF Count
    <2>7. InsertedWithin'
      BY <1>2, <2>2, <2>3, <2>5, <2>6 DEF DataInv, InsertedWithin
    <2> QED
      BY <2>1, <2>4, <2>7 DEF DataInv
  <1> QED
    BY <1>1, <1>2 DEF Sync

\* A group that finds no room inserts nothing.
LEMMA RoomFailsData ==
    ASSUME Typed, QueueInv, DataInv, NEW t \in Threads, Room_Fails(t)
    PROVE  DataInv'
  <1>1. NoImm' /\ Entries' = Entries /\ SequencesUnique'
    BY EntriesSame DEF Room_Fails, DataInv, SequencesUnique
  <1>2. pc[t] = "room" /\ pc[t] \in LeaderPC /\ UNCHANGED <<last_sequence_, dtor>>
    BY DEF Room_Fails, LeaderPC, endVars
  <1>3. \A u \in Threads : pc[u] # "insert"
    BY <1>2, OneLeader DEF LeaderPC
  <1>4. Bound'
    BY <1>1, <1>2, <1>3 DEF DataInv, Bound
  <1>5. 1 \in 1 .. Len(writers_)
    BY <1>2 DEF QueueInv, LeaderIsFront, Typed, TypeOK, ClientTypes
  <1>6. InsertedWithin'
    BY <1>2, <1>5, FinishData DEF Room_Fails
  <1> QED
    BY <1>1, <1>4, <1>6 DEF DataInv

\* A new writer changes no group that is being inserted.
LEMMA EnqueueData ==
    ASSUME Typed, QueueInv, DataInv, NEW t \in Threads, NEW op, NEW b, NEW s, NEW n,
           Enqueue(t, op, b, s, n)
    PROVE  DataInv'
  <1>1. NoImm' /\ Entries' = Entries
    BY EntriesSame DEF Enqueue, DataInv
  <1>2. /\ pc \in [Threads -> PC] /\ w \in [Threads -> Writer] /\ writers_ \in Seq(Threads)
        /\ pc[t] = "idle" /\ UNCHANGED <<last_sequence_, dtor>>
        /\ pc' = [pc EXCEPT ![t] = FirstPC] /\ writers_' = Append(writers_, t)
    BY DEF Enqueue, endVars, Typed, TypeOK, ClientTypes
  <1>3. w'[t].inserted = 0 /\ \A u \in Threads : u # t => w'[u] = w[u]
    BY <1>2 DEF Enqueue
  <1>4. FirstPC # "insert" /\ FirstPC # "dead"
    BY DEF FirstPC
  <1>5. \A u \in Threads : (pc[u] = "insert" <=> pc'[u] = "insert")
                          /\ (pc'[u] \notin {"insert", "dead"} => pc[u] \notin {"insert", "dead"})
    BY <1>2, <1>4
  <1>6. \A i \in 1 .. Len(writers_) : writers_[i] # t /\ writers_[i] \in Threads
    BY <1>2 DEF QueueInv, QueuedWait, InQueue, QueuePC, LeaderPC
  <1>7. \A i \in 1 .. Len(writers_) : writers_'[i] = writers_[i]
    BY <1>2
  <1>8. \A i \in 1 .. Len(writers_) : w'[writers_'[i]].batch = w[writers_[i]].batch
    BY <1>3, <1>6, <1>7
  <1>9. \A u \in Threads : pc'[u] = "insert" => w'[u].group = w[u].group
    BY <1>2, <1>3, <1>5
  <1>10. \A u \in Threads : w'[u].inserted = w[u].inserted \/ (w'[u].inserted = 0 /\ pc[u] # "insert")
    BY <1>2, <1>3
  <1> QED
    BY <1>1, <1>2, <1>5, <1>8, <1>9, <1>10, DataFrame

\* Steps of the background thread and of the destructor.
LEMMA BackgroundFrame ==
    ASSUME Typed, QueueInv, DataInv, NoImm', Entries' = Entries,
           UNCHANGED <<w, writers_, last_sequence_>>,
           \/ pc' = pc /\ (dtor' = "open" => dtor = "open")
           \/ SignalAll
           \/ pc' = [t \in Threads |-> "dead"] /\ dtor' = "dead"
    PROVE  DataInv'
  <1>1. dtor' = "open" => dtor = "open" /\ \A u \in Threads : pc[u] = "insert" => pc'[u] = "insert"
    BY DEF SignalAll, Woken
  <1>2. \A u \in Threads : pc'[u] = "insert" => pc[u] = "insert"
    BY DEF SignalAll, Woken
  <1>3. \A u \in Threads : pc'[u] \notin {"insert", "dead"} => pc[u] \notin {"insert", "dead"}
    BY DEF SignalAll, Woken
  <1> QED
    BY <1>1, <1>2, <1>3, DataFrame

\* The background thread writes nothing, loses nothing, and wakes the sleepers or dies
\* with all threads.
LEMMA BackgroundMoves ==
    ASSUME NoImm, BackgroundStep
    PROVE  /\ UNCHANGED <<w, writers_, last_sequence_>> /\ NoImm' /\ Entries' = Entries
           /\ \/ pc' = pc /\ dtor' = dtor
              \/ SignalAll
              \/ pc' = [t \in Threads |-> "dead"] /\ dtor' = "dead"
  <1>1. UNCHANGED <<w, writers_, last_sequence_>>
    BY DEF BackgroundStep, BGThread, BackgroundCall_Nothing, Manual_Empty, RequestDropped,
           BackgroundCompaction, Flush_Built, Flush_Installed, Flush_Fails, FlushEnds, Merge_Step,
           Merge_Installed, Merge_Fails
  <1>2. NoImm' /\ Entries' = Entries
    <2>1. CASE UNCHANGED memVars
      BY <2>1, EntriesSame
    <2>2. CASE \E l \in 0 .. MaxMemCompactLevel : Flush_Installed(l)
      BY <2>2 DEF Flush_Installed, NoImm, Entries
    <2> QED
      BY <2>1, <2>2 DEF BackgroundStep, BGThread, BackgroundCall_Nothing, Manual_Empty,
         RequestDropped, BackgroundCompaction, Flush_Built, Flush_Fails, FlushEnds, Merge_Step,
         Merge_Installed, Merge_Fails
  <1>3. \/ pc' = pc /\ dtor' = dtor
        \/ SignalAll
        \/ pc' = [t \in Threads |-> "dead"] /\ dtor' = "dead"
    <2>1. CASE BGThread \/ BackgroundCompaction \/ Flush_Built \/ Merge_Step
      BY <2>1 DEF BGThread, BackgroundCompaction, Flush_Built, Merge_Step, endVars
    <2>2. CASE BackgroundCall_Nothing \/ Manual_Empty
      BY <2>2 DEF BackgroundCall_Nothing, Manual_Empty, RequestDropped, EndCall
    <2>3. CASE (\E l \in 0 .. MaxMemCompactLevel : Flush_Installed(l)) \/ Flush_Fails
      BY <2>3 DEF Flush_Installed, Flush_Fails, FlushEnds, FlushReturns, EndCall
    <2>4. CASE (\E n \in Outputs : Merge_Installed(n)) \/ Merge_Fails
      BY <2>4 DEF Merge_Installed, Merge_Fails, EndCompaction, EndCall
    <2> QED
      BY <2>1, <2>2, <2>3, <2>4 DEF BackgroundStep
  <1> QED
    BY <1>1, <1>2, <1>3

\* Every step of the background thread keeps the invariant of the data.
LEMMA BackgroundData ==
    ASSUME Typed, QueueInv, DataInv, BackgroundStep
    PROVE  DataInv'
  BY BackgroundMoves, BackgroundFrame DEF DataInv

\* Every step of a client keeps the invariant of the data.
LEMMA ClientData ==
    ASSUME Typed, QueueInv, SchedInv, DataInv, NEW t \in Threads, ClientStep(t)
    PROVE  DataInv'
  <1>t. pc \in [Threads -> PC] /\ w \in [Threads -> Writer]
    BY DEF Typed, TypeOK, ClientTypes
  <1>1. CASE Awake(t)
    <2>1. PICK v : v # "insert" /\ pc' = [pc EXCEPT ![t] = v]
      BY <1>1 DEF Awake, AfterWrite
    <2> QED
      BY <1>1, <2>1, ClientFrame DEF Awake, endVars
  <1>2. CASE Room_Wait(t)
    <2>1. PICK v : v # "insert" /\ pc' = [pc EXCEPT ![t] = v]
      BY <1>2 DEF Room_Wait
    <2>2. \A u \in Threads : /\ w'[u].batch = w[u].batch /\ w'[u].group = w[u].group
                            /\ w'[u].inserted = w[u].inserted
      BY <1>t, <1>2 DEF Room_Wait, Writer
    <2> QED
      BY <1>2, <2>1, <2>2, ClientFrame DEF Room_Wait, endVars
  <1>3. CASE Room_Again(t)
    BY <1>3, ClientFrame DEF Room_Again, endVars
  <1>4. CASE Room_Made(t)
    BY <1>4, RoomMadeData
  <1>5. CASE Room_Fails(t)
    BY <1>5, RoomFailsData
  <1>6. CASE Sync(t)
    BY <1>6, SyncData
  <1>7. CASE Insert(t)
    BY <1>7, InsertData
  <1>8. CASE Commit(t)
    BY <1>8, CommitData
  <1>9. CASE MemCheck(t)
    <2>1. PICK v : v # "insert" /\ pc' = [pc EXCEPT ![t] = v]
      BY <1>9 DEF MemCheck
    <2>2. \A u \in Threads : /\ w'[u].batch = w[u].batch /\ w'[u].group = w[u].group
                            /\ w'[u].inserted = w[u].inserted
      <3>1. CASE w' = w
        BY <3>1
      <3>2. CASE \E s : w' = [w EXCEPT ![t].status = s]
        BY <1>t, <3>2 DEF Writer
      <3> QED
        BY <1>9, <3>1, <3>2 DEF MemCheck
    <2> QED
      BY <1>9, <2>1, <2>2, ClientFrame DEF MemCheck, endVars
  <1>10. CASE Manual_Wait(t)
    BY <1>10, ClientFrame DEF Manual_Wait, endVars
  <1>11. CASE Manual_Done(t)
    <2>1. pc' = [pc EXCEPT ![t] = "idle"] \/ pc' = pc
      BY <1>11 DEF Manual_Done
    <2> QED
      BY <1>11, <2>1, ClientFrame DEF Manual_Done, endVars
  <1> QED
    BY <1>1, <1>2, <1>3, <1>4, <1>5, <1>6, <1>7, <1>8, <1>9, <1>10, <1>11 DEF ClientStep

\* Every step of the system keeps the invariant of the data.
LEMMA DataNext == Typed /\ QueueInv /\ SchedInv /\ DataInv /\ [Next]_vars => DataInv'
  <1> SUFFICES ASSUME Typed, QueueInv, SchedInv, DataInv, [Next]_vars PROVE DataInv'
    OBVIOUS
  <1>1. CASE \E t \in Threads : NewCall(t)
    BY <1>1, EnqueueData DEF NewCall
  <1>2. CASE \E t \in Threads : ClientStep(t)
    BY <1>2, ClientData
  <1>3. CASE BackgroundStep
    BY <1>3, BackgroundData
  <1>4. CASE (\E l \in 0 .. NumLevels - 2 : Get_UpdateStats(l)) \/ Close \/ UNCHANGED vars
    <2>1. UNCHANGED <<pc, w, writers_, last_sequence_, memVars>>
      BY <1>4 DEF Get_UpdateStats, Close, vars
    <2>2. dtor' = "open" => dtor = "open"
      BY <1>4 DEF Get_UpdateStats, Close, vars, endVars
    <2>3. NoImm' /\ Entries' = Entries
      BY <2>1, EntriesSame DEF DataInv
    <2> QED
      BY <2>1, <2>2, <2>3, BackgroundFrame
  <1> QED
    BY <1>1, <1>2, <1>3, <1>4 DEF Next, Over

\* Only Insert adds entries, and no step loses one.
LEMMA EntriesStep ==
    ASSUME NoImm, [Next]_vars
    PROVE  Entries' = Entries \/ \E t \in Threads : Insert(t)
  <1>1. CASE UNCHANGED memVars
    BY <1>1, EntriesSame
  <1>2. CASE \E t \in Threads : Room_Made(t)
    BY <1>1, <1>2 DEF Room_Made, MustWait, NoImm, Entries
  <1>3. CASE \E l \in 0 .. MaxMemCompactLevel : Flush_Installed(l)
    BY <1>3 DEF Flush_Installed, Entries
  <1>4. ASSUME NEW t \in Threads, ClientStep(t) PROVE UNCHANGED memVars \/ Room_Made(t) \/ Insert(t)
    BY <1>4 DEF ClientStep, Awake, Room_Wait, Room_Again, Room_Fails, Sync, Commit, MemCheck,
       Manual_Wait, Manual_Done
  <1>5. ASSUME NEW t \in Threads, NewCall(t) PROVE UNCHANGED memVars
    BY <1>5 DEF NewCall, Enqueue
  <1>6. ASSUME BackgroundStep
        PROVE  UNCHANGED memVars \/ \E l \in 0 .. MaxMemCompactLevel : Flush_Installed(l)
    BY <1>6 DEF BackgroundStep, BGThread, BackgroundCall_Nothing, Manual_Empty, RequestDropped,
       BackgroundCompaction, Flush_Built, Flush_Fails, FlushEnds, Merge_Step, Merge_Installed,
       Merge_Fails
  <1>7. ASSUME (\E l \in 0 .. NumLevels - 2 : Get_UpdateStats(l)) \/ Close \/ UNCHANGED vars
        PROVE  UNCHANGED memVars
    BY <1>7 DEF Get_UpdateStats, Close, vars
  <1> QED
    BY <1>1, <1>2, <1>3, <1>4, <1>5, <1>6, <1>7 DEF Next, Over

\* No step changes what is visible at the published sequence number: Insert works above
\* it, and the switch and the compaction of a memtable move entries without loss.
LEMMA SnapshotStep ==
    ASSUME Typed, NoImm, [Next]_vars
    PROVE  {e \in Entries' : e.seq <= last_sequence_} = Published
  <1>1. CASE Entries' = Entries
    BY <1>1 DEF Published
  <1>2. ASSUME NEW t \in Threads, Insert(t)
        PROVE  {e \in Entries' : e.seq <= last_sequence_} = Published
    <2> DEFINE k == w[t].inserted
    <2>1. k \in Nat /\ last_sequence_ \in Nat
      BY DEF Typed, TypeOK, DataTypes, ClientTypes, Writer
    <2>2. PICK x : mem_' = mem_ \cup {x} /\ x.seq = last_sequence_ + 1 + k
      <3>1. PICK i \in 1 .. w[t].group :
               mem_' = mem_ \cup {[seq |-> last_sequence_ + 1 + k, thread |-> writers_[i],
                                  num |-> w[writers_[i]].num]}
        BY <1>2 DEF Insert
      <3>2. [seq |-> last_sequence_ + 1 + k, thread |-> writers_[i],
             num |-> w[writers_[i]].num].seq = last_sequence_ + 1 + k
        OBVIOUS
      <3> QED
        BY <3>1, <3>2, Zenon
    <2>3. Entries' = Entries \cup {x}
      BY <1>2, <2>2 DEF Insert, Entries
    <2>4. ~(x.seq <= last_sequence_)
      BY <2>1, <2>2
    <2> QED
      BY <2>3, <2>4 DEF Published
  <1> QED
    BY <1>1, <1>2, EntriesStep
-----------------------------------------------------------------------------
(* Acknowledged writes *)

\* The operations of thread t's last call that are in the database.
Fresh(t) == {e \in Entries : e.thread = t /\ e.num = w[t].num}

\* The group's k-th operation, one of u's batch.
OpAt(u, k) == [seq |-> last_sequence_ + k, thread |-> u, num |-> w[u].num]

\* Which operations of the i-th writer's batch leader l has inserted.
Added(l, i) == {k \in GroupSize(i - 1) + 1 .. GroupSize(i) : k <= w[l].inserted}

\* Leader l inserts a group with the n-th writer in it.
Inserts(l, n) == pc[l] = "insert" /\ n \in 1 .. w[l].group

Inserting ==
    \A l \in Threads : \A n \in 1 .. Len(writers_) :
        Inserts(l, n) => Fresh(writers_[n]) = {OpAt(writers_[n], k) : k \in Added(l, n)}

Waiting ==
    \A n \in 1 .. Len(writers_) :
        pc[writers_[n]] # "dead" /\ (\A l \in Threads : ~Inserts(l, n)) => Fresh(writers_[n]) = {}

Returned ==
    \A t \in Threads : ~InQueue(t) /\ pc[t] # "dead" =>
        /\ \A e \in Fresh(t) : e.seq <= last_sequence_
        /\ Cardinality(Fresh(t)) = IF w[t].status = "OK" THEN w[t].batch ELSE 0

\* No entry belongs to a call that has not been made yet.
CallsMade == \A e \in Entries : e.num <= w[e.thread].num

\* A thread that waits for a flush or for a manual compaction has a NULL batch.
NullBatch ==
    \A t \in Threads :
        /\ w[t].op # "write" => w[t].batch = 0
        /\ pc[t] \in {"mem_check", "mem_wait", "manual", "manual_wait"} => w[t].op # "write"

\* All threads die together.
AllDie == \A t, u \in Threads : pc[t] = "dead" => pc[u] = "dead"

\* The inductive invariant of the writes.
AckInv == Inserting /\ Waiting /\ Returned /\ CallsMade /\ NullBatch /\ AllDie

\* The n-th writer adds its own batch to the group.
LEMMA GroupSizeStep ==
    ASSUME ClientTypes, NEW n \in 1 .. Len(writers_)
    PROVE  GroupSize(n) = GroupSize(n - 1) + w[writers_[n]].batch
  <1> DEFINE S(j) == {x \in (1 .. j) \X (1 .. MaxBatch) : x[2] <= w[writers_[x[1]]].batch}
             T(b) == {n} \X (1 .. b)
  <1>1. PICK b \in 0 .. MaxBatch : b = w[writers_[n]].batch
    <2>1. writers_[n] \in Threads
      BY DEF ClientTypes
    <2> QED
      BY <2>1 DEF ClientTypes, Writer
  <1>2. MaxBatch \in Nat /\ n \in Nat /\ n - 1 \in Nat /\ b \in Nat
    BY <1>1, DBAssumption DEF ClientTypes
  <1>3. IsFiniteSet(S(n - 1))
    <2>1. IsFiniteSet(1 .. n - 1) /\ IsFiniteSet(1 .. MaxBatch)
      BY <1>2, FS_Interval
    <2>2. IsFiniteSet((1 .. n - 1) \X (1 .. MaxBatch))
      BY <2>1, FS_Product
    <2> QED
      BY <2>2, FS_Subset
  <1>4. IsFiniteSet(T(b)) /\ Cardinality(T(b)) = b
    <2>1. IsFiniteSet(1 .. b) /\ Cardinality(1 .. b) = b
      BY <1>2, FS_Interval
    <2>2. IsFiniteSet({n}) /\ Cardinality({n}) = 1
      BY FS_Singleton
    <2> QED
      BY <1>2, <2>1, <2>2, FS_Product
  <1>5. S(n) = S(n - 1) \cup T(b)
    <2>1. \A i, j : <<i, j>> \in S(n) <=> <<i, j>> \in S(n - 1) \cup T(b)
      BY <1>1, <1>2
    <2>2. S(n) \subseteq S(n - 1) \cup T(b)
      BY <2>1
    <2>3. S(n - 1) \cup T(b) \subseteq S(n)
      BY <2>1
    <2> QED
      BY <2>2, <2>3
  <1>6. S(n - 1) \cap T(b) = {}
    BY <1>2
  <1> HIDE DEF S, T
  <1>7. Cardinality(S(n)) = Cardinality(S(n - 1)) + b
    <2>1. Cardinality(S(n - 1) \cup T(b))
            = Cardinality(S(n - 1)) + Cardinality(T(b)) - Cardinality(S(n - 1) \cap T(b))
      BY <1>3, <1>4, FS_Union
    <2>2. Cardinality(S(n - 1)) \in Nat
      BY <1>3, FS_CardinalityType
    <2>3. Cardinality({}) = 0
      BY FS_EmptySet
    <2>4. Cardinality(S(n)) = Cardinality(S(n - 1)) + Cardinality(T(b)) - Cardinality({})
      BY <1>5, <1>6, <2>1, Zenon
    <2> QED
      BY <1>2, <1>4, <2>2, <2>3, <2>4
  <1> QED
    BY <1>1, <1>7 DEF GroupSize, S

\* More writers make no smaller group.
LEMMA GroupSizeGrows ==
    ASSUME NEW n \in Nat, NEW j \in 0 .. n
    PROVE  GroupSize(j) <= GroupSize(n) /\ GroupSize(j) \in Nat /\ GroupSize(n) \in Nat
  <1> DEFINE S(i) == {x \in (1 .. i) \X (1 .. MaxBatch) : x[2] <= w[writers_[x[1]]].batch}
  <1>1. IsFiniteSet(S(n))
    <2>1. IsFiniteSet(1 .. n) /\ IsFiniteSet(1 .. MaxBatch)
      BY FS_Interval, DBAssumption
    <2>2. IsFiniteSet((1 .. n) \X (1 .. MaxBatch))
      BY <2>1, FS_Product
    <2> QED
      BY <2>2, FS_Subset
  <1>2. S(j) \subseteq S(n)
    BY DBAssumption
  <1>3. Cardinality(S(j)) <= Cardinality(S(n))
    BY <1>1, <1>2, FS_Subset
  <1>4. j \in Nat
    OBVIOUS
  <1> QED
    BY <1>3, <1>4, GroupSizeType DEF GroupSize

\* The operations a + 1 to b of a group, all of u's call number c.
Ops(u, c, q, a, b) == {[seq |-> q + k, thread |-> u, num |-> c] : k \in a + 1 .. b}

\* They are b - a entries.
LEMMA OpsCounted ==
    ASSUME NEW u, NEW c, NEW q \in Nat, NEW a \in Nat, NEW b \in Nat, a <= b
    PROVE  Cardinality(Ops(u, c, q, a, b)) = b - a
  <1> DEFINE S == a + 1 .. b
             T == Ops(u, c, q, a, b)
             f == [k \in S |-> [seq |-> q + k, thread |-> u, num |-> c]]
  <1>1. IsFiniteSet(S) /\ Cardinality(S) = b - a
    <2>1. a + 1 \in Int /\ b \in Int
      OBVIOUS
    <2>2. IsFiniteSet(S) /\ Cardinality(S) = IF a + 1 > b THEN 0 ELSE b - (a + 1) + 1
      BY <2>1, FS_Interval
    <2> QED
      BY <2>2
  <1>2. f \in Bijection(S, T)
    <2>1. f \in [S -> T]
      BY DEF Ops
    <2>2. ASSUME NEW i \in S, NEW j \in S, f[i] = f[j] PROVE i = j
      <3>1. f[i].seq = q + i /\ f[j].seq = q + j
        OBVIOUS
      <3> QED
        BY <2>2, <3>1
    <2>3. \A y \in T : \E k \in S : f[k] = y
      BY DEF Ops
    <2> QED
      BY <2>1, <2>2, <2>3 DEF Bijection, Injection, Surjection, IsInjective
  <1>3. ExistsBijection(S, T)
    BY <1>2 DEF ExistsBijection
  <1> QED
    BY <1>1, <1>3, FS_Bijection

\* A step that leaves the batches of the queue alone leaves the sizes of its groups.
LEMMA SizesSame ==
    ASSUME writers_ \in Seq(Threads), NEW n \in 1 .. Len(writers_),
           \A i \in 1 .. Len(writers_) : w'[writers_'[i]].batch = w[writers_[i]].batch
    PROVE  GroupSize(n)' = GroupSize(n) /\ GroupSize(n - 1)' = GroupSize(n - 1)
  <1>1. n \in Nat /\ n - 1 \in Nat /\ Len(writers_) \in Nat
    OBVIOUS
  <1>2. \A i \in 1 .. n : w'[writers_'[i]].batch = w[writers_[i]].batch
    BY <1>1
  <1>3. \A i \in 1 .. n - 1 : w'[writers_'[i]].batch = w[writers_[i]].batch
    BY <1>1
  <1>4. GroupSize(n)' = GroupSize(n)
    BY <1>1, <1>2, GroupSizeSame
  <1>5. GroupSize(n - 1)' = GroupSize(n - 1)
    BY <1>1, <1>3, GroupSizeSame
  <1> QED
    BY <1>4, <1>5

\* A step that adds no entry and starts no call changes nobody's operations.
LEMMA FreshSame ==
    ASSUME Entries' = Entries, NEW u, w'[u].num = w[u].num
    PROVE  Fresh(u)' = Fresh(u)
  BY DEF Fresh

\* Calls keep their numbers, and threads their kinds of call.
SameCalls ==
    \A u \in Threads : /\ w'[u].num = w[u].num /\ w'[u].batch = w[u].batch /\ w'[u].op = w[u].op
                       /\ w'[u].status = w[u].status \/ w[u].batch = 0

\* What needs no look at the queue.
LEMMA CallsFrame ==
    ASSUME Typed, AckInv, Entries' = Entries, SameCalls,
           \A u \in Threads :
               /\ pc'[u] = "dead" <=> pc[u] = "dead"
               /\ pc'[u] \in {"mem_check", "mem_wait", "manual", "manual_wait"} =>
                    pc[u] \in {"mem_check", "mem_wait", "manual", "manual_wait"} \/ w[u].op # "write"
    PROVE  CallsMade' /\ NullBatch' /\ AllDie' /\ \A u \in Threads : Fresh(u)' = Fresh(u)
  <1>1. \A e \in Entries : e.thread \in Threads
    BY DEF Typed, TypeOK, DataTypes, Entries, Op
  <1>2. CallsMade'
    BY <1>1 DEF AckInv, CallsMade, SameCalls
  <1>3. NullBatch'
    BY DEF AckInv, NullBatch, SameCalls
  <1>4. \A u \in Threads : Fresh(u)' = Fresh(u)
    BY FreshSame DEF SameCalls
  <1>5. AllDie'
    BY DEF AckInv, AllDie
  <1> QED
    BY <1>2, <1>3, <1>4, <1>5

\* A step in which nobody enters or leaves the queue or the insertion.
LEMMA AckFrame ==
    ASSUME Typed, QueueInv, AckInv, Entries' = Entries, UNCHANGED <<last_sequence_, writers_>>,
           SameCalls,
           \A u \in Threads :
               /\ pc'[u] = "insert" <=> pc[u] = "insert"
               /\ pc[u] = "insert" => w'[u].group = w[u].group /\ w'[u].inserted = w[u].inserted
               /\ pc'[u] = "dead" <=> pc[u] = "dead"
               /\ InQueue(u)' <=> InQueue(u)
               /\ pc'[u] \in {"mem_check", "mem_wait", "manual", "manual_wait"} =>
                    pc[u] \in {"mem_check", "mem_wait", "manual", "manual_wait"} \/ w[u].op # "write"
    PROVE  AckInv'
  <1>1. CallsMade' /\ NullBatch' /\ AllDie' /\ \A u \in Threads : Fresh(u)' = Fresh(u)
    BY CallsFrame
  <1>2. writers_ \in Seq(Threads) /\ \A n \in 1 .. Len(writers_) : writers_[n] \in Threads
    BY DEF Typed, TypeOK, ClientTypes
  <1>3. \A l \in Threads, n \in 1 .. Len(writers_) : Inserts(l, n)' <=> Inserts(l, n)
    BY DEF Inserts
  <1>4. Inserting'
    <2> SUFFICES ASSUME NEW l \in Threads, NEW n \in 1 .. Len(writers_), Inserts(l, n)
                 PROVE  Fresh(writers_[n]) = {OpAt(writers_[n], k) : k \in Added(l, n)}'
      BY <1>1, <1>2, <1>3 DEF Inserting
    <2>1. Fresh(writers_[n]) = {OpAt(writers_[n], k) : k \in Added(l, n)}
      BY DEF AckInv, Inserting
    <2>2. GroupSize(n)' = GroupSize(n) /\ GroupSize(n - 1)' = GroupSize(n - 1)
      BY <1>2, SizesSame DEF SameCalls
    <2>3. Added(l, n)' = Added(l, n)
      BY <2>2 DEF Added, Inserts
    <2>4. \A k : OpAt(writers_[n], k)' = OpAt(writers_[n], k)
      BY <1>2 DEF OpAt, SameCalls
    <2> QED
      BY <2>1, <2>3, <2>4
  <1>5. Waiting'
    BY <1>1, <1>2, <1>3 DEF AckInv, Waiting
  <1>6. Returned'
    <2> SUFFICES ASSUME NEW u \in Threads, ~InQueue(u), pc[u] # "dead"
                 PROVE  /\ \A e \in Fresh(u) : e.seq <= last_sequence_
                        /\ Cardinality(Fresh(u)) = IF w'[u].status = "OK" THEN w'[u].batch ELSE 0
      BY <1>1 DEF Returned
    <2>1. /\ \A e \in Fresh(u) : e.seq <= last_sequence_
          /\ Cardinality(Fresh(u)) = IF w[u].status = "OK" THEN w[u].batch ELSE 0
      BY DEF AckInv, Returned
    <2> QED
      BY <2>1 DEF SameCalls
  <1> QED
    BY <1>1, <1>4, <1>5, <1>6 DEF AckInv

\* Nobody inserts while the leader t is elsewhere in Write.
LEMMA NobodyInserts ==
    ASSUME QueueInv, NEW t \in Threads, pc[t] \in LeaderPC, pc[t] # "insert"
    PROVE  \A l \in Threads : pc[l] # "insert"
  BY OneLeader DEF LeaderPC

\* The leader t goes on to the log and, it may be, to the insertion of nothing yet.
LEMMA AckStart ==
    ASSUME Typed, QueueInv, DataInv, AckInv, NEW t \in Threads, pc[t] \in LeaderPC, pc[t] # "insert",
           Entries' = Entries, UNCHANGED <<last_sequence_, writers_>>, SameCalls,
           \A u \in Threads : w'[u].done = w[u].done /\ w'[u].inserted = w[u].inserted,
           NEW v \in GroupPC, pc' = [pc EXCEPT ![t] = v]
    PROVE  AckInv'
  <1>1. pc \in [Threads -> PC] /\ \A n \in 1 .. Len(writers_) : writers_[n] \in Threads
    BY DEF Typed, TypeOK, ClientTypes
  <1>2. pc'[t] = v /\ \A u \in Threads : u # t => pc'[u] = pc[u]
    BY <1>1
  <1>3. CallsMade' /\ NullBatch' /\ AllDie' /\ \A u \in Threads : Fresh(u)' = Fresh(u)
    <2>1. \A u \in Threads : (pc'[u] = "dead" <=> pc[u] = "dead") /\ (pc'[u] = pc[u] \/ pc'[u] \in GroupPC)
      BY <1>2 DEF LeaderPC, GroupPC
    <2> QED
      BY <2>1, CallsFrame DEF GroupPC
  <1>4. \A n \in 1 .. Len(writers_) : pc[writers_[n]] # "dead" => Fresh(writers_[n]) = {}
    BY NobodyInserts DEF AckInv, Waiting, Inserts
  <1>5. \A u \in Threads : (InQueue(u)' <=> InQueue(u)) /\ (pc'[u] = "dead" <=> pc[u] = "dead")
    BY <1>2 DEF InQueue, QueuePC, LeaderPC, GroupPC
  <1>6. Waiting'
    BY <1>1, <1>3, <1>4, <1>5 DEF Waiting
  <1>7. Returned'
    <2> SUFFICES ASSUME NEW u \in Threads, ~InQueue(u)', pc'[u] # "dead"
                 PROVE  /\ \A e \in Fresh(u)' : e.seq <= last_sequence_'
                        /\ Cardinality(Fresh(u)') = IF w'[u].status = "OK" THEN w'[u].batch ELSE 0
      BY DEF Returned
    <2>1. ~InQueue(u) /\ pc[u] # "dead" /\ Fresh(u)' = Fresh(u)
      BY <1>3, <1>5, Zenon
    <2> QED
      BY <2>1 DEF AckInv, Returned, SameCalls
  <1>8. Inserting'
    <2> SUFFICES ASSUME NEW l \in Threads, NEW n \in 1 .. Len(writers_), Inserts(l, n)'
                 PROVE  Fresh(writers_[n])' = {OpAt(writers_[n], k) : k \in Added(l, n)}'
      BY DEF Inserting
    <2>1. l = t
      BY <1>2, NobodyInserts DEF Inserts
    <2>2. w'[t].inserted = 0
      BY DEF DataInv, InsertedWithin, LeaderPC
    <2>3. Added(l, n)' = {}
      <3>1. GroupSize(n - 1)' \in Nat
        <4>1. n - 1 \in Nat
          BY DEF Typed, TypeOK, ClientTypes
        <4> QED
          BY <4>1, GroupSizeTypePrimed
      <3> QED
        BY <2>1, <2>2, <3>1 DEF Added
    <2>4. pc[writers_[n]] # "dead"
      BY <1>1 DEF AckInv, AllDie, LeaderPC
    <2> QED
      BY <1>1, <1>3, <1>4, <2>3, <2>4
  <1> QED
    BY <1>3, <1>6, <1>7, <1>8 DEF AckInv

\* The end of Write: n writers are popped, each with its whole batch published or with
\* nothing of it in the database.
LEMMA AckFinish ==
    ASSUME Typed, QueueInv, QueueInv', DataInv, AckInv, NEW t \in Threads, pc[t] \in LeaderPC,
           NEW n \in 1 .. Len(writers_), NEW s \in Status, NEW p, p = pc \/ p = Woken,
           Finish(t, n, s, p), Entries' = Entries,
           last_sequence_' \in Nat, last_sequence_ <= last_sequence_',
           \A i \in 1 .. n :
               /\ \A e \in Fresh(writers_[i]) : e.seq <= last_sequence_'
               /\ Cardinality(Fresh(writers_[i])) = IF s = "OK" THEN w[writers_[i]].batch ELSE 0,
           \A i \in n + 1 .. Len(writers_) : Fresh(writers_[i]) = {}
    PROVE  AckInv'
  <1> DEFINE popped == {writers_[i] : i \in 1 .. n}
             rest   == SubSeq(writers_, n + 1, Len(writers_))
  <1>1. /\ writers_ \in Seq(Threads) /\ Len(writers_) \in Nat /\ last_sequence_ \in Nat
        /\ \A i \in 1 .. Len(writers_) : writers_[i] \in Threads
        /\ w \in [Threads -> Writer]
    BY DEF Typed, TypeOK, ClientTypes, DataTypes
  <1>2. /\ Len(writers_') = Len(writers_) - n
        /\ \A i \in 1 .. Len(writers_') : writers_'[i] = writers_[n + i]
    <2>1. writers_' = rest
      BY Zenon DEF Finish
    <2>2. \A i \in n + 1 .. Len(writers_) : writers_[i] \in Threads
      BY <1>1
    <2>3. /\ Len(rest) = IF n + 1 <= Len(writers_) THEN Len(writers_) - (n + 1) + 1 ELSE 0
          /\ \A i \in 1 .. Len(writers_) - (n + 1) + 1 : rest[i] = writers_[n + 1 + i - 1]
      BY <1>1, <2>2, SubSeqProperties
    <2>4. Len(rest) = Len(writers_) - n
      BY <1>1, <2>3
    <2>5. /\ Len(writers_) - (n + 1) + 1 = Len(writers_) - n
          /\ \A i \in 1 .. Len(writers_) - n : n + 1 + i - 1 = n + i
      BY <1>1
    <2>6. \A i \in 1 .. Len(writers_) - n : rest[i] = writers_[n + i]
      BY <2>3, <2>5, Zenon
    <2> QED
      BY <2>1, <2>3, <2>4, <2>6, Zenon
  <1>3. writers_[1] = t /\ t \in popped
    <2>1. writers_[1] = t
      <3>1. writers_ # << >> /\ Head(writers_) = t
        BY Zenon DEF QueueInv, LeaderIsFront
      <3>2. Head(writers_) = writers_[1]
        BY <1>1, <3>1
      <3> QED
        BY <3>1, <3>2
    <2>2. 1 \in 1 .. n
      BY <1>1
    <2> QED
      BY <2>1, <2>2, Zenon
  <1>4. ASSUME NEW u \in Threads
        PROVE  /\ w'[u].num = w[u].num /\ w'[u].batch = w[u].batch /\ w'[u].op = w[u].op
               /\ u \in popped => w'[u].status = s
               /\ u \notin popped => w'[u] = w[u]
    BY <1>1, Zenon DEF Finish, Writer
  <1>5. \A u \in Threads : Fresh(u)' = Fresh(u)
    BY <1>4, FreshSame
  <1>6. \A l \in Threads : pc'[l] # "insert"
    <2>1. \A u \in Threads : p[u] = pc[u] \/ (pc[u] \in SleepPC /\ p[u] \notin {"insert", "dead"})
      BY DEF Woken, SleepPC
    <2> QED
      BY <2>1, FinishData
  <1>7. Inserting'
    BY <1>6 DEF Inserting, Inserts
  <1>8. Waiting'
    <2>1. ASSUME NEW i \in 1 .. Len(writers_')
          PROVE  {e \in Entries' : e.thread = writers_'[i] /\ e.num = w'[writers_'[i]].num} = {}
      <3>1. n + i \in n + 1 .. Len(writers_) /\ n + i \in 1 .. Len(writers_)
        BY <1>1, <1>2
      <3>2. writers_'[i] = writers_[n + i]
        BY <1>2
      <3>3. PICK u \in Threads : u = writers_[n + i]
        BY <1>1, <3>1
      <3>4. Fresh(u) = {}
        BY <3>1, <3>3
      <3>5. Fresh(u)' = {}
        BY <1>5, <3>4
      <3> QED
        BY <3>2, <3>3, <3>5 DEF Fresh
    <2> QED
      BY <2>1 DEF Waiting, Fresh
  <1>9. ASSUME NEW u \in Threads
        PROVE  /\ pc'[u] = "dead" <=> pc[u] = "dead"
               /\ u # t => pc'[u] = pc[u] \/ pc'[u] = Woken[u] \/ pc'[u] = "cv_ready"
    BY Zenon DEF Finish, AfterWrite, Woken, LeaderPC
  <1>10. Returned'
    <2> SUFFICES ASSUME NEW u \in Threads, ~InQueue(u)', pc'[u] # "dead"
                 PROVE  /\ \A e \in Fresh(u) : e.seq <= last_sequence_'
                        /\ Cardinality(Fresh(u)) = IF w'[u].status = "OK" THEN w'[u].batch ELSE 0
      BY <1>5 DEF Returned
    <2>1. CASE u \in popped
      <3>1. PICK i \in 1 .. n : u = writers_[i]
        BY <2>1
      <3> QED
        BY <1>4, <2>1, <3>1
    <2>2. CASE u \notin popped
      <3>1. ~InQueue(u)
        <4> SUFFICES ASSUME InQueue(u) PROVE FALSE
          OBVIOUS
        <4>1. PICK i \in 1 .. Len(writers_) : writers_[i] = u
          BY DEF QueueInv, WaitersQueued
        <4>2. i > n
          <5>1. i \notin 1 .. n
            BY <2>2, <4>1, Zenon
          <5> QED
            BY <5>1
        <4>3. i - n \in 1 .. Len(writers_') /\ writers_'[i - n] = u
          <5>1. i - n \in 1 .. Len(writers_) - n /\ n + (i - n) = i
            BY <1>1, <4>2
          <5> QED
            BY <1>2, <4>1, <5>1, Zenon
        <4>4. \A j \in 1 .. Len(writers_') :
                 \/ pc'[writers_'[j]] \in QueuePC \cup {"dead"}
                 \/ pc'[writers_'[j]] = "cv_ready" /\ ~w'[writers_'[j]].done
          BY DEF QueueInv, QueuedWait, InQueue
        <4> QED
          BY <4>3, <4>4 DEF InQueue
      <3>2. /\ \A e \in Fresh(u) : e.seq <= last_sequence_
            /\ Cardinality(Fresh(u)) = IF w[u].status = "OK" THEN w[u].batch ELSE 0
        <4>1. pc[u] # "dead"
          BY <1>9
        <4> QED
          BY <3>1, <4>1 DEF AckInv, Returned
      <3>3. \A e \in Fresh(u) : e.seq \in Nat
        BY DEF Fresh, Entries, Typed, TypeOK, DataTypes, Op
      <3>4. w'[u] = w[u]
        BY <1>4, <2>2
      <3>5. \A e \in Fresh(u) : e.seq <= last_sequence_'
        BY <1>1, <3>2, <3>3
      <3> QED
        BY <3>2, <3>4, <3>5, Zenon
    <2> QED
      BY <2>1, <2>2
  <1>11. CallsMade'
    <2>1. \A e \in Entries : e.thread \in Threads
      BY DEF Typed, TypeOK, DataTypes, Entries, Op
    <2> QED
      BY <1>4, <2>1 DEF AckInv, CallsMade
  <1>12. NullBatch'
    <2>1. pc'[t] \in {"mem_check", "manual"} => w[t].op # "write"
      BY Zenon DEF Finish, AfterWrite
    <2>2. pc'[t] \notin {"mem_wait", "manual_wait"}
      BY Zenon DEF Finish, AfterWrite
    <2>3. ASSUME NEW u \in Threads
          PROVE  /\ w'[u].op # "write" => w'[u].batch = 0
                 /\ pc'[u] \in {"mem_check", "mem_wait", "manual", "manual_wait"} => w'[u].op # "write"
      <3>1. /\ w[u].op # "write" => w[u].batch = 0
            /\ pc[u] \in {"mem_check", "mem_wait", "manual", "manual_wait"} => w[u].op # "write"
        BY DEF AckInv, NullBatch
      <3>2. CASE u = t
        BY <1>4, <2>1, <2>2, <3>1, <3>2
      <3>3. CASE u # t
        <4>1. pc'[u] = pc[u] \/ pc'[u] = Woken[u] \/ pc'[u] = "cv_ready"
          BY <1>9, <3>3
        <4> QED
          BY <1>4, <3>1, <4>1 DEF Woken
      <3> QED
        BY <3>2, <3>3
    <2> QED
      BY <2>3 DEF NullBatch
  <1>13. AllDie'
    <2>1. \A u \in Threads : pc[u] # "dead"
      BY DEF AckInv, AllDie, LeaderPC
    <2> QED
      BY <1>9, <2>1 DEF AllDie
  <1> QED
    BY <1>7, <1>8, <1>10, <1>11, <1>12, <1>13 DEF AckInv

\* The group is complete: each writer in it has the operations between the end of the
\* batches before its own and the end of its own.
LEMMA AckCommit ==
    ASSUME Typed, QueueInv, QueueInv', DataInv, AckInv, NEW t \in Threads, Commit(t)
    PROVE  AckInv'
  <1>1. pc[t] \in {"insert", "sync_failed"} /\ pc[t] \in LeaderPC /\ Entries' = Entries
    <2>1. pc[t] \in {"insert", "sync_failed"}
      BY Zenon DEF Commit
    <2>2. Entries' = Entries
      BY EntriesSame DEF Commit, DataInv
    <2> QED
      BY <2>1, <2>2 DEF LeaderPC
  <1>2. /\ w[t].group \in 1 .. Len(writers_) /\ Len(writers_) \in Nat /\ last_sequence_ \in Nat
        /\ ClientTypes /\ \A i \in 1 .. Len(writers_) : writers_[i] \in Threads
    <2>1. w[t].group \in 1 .. Len(writers_)
      BY <1>1, Zenon DEF QueueInv, GroupWithin, GroupPC
    <2> QED
      BY <2>1 DEF Typed, TypeOK, ClientTypes, DataTypes
  <1>3. PICK n \in 1 .. Len(writers_) : n = w[t].group
    BY <1>2
  <1>4. n \in Nat /\ GroupSize(n) \in Nat /\ Count(t) = GroupSize(n)
    <2>1. n \in Nat
      BY <1>2, <1>3
    <2> QED
      BY <1>3, <2>1, GroupSizeType DEF Count
  <1>5. last_sequence_' = last_sequence_ + GroupSize(n)
    BY <1>4 DEF Commit, LastSequence
  <1>6. \A i \in 1 .. Len(writers_) : pc[writers_[i]] # "dead"
    BY <1>1, <1>2 DEF AckInv, AllDie
  <1>7. \A l \in Threads : pc[l] = "insert" => l = t
    BY <1>1, OneLeader DEF LeaderPC
  <1>8. \A i \in n + 1 .. Len(writers_) : Fresh(writers_[i]) = {}
    <2> TAKE i \in n + 1 .. Len(writers_)
    <2>1. i \in 1 .. Len(writers_) /\ i \notin 1 .. w[t].group
      BY <1>2, <1>3
    <2>2. \A l \in Threads : ~Inserts(l, i)
      BY <1>7, <2>1 DEF Inserts
    <2> QED
      BY <1>6, <2>1, <2>2 DEF AckInv, Waiting
  <1>9. last_sequence_' \in Nat /\ last_sequence_ <= last_sequence_'
    BY <1>2, <1>4, <1>5
  <1>10. CASE pc[t] = "insert"
    <2>1. Finish(t, n, "OK", pc)
      BY <1>3, <1>10 DEF Commit
    <2>2. w[t].inserted = GroupSize(n)
      <3>1. w[t].inserted >= Count(t) /\ w[t].inserted <= Count(t) /\ w[t].inserted \in Nat
        BY <1>10 DEF Commit, DataInv, InsertedWithin, Typed, TypeOK, ClientTypes, Writer
      <3> QED
        BY <1>4, <3>1
    <2>3. ASSUME NEW i \in 1 .. n
          PROVE  /\ \A e \in Fresh(writers_[i]) : e.seq <= last_sequence_'
                 /\ Cardinality(Fresh(writers_[i])) = w[writers_[i]].batch
      <3>1. i \in 1 .. Len(writers_) /\ i - 1 \in Nat /\ i \in Nat
        BY <1>2
      <3>2. PICK a \in Nat : a = GroupSize(i - 1)
        BY <3>1, GroupSizeType
      <3>3. PICK b \in Nat : b = GroupSize(i)
        BY <3>1, GroupSizeType
      <3>4. PICK c \in Nat : c = w[writers_[i]].batch
        <4>1. writers_[i] \in Threads
          BY <1>2, <3>1
        <4>2. w[writers_[i]].batch \in 0 .. MaxBatch
          BY <1>2, <4>1 DEF ClientTypes, Writer
        <4> QED
          BY <4>2, DBAssumption
      <3>5. b = a + c
        BY <1>2, <3>1, <3>2, <3>3, <3>4, GroupSizeStep
      <3>6. b <= GroupSize(n)
        BY <1>4, <3>3, GroupSizeGrows
      <3>7. Added(t, i) = a + 1 .. b
        BY <1>4, <2>2, <3>2, <3>3, <3>6 DEF Added
      <3>8. Fresh(writers_[i]) = {OpAt(writers_[i], k) : k \in a + 1 .. b}
        <4>1. Inserts(t, i)
          BY <1>3, <1>10 DEF Inserts
        <4> QED
          BY <3>1, <3>7, <4>1 DEF AckInv, Inserting
      <3>9. Cardinality(Fresh(writers_[i])) = c
        <4>1. PICK u : u = writers_[i]
          OBVIOUS
        <4>2. PICK d : d = w[u].num
          OBVIOUS
        <4>3. PICK q \in Nat : q = last_sequence_
          BY <1>2
        <4>4. Fresh(writers_[i]) = Ops(u, d, q, a, b)
          BY <3>8, <4>1, <4>2, <4>3, Zenon DEF OpAt, Ops
        <4>5. a <= b
          BY <3>5
        <4>6. Cardinality(Fresh(writers_[i])) = b - a
          BY <4>4, <4>5, OpsCounted
        <4> QED
          BY <3>5, <4>6
      <3>10. \A e \in Fresh(writers_[i]) : e.seq <= last_sequence_'
        <4> SUFFICES ASSUME NEW k \in a + 1 .. b PROVE OpAt(writers_[i], k).seq <= last_sequence_'
          BY <3>8
        <4>1. OpAt(writers_[i], k).seq = last_sequence_ + k
          BY DEF OpAt
        <4> QED
          BY <1>2, <1>4, <1>5, <3>6, <4>1
      <3> QED
        BY <3>4, <3>9, <3>10
    <2>4. \A i \in 1 .. n :
             /\ \A e \in Fresh(writers_[i]) : e.seq <= last_sequence_'
             /\ Cardinality(Fresh(writers_[i])) = IF "OK" = "OK" THEN w[writers_[i]].batch ELSE 0
      BY <2>3
    <2>5. "OK" \in Status
      BY DEF Status
    <2> QED
      BY <1>1, <1>8, <1>9, <2>1, <2>4, <2>5, AckFinish
  <1>11. CASE pc[t] = "sync_failed"
    <2>1. PICK p : p \in {pc, Woken} /\ Finish(t, n, "Error", p)
      BY <1>3, <1>11 DEF Commit
    <2>2. \A i \in 1 .. Len(writers_) : Fresh(writers_[i]) = {}
      BY <1>6, <1>7, <1>11 DEF AckInv, Waiting, Inserts
    <2>3. \A i \in 1 .. n : Fresh(writers_[i]) = {} /\ Cardinality(Fresh(writers_[i])) = 0
      <3>1. Cardinality({}) = 0
        BY FS_EmptySet
      <3>2. \A i \in 1 .. n : Fresh(writers_[i]) = {}
        BY <1>2, <2>2
      <3> QED
        BY <3>1, <3>2
    <2>4. \A i \in 1 .. n :
             /\ \A e \in Fresh(writers_[i]) : e.seq <= last_sequence_'
             /\ Cardinality(Fresh(writers_[i])) = IF "Error" = "OK" THEN w[writers_[i]].batch ELSE 0
      BY <2>3
    <2>5. "Error" \in Status /\ (p = pc \/ p = Woken)
      BY <2>1 DEF Status
    <2> QED
      BY <1>1, <1>8, <1>9, <2>1, <2>4, <2>5, AckFinish
  <1> QED
    BY <1>1, <1>10, <1>11

\* InsertInto adds the next operation: of the writer whose batch it is in, and of no other.
LEMMA AckInsert ==
    ASSUME Typed, QueueInv, AckInv, NEW t \in Threads, Insert(t)
    PROVE  AckInv'
  <1>1. /\ pc[t] = "insert" /\ pc[t] \in LeaderPC /\ w[t].inserted \in Nat /\ last_sequence_ \in Nat
        /\ w \in [Threads -> Writer] /\ writers_ \in Seq(Threads)
    BY DEF Insert, LeaderPC, Typed, TypeOK, DataTypes, ClientTypes, Writer
  <1>2. /\ w[t].group \in 1 .. Len(writers_) /\ Len(writers_) \in Nat
        /\ \A n \in 1 .. Len(writers_) : writers_[n] \in Threads
    BY <1>1 DEF QueueInv, GroupWithin, GroupPC
  <1>3. PICK k \in Nat : k = w[t].inserted
    BY <1>1
  <1>4. PICK i \in 1 .. w[t].group :
           /\ GroupSize(i - 1) <= k /\ k < GroupSize(i)
           /\ mem_' = mem_ \cup {[seq |-> last_sequence_ + 1 + k, thread |-> writers_[i],
                                  num |-> w[writers_[i]].num]}
    BY <1>3 DEF Insert
  <1>5. i \in 1 .. Len(writers_) /\ i - 1 \in Nat /\ i \in Nat
    BY <1>2
  <1>6. PICK u \in Threads : u = writers_[i]
    BY <1>2, <1>5
  <1>7. PICK x : x = OpAt(u, k + 1)
    OBVIOUS
  <1>8. x = [seq |-> last_sequence_ + 1 + k, thread |-> u, num |-> w[u].num]
    <2>1. last_sequence_ + (k + 1) = last_sequence_ + 1 + k
      BY <1>1
    <2> QED
      BY <1>7, <2>1 DEF OpAt
  <1>9. Entries' = Entries \cup {x}
    BY <1>4, <1>6, <1>8 DEF Insert, Entries
  <1>10. /\ UNCHANGED <<pc, writers_, last_sequence_>>
         /\ w' = [w EXCEPT ![t].inserted = k + 1]
    BY <1>3 DEF Insert
  <1>11. /\ w'[t].inserted = k + 1
         /\ \A v \in Threads : /\ w'[v].num = w[v].num /\ w'[v].batch = w[v].batch
                               /\ w'[v].op = w[v].op /\ w'[v].status = w[v].status
                               /\ w'[v].group = w[v].group /\ w'[v].done = w[v].done
    BY <1>1, <1>10 DEF Writer
  <1>12. Fresh(u)' = Fresh(u) \cup {x}
    BY <1>8, <1>9, <1>11 DEF Fresh
  <1>13. \A v \in Threads : v # u => Fresh(v)' = Fresh(v)
    BY <1>8, <1>9, <1>11 DEF Fresh
  <1>14. \A l \in Threads : pc[l] = "insert" => l = t
    BY <1>1, OneLeader DEF LeaderPC
  <1>15. \A n \in 1 .. Len(writers_) : writers_[n] = u => n = i
    BY <1>5, <1>6 DEF QueueInv, Distinct
  <1>16. \A v \in Threads : \A j : OpAt(v, j)' = OpAt(v, j)
    BY <1>10, <1>11 DEF OpAt
  <1>17. ASSUME NEW n \in 1 .. Len(writers_)
         PROVE  Added(t, n)' = IF n = i THEN Added(t, n) \cup {k + 1} ELSE Added(t, n)
    <2>1. n \in Nat /\ n - 1 \in Nat
      BY <1>2
    <2>2. GroupSize(n)' = GroupSize(n) /\ GroupSize(n - 1)' = GroupSize(n - 1)
      <3>1. \A j \in 1 .. Len(writers_) : w'[writers_'[j]].batch = w[writers_[j]].batch
        BY <1>2, <1>10, <1>11
      <3> QED
        BY <1>1, <3>1, SizesSame
    <2>3. PICK a \in Nat : a = GroupSize(n - 1)
      BY <2>1, GroupSizeType
    <2>4. PICK b \in Nat : b = GroupSize(n)
      BY <2>1, GroupSizeType
    <2>5. /\ Added(t, n) = {j \in a + 1 .. b : j <= k}
          /\ Added(t, n)' = {j \in a + 1 .. b : j <= k + 1}
      BY <1>3, <1>11, <2>2, <2>3, <2>4 DEF Added
    <2>6. CASE n = i
      <3>1. k + 1 \in a + 1 .. b
        BY <1>4, <2>3, <2>4, <2>6
      <3> QED
        BY <2>5, <2>6, <3>1
    <2>7. CASE n < i
      <3>1. GroupSize(n) <= GroupSize(i - 1) /\ GroupSize(i - 1) \in Nat
        BY <1>5, <2>1, <2>7, GroupSizeGrows
      <3>2. b <= k
        BY <1>4, <2>4, <3>1
      <3> QED
        BY <2>5, <2>7, <3>2
    <2>8. CASE n > i
      <3>1. GroupSize(i) <= GroupSize(n - 1) /\ GroupSize(i) \in Nat
        BY <1>5, <2>1, <2>8, GroupSizeGrows
      <3>2. k < a
        BY <1>4, <2>3, <3>1
      <3> QED
        BY <2>5, <2>8, <3>2
    <2> QED
      BY <1>5, <2>1, <2>6, <2>7, <2>8
  <1>18. \A l \in Threads, n \in 1 .. Len(writers_) : Inserts(l, n)' <=> Inserts(l, n)
    BY <1>10, <1>11 DEF Inserts
  <1>19. Inserting'
    <2> SUFFICES ASSUME NEW l \in Threads, NEW n \in 1 .. Len(writers_), Inserts(l, n)'
                 PROVE  Fresh(writers_[n])' = {OpAt(writers_[n], j) : j \in Added(l, n)}'
      BY <1>10 DEF Inserting
    <2>1. Inserts(t, n) /\ l = t
      BY <1>14, <1>18 DEF Inserts
    <2>2. PICK v \in Threads : v = writers_[n]
      BY <1>2
    <2>3. Fresh(v) = {OpAt(v, j) : j \in Added(t, n)}
      BY <2>1, <2>2 DEF AckInv, Inserting
    <2>4. Fresh(v)' = {OpAt(v, j) : j \in Added(t, n)'}
      <3>1. CASE n = i
        <4>1. v = u /\ Added(t, n)' = Added(t, n) \cup {k + 1}
          BY <1>6, <1>17, <2>2, <3>1
        <4>2. {OpAt(u, j) : j \in Added(t, n) \cup {k + 1}} = {OpAt(u, j) : j \in Added(t, n)} \cup {x}
          BY <1>7
        <4> QED
          BY <1>12, <2>3, <4>1, <4>2
      <3>2. CASE n # i
        <4>1. v # u /\ Added(t, n)' = Added(t, n)
          BY <1>15, <1>17, <2>2, <3>2
        <4> QED
          BY <1>13, <2>3, <4>1
      <3> QED
        BY <3>1, <3>2
    <2>5. Fresh(v)' = {OpAt(v, j)' : j \in Added(t, n)'}
      BY <1>16, <2>4
    <2>6. writers_'[n] = v
      BY <1>10, <2>2
    <2> QED
      BY <2>1, <2>5, <2>6 DEF Fresh, OpAt
  <1>20. Waiting'
    <2>1. ASSUME NEW n \in 1 .. Len(writers_), pc[writers_[n]] # "dead",
                 \A l \in Threads : ~Inserts(l, n)
          PROVE  Fresh(writers_[n])' = {}
      <3>1. PICK v \in Threads : v = writers_[n]
        BY <1>2
      <3>2. Fresh(v) = {}
        BY <2>1, <3>1 DEF AckInv, Waiting
      <3>3. n # i
        BY <1>1, <2>1 DEF Inserts
      <3>4. Fresh(v)' = {}
        BY <1>13, <1>15, <3>1, <3>2, <3>3
      <3> QED
        BY <1>10, <3>1, <3>4 DEF Fresh
    <2> QED
      BY <1>10, <1>18, <2>1 DEF Waiting
  <1>21. Returned'
    <2> SUFFICES ASSUME NEW v \in Threads, ~InQueue(v)', pc'[v] # "dead"
                 PROVE  /\ \A e \in Fresh(v)' : e.seq <= last_sequence_
                        /\ Cardinality(Fresh(v)') = IF w[v].status = "OK" THEN w[v].batch ELSE 0
      BY <1>10, <1>11 DEF Returned
    <2>1. ~InQueue(v) /\ pc[v] # "dead"
      BY <1>10, <1>11 DEF InQueue
    <2>2. v # u
      BY <1>5, <1>6, <2>1 DEF QueueInv, QueuedWait
    <2> QED
      BY <1>13, <2>1, <2>2 DEF AckInv, Returned
  <1>22. CallsMade'
    <2>1. \A e \in Entries : e.thread \in Threads
      BY DEF Typed, TypeOK, DataTypes, Entries, Op
    <2>2. x.thread = u /\ x.num = w[u].num
      BY <1>8
    <2>3. w[u].num \in Nat
      BY <1>1 DEF Writer
    <2> QED
      BY <1>9, <1>11, <2>1, <2>2, <2>3 DEF AckInv, CallsMade
  <1>23. NullBatch' /\ AllDie'
    BY <1>10, <1>11 DEF AckInv, NullBatch, AllDie
  <1> QED
    BY <1>19, <1>20, <1>21, <1>22, <1>23 DEF AckInv

\* A new call has a number that no entry has.
LEMMA AckEnqueue ==
    ASSUME Typed, QueueInv, AckInv, NEW t \in Threads, NEW op, NEW b, NEW s, NEW n,
           Enqueue(t, op, b, s, n)
    PROVE  AckInv'
  <1>1. /\ pc \in [Threads -> PC] /\ w \in [Threads -> Writer] /\ writers_ \in Seq(Threads)
        /\ pc[t] = "idle" /\ UNCHANGED <<last_sequence_, memVars>>
        /\ pc' = [pc EXCEPT ![t] = FirstPC] /\ writers_' = Append(writers_, t)
    BY DEF Enqueue, Typed, TypeOK, ClientTypes
  <1>2. Entries' = Entries
    BY <1>1 DEF Entries, memVars
  <1>3. /\ w'[t].num = w[t].num + 1 /\ w'[t].batch = b /\ w'[t].op = op
        /\ \A u \in Threads : u # t => w'[u] = w[u]
        /\ op # "write" => b = 0
    BY <1>1 DEF Enqueue
  <1>4. pc'[t] \in {"room", "cv_wait"} /\ \A u \in Threads : u # t => pc'[u] = pc[u]
    BY <1>1 DEF FirstPC
  <1>5. /\ Len(writers_) \in Nat /\ Len(writers_') = Len(writers_) + 1
        /\ \A i \in 1 .. Len(writers_) : /\ writers_'[i] = writers_[i]
                                         /\ writers_[i] \in Threads /\ writers_[i] # t
        /\ writers_'[Len(writers_) + 1] = t
    <2>1. \A i \in 1 .. Len(writers_) : writers_[i] # t
      BY <1>1 DEF QueueInv, QueuedWait, InQueue, QueuePC, LeaderPC
    <2> QED
      BY <1>1, <2>1
  <1>6. \A e \in Entries : e.thread \in Threads /\ e.num \in Nat
    BY DEF Typed, TypeOK, DataTypes, Entries, Op
  <1>7. w[t].num \in Nat
    BY <1>1 DEF Writer
  <1>8. Fresh(t)' = {}
    BY <1>2, <1>3, <1>6, <1>7 DEF AckInv, CallsMade, Fresh
  <1>9. \A u \in Threads : u # t => Fresh(u)' = Fresh(u)
    BY <1>2, <1>3 DEF Fresh
  <1>10. \A l \in Threads : \A i \in 1 .. Len(writers_) : Inserts(l, i)' <=> Inserts(l, i)
    BY <1>1, <1>3, <1>4 DEF Inserts
  <1>11. \A l \in Threads : \A i : i = Len(writers_) + 1 => ~Inserts(l, i)'
    <2>1. \A l \in Threads : pc'[l] = "insert" => w'[l].group \in 1 .. Len(writers_)
      <3> SUFFICES ASSUME NEW l \in Threads, pc'[l] = "insert"
                   PROVE  w'[l].group \in 1 .. Len(writers_)
        OBVIOUS
      <3>1. l # t /\ pc[l] = "insert"
        BY <1>4
      <3> QED
        BY <1>3, <3>1, Zenon DEF QueueInv, GroupWithin, GroupPC
    <2>2. \A l \in Threads : pc'[l] = "insert" => Len(writers_) + 1 \notin 1 .. w'[l].group
      BY <1>5, <2>1
    <2> QED
      BY <2>2, Zenon DEF Inserts
  <1>12. Inserting'
    <2>1. ASSUME NEW l \in Threads, NEW i \in 1 .. Len(writers_), Inserts(l, i)
          PROVE  Fresh(writers_[i])' = {OpAt(writers_[i], k) : k \in Added(l, i)}'
      <3>1. PICK u \in Threads : u = writers_[i] /\ u = writers_'[i] /\ u # t
        BY <1>5
      <3>2. Fresh(u)' = {OpAt(u, k) : k \in Added(l, i)}
        <4>1. Fresh(u) = {OpAt(u, k) : k \in Added(l, i)}
          <5>1. Fresh(writers_[i]) = {OpAt(writers_[i], k) : k \in Added(l, i)}
            BY <2>1 DEF AckInv, Inserting
          <5> QED
            BY <3>1, <5>1, Zenon
        <4> QED
          BY <1>9, <3>1, <4>1
      <3>3. GroupSize(i)' = GroupSize(i) /\ GroupSize(i - 1)' = GroupSize(i - 1)
        <4>1. \A j \in 1 .. Len(writers_) : w'[writers_'[j]].batch = w[writers_[j]].batch
          BY <1>3, <1>5
        <4> QED
          BY <1>1, <4>1, SizesSame
      <3>4. l # t
        BY <1>1, <2>1 DEF Inserts
      <3>5. Added(l, i)' = Added(l, i)
        BY <1>3, <3>3, <3>4 DEF Added
      <3>6. \A k : OpAt(u, k)' = OpAt(u, k)
        BY <1>1, <1>3, <3>1 DEF OpAt
      <3>7. Fresh(u)' = {OpAt(u, k)' : k \in Added(l, i)'}
        BY <3>2, <3>5, <3>6
      <3> QED
        BY <3>1, <3>7 DEF Fresh, OpAt
    <2>2. \A i \in 1 .. Len(writers_') : i \in 1 .. Len(writers_) \/ i = Len(writers_) + 1
      BY <1>5
    <2> QED
      BY <1>10, <1>11, <2>1, <2>2 DEF Inserting
  <1>13. Waiting'
    <2>1. ASSUME NEW i \in 1 .. Len(writers_'), pc'[writers_'[i]] # "dead",
                 \A l \in Threads : ~Inserts(l, i)'
          PROVE  \A u \in Threads : u = writers_'[i] => Fresh(u)' = {}
      <3>1. CASE i = Len(writers_) + 1
        BY <1>5, <1>8, <3>1
      <3>2. CASE i \in 1 .. Len(writers_)
        <4>1. PICK u \in Threads : u = writers_[i] /\ u = writers_'[i] /\ u # t
          BY <1>5, <3>2
        <4>2. Fresh(u) = {}
          BY <1>4, <1>10, <2>1, <3>2, <4>1 DEF AckInv, Waiting
        <4> QED
          BY <1>9, <4>1, <4>2
      <3> QED
        BY <1>5, <3>1, <3>2
    <2>2. \A i \in 1 .. Len(writers_') : writers_'[i] \in Threads
      BY <1>5
    <2> QED
      BY <2>1, <2>2 DEF Waiting, Fresh
  <1>14. Returned'
    <2> SUFFICES ASSUME NEW u \in Threads, ~InQueue(u)', pc'[u] # "dead"
                 PROVE  /\ \A e \in Fresh(u)' : e.seq <= last_sequence_
                        /\ Cardinality(Fresh(u)') = IF w'[u].status = "OK" THEN w'[u].batch ELSE 0
      BY <1>1 DEF Returned
    <2>1. u # t
      BY <1>4 DEF InQueue, QueuePC, LeaderPC
    <2>2. ~InQueue(u) /\ pc[u] # "dead"
      BY <1>3, <1>4, <2>1 DEF InQueue
    <2>3. Fresh(u)' = Fresh(u) /\ w'[u] = w[u]
      BY <1>3, <1>9, <2>1
    <2> QED
      BY <2>2, <2>3 DEF AckInv, Returned
  <1>15. CallsMade'
    BY <1>2, <1>3, <1>6, <1>7 DEF AckInv, CallsMade
  <1>16. NullBatch'
    BY <1>3, <1>4 DEF AckInv, NullBatch
  <1>17. AllDie'
    BY <1>1, <1>4 DEF AckInv, AllDie
  <1> QED
    BY <1>12, <1>13, <1>14, <1>15, <1>16, <1>17 DEF AckInv

\* Nothing has been written to a new database.
LEMMA AckInit == Init => AckInv
  <1> SUFFICES ASSUME Init PROVE AckInv
    OBVIOUS
  <1>1. Entries = {} /\ Len(writers_) = 0
    BY DEF Init, Entries
  <1>2. \A t \in Threads : pc[t] = "idle" /\ w[t].op = "write" /\ w[t].batch = 0
    BY DEF Init
  <1>3. \A t \in Threads : Fresh(t) = {}
    BY <1>1 DEF Fresh
  <1>4. Cardinality({}) = 0
    BY FS_EmptySet
  <1>5. Returned
    BY <1>2, <1>3, <1>4 DEF Returned
  <1> QED
    <2>1. Inserting /\ Waiting
      BY <1>1 DEF Inserting, Waiting
    <2>2. CallsMade /\ NullBatch /\ AllDie
      BY <1>1, <1>2 DEF CallsMade, NullBatch, AllDie
    <2> QED
      BY <1>5, <2>1, <2>2 DEF AckInv

\* Steps of the background thread and of the destructor.
LEMMA AckBackground ==
    ASSUME Typed, QueueInv, AckInv, Entries' = Entries, UNCHANGED <<w, writers_, last_sequence_>>,
           pc' = pc \/ pc' = Woken \/ pc' = [t \in Threads |-> "dead"]
    PROVE  AckInv'
  <1>1. SameCalls
    BY DEF SameCalls
  <1>2. CASE pc' = pc
    BY <1>1, <1>2, AckFrame DEF InQueue
  <1>3. CASE pc' = Woken
    <2>1. \A u \in Threads :
             \/ pc'[u] = pc[u]
             \/ pc[u] = "room_wait" /\ pc'[u] = "room_ready"
             \/ pc[u] = "mem_wait" /\ pc'[u] = "mem_check"
             \/ pc[u] = "manual_wait" /\ pc'[u] = "manual"
      BY <1>3 DEF Woken
    <2>2. \A u \in Threads : InQueue(u)' <=> InQueue(u)
      BY <2>1 DEF InQueue, QueuePC, LeaderPC
    <2>3. \A u \in Threads :
             /\ pc'[u] = "insert" <=> pc[u] = "insert"
             /\ pc'[u] = "dead" <=> pc[u] = "dead"
             /\ pc'[u] \in {"mem_check", "mem_wait", "manual", "manual_wait"} =>
                  pc[u] \in {"mem_check", "mem_wait", "manual", "manual_wait"}
      BY <2>1
    <2> QED
      BY <1>1, <2>2, <2>3, AckFrame
  <1>4. CASE pc' = [t \in Threads |-> "dead"]
    <2>1. \A u \in Threads : pc'[u] = "dead"
      BY <1>4
    <2>2. \A i \in 1 .. Len(writers_) : writers_[i] \in Threads
      BY DEF Typed, TypeOK, ClientTypes
    <2>3. Inserting' /\ Returned' /\ NullBatch' /\ AllDie'
      BY <2>1 DEF AckInv, Inserting, Inserts, Returned, NullBatch, AllDie
    <2>4. Waiting' /\ CallsMade'
      BY <2>1, <2>2 DEF AckInv, Waiting, CallsMade
    <2> QED
      BY <2>3, <2>4 DEF AckInv
  <1> QED
    BY <1>2, <1>3, <1>4

\* A step of client t that stays in the queue, or out of it, and adds nothing.
LEMMA AckClient ==
    ASSUME Typed, QueueInv, AckInv, NEW t \in Threads, pc[t] # "insert", pc[t] # "dead",
           NEW v, v # "insert", v # "dead", pc' = [pc EXCEPT ![t] = v], InQueue(t)' <=> InQueue(t),
           v \in {"mem_check", "mem_wait", "manual", "manual_wait"} => w[t].op # "write",
           UNCHANGED <<writers_, last_sequence_, memVars>>, SameCalls,
           \A u \in Threads : /\ w'[u].done = w[u].done /\ w'[u].group = w[u].group
                              /\ w'[u].inserted = w[u].inserted
    PROVE  AckInv'
  <1>1. pc'[t] = v /\ \A u \in Threads : u # t => pc'[u] = pc[u]
    BY DEF Typed, TypeOK, ClientTypes
  <1>2. Entries' = Entries
    BY DEF Entries, memVars
  <1>3. \A u \in Threads :
           /\ pc'[u] = "insert" <=> pc[u] = "insert"
           /\ pc'[u] = "dead" <=> pc[u] = "dead"
           /\ pc'[u] \in {"mem_check", "mem_wait", "manual", "manual_wait"} =>
                pc[u] \in {"mem_check", "mem_wait", "manual", "manual_wait"} \/ w[u].op # "write"
    BY <1>1
  <1>4. \A u \in Threads : InQueue(u)' <=> InQueue(u)
    BY <1>1 DEF InQueue
  <1> QED
    BY <1>2, <1>3, <1>4, AckFrame

LEMMA LaterPlaces == \A n \in Nat : \A i \in 1 + 1 .. n : i \in 1 .. n
OBVIOUS

\* A writer that ends alone, with a NULL batch or with an error, has inserted nothing.
LEMMA AckEmpty ==
    ASSUME Typed, QueueInv, QueueInv', DataInv, AckInv, NEW t \in Threads, pc[t] = "room",
           NEW s \in Status, s = "OK" => w[t].batch = 0, Finish(t, 1, s, pc),
           Entries' = Entries, UNCHANGED last_sequence_
    PROVE  AckInv'
  <1>1. /\ pc[t] \in LeaderPC /\ last_sequence_ \in Nat /\ Len(writers_) \in Nat
        /\ \A i \in 1 .. Len(writers_) : writers_[i] \in Threads
    BY DEF LeaderPC, Typed, TypeOK, ClientTypes, DataTypes
  <1>2. 1 \in 1 .. Len(writers_) /\ writers_[1] = t
    BY <1>1 DEF QueueInv, LeaderIsFront, Typed, TypeOK, ClientTypes
  <1>3. \A l \in Threads : pc[l] # "insert"
    BY <1>1, NobodyInserts
  <1>4. \A i \in 1 .. Len(writers_) : Fresh(writers_[i]) = {}
    BY <1>1, <1>3 DEF AckInv, Waiting, Inserts, AllDie
  <1>5. \A i \in 1 .. 1 : i = 1
    OBVIOUS
  <1>6. Cardinality({}) = 0
    BY FS_EmptySet
  <1>7. Cardinality(Fresh(writers_[1])) = IF s = "OK" THEN w[writers_[1]].batch ELSE 0
    BY <1>2, <1>4, <1>6
  <1>8. \A i \in 1 .. 1 :
           /\ \A e \in Fresh(writers_[i]) : e.seq <= last_sequence_'
           /\ Cardinality(Fresh(writers_[i])) = IF s = "OK" THEN w[writers_[i]].batch ELSE 0
    BY <1>2, <1>4, <1>5, <1>7
  <1>9. \A i \in 1 + 1 .. Len(writers_) : Fresh(writers_[i]) = {}
    BY <1>1, <1>4, LaterPlaces, Zenon
  <1>10. last_sequence_' \in Nat /\ last_sequence_ <= last_sequence_'
    BY <1>1
  <1>11. pc = pc \/ pc = Woken
    OBVIOUS
  <1> QED
    BY <1>1, <1>2, <1>8, <1>9, <1>10, <1>11, AckFinish

\* Every step of a client keeps the invariant of the writes.
LEMMA AckClientStep ==
    ASSUME Typed, QueueInv, QueueInv', DataInv, AckInv, NEW t \in Threads, ClientStep(t)
    PROVE  AckInv'
  <1>t. pc \in [Threads -> PC] /\ w \in [Threads -> Writer] /\ last_sequence_ \in Nat
    BY DEF Typed, TypeOK, ClientTypes, DataTypes
  <1>w. UNCHANGED w =>
          /\ SameCalls
          /\ \A u \in Threads : /\ w'[u].done = w[u].done /\ w'[u].group = w[u].group
                                /\ w'[u].inserted = w[u].inserted
    BY DEF SameCalls
  <1>1. CASE Awake(t)
    <2>1. PICK v : /\ pc' = [pc EXCEPT ![t] = v]
                   /\ w[t].done => v = AfterWrite(t, w[t].status)
                   /\ ~w[t].done => v \in {"room", "cv_wait"}
      BY <1>1 DEF Awake
    <2>2. v \in {"idle", "mem_check", "manual", "room", "cv_wait"}
      BY <2>1 DEF AfterWrite
    <2>3. v \in {"mem_check", "manual"} => w[t].op # "write"
      BY <2>1 DEF AfterWrite
    <2>4. pc[t] = "cv_ready" /\ pc'[t] = v /\ UNCHANGED <<w, writers_, last_sequence_, memVars>>
      BY <1>t, <1>1, <2>1 DEF Awake
    <2>5. InQueue(t)' <=> InQueue(t)
      BY <2>1, <2>4 DEF InQueue, QueuePC, LeaderPC, AfterWrite
    <2> QED
      BY <1>w, <2>1, <2>2, <2>3, <2>4, <2>5, AckClient
  <1>2. CASE Room_Wait(t)
    <2>1. PICK v \in {"delay", "room_wait"} : pc' = [pc EXCEPT ![t] = v]
      BY <1>2 DEF Room_Wait
    <2>2. /\ SameCalls
          /\ \A u \in Threads : /\ w'[u].done = w[u].done /\ w'[u].group = w[u].group
                                /\ w'[u].inserted = w[u].inserted
      <3>1. CASE w' = [w EXCEPT ![t].allow_delay = FALSE]
        BY <1>t, <3>1 DEF SameCalls, Writer
      <3> QED
        BY <1>w, <1>2, <3>1 DEF Room_Wait
    <2>3. pc[t] = "room" /\ pc'[t] = v /\ UNCHANGED <<writers_, last_sequence_, memVars>>
      BY <1>t, <1>2, <2>1 DEF Room_Wait
    <2>4. InQueue(t)' <=> InQueue(t)
      BY <2>3 DEF InQueue, QueuePC, LeaderPC
    <2> QED
      BY <2>1, <2>2, <2>3, <2>4, AckClient
  <1>3. CASE Room_Again(t)
    <2>1. /\ pc[t] \in {"delay", "room_ready"} /\ pc' = [pc EXCEPT ![t] = "room"]
          /\ UNCHANGED <<w, writers_, last_sequence_, memVars>>
      BY <1>3 DEF Room_Again
    <2>2. InQueue(t)' <=> InQueue(t)
      BY <1>t, <2>1 DEF InQueue, QueuePC, LeaderPC
    <2> QED
      BY <1>w, <2>1, <2>2, AckClient
  <1>4. CASE Room_Made(t)
    <2>1. pc[t] = "room" /\ pc[t] \in LeaderPC /\ UNCHANGED last_sequence_ /\ StartGroup(t)
      BY <1>4 DEF Room_Made, LeaderPC
    <2>2. Entries' = Entries
      <3>1. CASE UNCHANGED memVars
        BY <3>1 DEF memVars, Entries
      <3>2. CASE ~MustWait /\ imm_' = mem_ /\ mem_' = {} /\ UNCHANGED tables
        BY <3>2 DEF MustWait, DataInv, NoImm, Entries
      <3> QED
        BY <1>4, <3>1, <3>2 DEF Room_Made
    <2>3. CASE w[t].batch = 0 /\ Finish(t, 1, "OK", pc)
      BY <1>t, <2>1, <2>2, <2>3, AckEmpty DEF Status
    <2>4. CASE w[t].batch # 0
      <3>1. PICK n : /\ w' = [w EXCEPT ![t].group = n]
                     /\ pc' = [pc EXCEPT ![t] = IF w[t].sync THEN "sync" ELSE "insert"]
                     /\ UNCHANGED writers_
        BY <2>1, <2>4 DEF StartGroup
      <3>2. PICK v \in GroupPC : pc' = [pc EXCEPT ![t] = v]
        BY <3>1 DEF GroupPC
      <3>3. /\ SameCalls
            /\ \A u \in Threads : w'[u].done = w[u].done /\ w'[u].inserted = w[u].inserted
        BY <1>t, <3>1 DEF SameCalls, Writer
      <3> QED
        BY <2>1, <2>2, <3>1, <3>2, <3>3, AckStart
    <2> QED
      BY <2>1, <2>3, <2>4 DEF StartGroup
  <1>5. CASE Room_Fails(t)
    <2>1. /\ pc[t] = "room" /\ UNCHANGED <<last_sequence_, memVars>> /\ Finish(t, 1, "Error", pc)
      BY <1>5 DEF Room_Fails
    <2>2. Entries' = Entries
      BY <2>1 DEF memVars, Entries
    <2> QED
      BY <2>1, <2>2, AckEmpty DEF Status
  <1>6. CASE Sync(t)
    <2>1. PICK v \in GroupPC : pc' = [pc EXCEPT ![t] = v]
      BY <1>6 DEF Sync, GroupPC
    <2>2. /\ pc[t] = "sync" /\ pc[t] \in LeaderPC
          /\ UNCHANGED <<w, writers_, last_sequence_, memVars>>
      BY <1>6 DEF Sync, LeaderPC
    <2>3. Entries' = Entries
      BY <2>2 DEF memVars, Entries
    <2> QED
      BY <1>w, <2>1, <2>2, <2>3, AckStart
  <1>7. CASE Insert(t)
    BY <1>7, AckInsert
  <1>8. CASE Commit(t)
    BY <1>8, AckCommit
  <1>9. CASE MemCheck(t)
    <2>1. PICK v \in {"mem_wait", "idle", "manual"} : pc' = [pc EXCEPT ![t] = v]
      BY <1>9 DEF MemCheck
    <2>2. /\ pc[t] = "mem_check" /\ pc'[t] = v /\ w[t].op # "write" /\ w[t].batch = 0
          /\ UNCHANGED <<writers_, last_sequence_, memVars>>
      BY <1>t, <1>9, <2>1 DEF MemCheck, AckInv, NullBatch
    <2>3. /\ SameCalls
          /\ \A u \in Threads : /\ w'[u].done = w[u].done /\ w'[u].group = w[u].group
                                /\ w'[u].inserted = w[u].inserted
      <3>1. CASE \E s : w' = [w EXCEPT ![t].status = s]
        BY <1>t, <2>2, <3>1 DEF SameCalls, Writer
      <3> QED
        BY <1>w, <1>9, <3>1 DEF MemCheck
    <2>4. InQueue(t)' <=> InQueue(t)
      BY <2>2 DEF InQueue, QueuePC, LeaderPC
    <2> QED
      BY <2>1, <2>2, <2>3, <2>4, AckClient
  <1>10. CASE Manual_Wait(t) \/ Manual_Done(t)
    <2>1. PICK v \in {"manual", "manual_wait", "idle"} : pc' = [pc EXCEPT ![t] = v]
      BY <1>t, <1>10 DEF Manual_Wait, Manual_Done
    <2>2. /\ pc[t] = "manual" /\ pc'[t] = v /\ w[t].op # "write"
          /\ UNCHANGED <<w, writers_, last_sequence_, memVars>>
      BY <1>t, <1>10, <2>1 DEF Manual_Wait, Manual_Done, AckInv, NullBatch
    <2>3. InQueue(t)' <=> InQueue(t)
      BY <2>2 DEF InQueue, QueuePC, LeaderPC
    <2> QED
      BY <1>w, <2>1, <2>2, <2>3, AckClient
  <1> QED
    BY <1>1, <1>2, <1>3, <1>4, <1>5, <1>6, <1>7, <1>8, <1>9, <1>10 DEF ClientStep

\* Every step of the system keeps the invariant of the writes.
LEMMA AckNext == Typed /\ QueueInv /\ DataInv /\ AckInv /\ [Next]_vars => AckInv'
  <1> SUFFICES ASSUME Typed, QueueInv, DataInv, AckInv, [Next]_vars PROVE AckInv'
    OBVIOUS
  <1>1. QueueInv'
    BY QueueNext
  <1>2. CASE \E t \in Threads : NewCall(t)
    BY <1>2, AckEnqueue DEF NewCall
  <1>3. CASE \E t \in Threads : ClientStep(t)
    BY <1>1, <1>3, AckClientStep
  <1>4. CASE BackgroundStep
    <2>1. /\ UNCHANGED <<w, writers_, last_sequence_>> /\ Entries' = Entries
          /\ pc' = pc \/ pc' = Woken \/ pc' = [t \in Threads |-> "dead"]
      BY <1>4, BackgroundMoves DEF DataInv, SignalAll
    <2> QED
      BY <2>1, AckBackground
  <1>5. CASE (\E l \in 0 .. NumLevels - 2 : Get_UpdateStats(l)) \/ Close \/ UNCHANGED vars
    <2>1. UNCHANGED <<pc, w, writers_, last_sequence_, memVars>>
      BY <1>5 DEF Get_UpdateStats, Close, vars
    <2>2. Entries' = Entries
      BY <2>1, EntriesSame DEF DataInv
    <2> QED
      BY <2>1, <2>2, AckBackground
  <1> QED
    BY <1>2, <1>3, <1>4, <1>5 DEF Next, Over

-----------------------------------------------------------------------------
(* The theorems *)

\* The inductive invariant of DBImpl.
IInv == Typed /\ QueueInv /\ SchedInv /\ DataInv /\ AckInv

\* IInv holds in every reachable state of db_impl.cpp's concurrency control.
THEOREM Inductive == Spec => []IInv
  <1>1. Init => IInv
    BY TypedInit, QueueInit, SchedInit, DataInit, AckInit DEF IInv
  <1>2. IInv /\ [Next]_vars => IInv'
    BY TypedNext, QueueNext, SchedNext, DataNext, AckNext DEF IInv, QueueInv
  <1> QED
    BY <1>1, <1>2, PTL DEF Spec

\* All members keep their types; in particular no compaction removes more files from a
\* level than the version has.
THEOREM TypeCorrect == Spec => []TypeOK
  <1>1. IInv => TypeOK
    BY DEF IInv, Typed
  <1> QED
    BY <1>1, Inductive, PTL

\* At any time only the front of writers_ is past the test of Write: mem_ has one
\* inserter, and MakeRoomForWrite is never run by two threads.
THEOREM OneLeaderAtATime == Spec => []LeaderIsFront
  <1>1. IInv => LeaderIsFront
    BY DEF IInv, QueueInv
  <1> QED
    BY <1>1, Inductive, PTL

\* The front of writers_ is never left asleep: Write's signals to the popped writers and
\* to the new front cover every way a group can end.
THEOREM NoLostSignal == Spec => []FrontIsAwake
  <1>1. IInv => FrontIsAwake
    BY DEF IInv, QueueInv
  <1> QED
    BY <1>1, Inductive, PTL

\* bg_compaction_scheduled_ stands for exactly one call, queued or running, and none is
\* left when the destructor has returned.
THEOREM AtMostOneCall == Spec => []OneBackgroundCall
  <1>1. IInv => OneBackgroundCall
    BY DEF IInv, SchedInv
  <1> QED
    BY <1>1, Inductive, PTL

\* Whoever sleeps on bg_cv_, for room, for a flush, for a manual compaction or in the
\* destructor, has a background call coming whose end wakes it.
THEOREM NoSleeperForgotten == Spec => []SleepersHaveWaker
  <1>1. IInv => SleepersHaveWaker
    BY DEF IInv, SchedInv
  <1> QED
    BY <1>1, Inductive, PTL

\* No two operations of any groups are given one sequence number.
THEOREM UniqueSequences == Spec => []SequencesUnique
  <1>1. IInv => SequencesUnique
    BY DEF IInv, DataInv
  <1> QED
    BY <1>1, Inductive, PTL

\* A write that has returned OK, as leader or as follower of a group, has its whole batch
\* published; one that has failed has nothing of it in the database.
THEOREM AckedWritesVisible == Spec => []AckedVisible
  <1>1. ASSUME IInv, NEW t \in Threads, pc[t] = "idle" \/ (pc[t] = "cv_ready" /\ w[t].done)
        PROVE  Cardinality({e \in Published : e.thread = t /\ e.num = w[t].num})
                 = IF w[t].status = "OK" THEN w[t].batch ELSE 0
    <2>1. ~InQueue(t) /\ pc[t] # "dead"
      BY <1>1 DEF InQueue, QueuePC, LeaderPC
    <2>2. /\ \A e \in Fresh(t) : e.seq <= last_sequence_
          /\ Cardinality(Fresh(t)) = IF w[t].status = "OK" THEN w[t].batch ELSE 0
      BY <1>1, <2>1 DEF IInv, AckInv, Returned
    <2>3. {e \in Published : e.thread = t /\ e.num = w[t].num} = Fresh(t)
      BY <2>2 DEF Published, Fresh
    <2> QED
      BY <2>2, <2>3
  <1>2. IInv => AckedVisible
    BY <1>1 DEF AckedVisible
  <1> QED
    BY <1>2, Inductive, PTL

\* What a reader sees at a published sequence number never changes, through memtable
\* switches, flushes and groups being inserted.
THEOREM StableSnapshots == Spec => SnapshotsStable
  <1>1. IInv /\ [Next]_vars => [{e \in Entries' : e.seq <= last_sequence_} = Published]_vars
    BY SnapshotStep DEF IInv, DataInv
  <1> QED
    BY <1>1, Inductive, PTL DEF Spec, SnapshotsStable
=============================================================================
