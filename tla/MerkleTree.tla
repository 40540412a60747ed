----------------------------- MODULE MerkleTree -----------------------------
(***************************************************************************)
(* The Merkle tree of a new table (BuildTable in db/builder.cpp, LPADP2).  *)
(* The tree has FILE_RECORDS leaves and lies level by level in one array;  *)
(* node n is followed up to n / 2 + FILE_RECORDS.  Every record is stored  *)
(* with its proof, the TREE_HEIGHT siblings on its way to the root.        *)
(*                                                                         *)
(* A leaf is the hash of a key and its whole value; what is stored is      *)
(* VSIZE bytes from where the value begins, whatever its length, which is  *)
(* 0 for a deletion.  Nothing limits the number of records of a memtable,  *)
(* or their size, to what the arrays hold.  A read outside the tree gives  *)
(* any node; after a record that does not fit its buffer nothing is known. *)
(***************************************************************************)
EXTENDS Naturals, Sequences

CONSTANTS
    FILE_RECORDS,
    TREE_HEIGHT,
    KSIZE, VSIZE,   \* the bytes of a key and of a value, as the buffers assume
    Bytes,
    Memtables,      \* what the iterators of memtables may yield
    Uninitialized,  \* what new char[] may leave in a node
    Cmac(_),        \* sgx_rijndael128_cmac_msg of a string of bytes
    CmacOfPair(_, _)    \* ... and of two nodes that lie side by side

N == FILE_RECORDS

\* The sizes of the levels: each is half of the one below, and the last one is the root.
Halves(size) ==
    /\ size[0] = N /\ size[TREE_HEIGHT] = 1
    /\ \A k \in 0 .. TREE_HEIGHT - 1 : size[k] = 2 * size[k + 1]

ASSUME TreeAssumption ==
    /\ N \in Nat \ {0} /\ TREE_HEIGHT \in Nat
    /\ \E size \in [0 .. TREE_HEIGHT -> 1 .. N] : Halves(size)

Record == [key : Seq(Bytes), value : Seq(Bytes)]

ASSUME RecordsAssumption ==
    KSIZE \in Nat /\ VSIZE \in Nat /\ Memtables \subseteq Seq(Record)

VARIABLES
    records,        \* what the iterator of the memtable yields
    merkle, mp, thr, previous, stride, i, j,
    ppos, index, proof,
    added,          \* what went to the table builder: records with their proofs
    rh,             \* meta->rh, at most one
    folded,         \* history: what comes out of hashing along the proof so far
    pc              \* the loop: "leaves", "inner", "proofs", or "done"; "overrun"

tree == <<merkle, mp, thr, previous, stride>>
vars == <<records, tree, i, j, ppos, index, proof, added, rh, folded, pc>>

Init ==
    /\ records \in Memtables
    /\ merkle \in [0 .. 2 * N - 1 -> Uninitialized]
    /\ mp = 0 /\ thr = 0 /\ previous = 0 /\ stride = N /\ i = 0 /\ j = 0
    /\ ppos = 0 /\ index = 0 /\ proof \in [0 .. TREE_HEIGHT - 1 -> Uninitialized]
    /\ added = <<>> /\ rh = <<>> /\ folded \in Uninitialized
    /\ pc = "leaves"
-----------------------------------------------------------------------------
\* What is hashed of a record, and what is hashed by whoever reads it back.
Message(r) == r.key \o r.value

Fits(r) == Len(Message(r)) <= KSIZE + VSIZE + 16

Leaf ==
    /\ pc = "leaves" /\ thr < Len(records) /\ thr < N /\ Fits(records[thr + 1])
    /\ merkle' = [merkle EXCEPT ![mp] = Cmac(Message(records[thr + 1]))]
    /\ mp' = mp + 1 /\ thr' = thr + 1
    /\ UNCHANGED <<records, previous, stride, i, j, ppos, index, proof, added, rh, folded, pc>>

Overrun ==
    /\ pc = "leaves" /\ thr < Len(records) /\ thr < N /\ ~Fits(records[thr + 1])
    /\ pc' = "overrun"
    /\ UNCHANGED <<records, tree, i, j, ppos, index, proof, added, rh, folded>>

LeavesDone ==
    /\ pc = "leaves" /\ ~(thr < Len(records) /\ thr < N)
    /\ mp' = N /\ previous' = 0 /\ stride' = N /\ i' = 0 /\ j' = 0
    /\ pc' = "inner"
    /\ UNCHANGED <<records, merkle, thr, ppos, index, proof, added, rh, folded>>

InnerNode ==
    /\ pc = "inner" /\ i < TREE_HEIGHT /\ j < stride
    /\ merkle' = [merkle EXCEPT ![mp] = CmacOfPair(merkle[previous + j], merkle[previous + j + 1])]
    /\ mp' = mp + 1 /\ j' = j + 2
    /\ UNCHANGED <<records, thr, previous, stride, i, ppos, index, proof, added, rh, folded, pc>>

\* Mutant: the next level is looked for where this one begins.
LevelDone_Stays ==
    /\ pc = "inner" /\ i < TREE_HEIGHT /\ j >= stride
    /\ previous' = previous + stride \div 2 /\ stride' = stride \div 2 /\ i' = i + 1 /\ j' = 0
    /\ UNCHANGED <<records, merkle, mp, thr, ppos, index, proof, added, rh, folded, pc>>

\* Mutant: the next level has as many nodes as this one.
LevelDone_SameStride ==
    /\ pc = "inner" /\ i < TREE_HEIGHT /\ j >= stride
    /\ previous' = previous + stride /\ stride' = stride /\ i' = i + 1 /\ j' = 0
    /\ UNCHANGED <<records, merkle, mp, thr, ppos, index, proof, added, rh, folded, pc>>

LevelDone ==
    /\ pc = "inner" /\ i < TREE_HEIGHT /\ j >= stride
    /\ previous' = previous + stride /\ stride' = stride \div 2 /\ i' = i + 1 /\ j' = 0
    /\ UNCHANGED <<records, merkle, mp, thr, ppos, index, proof, added, rh, folded, pc>>

\* The proof of the record at a position is begun.
StartProof(pos) ==
    /\ ppos' = pos /\ index' = pos /\ i' = 0
    /\ folded' = Cmac(Message(records[pos + 1]))
    /\ pc' = "proofs"

TreeDone ==
    /\ pc = "inner" /\ i = TREE_HEIGHT
    /\ \/ Len(records) > 0 /\ StartProof(0)
       \/ Len(records) = 0 /\ pc' = "done" /\ UNCHANGED <<ppos, index, i, folded>>
    /\ UNCHANGED <<records, tree, j, proof, added, rh>>

Sibling(n) == IF n % 2 = 1 THEN n - 1 ELSE n + 1

\* Mutant: the levels are taken to have their own counts.
Parent_InLevel(n) == n \div 2

Parent(n) == n \div 2 + N

\* The pair that a node and its sibling are, in the order of the array
Pair(n, node, sibling) ==
    IF n % 2 = 1 THEN CmacOfPair(sibling, node) ELSE CmacOfPair(node, sibling)

\* A node of the tree, or what lies behind it.
NodeAt(n) == IF n \in 0 .. 2 * N - 1 THEN {merkle[n]} ELSE Uninitialized

\* Mutant: index is moved before pointer is computed.
ProofStep_MovedFirst ==
    /\ pc = "proofs" /\ i < TREE_HEIGHT
    /\ \E node \in NodeAt(Sibling(Parent(index))) : proof' = [proof EXCEPT ![i] = node]
    /\ \E node \in NodeAt(Sibling(index)) : folded' = Pair(index, folded, node)
    /\ index' = Parent(index) /\ i' = i + 1
    /\ UNCHANGED <<records, tree, j, ppos, added, rh, pc>>

ProofStep ==
    /\ pc = "proofs" /\ i < TREE_HEIGHT
    /\ \E node \in NodeAt(Sibling(index)) :
        proof' = [proof EXCEPT ![i] = node] /\ folded' = Pair(index, folded, node)
    /\ index' = Parent(index) /\ i' = i + 1
    /\ UNCHANGED <<records, tree, j, ppos, added, rh, pc>>

\* The VSIZE bytes from where a value begins: its own, and behind a shorter one any.
StoredValues(value) ==
    {s \in [1 .. VSIZE -> Bytes] : \A b \in 1 .. VSIZE : b <= Len(value) => s[b] = value[b]}

AddRecord ==
    /\ pc = "proofs" /\ i = TREE_HEIGHT
    /\ \E stored \in StoredValues(records[ppos + 1].value) :
        added' = Append(added, [key |-> records[ppos + 1].key, value |-> stored, proof |-> proof])
    /\ \/ ppos + 1 < Len(records) /\ StartProof(ppos + 1) /\ UNCHANGED rh
       \/ /\ ppos + 1 = Len(records)
          /\ rh' = <<merkle[2 * N - 2]>> /\ pc' = "done"
          /\ UNCHANGED <<ppos, index, i, folded>>
    /\ UNCHANGED <<records, tree, j, proof>>

Next ==
    \/ Leaf \/ Overrun \/ LeavesDone
    \/ InnerNode \/ LevelDone \/ TreeDone
    \/ ProofStep \/ AddRecord

Spec == Init /\ [][Next]_vars
-----------------------------------------------------------------------------
(* Properties *)

TypeOK ==
    /\ records \in Seq(Record)
    /\ merkle = [n \in 0 .. 2 * N - 1 |-> merkle[n]]
    /\ mp \in Nat /\ thr \in Nat /\ previous \in Nat /\ stride \in Nat
    /\ i \in 0 .. TREE_HEIGHT /\ j \in Nat /\ ppos \in Nat /\ index \in Nat
    /\ proof = [n \in 0 .. TREE_HEIGHT - 1 |-> proof[n]]
    /\ pc \in {"leaves", "inner", "proofs", "done", "overrun"}

\* BuildTable: the loop over the inner levels reads only nodes of the level below, which is
\* complete, and writes inside the array.  "The file size is fixed to store 32768 records",
\* but no line keeps it so: the loop over a proof reads inside the array for the first
\* 2 * FILE_RECORDS records, also for those that are not in the tree, and for every later
\* one it reads outside at each of its steps.
StaysInside ==
    /\ pc = "inner" /\ i < TREE_HEIGHT /\ j < stride => previous + j + 1 < mp /\ mp < 2 * N - 1
    /\ pc = "proofs" /\ i < TREE_HEIGHT => (Sibling(index) \in 0 .. 2 * N - 1 <=> ppos < 2 * N)

\* BuildTable, "This is where we build the Merkle Tree for the File": when the proofs are
\* written, the leaves are the hashes of the records, and every other node is the hash of
\* the two nodes that Parent leads from.
TreeExact ==
    pc \in {"proofs", "done"} =>
        /\ \A n \in 0 .. N - 1 : n < Len(records) => merkle[n] = Cmac(Message(records[n + 1]))
        /\ \A n \in N .. 2 * N - 2 :
                merkle[n] = CmacOfPair(merkle[2 * (n - N)], merkle[2 * (n - N) + 1])

\* BuildTable, the proof of a record that is in the tree: hashing along it leads to the
\* node that becomes the root hash of the file.
ProofLeads ==
    pc = "proofs" /\ i = TREE_HEIGHT /\ ppos < N =>
        index = 2 * N - 2 /\ folded = merkle[2 * N - 2]

\* What a reader computes from a record, its position and its proof, level by level
Way(position, a) ==
    LET at[k \in 0 .. TREE_HEIGHT] ==
            IF k = 0 THEN [n |-> position, hash |-> Cmac(Message(a))]
            ELSE [n |-> Parent(at[k - 1].n),
                  hash |-> Pair(at[k - 1].n, at[k - 1].hash, a.proof[k - 1])]
    IN  at[TREE_HEIGHT].hash

\* BuildTable, what the table holds at the end: all the keys in their order, each with VSIZE
\* bytes.  What a reader hashes is what was hashed into the tree exactly if the value has
\* VSIZE bytes, and then the record, if it is one of the first FILE_RECORDS, verifies against
\* meta->rh with the proof stored beside it.  A deletion and a value of any other length are
\* not stored as they were hashed.
FileVerifies ==
    pc = "done" /\ records # <<>> =>
        /\ Len(added) = Len(records)
        /\ \A k \in DOMAIN records :
            /\ added[k].key = records[k].key
            /\ Message(added[k]) = Message(records[k]) <=> Len(records[k].value) = VSIZE
            /\ Message(added[k]) = Message(records[k]) /\ k <= N => <<Way(k - 1, added[k])>> = rh
=============================================================================
