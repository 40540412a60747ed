------------------------- MODULE MerkleTreeTheorems -------------------------
(***************************************************************************)
(* The loops of BuildTable, for every number of records and every height.  *)
(***************************************************************************)
EXTENDS MerkleTree, TLAPS

Size == CHOOSE size \in [0 .. TREE_HEIGHT -> 1 .. N] : Halves(size)

\* The nodes from FILE_RECORDS on are hashes of the pairs below them.
BuiltUpTo(limit) ==
    \A n \in N .. limit - 1 : merkle[n] = CmacOfPair(merkle[2 * (n - N)], merkle[2 * (n - N) + 1])

LeavesUpTo(limit) ==
    \A n \in 0 .. limit - 1 : n < Len(records) => merkle[n] = Cmac(Message(records[n + 1]))

InLeaves == pc = "leaves" => mp = thr /\ thr <= N /\ LeavesUpTo(thr)

\* The level that is read begins at "previous" and has "stride" nodes; the level above it
\* is complete up to mp, for the nodes up to j.
InInner ==
    pc = "inner" =>
        /\ stride = Size[i] /\ previous = 2 * N - 2 * stride
        /\ j <= stride /\ j = 2 * (mp + stride - 2 * N) /\ mp + stride >= 2 * N
        /\ LeavesUpTo(N) /\ BuiltUpTo(mp)

\* For a record of the tree "index" is in the level of the proof step, and what was hashed
\* so far is its node; for the others it stays on its side of the end of the array.
InProofs ==
    /\ pc \in {"proofs", "done"} => LeavesUpTo(N) /\ BuiltUpTo(2 * N - 1)
    /\ pc = "proofs" =>
        /\ ppos < Len(records)
        /\ ppos < 2 * N => index < 2 * N
        /\ ppos >= 2 * N => index >= 2 * N
        /\ ppos < N => /\ index >= 2 * N - 2 * Size[i] /\ index < 2 * N - Size[i]
                       /\ folded = merkle[index]

IInv == TypeOK /\ InLeaves /\ InInner /\ InProofs
-----------------------------------------------------------------------------
LEMMA Bounds == N \in Nat \ {0} /\ TREE_HEIGHT \in Nat /\ VSIZE \in Nat
BY TreeAssumption, RecordsAssumption

\* An array stays one when an element is assigned.
LEMMA Assigned ==
    ASSUME NEW S, NEW f, NEW g, NEW k, NEW e,
           f = [n \in S |-> f[n]], g = [f EXCEPT ![k] = e]
    PROVE  /\ g = [n \in S |-> g[n]]
           /\ k \in S => g[k] = e
           /\ \A n \in S : n # k => g[n] = f[n]
<1>1. DOMAIN f = S  BY Zenon
<1>2. g = [n \in S |-> IF n = k THEN e ELSE f[n]]  BY <1>1, Zenon
<1>3. QED  BY <1>2, Zenon

\* The sizes of the levels, from the assumption that each is half of the one before
LEMMA SizeFacts ==
    /\ Size \in [0 .. TREE_HEIGHT -> 1 .. N]
    /\ Size[0] = N /\ Size[TREE_HEIGHT] = 1
    /\ \A k \in 0 .. TREE_HEIGHT - 1 : Size[k] = 2 * Size[k + 1]
<1>1. Halves(Size) /\ Size \in [0 .. TREE_HEIGHT -> 1 .. N]
    BY TreeAssumption DEF Size
<1>2. QED  BY <1>1 DEF Halves

\* Behind the end of the array: the parent and the sibling are there too.
LEMMA OutsideFacts ==
    ASSUME NEW n \in Nat, N \in Nat \ {0}, n >= 2 * N
    PROVE  Sibling(n) \notin 0 .. 2 * N - 1 /\ Parent(n) \in Nat /\ Parent(n) >= 2 * N
<1>1. n \div 2 \in Nat /\ (n = 2 * (n \div 2) \/ n = 2 * (n \div 2) + 1)  OBVIOUS
<1>2. n \div 2 >= N  BY <1>1
<1>3. n % 2 = 1 => n >= 2 * N + 1  BY <1>1
<1>4. QED  BY <1>1, <1>2, <1>3 DEF Sibling, Parent

\* Parent and Sibling: the parent of a node is the node whose pair the two siblings are.
LEMMA PairFacts ==
    ASSUME NEW n \in Nat, N \in Nat \ {0}, n < 2 * N
    PROVE  /\ Sibling(n) \in 0 .. 2 * N - 1
           /\ Parent(n) \in N .. 2 * N - 1
           /\ n % 2 = 1 => 2 * (Parent(n) - N) = Sibling(n) /\ 2 * (Parent(n) - N) + 1 = n
           /\ n % 2 # 1 => 2 * (Parent(n) - N) = n /\ 2 * (Parent(n) - N) + 1 = Sibling(n)
<1>1. PICK q \in Nat : n = 2 * q \/ n = 2 * q + 1
    <2>1. n \div 2 \in Nat /\ (n = 2 * (n \div 2) \/ n = 2 * (n \div 2) + 1)  OBVIOUS
    <2>2. QED  BY <2>1
<1>2. CASE n = 2 * q
    <2>1. n % 2 = 0 /\ n \div 2 = q  BY <1>2
    <2>2. QED  BY <1>2, <2>1 DEF Sibling, Parent
<1>3. CASE n = 2 * q + 1
    <2>1. n % 2 = 1 /\ n \div 2 = q  BY <1>3
    <2>2. QED  BY <1>3, <2>1 DEF Sibling, Parent
<1>4. QED  BY <1>1, <1>2, <1>3
-----------------------------------------------------------------------------
LEMMA InitHolds == Init => IInv
<1> SUFFICES ASSUME Init PROVE IInv  OBVIOUS
<1> USE Bounds
<1>1. records \in Seq(Record)  BY RecordsAssumption DEF Init
<1>2. TypeOK  BY <1>1 DEF Init, TypeOK
<1>3. QED  BY <1>2 DEF Init, IInv, InLeaves, InInner, InProofs, LeavesUpTo

\* The hash of a pair of nodes that lie before the one written stays what it was.
LEMMA BuiltGrows ==
    ASSUME TypeOK, BuiltUpTo(mp), mp \in N .. 2 * N - 2,
           merkle' = [merkle EXCEPT ![mp] = CmacOfPair(merkle[2 * (mp - N)], merkle[2 * (mp - N) + 1])]
    PROVE  \A n \in N .. mp : merkle'[n] = CmacOfPair(merkle'[2 * (n - N)], merkle'[2 * (n - N) + 1])
<1> USE Bounds
<1> TAKE n \in N .. mp
<1>1. 2 * (n - N) \in 0 .. 2 * N - 1 /\ 2 * (n - N) + 1 \in 0 .. 2 * N - 1
      /\ 2 * (n - N) # mp /\ 2 * (n - N) + 1 # mp
    OBVIOUS
<1>2. /\ mp \in 0 .. 2 * N - 1 => merkle'[mp] = CmacOfPair(merkle[2 * (mp - N)], merkle[2 * (mp - N) + 1])
      /\ \A k \in 0 .. 2 * N - 1 : k # mp => merkle'[k] = merkle[k]
    <2>1. merkle = [k \in 0 .. 2 * N - 1 |-> merkle[k]]  BY Zenon DEF TypeOK
    <2>2. QED  BY <2>1, Assigned, Zenon
<1>3. merkle'[2 * (n - N)] = merkle[2 * (n - N)] /\ merkle'[2 * (n - N) + 1] = merkle[2 * (n - N) + 1]
    BY <1>1, <1>2, Zenon
<1>4. CASE n = mp
    <2>1. mp \in 0 .. 2 * N - 1  OBVIOUS
    <2>2. QED  BY <1>2, <1>3, <1>4, <2>1, Zenon
<1>5. CASE n # mp
    <2>1. n \in N .. mp - 1 /\ n \in 0 .. 2 * N - 1  BY <1>5
    <2>2. merkle'[n] = merkle[n]  BY <1>2, <1>5, <2>1, Zenon
    <2>3. QED  BY <1>3, <2>1, <2>2, Zenon DEF BuiltUpTo
<1>6. QED  BY <1>4, <1>5

LEMMA LeafKeeps == IInv /\ Leaf => IInv'
<1> SUFFICES ASSUME IInv, Leaf PROVE IInv'  OBVIOUS
<1> USE Bounds
<1>1. mp = thr /\ thr < N /\ thr < Len(records) /\ thr \in Nat /\ Len(records) \in Nat
    BY DEF IInv, TypeOK, InLeaves, Leaf
<1>2. /\ merkle' = [n \in 0 .. 2 * N - 1 |-> merkle'[n]]
      /\ thr \in 0 .. 2 * N - 1 => merkle'[thr] = Cmac(Message(records[thr + 1]))
      /\ \A n \in 0 .. 2 * N - 1 : n # thr => merkle'[n] = merkle[n]
    <2>1. merkle = [n \in 0 .. 2 * N - 1 |-> merkle[n]]  BY Zenon DEF IInv, TypeOK
    <2>2. merkle' = [merkle EXCEPT ![thr] = Cmac(Message(records[thr + 1]))]  BY <1>1 DEF Leaf
    <2>3. QED  BY <2>1, <2>2, Assigned, Zenon
<1>3. \A n \in 0 .. thr : n < Len(records) => merkle'[n] = Cmac(Message(records[n + 1]))
    <2>1. \A n \in 0 .. thr - 1 : n < Len(records) => merkle[n] = Cmac(Message(records[n + 1]))
        BY DEF IInv, InLeaves, LeavesUpTo, Leaf
    <2>2. thr \in 0 .. 2 * N - 1  BY <1>1
    <2>3. \A n \in 0 .. thr : n # thr => n \in 0 .. thr - 1 /\ n \in 0 .. 2 * N - 1  BY <1>1
    <2>4. QED  BY <1>2, <2>1, <2>2, <2>3, Zenon
<1>4. TypeOK'
    <2>1. mp' \in Nat /\ thr' \in Nat  BY <1>1 DEF Leaf
    <2>2. QED  BY <1>2, <2>1, Zenon DEF IInv, TypeOK, Leaf
<1>5. InLeaves'  BY <1>1, <1>3 DEF InLeaves, LeavesUpTo, Leaf
<1>6. QED  BY <1>4, <1>5 DEF IInv, InInner, InProofs, Leaf

LEMMA OverrunKeeps == IInv /\ Overrun => IInv'
BY DEF IInv, TypeOK, InLeaves, InInner, InProofs, Overrun, tree

LEMMA LeavesDoneKeeps == IInv /\ LeavesDone => IInv'
<1> SUFFICES ASSUME IInv, LeavesDone PROVE IInv'  OBVIOUS
<1> USE Bounds
<1>1. TypeOK'  BY DEF IInv, TypeOK, LeavesDone
<1>2. LeavesUpTo(N)'
    <2>1. ~(thr < Len(records) /\ thr < N) /\ LeavesUpTo(thr) /\ thr \in Nat /\ Len(records) \in Nat
        BY DEF IInv, TypeOK, InLeaves, LeavesDone
    <2>2. \A n \in 0 .. N - 1 : n < Len(records) => n \in 0 .. thr - 1  BY <2>1
    <2>3. merkle' = merkle /\ records' = records  BY DEF LeavesDone
    <2>4. QED  BY <2>1, <2>2, <2>3 DEF LeavesUpTo
<1>3. BuiltUpTo(N)'  BY DEF BuiltUpTo
<1>4. InInner'  BY <1>2, <1>3, SizeFacts DEF InInner, LeavesDone, BuiltUpTo
<1>5. QED  BY <1>1, <1>4 DEF IInv, InLeaves, InProofs, LeavesDone

\* The arithmetic of the loop over the inner levels
LEMMA InnerFacts ==
    ASSUME IInv, pc = "inner"
    PROVE  /\ stride \in 1 .. N /\ mp \in Nat /\ j \in Nat
           /\ previous + j = 2 * (mp - N)
           /\ i < TREE_HEIGHT => stride = 2 * Size[i + 1] /\ Size[i + 1] \in 1 .. N
           /\ i < TREE_HEIGHT /\ j < stride => j + 2 <= stride /\ mp \in N .. 2 * N - 2
           /\ i = TREE_HEIGHT => mp = 2 * N - 1
<1> USE Bounds
<1>1. i \in 0 .. TREE_HEIGHT /\ mp \in Nat /\ j \in Nat  BY DEF IInv, TypeOK
<1>2. stride \in 1 .. N /\ stride = Size[i]  BY <1>1, SizeFacts DEF IInv, InInner
<1>3. i < TREE_HEIGHT => stride = 2 * Size[i + 1] /\ Size[i + 1] \in 1 .. N
    BY <1>1, <1>2, SizeFacts
<1>4. i = TREE_HEIGHT => stride = 1  BY <1>2, SizeFacts
<1>5. /\ previous = 2 * N - 2 * stride /\ j <= stride
      /\ j = 2 * (mp + stride - 2 * N) /\ mp + stride >= 2 * N
    BY DEF IInv, InInner
<1>6. QED  BY <1>1, <1>2, <1>3, <1>4, <1>5

LEMMA InnerNodeKeeps == IInv /\ InnerNode => IInv'
<1> SUFFICES ASSUME IInv, InnerNode PROVE IInv'  OBVIOUS
<1> USE Bounds
<1>1. /\ stride \in 1 .. N /\ mp \in N .. 2 * N - 2 /\ j \in Nat
      /\ previous + j = 2 * (mp - N) /\ j + 2 <= stride
    <2>1. pc = "inner" /\ i < TREE_HEIGHT /\ j < stride  BY DEF InnerNode
    <2>2. QED  BY <2>1, InnerFacts
<1>2. merkle' = [merkle EXCEPT ![mp] = CmacOfPair(merkle[2 * (mp - N)], merkle[2 * (mp - N) + 1])]
    BY <1>1 DEF InnerNode
<1>3. /\ merkle' = [n \in 0 .. 2 * N - 1 |-> merkle'[n]]
      /\ \A n \in 0 .. 2 * N - 1 : n # mp => merkle'[n] = merkle[n]
    <2>1. merkle = [n \in 0 .. 2 * N - 1 |-> merkle[n]]  BY Zenon DEF IInv, TypeOK
    <2>2. QED  BY <1>2, <2>1, Assigned, Zenon
<1>4. TypeOK'
    <2>1. mp' \in Nat /\ j' \in Nat  BY <1>1 DEF InnerNode
    <2>2. QED  BY <1>3, <2>1, Zenon DEF IInv, TypeOK, InnerNode
<1>5. BuiltUpTo(mp)'
    <2>1. TypeOK /\ BuiltUpTo(mp)  BY DEF IInv, InInner, InnerNode
    <2>2. \A n \in N .. mp : merkle'[n] = CmacOfPair(merkle'[2 * (n - N)], merkle'[2 * (n - N) + 1])
        BY <1>1, <1>2, <2>1, BuiltGrows
    <2>3. mp' - 1 = mp  BY <1>1 DEF InnerNode
    <2>4. QED  BY <2>2, <2>3 DEF BuiltUpTo
<1>6. LeavesUpTo(N)'
    <2>1. LeavesUpTo(N) /\ records' = records  BY DEF IInv, InInner, InnerNode
    <2>2. \A n \in 0 .. N - 1 : n \in 0 .. 2 * N - 1 /\ n # mp  BY <1>1
    <2>3. QED  BY <1>3, <2>1, <2>2 DEF LeavesUpTo
<1>7. InInner'
    <2>1. stride' = Size'[i'] /\ previous' = 2 * N - 2 * stride'
        BY DEF IInv, InInner, InnerNode, Size
    <2>2. /\ j' <= stride' /\ j' = 2 * (mp' + stride' - 2 * N) /\ mp' + stride' >= 2 * N
        BY <1>1 DEF IInv, InInner, InnerNode
    <2>3. QED  BY <1>5, <1>6, <2>1, <2>2 DEF InInner
<1>8. QED  BY <1>4, <1>7 DEF IInv, InLeaves, InProofs, InnerNode

LEMMA LevelDoneKeeps == IInv /\ LevelDone => IInv'
<1> SUFFICES ASSUME IInv, LevelDone PROVE IInv'  OBVIOUS
<1> USE Bounds
<1>1. pc = "inner" /\ i < TREE_HEIGHT /\ j >= stride /\ i \in 0 .. TREE_HEIGHT
    BY DEF IInv, TypeOK, LevelDone
<1>2. /\ stride \in 1 .. N /\ mp \in Nat /\ j \in Nat
      /\ stride = 2 * Size[i + 1] /\ Size[i + 1] \in 1 .. N
    BY <1>1, InnerFacts
<1>3. /\ previous = 2 * N - 2 * stride /\ j <= stride
      /\ j = 2 * (mp + stride - 2 * N)
    BY <1>1 DEF IInv, InInner
<1>4. stride \div 2 = Size[i + 1]  BY <1>2
<1>5. /\ stride' = Size[i + 1] /\ previous' = previous + stride /\ i' = i + 1 /\ j' = 0
      /\ mp' = mp
    BY <1>4 DEF LevelDone
<1>6. TypeOK'
    <2>1. previous' \in Nat /\ stride' \in Nat /\ i' \in 0 .. TREE_HEIGHT /\ j' \in Nat
        BY <1>1, <1>2, <1>3, <1>5
    <2>2. QED  BY <2>1 DEF IInv, TypeOK, LevelDone
<1>7. InInner'
    <2>1. previous' = 2 * N - 2 * stride'  BY <1>2, <1>3, <1>5
    <2>2. /\ j' <= stride' /\ j' = 2 * (mp' + stride' - 2 * N) /\ mp' + stride' >= 2 * N
        BY <1>1, <1>2, <1>3, <1>5
    <2>3. LeavesUpTo(N)' /\ BuiltUpTo(mp)'
        BY <1>1 DEF IInv, InInner, LeavesUpTo, BuiltUpTo, LevelDone
    <2>4. stride' = Size'[i']  BY <1>5 DEF Size
    <2>5. QED  BY <2>1, <2>2, <2>3, <2>4 DEF InInner
<1>8. QED  BY <1>6, <1>7 DEF IInv, InLeaves, InProofs, LevelDone

\* A proof begins in the lowest level, at the leaf of its record.
LEMMA StartKeeps ==
    ASSUME IInv, NEW pos \in Nat, pos < Len(records), StartProof(pos),
           LeavesUpTo(N), BuiltUpTo(2 * N - 1), UNCHANGED <<records, tree, j, proof>>
    PROVE  IInv'
<1> USE Bounds
<1>1. TypeOK'  BY DEF IInv, TypeOK, StartProof, tree
<1>2. (LeavesUpTo(N) /\ BuiltUpTo(2 * N - 1))'  BY DEF LeavesUpTo, BuiltUpTo, tree
<1>3. ppos' < Len(records)' /\ index' = ppos'  BY DEF StartProof, tree
<1>4. ASSUME ppos' < N
      PROVE  index' >= 2 * N - 2 * Size[0] /\ index' < 2 * N - Size[0] /\ folded' = merkle'[index']
    <2>1. pos < N /\ index' = pos /\ folded' = Cmac(Message(records[pos + 1]))  BY <1>4 DEF StartProof
    <2>2. merkle'[pos] = Cmac(Message(records[pos + 1]))  BY <2>1 DEF LeavesUpTo, tree
    <2>3. QED  BY <2>1, <2>2, SizeFacts
<1>5. InProofs'
    <2>1. pc' = "proofs" /\ i' = 0 /\ Size' = Size  BY DEF StartProof, Size
    <2>2. QED  BY <1>2, <1>3, <1>4, <2>1 DEF InProofs
<1>6. QED  BY <1>1, <1>5 DEF IInv, InLeaves, InInner, StartProof

LEMMA TreeDoneKeeps == IInv /\ TreeDone => IInv'
<1> SUFFICES ASSUME IInv, TreeDone PROVE IInv'  OBVIOUS
<1> USE Bounds
<1>1. pc = "inner" /\ i = TREE_HEIGHT  BY DEF TreeDone
<1>2. mp = 2 * N - 1  BY <1>1, InnerFacts
<1>3. LeavesUpTo(N) /\ BuiltUpTo(2 * N - 1)  BY <1>1, <1>2 DEF IInv, InInner
<1>4. UNCHANGED <<records, tree, j, proof>>  BY DEF TreeDone
<1>5. CASE Len(records) > 0 /\ StartProof(0)
    BY <1>3, <1>4, <1>5, StartKeeps
<1>6. CASE Len(records) = 0 /\ pc' = "done" /\ UNCHANGED <<ppos, index, i, folded>>
    <2>1. TypeOK'  BY <1>4, <1>6 DEF IInv, TypeOK, tree
    <2>2. (LeavesUpTo(N) /\ BuiltUpTo(2 * N - 1))'
        BY <1>3, <1>4 DEF LeavesUpTo, BuiltUpTo, tree
    <2>3. QED  BY <1>6, <2>1, <2>2 DEF IInv, InLeaves, InInner, InProofs
<1>7. QED  BY <1>5, <1>6 DEF TreeDone

LEMMA ProofStepKeeps == IInv /\ ProofStep => IInv'
<1> SUFFICES ASSUME IInv, ProofStep PROVE IInv'  OBVIOUS
<1> USE Bounds
<1>1. /\ pc = "proofs" /\ i < TREE_HEIGHT /\ i \in 0 .. TREE_HEIGHT
      /\ index \in Nat /\ ppos \in Nat /\ ppos < Len(records)
      /\ LeavesUpTo(N) /\ BuiltUpTo(2 * N - 1)
      /\ ppos < 2 * N => index < 2 * N
      /\ ppos >= 2 * N => index >= 2 * N
    BY DEF IInv, TypeOK, InProofs, ProofStep
<1>2. PICK node \in NodeAt(Sibling(index)) :
        proof' = [proof EXCEPT ![i] = node] /\ folded' = Pair(index, folded, node)
    BY DEF ProofStep
<1>3. ASSUME ppos < 2 * N
      PROVE
      /\ Sibling(index) \in 0 .. 2 * N - 1
      /\ Parent(index) \in N .. 2 * N - 1
      /\ index % 2 = 1 => 2 * (Parent(index) - N) = Sibling(index) /\ 2 * (Parent(index) - N) + 1 = index
      /\ index % 2 # 1 => 2 * (Parent(index) - N) = index /\ 2 * (Parent(index) - N) + 1 = Sibling(index)
    BY <1>1, <1>3, PairFacts
<1>4. ppos >= 2 * N => Parent(index) \in Nat /\ Parent(index) >= 2 * N
    BY <1>1, OutsideFacts
<1>5. /\ Parent(index) \in Nat
      /\ ppos < 2 * N => Parent(index) < 2 * N
      /\ ppos >= 2 * N => Parent(index) >= 2 * N
    BY <1>1, <1>3, <1>4
<1>6. TypeOK'
    <2>1. proof' = [n \in 0 .. TREE_HEIGHT - 1 |-> proof'[n]]
        <3>1. proof = [n \in 0 .. TREE_HEIGHT - 1 |-> proof[n]]  BY Zenon DEF IInv, TypeOK
        <3>2. QED  BY <1>2, <3>1, Assigned, Zenon
    <2>2. index' \in Nat /\ i' \in 0 .. TREE_HEIGHT  BY <1>1, <1>5 DEF ProofStep
    <2>3. QED  BY <2>1, <2>2, Zenon DEF IInv, TypeOK, ProofStep, tree
<1>7. ASSUME ppos < N
      PROVE  index' >= 2 * N - 2 * Size[i + 1] /\ index' < 2 * N - Size[i + 1] /\ folded' = merkle[index']
    <2>0. ppos < 2 * N  BY <1>1, <1>7
    <2>1. index >= 2 * N - 2 * Size[i] /\ index < 2 * N - Size[i] /\ folded = merkle[index]
        BY <1>1, <1>7 DEF IInv, InProofs
    <2>2. Size[i] = 2 * Size[i + 1] /\ Size[i + 1] \in 1 .. N  BY <1>1, SizeFacts
    <2>3. index' = Parent(index)  BY DEF ProofStep
    <2>4. index = 2 * (index' - N) \/ index = 2 * (index' - N) + 1  BY <1>3, <2>0, <2>3
    <2>5. index' >= 2 * N - 2 * Size[i + 1] /\ index' < 2 * N - Size[i + 1]
        <3>1. index \in Nat /\ index' \in Nat /\ N <= index'  BY <1>1, <1>3, <2>0, <2>3
        <3>2. PICK s \in 1 .. N : s = Size[i + 1]  BY <2>2
        <3>3. index >= 2 * N - 4 * s /\ index < 2 * N - 2 * s  BY <2>1, <2>2, <3>2
        <3>4. index' >= 2 * N - 2 * s /\ index' < 2 * N - s
            <4>1. s \in Nat  BY <3>2
            <4>2. \A a, b \in Nat : /\ a = 2 * (b - N) \/ a = 2 * (b - N) + 1
                                    /\ a >= 2 * N - 4 * s /\ a < 2 * N - 2 * s
                                    => b >= 2 * N - 2 * s /\ b < 2 * N - s
                BY <4>1
            <4>3. QED  BY <2>4, <3>1, <3>3, <4>2
        <3>5. QED  BY <3>2, <3>4
    <2>6. merkle[index'] = CmacOfPair(merkle[2 * (index' - N)], merkle[2 * (index' - N) + 1])
        <3>1. index' \in N .. (2 * N - 1) - 1  BY <1>3, <2>0, <2>2, <2>3, <2>5
        <3>2. QED  BY <1>1, <3>1 DEF BuiltUpTo
    <2>7. folded' = Pair(index, merkle[index], merkle[Sibling(index)])
        <3>1. node = merkle[Sibling(index)]  BY <1>3, <2>0 DEF NodeAt
        <3>2. QED  BY <1>2, <2>1, <3>1
    <2>8. folded' = merkle[index']  BY <1>3, <2>0, <2>3, <2>6, <2>7 DEF Pair
    <2>9. QED  BY <2>5, <2>8
<1>8. InProofs'
    <2>1. /\ pc' = "proofs" /\ i' = i + 1 /\ Size' = Size /\ merkle' = merkle /\ records' = records
          /\ ppos' = ppos /\ index' = Parent(index)
        BY <1>1 DEF ProofStep, Size, tree
    <2>2. (LeavesUpTo(N) /\ BuiltUpTo(2 * N - 1))'  BY <1>1, <2>1 DEF LeavesUpTo, BuiltUpTo
    <2>3. QED  BY <1>1, <1>7, <1>5, <2>1, <2>2 DEF InProofs
<1>9. QED  BY <1>1, <1>6, <1>8 DEF IInv, InLeaves, InInner, ProofStep

LEMMA AddRecordKeeps == IInv /\ AddRecord => IInv'
<1> SUFFICES ASSUME IInv, AddRecord PROVE IInv'  OBVIOUS
<1> USE Bounds
<1>1. /\ pc = "proofs" /\ ppos \in Nat /\ LeavesUpTo(N) /\ BuiltUpTo(2 * N - 1)
      /\ UNCHANGED <<records, tree, j, proof>>
    BY DEF IInv, TypeOK, InProofs, AddRecord
<1>2. CASE ppos + 1 < Len(records) /\ StartProof(ppos + 1)
    BY <1>1, <1>2, StartKeeps
<1>3. CASE pc' = "done" /\ UNCHANGED <<ppos, index, i, folded>>
    <2>1. TypeOK'  BY <1>1, <1>3 DEF IInv, TypeOK, tree
    <2>2. (LeavesUpTo(N) /\ BuiltUpTo(2 * N - 1))'  BY <1>1 DEF LeavesUpTo, BuiltUpTo, tree
    <2>3. QED  BY <1>3, <2>1, <2>2 DEF IInv, InLeaves, InInner, InProofs
<1>4. QED  BY <1>2, <1>3 DEF AddRecord

LEMMA StepKeeps == IInv /\ [Next]_vars => IInv'
<1>1. ASSUME IInv, UNCHANGED vars PROVE IInv'
    <2>1. UNCHANGED <<records, merkle, mp, thr, previous, stride, i, j, ppos, index, proof, folded, pc>>
        BY <1>1 DEF vars, tree
    <2>2. TypeOK'  BY <1>1, <2>1 DEF IInv, TypeOK
    <2>3. InLeaves' /\ InInner'
        BY <1>1, <2>1 DEF IInv, InLeaves, InInner, LeavesUpTo, BuiltUpTo, Size
    <2>4. InProofs'  BY <1>1, <2>1 DEF IInv, InProofs, LeavesUpTo, BuiltUpTo, Size
    <2>5. QED  BY <2>2, <2>3, <2>4 DEF IInv
<1>2. QED
    BY <1>1, LeafKeeps, OverrunKeeps, LeavesDoneKeeps, InnerNodeKeeps, LevelDoneKeeps, TreeDoneKeeps,
       ProofStepKeeps, AddRecordKeeps
    DEF Next

\* The loops of BuildTable keep the invariant.
THEOREM Inductive == Spec => []IInv
BY InitHolds, StepKeeps, PTL DEF Spec

\* The loop over the inner levels reads and writes inside the array, and no node before it is
\* written.  The loop over a proof reads inside it exactly for the first 2 * FILE_RECORDS
\* records of a memtable: for every FILE_RECORDS that TREE_HEIGHT halves, and for memtables
\* of any number of records.
THEOREM LoopsStayInside == Spec => []StaysInside
<1>1. IInv => StaysInside
    <2> SUFFICES ASSUME IInv PROVE StaysInside  OBVIOUS
    <2> USE Bounds
    <2>1. ASSUME pc = "inner", i < TREE_HEIGHT, j < stride
          PROVE  previous + j + 1 < mp /\ mp < 2 * N - 1
        BY <2>1, InnerFacts
    <2>2. ASSUME pc = "proofs" PROVE Sibling(index) \in 0 .. 2 * N - 1 <=> ppos < 2 * N
        <3>1. /\ index \in Nat /\ ppos \in Nat
              /\ ppos < 2 * N => index < 2 * N
              /\ ppos >= 2 * N => index >= 2 * N
            BY <2>2 DEF IInv, TypeOK, InProofs
        <3>2. CASE ppos < 2 * N  BY <3>1, <3>2, PairFacts
        <3>3. CASE ppos >= 2 * N  BY <3>1, <3>3, OutsideFacts
        <3>4. QED  BY <3>1, <3>2, <3>3
    <2>3. QED  BY <2>1, <2>2 DEF StaysInside
<1>2. QED  BY <1>1, Inductive, PTL

\* When the proofs are written the array is the Merkle tree of the first FILE_RECORDS records,
\* whatever the hash functions are.
THEOREM TreeIsExact == Spec => []TreeExact
<1>1. IInv => TreeExact
    <2> USE Bounds
    <2>1. (2 * N - 1) - 1 = 2 * N - 2  OBVIOUS
    <2>2. QED  BY <2>1 DEF IInv, InProofs, TreeExact, LeavesUpTo, BuiltUpTo
<1>2. QED  BY <1>1, Inductive, PTL

\* Hashing along the proof of any record of the tree gives the root hash of the file.
THEOREM ProofsLead == Spec => []ProofLeads
<1>1. IInv => ProofLeads
    <2> SUFFICES ASSUME IInv, pc = "proofs", i = TREE_HEIGHT, ppos < N
                 PROVE  index = 2 * N - 2 /\ folded = merkle[2 * N - 2]
        BY DEF ProofLeads
    <2>1. /\ index >= 2 * N - 2 * Size[i] /\ index < 2 * N - Size[i] /\ folded = merkle[index]
          /\ index \in Nat
        BY DEF IInv, TypeOK, InProofs
    <2>2. Size[i] = 1  BY SizeFacts
    <2>3. index = 2 * N - 2  BY <2>1, <2>2, Bounds
    <2>4. QED  BY <2>1, <2>3
<1>2. QED  BY <1>1, Inductive, PTL
-----------------------------------------------------------------------------
(* What a reader of the file computes *)

\* One step of Way, for a record at a position with a proof; at is what it has so far.
StepOf(at, position, a, k) ==
    IF k = 0 THEN [n |-> position, hash |-> Cmac(Message(a))]
    ELSE [n |-> Parent(at[k - 1].n), hash |-> Pair(at[k - 1].n, at[k - 1].hash, a.proof[k - 1])]

Climbs(at, position, a, m) == \A k \in 0 .. m : at[k] = StepOf(at, position, a, k)

\* A record as it was hashed, with its proof
With(r, path) == [key |-> r.key, value |-> r.value, proof |-> path]

\* What AddRecord adds when the proof is complete, if the value has VSIZE bytes
Stored == With(records[ppos + 1], proof)

\* A reader that has come as far as the loop over the proof has its index and its hash.
InWay ==
    pc = "proofs" =>
        /\ \E at : DOMAIN at = 0 .. TREE_HEIGHT /\ Climbs(at, ppos, Stored, i)
        /\ \A at : Climbs(at, ppos, Stored, i) => at[i].n = index /\ at[i].hash = folded

\* A table has the keys of the first records of a memtable and VSIZE bytes of each value,
\* with proofs that lead to the root from those that are stored as they were hashed.
Verified(table, contents, root) ==
    \A k \in 1 .. Len(table) :
        /\ table[k].key = contents[k].key
        /\ table[k].value \in StoredValues(contents[k].value)
        /\ Len(contents[k].value) = VSIZE /\ k <= N => Way(k - 1, table[k]) = root

\* The table has the records up to the one whose proof is computed.
InAdded ==
    /\ \E S : added \in Seq(S)
    /\ Len(added) = CASE pc = "proofs" -> ppos [] pc = "done" -> Len(records) [] OTHER -> 0
    /\ Verified(added, records, merkle[2 * N - 2])
    /\ pc = "done" /\ Len(records) > 0 => rh = <<merkle[2 * N - 2]>>

FileInv == IInv /\ InWay /\ InAdded

\* What a reader comes to in TREE_HEIGHT steps is what Way gives.
LEMMA WayIs ==
    ASSUME NEW position, NEW a, NEW hash,
           \E at : DOMAIN at = 0 .. TREE_HEIGHT /\ Climbs(at, position, a, TREE_HEIGHT),
           \A at : Climbs(at, position, a, TREE_HEIGHT) => at[TREE_HEIGHT].hash = hash
    PROVE  Way(position, a) = hash
<1> DEFINE Rec(at) == [k \in 0 .. TREE_HEIGHT |-> StepOf(at, position, a, k)]
           way == CHOOSE at : at = Rec(at)
<1>1. PICK f : DOMAIN f = 0 .. TREE_HEIGHT /\ Climbs(f, position, a, TREE_HEIGHT)  OBVIOUS
<1> DEFINE g == [k \in 0 .. TREE_HEIGHT |-> f[k]]
<1>2. g = Rec(g)
    <2>1. \A k \in 0 .. TREE_HEIGHT : f[k] = StepOf(f, position, a, k)  BY <1>1 DEF Climbs
    <2>2. \A k \in 0 .. TREE_HEIGHT : k = 0 \/ k - 1 \in 0 .. TREE_HEIGHT  BY Bounds
    <2>3. \A k \in 0 .. TREE_HEIGHT : StepOf(g, position, a, k) = StepOf(f, position, a, k)
        BY <2>2 DEF StepOf
    <2>4. QED  BY <2>1, <2>3
<1>3. way = Rec(way)
    <2> HIDE DEF Rec, g
    <2>1. QED  BY <1>2, Zenon
<1>4. Climbs(way, position, a, TREE_HEIGHT)
    <2> HIDE DEF way
    <2>1. QED  BY <1>3 DEF Climbs
<1>5. Way(position, a) = way[TREE_HEIGHT].hash  BY DEF Way, StepOf
<1>6. QED  BY <1>4, <1>5

\* A reader begins where a proof begins.
LEMMA StartWay ==
    ASSUME NEW pos, StartProof(pos), records' = records
    PROVE  InWay'
<1> DEFINE a == With(records[pos + 1], proof')
           f == [k \in 0 .. TREE_HEIGHT |-> [n |-> pos, hash |-> Cmac(Message(a))]]
<1> USE Bounds
<1>1. /\ pc' = "proofs" /\ ppos' = pos /\ index' = pos /\ i' = 0
      /\ folded' = Cmac(Message(records[pos + 1])) /\ Stored' = a
    BY DEF StartProof, Stored
<1>2. \A at : Climbs(at, pos, a, 0) <=> at[0] = [n |-> pos, hash |-> Cmac(Message(a))]
    <2>1. 0 .. 0 = {0}  OBVIOUS
    <2>2. \A at : StepOf(at, pos, a, 0) = [n |-> pos, hash |-> Cmac(Message(a))]  BY DEF StepOf
    <2>3. QED  BY <2>1, <2>2, Zenon DEF Climbs
<1>3. f[0] = [n |-> pos, hash |-> Cmac(Message(a))] /\ DOMAIN f = 0 .. TREE_HEIGHT  OBVIOUS
<1>4. Message(a) = Message(records[pos + 1])  BY DEF With, Message
<1> HIDE DEF a, f
<1>5. \E at : DOMAIN at = 0 .. TREE_HEIGHT /\ Climbs(at, pos, a, 0)  BY <1>2, <1>3, Zenon
<1>6. \A at : Climbs(at, pos, a, 0) => at[0].n = pos /\ at[0].hash = Cmac(Message(records[pos + 1]))
    BY <1>2, <1>4
<1>7. QED  BY <1>1, <1>5, <1>6 DEF InWay

\* The reader follows the loop: the nodes that were stored so far stay.
LEMMA ProofStepWay == IInv /\ InWay /\ ProofStep => InWay'
<1> SUFFICES ASSUME IInv, InWay, ProofStep PROVE InWay'  OBVIOUS
<1> USE Bounds
<1>1. PICK node : proof' = [proof EXCEPT ![i] = node] /\ folded' = Pair(index, folded, node)
    BY DEF ProofStep
<1> DEFINE b == With(records[ppos + 1], proof')
<1>2. /\ pc = "proofs" /\ pc' = "proofs" /\ i < TREE_HEIGHT /\ i \in Nat /\ i' = i + 1
      /\ proof' = [proof EXCEPT ![i] = node] /\ folded' = Pair(index, folded, node)
      /\ index' = Parent(index) /\ UNCHANGED <<records, ppos>>
    <2>1. /\ pc = "proofs" /\ pc' = "proofs" /\ i < TREE_HEIGHT /\ i' = i + 1
          /\ index' = Parent(index) /\ UNCHANGED <<records, ppos>>
        BY DEF ProofStep
    <2>2. i \in Nat  BY DEF IInv, TypeOK
    <2>3. QED  BY <1>1, <2>1, <2>2, Zenon
<1>3. Stored' = b  BY <1>2 DEF Stored
<1>4. /\ proof'[i] = node
      /\ \A k \in 0 .. TREE_HEIGHT - 1 : k # i => proof'[k] = proof[k]
    <2>1. proof = [n \in 0 .. TREE_HEIGHT - 1 |-> proof[n]]  BY Zenon DEF IInv, TypeOK
    <2>2. i \in 0 .. TREE_HEIGHT - 1  BY <1>2
    <2>3. QED  BY <1>2, <2>1, <2>2, Assigned, Zenon
<1>5. \A at : \A k \in 0 .. i : StepOf(at, ppos, b, k) = StepOf(at, ppos, Stored, k)
    <2> TAKE at
    <2> TAKE k \in 0 .. i
    <2>1. k # 0 => proof'[k - 1] = proof[k - 1]  BY <1>2, <1>4
    <2>2. QED  BY <2>1 DEF StepOf, Stored, With, Message
<1>6. \A at : Climbs(at, ppos, b, i) <=> Climbs(at, ppos, Stored, i)
    BY <1>5, Zenon DEF Climbs
<1>7. \A at : StepOf(at, ppos, b, i + 1) =
        [n |-> Parent(at[i].n), hash |-> Pair(at[i].n, at[i].hash, node)]
    <2> TAKE at
    <2>1. i + 1 # 0 /\ (i + 1) - 1 = i /\ b.proof = proof'  BY <1>2 DEF With
    <2>2. QED  BY <1>4, <2>1 DEF StepOf
<1> HIDE DEF b
<1>8. \A at : Climbs(at, ppos, b, i + 1) <=>
        Climbs(at, ppos, b, i) /\ at[i + 1] = StepOf(at, ppos, b, i + 1)
    <2>1. \A k : k \in 0 .. i + 1 <=> k \in 0 .. i \/ k = i + 1  BY <1>2
    <2>2. QED  BY <2>1, Zenon DEF Climbs
<1>9. \E at : DOMAIN at = 0 .. TREE_HEIGHT /\ Climbs(at, ppos, b, i + 1)
    <2>1. PICK f : DOMAIN f = 0 .. TREE_HEIGHT /\ Climbs(f, ppos, b, i)
        BY <1>2, <1>6 DEF InWay
    <2> DEFINE g == [k \in 0 .. TREE_HEIGHT |-> IF k = i + 1 THEN StepOf(f, ppos, b, k) ELSE f[k]]
    <2>2. \A k \in 0 .. i : g[k] = f[k]  BY <1>2
    <2>3. \A k \in 0 .. i + 1 : StepOf(g, ppos, b, k) = StepOf(f, ppos, b, k)
        <3> TAKE k \in 0 .. i + 1
        <3>1. k = 0 \/ k - 1 \in 0 .. i  BY <1>2
        <3> HIDE DEF g
        <3>2. QED  BY <2>2, <3>1 DEF StepOf
    <2>4. g[i + 1] = StepOf(f, ppos, b, i + 1) /\ DOMAIN g = 0 .. TREE_HEIGHT  BY <1>2
    <2> HIDE DEF g
    <2>5. \A k \in 0 .. i : k \in 0 .. i + 1  BY <1>2
    <2>6. i + 1 \in 0 .. i + 1  BY <1>2
    <2>7. \A k \in 0 .. i : g[k] = StepOf(g, ppos, b, k)
        BY <2>1, <2>2, <2>3, <2>5, Zenon DEF Climbs
    <2>8. Climbs(g, ppos, b, i + 1)  BY <1>8, <2>3, <2>4, <2>6, <2>7, Zenon DEF Climbs
    <2>9. QED  BY <2>4, <2>8
<1>10. ASSUME NEW at, Climbs(at, ppos, b, i + 1)
      PROVE  at[i + 1].n = index' /\ at[i + 1].hash = folded'
    <2>1. at[i].n = index /\ at[i].hash = folded  BY <1>2, <1>6, <1>8, <1>10 DEF InWay
    <2>2. at[i + 1] = [n |-> Parent(index), hash |-> Pair(index, folded, node)]
        BY <1>7, <1>8, <1>10, <2>1
    <2>3. QED  BY <1>2, <2>2
<1>11. QED  BY <1>2, <1>3, <1>9, <1>10 DEF InWay

\* What is stored has VSIZE bytes; it is what was hashed exactly if the value has as many.
LEMMA StoredBytes ==
    ASSUME NEW key \in Seq(Bytes), NEW value \in Seq(Bytes), NEW s \in StoredValues(value)
    PROVE  /\ Len(value) = VSIZE => s = value
           /\ key \o s = key \o value => Len(value) = VSIZE
<1> USE Bounds
<1>1. s \in [1 .. VSIZE -> Bytes] /\ \A b \in 1 .. VSIZE : b <= Len(value) => s[b] = value[b]
    BY DEF StoredValues
<1>2. s \in Seq(Bytes) /\ Len(s) = VSIZE  BY <1>1
<1>3. Len(value) = VSIZE => s = value
    <2>1. SUFFICES ASSUME Len(value) = VSIZE PROVE s = value  OBVIOUS
    <2>2. \A b \in 1 .. VSIZE : s[b] = value[b]  BY <1>1, <2>1
    <2>3. value \in [1 .. VSIZE -> Bytes]  BY <2>1
    <2>4. QED  BY <1>1, <2>2, <2>3
<1>4. Len(key \o s) = Len(key) + VSIZE /\ Len(key \o value) = Len(key) + Len(value)
      /\ Len(key) \in Nat /\ Len(value) \in Nat
    BY <1>2
<1>5. QED  BY <1>3, <1>4

\* A sequence with one element more
LEMMA Appended ==
    ASSUME NEW S, NEW s \in Seq(S), NEW e
    PROVE  /\ Append(s, e) \in Seq(S \cup {e})
           /\ Len(Append(s, e)) = Len(s) + 1 /\ Len(s) \in Nat
           /\ \A k \in 1 .. Len(s) : Append(s, e)[k] = s[k]
           /\ Append(s, e)[Len(s) + 1] = e
<1>1. s \in Seq(S \cup {e})  OBVIOUS
<1>2. QED  BY <1>1

\* The table grows by the record whose proof is complete, which leads to the root.
LEMMA AddRecordAdds == FileInv /\ AddRecord => InWay' /\ InAdded'
<1> SUFFICES ASSUME FileInv, AddRecord PROVE InWay' /\ InAdded'  OBVIOUS
<1> USE Bounds
<1>1. PICK stored \in StoredValues(records[ppos + 1].value) :
        added' = Append(added, [key |-> records[ppos + 1].key, value |-> stored, proof |-> proof])
    BY DEF AddRecord
<1> DEFINE new == [key |-> records[ppos + 1].key, value |-> stored, proof |-> proof]
<1>2. /\ pc = "proofs" /\ i = TREE_HEIGHT /\ added' = Append(added, new)
      /\ records' = records /\ merkle' = merkle /\ ppos \in Nat /\ ppos < Len(records)
      /\ Len(records) \in Nat /\ records \in Seq(Record)
    <2>1. pc = "proofs" /\ i = TREE_HEIGHT /\ records' = records /\ merkle' = merkle
        BY DEF AddRecord, tree
    <2>2. ppos \in Nat /\ records \in Seq(Record)  BY DEF FileInv, IInv, TypeOK
    <2>3. ppos < Len(records)  BY <2>1 DEF FileInv, IInv, InProofs
    <2>4. Len(records) \in Nat  BY <2>2
    <2>5. QED  BY <1>1, <2>1, <2>2, <2>3, <2>4, Zenon
<1>3. PICK S : added \in Seq(S)  BY DEF FileInv, InAdded
<1>4. Len(added) = ppos  BY <1>2 DEF FileInv, InAdded
<1>5. /\ new.key = records[ppos + 1].key
      /\ new.value \in StoredValues(records[ppos + 1].value)
      /\ Len(records[ppos + 1].value) = VSIZE => new = Stored
    <2>1. records[ppos + 1] \in Record  BY <1>2
    <2>2. records[ppos + 1].value \in Seq(Bytes)  BY <2>1 DEF Record
    <2>3. Len(records[ppos + 1].value) = VSIZE => stored = records[ppos + 1].value
        BY <1>1, <2>2, StoredBytes
    <2>4. QED  BY <1>1, <2>3 DEF Stored, With
<1> HIDE DEF new
<1>6. /\ added' \in Seq(S \cup {new}) /\ Len(added') = ppos + 1
      /\ \A k \in 1 .. ppos : added'[k] = added[k]
      /\ added'[ppos + 1] = new
    BY <1>2, <1>3, <1>4, Appended
<1>7. ppos < N => Way(ppos, Stored) = merkle[2 * N - 2]
    <2>1. SUFFICES ASSUME ppos < N PROVE Way(ppos, Stored) = merkle[2 * N - 2]  OBVIOUS
    <2>2. /\ index >= 2 * N - 2 * Size[i] /\ index < 2 * N - Size[i] /\ folded = merkle[index]
          /\ index \in Nat
        BY <1>2, <2>1 DEF FileInv, IInv, TypeOK, InProofs
    <2>3. Size[i] = 1  BY <1>2, SizeFacts
    <2>4. index = 2 * N - 2  BY <2>2, <2>3
    <2>5. folded = merkle[2 * N - 2]  BY <2>2, <2>4
    <2>6. /\ \E at : DOMAIN at = 0 .. TREE_HEIGHT /\ Climbs(at, ppos, Stored, TREE_HEIGHT)
          /\ \A at : Climbs(at, ppos, Stored, TREE_HEIGHT) => at[TREE_HEIGHT].hash = folded
        BY <1>2 DEF FileInv, InWay
    <2>7. Way(ppos, Stored) = folded  BY <2>6, WayIs
    <2>8. QED  BY <2>5, <2>7
<1>8. Verified(added', records, merkle[2 * N - 2])
    <2>0. SUFFICES ASSUME NEW k \in 1 .. ppos + 1
                   PROVE  /\ added'[k].key = records[k].key
                          /\ added'[k].value \in StoredValues(records[k].value)
                          /\ Len(records[k].value) = VSIZE /\ k <= N =>
                                Way(k - 1, added'[k]) = merkle[2 * N - 2]
        BY <1>6 DEF Verified
    <2>1. CASE k = ppos + 1
        <3>1. k - 1 = ppos /\ (k <= N => ppos < N)  BY <1>2, <2>1
        <3>2. QED  BY <1>6, <1>5, <1>7, <2>1, <3>1
    <2>2. CASE k # ppos + 1
        <3>1. k \in 1 .. ppos  BY <1>2, <2>2
        <3>2. /\ added[k].key = records[k].key
              /\ added[k].value \in StoredValues(records[k].value)
              /\ Len(records[k].value) = VSIZE /\ k <= N =>
                    Way(k - 1, added[k]) = merkle[2 * N - 2]
            BY <1>4, <3>1 DEF FileInv, InAdded, Verified
        <3>3. QED  BY <1>6, <3>1, <3>2
    <2>3. QED  BY <2>1, <2>2
<1>9. CASE ppos + 1 < Len(records) /\ StartProof(ppos + 1)
    <2>1. InWay'  BY <1>2, <1>9, StartWay
    <2>2. pc' = "proofs" /\ ppos' = ppos + 1  BY <1>9 DEF StartProof
    <2>3. InAdded'  BY <1>2, <1>6, <1>8, <2>2 DEF InAdded
    <2>4. QED  BY <2>1, <2>3
<1>10. CASE ppos + 1 = Len(records) /\ rh' = <<merkle[2 * N - 2]>> /\ pc' = "done"
    <2>1. InWay'  BY <1>10 DEF InWay
    <2>2. InAdded'  BY <1>2, <1>6, <1>8, <1>10 DEF InAdded
    <2>3. QED  BY <2>1, <2>2
<1>11. QED  BY <1>9, <1>10 DEF AddRecord

LEMMA FileNext == FileInv /\ [Next]_vars => FileInv'
<1> SUFFICES ASSUME FileInv, [Next]_vars PROVE FileInv'  OBVIOUS
<1>1. IInv'  BY StepKeeps DEF FileInv
<1>2. ASSUME pc \in {"leaves", "inner"}, pc' \in {"leaves", "inner"}, added' = added
      PROVE  InWay' /\ InAdded'
    <2>1. Len(added) = 0 /\ \E S : added \in Seq(S)  BY <1>2 DEF FileInv, InAdded
    <2>2. InAdded'
        <3>1. \A k : k \notin 1 .. 0  OBVIOUS
        <3>2. QED  BY <1>2, <2>1, <3>1 DEF InAdded, Verified
    <2>3. QED  BY <1>2, <2>2 DEF InWay
<1>3. CASE Leaf \/ LeavesDone \/ InnerNode \/ LevelDone
    <2>1. pc \in {"leaves", "inner"} /\ pc' \in {"leaves", "inner"} /\ added' = added
        BY <1>3 DEF Leaf, LeavesDone, InnerNode, LevelDone
    <2>2. QED  BY <1>1, <1>2, <2>1 DEF FileInv
<1>4. CASE TreeDone
    <2>1. pc = "inner" /\ added' = added /\ records' = records  BY <1>4 DEF TreeDone
    <2>2. Len(added) = 0 /\ \E S : added \in Seq(S)  BY <2>1 DEF FileInv, InAdded
    <2>3. \A k : k \notin 1 .. 0  OBVIOUS
    <2>4. CASE Len(records) > 0 /\ StartProof(0)
        <3>1. InWay'  BY <2>1, <2>4, StartWay
        <3>2. pc' = "proofs" /\ ppos' = 0  BY <2>4 DEF StartProof
        <3>3. InAdded'  BY <2>1, <2>2, <2>3, <3>2 DEF InAdded, Verified
        <3>4. QED  BY <1>1, <3>1, <3>3 DEF FileInv
    <2>5. CASE Len(records) = 0 /\ pc' = "done"
        <3>1. InAdded'  BY <2>1, <2>2, <2>3, <2>5 DEF InAdded, Verified
        <3>2. QED  BY <1>1, <2>5, <3>1 DEF FileInv, InWay
    <2>6. QED  BY <1>4, <2>4, <2>5 DEF TreeDone
<1>5. CASE ProofStep
    <2>1. InWay'  BY <1>5, ProofStepWay DEF FileInv
    <2>2. /\ pc = "proofs" /\ pc' = "proofs" /\ UNCHANGED <<added, records, merkle, ppos>>
        BY <1>5 DEF ProofStep, tree
    <2>3. InAdded'  BY <2>2 DEF FileInv, InAdded
    <2>4. QED  BY <1>1, <2>1, <2>3 DEF FileInv
<1>6. CASE AddRecord  BY <1>1, <1>6, AddRecordAdds DEF FileInv
<1>7. CASE Overrun
    <2>1. pc = "leaves" /\ pc' = "overrun" /\ added' = added /\ records' = records  BY <1>7 DEF Overrun
    <2>2. Len(added) = 0 /\ \E S : added \in Seq(S)  BY <2>1 DEF FileInv, InAdded
    <2>3. \A k : k \notin 1 .. 0  OBVIOUS
    <2>4. InAdded'  BY <2>1, <2>2, <2>3 DEF InAdded, Verified
    <2>5. QED  BY <1>1, <2>1, <2>4 DEF FileInv, InWay
<1>8. CASE UNCHANGED vars
    <2>1. UNCHANGED <<records, merkle, i, ppos, index, proof, added, rh, folded, pc>>
        BY <1>8 DEF vars, tree
    <2>2. InWay'  BY <2>1 DEF FileInv, InWay, Stored, Climbs, StepOf
    <2>3. InAdded'  BY <2>1 DEF FileInv, InAdded
    <2>4. QED  BY <1>1, <2>2, <2>3 DEF FileInv
<1>9. QED  BY <1>3, <1>4, <1>5, <1>6, <1>7, <1>8 DEF Next

\* All the keys are in the file in their order, each with VSIZE bytes.  What a reader computes
\* from a record of the tree, its position and the proof beside it is meta->rh when the value
\* that was hashed has VSIZE bytes; a value of any other length, or a deletion, is not in the
\* file as it was hashed.
THEOREM FilesVerify == Spec => []FileVerifies
<1>1. Init => FileInv
    <2> SUFFICES ASSUME Init PROVE FileInv  OBVIOUS
    <2>1. added = <<>> /\ pc = "leaves"  BY DEF Init
    <2>2. added \in Seq({}) /\ Len(added) = 0  BY <2>1
    <2>3. \A k : k \notin 1 .. 0  OBVIOUS
    <2>4. InAdded  BY <2>1, <2>2, <2>3 DEF InAdded, Verified
    <2>5. QED  BY <2>1, <2>4, InitHolds DEF FileInv, InWay
<1>2. FileInv => FileVerifies
    <2> SUFFICES ASSUME FileInv, pc = "done", records # <<>> PROVE
            /\ Len(added) = Len(records)
            /\ \A k \in DOMAIN records :
                /\ added[k].key = records[k].key
                /\ Message(added[k]) = Message(records[k]) <=> Len(records[k].value) = VSIZE
                /\ Message(added[k]) = Message(records[k]) /\ k <= N =>
                        <<Way(k - 1, added[k])>> = rh
        BY DEF FileVerifies
    <2>1. records \in Seq(Record)  BY DEF FileInv, IInv, TypeOK
    <2>2. Len(records) \in Nat /\ Len(records) > 0 /\ DOMAIN records = 1 .. Len(records)  BY <2>1
    <2>3. Len(added) = Len(records)  BY DEF FileInv, InAdded
    <2>4. rh = <<merkle[2 * N - 2]>>  BY <2>2 DEF FileInv, InAdded
    <2>5. ASSUME NEW k \in DOMAIN records
          PROVE  /\ added[k].key = records[k].key
                 /\ Message(added[k]) = Message(records[k]) <=> Len(records[k].value) = VSIZE
                 /\ Message(added[k]) = Message(records[k]) /\ k <= N =>
                        <<Way(k - 1, added[k])>> = rh
        <3>1. /\ added[k].key = records[k].key
              /\ added[k].value \in StoredValues(records[k].value)
              /\ Len(records[k].value) = VSIZE /\ k <= N => Way(k - 1, added[k]) = merkle[2 * N - 2]
            BY <2>2, <2>3, <2>5 DEF FileInv, InAdded, Verified
        <3>2. records[k] \in Record  BY <2>1, <2>5
        <3>3. records[k].key \in Seq(Bytes) /\ records[k].value \in Seq(Bytes)  BY <3>2 DEF Record
        <3>4. Message(added[k]) = Message(records[k]) <=> Len(records[k].value) = VSIZE
            <4>1. /\ Len(records[k].value) = VSIZE => added[k].value = records[k].value
                  /\ records[k].key \o added[k].value = records[k].key \o records[k].value =>
                        Len(records[k].value) = VSIZE
                BY <3>1, <3>3, StoredBytes
            <4>2. /\ Message(added[k]) = records[k].key \o added[k].value
                  /\ Message(records[k]) = records[k].key \o records[k].value
                BY <3>1, Zenon DEF Message
            <4>3. QED  BY <4>1, <4>2, Zenon
        <3>5. QED  BY <2>4, <3>1, <3>4
    <2>6. QED  BY <2>3, <2>5
<1>3. QED  BY <1>1, <1>2, FileNext, PTL DEF Spec
=============================================================================
