---------------------------- MODULE TableBuilder ----------------------------
(***************************************************************************)
(* How a table is written (table/table_builder.cpp, block_builder.cpp,     *)
(* filter_block.cpp, util/bloom.cpp).  A block is its entries and its      *)
(* restart points: an entry shares a prefix of its key with the entry      *)
(* before, a restart point is the index of an entry.  A file maps offsets  *)
(* to what was written there as one block.                                 *)
(***************************************************************************)
EXTENDS InternalKey, Functions

CONSTANTS
    block_size,
    block_restart_interval,
    kFilterBase,            \* a filter for so many bytes of the file
    bits_per_key,
    UsesFilter              \* whether options.filter_policy is set

kBlockTrailerSize == 5
kFooterLength == 48
-----------------------------------------------------------------------------
(* BlockBuilder *)

EmptyBlock == [entries |-> <<>>, restarts |-> <<1>>, counter_ |-> 0, last_key_ |-> <<>>]

BlockAdd(b, key, value, interval) ==
    LET restart == b.counter_ >= interval
        d       == Differing(b.last_key_, key)
        shared  == IF restart THEN 0
                   ELSE IF d = {} THEN Min({Len(b.last_key_), Len(key)}) ELSE Min(d) - 1
    IN  [entries |-> Append(b.entries, [shared |-> shared, value |-> value,
                                        delta |-> SubSeq(key, shared + 1, Len(key))]),
         restarts |-> IF restart THEN Append(b.restarts, Len(b.entries) + 1) ELSE b.restarts,
         counter_ |-> IF restart THEN 1 ELSE b.counter_ + 1,
         last_key_ |-> key]

\* Three lengths, the rest of the key and a value of one byte (in an index, a handle of
\* two), and the restart array with its length
CurrentSizeEstimate(b) ==
    FoldLeft(LAMBDA n, e : n + 4 + Len(e.delta), 0, b.entries) + 4 * Len(b.restarts) + 4
-----------------------------------------------------------------------------
(* FilterBlockBuilder with a Bloom filter: a filter is the set of its bits *)
(* and how many it has; the hash is a number of 6 bits, and the least      *)
(* number of bits is scaled with it from 64 to 16.                         *)

BloomHash(key) == FoldLeft(LAMBDA h, byte : (5 * h + 7 * byte + 1) % 64, 11, key)
Delta(h) == (h \div 8) + 8 * (h % 8)
Probes(key, bits) ==
    LET h == BloomHash(key)
    IN  {((h + j * Delta(h)) % 64) % bits : j \in 0 .. Max({1, (bits_per_key * 69) \div 100}) - 1}

\* InternalFilterPolicy and BloomFilterPolicy::CreateFilter
CreateFilter(keys) ==
    LET bits == 8 * ((Max({16, Len(keys) * bits_per_key}) + 7) \div 8)
    IN  [bits |-> bits, set |-> UNION {Probes(ExtractUserKey(keys[i]), bits) : i \in DOMAIN keys}]

NoFilters == [filters |-> <<>>, keys |-> <<>>]

GenerateFilter(f) ==
    [filters |-> Append(f.filters, IF f.keys = <<>> THEN [bits |-> 0, set |-> {}]
                                   ELSE CreateFilter(f.keys)),
     keys |-> <<>>]

\* Mutant: the keys of the blocks before go into the filter that is begun.
StartBlock_Skips(f, block_offset) ==
    [f EXCEPT !.filters = @ \o [i \in Len(@) + 1 .. block_offset \div kFilterBase |->
                                   [bits |-> 0, set |-> {}]]]

RECURSIVE StartBlock(_, _)
StartBlock(f, block_offset) ==
    IF block_offset \div kFilterBase > Len(f.filters)
    THEN StartBlock(GenerateFilter(f), block_offset) ELSE f

AddKey(f, key) == [f EXCEPT !.keys = Append(@, key)]
FilterFinish(f) == (IF f.keys # <<>> THEN GenerateFilter(f) ELSE f).filters

\* FilterBlockReader::KeyMayMatch
KeyMayMatch(filters, block_offset, key) ==
    LET index == block_offset \div kFilterBase + 1
    IN  index \in DOMAIN filters =>
            /\ filters[index].bits > 0
            /\ Probes(ExtractUserKey(key), filters[index].bits) \subseteq filters[index].set
-----------------------------------------------------------------------------
(* TableBuilder.  The append or flush behind the next "left" ones fails.   *)

NewBuilder(left) ==
    [offset |-> 0, ok |-> TRUE, data_block |-> EmptyBlock, index_block |-> EmptyBlock,
     filter_block |-> StartBlock(NoFilters, 0), last_key |-> <<>>,
     pending_index_entry |-> FALSE, pending_handle |-> [offset |-> 0, size |-> 0],
     blocks |-> <<>>, left |-> left]

\* Mutant: the append of the trailer is not looked at.
WriteRawBlock_Trailer(r, contents, size) ==
    IF r.left = 0 THEN [r EXCEPT !.ok = FALSE, !.left = @ - 1]
    ELSE [r EXCEPT !.blocks = @ @@ (r.offset :> contents), !.left = @ - 2,
                   !.offset = @ + size + IF r.left = 1 THEN 0 ELSE kBlockTrailerSize]

\* A file is a function from offsets; a block is there when both appends succeeded.
WriteRawBlock(r, contents, size) ==
    IF r.left \in {0, 1} THEN [r EXCEPT !.ok = FALSE, !.left = -1]
    ELSE [r EXCEPT !.blocks = @ @@ (r.offset :> contents),
                   !.offset = @ + size + kBlockTrailerSize, !.left = @ - 2]

BlockOf(b) == [entries |-> b.entries, restarts |-> b.restarts]
Handle(r, b) == [offset |-> r.offset, size |-> CurrentSizeEstimate(b)]

\* A block is written, if nothing failed before.
WriteIf(r, contents, size) == IF r.ok THEN WriteRawBlock(r, contents, size) ELSE r

\* The file is flushed behind a block that was written.
Flushed(w, handle) ==
    [w EXCEPT !.data_block = EmptyBlock, !.pending_handle = handle, !.pending_index_entry = w.ok,
              !.ok = @ /\ w.left # 0, !.left = IF w.ok THEN @ - 1 ELSE @,
              !.filter_block = IF UsesFilter THEN StartBlock(@, w.offset) ELSE @]

Flush(r) ==
    IF ~r.ok \/ r.data_block.entries = <<>> THEN r
    ELSE Flushed(WriteRawBlock(r, BlockOf(r.data_block), CurrentSizeEstimate(r.data_block)),
                 Handle(r, r.data_block))

\* The entry of the index that is pending, under a key
AddIndexEntry(r, key) ==
    IF r.pending_index_entry
    THEN [r EXCEPT !.index_block = BlockAdd(@, key, r.pending_handle, 1), !.pending_index_entry = FALSE]
    ELSE r

AddEntry(r, key, value) ==
    [r EXCEPT !.filter_block = IF UsesFilter THEN AddKey(@, key) ELSE @, !.last_key = key,
              !.data_block = BlockAdd(@, key, value, block_restart_interval)]

FlushIfFull(r) == IF CurrentSizeEstimate(r.data_block) >= block_size THEN Flush(r) ELSE r

\* TableBuilder::Add
TableAdd(r, key, value) ==
    IF r.ok THEN FlushIfFull(AddEntry(AddIndexEntry(r, FindShortestSeparator(r.last_key, key)), key, value))
    ELSE r

\* TableBuilder::Finish: the filter, the metaindex, which says where the filter is, the
\* index and the footer, which says where the other two are
WriteFilter(r, filters) ==
    [rep |-> IF UsesFilter THEN WriteIf(r, filters, 9 * Len(filters) + 5) ELSE r,
     meta |-> IF UsesFilter THEN <<r.offset>> ELSE <<>>]

WriteMetaindex(f) == [rep |-> WriteIf(f.rep, f.meta, 20), metaindex_handle |-> f.rep.offset]

WriteIndex(m) ==
    [rep |-> WriteIf(m.rep, BlockOf(m.rep.index_block), CurrentSizeEstimate(m.rep.index_block)),
     metaindex_handle |-> m.metaindex_handle, index_handle |-> m.rep.offset]

WithLastEntry(m) == [m EXCEPT !.rep = AddIndexEntry(@, FindShortSuccessor(@.last_key))]

WriteFooter(i) ==
    [ok |-> i.rep.ok /\ i.rep.left # 0, blocks |-> i.rep.blocks,
     metaindex_handle |-> i.metaindex_handle, index_handle |-> i.index_handle,
     file_size |-> i.rep.offset + IF i.rep.ok /\ i.rep.left # 0 THEN kFooterLength ELSE 0]

FinishFlushed(r) ==
    WriteFooter(WriteIndex(WithLastEntry(WriteMetaindex(WriteFilter(r, FilterFinish(r.filter_block))))))
Finish(r) == FinishFlushed(Flush(r))

\* What BuildTable makes of a value, which is here one part of VSIZE bytes or none: VSIZE
\* bytes, which are anything if the value has none, and a proof.  Their bytes are in MerkleTree.
Unknown == 0
StoredValue(value) == <<IF value = <<>> THEN Unknown ELSE value[1], "proof">>

\* The loop of BuildTable over what goes into a table
BuildTable(entries, left) ==
    Finish(FoldLeft(LAMBDA r, e : TableAdd(r, e.key, StoredValue(e.value)), NewBuilder(left), entries))
=============================================================================
