------------------------------- MODULE Arena --------------------------------
(***************************************************************************)
(* The allocator of a memtable (util/arena.cpp, util/arena.h, as built with *)
(* OUTSIDE 0).  An arena is a record: the sizes of its blocks, the place   *)
(* of alloc_ptr_, what remains behind it, and memory_usage_.  An operator   *)
(* returns the arena after a call; Region names what the call returned.    *)
(* new char[] gives aligned blocks, so an address is aligned exactly if    *)
(* its offset in its block is.                                             *)
(***************************************************************************)
EXTENDS Naturals, Sequences

CONSTANTS
    kBlockSize,
    Align,          \* of AllocateAligned
    PointerSize     \* sizeof(char*)

Region(block, offset, bytes) == [block |-> block, offset |-> offset, bytes |-> bytes]

EmptyArena == [blocks_ |-> <<>>, ptr_block |-> 0, alloc_ptr_ |-> 0,
               alloc_bytes_remaining_ |-> 0, memory_usage_ |-> 0,
               result |-> Region(0, 0, 0)]

AllocateNewBlock(a, block_bytes) ==
    [a EXCEPT !.blocks_ = Append(@, block_bytes),
              !.memory_usage_ = @ + block_bytes + PointerSize]

\* The bytes at alloc_ptr_ + slop
Take(a, slop, bytes) ==
    [a EXCEPT !.alloc_ptr_ = @ + slop + bytes,
              !.alloc_bytes_remaining_ = @ - (slop + bytes),
              !.result = Region(a.ptr_block, a.alloc_ptr_ + slop, bytes)]

\* A large object gets a block of its own and leaves the current one alone.
AllocateFallback(a, bytes) ==
    IF bytes > kBlockSize \div 4
    THEN LET b == AllocateNewBlock(a, bytes)
         IN  [b EXCEPT !.result = Region(Len(b.blocks_), 0, bytes)]
    ELSE LET b == AllocateNewBlock(a, kBlockSize)
         IN  Take([b EXCEPT !.ptr_block = Len(b.blocks_), !.alloc_ptr_ = 0,
                            !.alloc_bytes_remaining_ = kBlockSize], 0, bytes)

Allocate(a, bytes) ==
    IF bytes <= a.alloc_bytes_remaining_ THEN Take(a, 0, bytes) ELSE AllocateFallback(a, bytes)

\* Mutant: the padding is not counted against what remains of the block.
AllocateAligned_NoSlop(a, bytes) ==
    LET slop == (Align - (a.alloc_ptr_ % Align)) % Align
    IN  IF bytes <= a.alloc_bytes_remaining_ THEN Take(a, slop, bytes)
                                             ELSE AllocateFallback(a, bytes)

AllocateAligned(a, bytes) ==
    LET slop == (Align - (a.alloc_ptr_ % Align)) % Align
    IN  IF bytes + slop <= a.alloc_bytes_remaining_ THEN Take(a, slop, bytes)
                                                    ELSE AllocateFallback(a, bytes)
=============================================================================
