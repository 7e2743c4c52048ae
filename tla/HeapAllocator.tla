--------------------------- MODULE HeapAllocator ---------------------------
(***************************************************************************)
(* The heap of the emulated process: memory/HeapAllocator.java.            *)
(*                                                                         *)
(* The singly linked list of HeapBlock objects that starts at head is the  *)
(* sequence blocks; following getNext is going to the next index.  The     *)
(* allocator is called from JNI functions with sizes and addresses that    *)
(* come from emulated code, so allocate takes any size of Sizes and free   *)
(* any address, whether or not it was ever handed out.                     *)
(***************************************************************************)
EXTENDS Integers, Sequences

CONSTANTS
  Begin,      \* begin: first address of the heap (HEAP_MIN)
  End,        \* end: first address behind the mapped heap (HEAP_MAX)
  Sizes,      \* the sizes callers ask for
  MaxPos,     \* bound on pos, which the code lets grow for ever
  MaxBlocks   \* bound on the length of the list

ASSUME HeapAssumption ==
  /\ Begin \in Nat \ {0}
  /\ End \in Nat /\ Begin < End
  /\ Sizes \subseteq Int
  /\ MaxPos \in Nat
  /\ MaxBlocks \in Nat

VARIABLES
  blocks,  \* the list of blocks, head first
  pos,     \* the address the next new block gets
  last     \* the last call: its name, argument, result and whether it threw

vars == <<blocks, pos, last>>

Block == [address : Nat, size : Nat, free : BOOLEAN]

Calls == [call : {"none", "allocate", "free"}, arg : Int, ret : Nat, error : BOOLEAN]

Returns(call, arg, ret) ==
  last' = [call |-> call, arg |-> arg, ret |-> ret, error |-> FALSE]

Throws(call, arg) ==
  last' = [call |-> call, arg |-> arg, ret |-> 0, error |-> TRUE]

Init ==
  /\ blocks = <<>>
  /\ pos = Begin
  /\ last = [call |-> "none", arg |-> 0, ret |-> 0, error |-> FALSE]

-----------------------------------------------------------------------------
(* Walking and changing the list *)

Fits(i, size) == blocks[i].free /\ blocks[i].size >= size

(* findFreeBlock stops at block i. *)
FindsFreeBlock(i, size) == Fits(i, size) /\ \A j \in 1 .. i - 1 : ~Fits(j, size)

(* Mutant of FindsBlock: any address inside the block is taken for it. *)
FindsBlockAround(i, addr) ==
  /\ blocks[i].address <= addr /\ addr < blocks[i].address + blocks[i].size

(* findBlock stops at block i: the first one with the address. *)
FindsBlock(i, addr) ==
  /\ blocks[i].address = addr
  /\ \A j \in 1 .. i - 1 : blocks[j].address # addr

(* splitBlock, and the setFree(false) that allocate applies to its result:
   the rest becomes a free block even when nothing is left of it. *)
SplitBlock(bs, i, size) ==
  [j \in 1 .. Len(bs) + 1 |->
     IF j < i THEN bs[j]
     ELSE IF j = i THEN [bs[i] EXCEPT !.size = size, !.free = FALSE]
     ELSE IF j = i + 1
       THEN [address |-> bs[i].address + size, size |-> bs[i].size - size, free |-> TRUE]
     ELSE bs[j - 1]]

(* Mutant of CanMerge: only the block itself has to be free. *)
CanMergeWithUsed(bs, i) == i \in 1 .. Len(bs) - 1 /\ bs[i].free

(* mergeBlock: block i absorbs the block behind it when both are free. Index 0
   is the missing predecessor of the head. *)
CanMerge(bs, i) == i \in 1 .. Len(bs) - 1 /\ bs[i].free /\ bs[i + 1].free

(* Mutant of MergeBlock: the size of the absorbed block is lost. *)
MergeLosesSize(bs, i) ==
  IF CanMerge(bs, i)
    THEN [j \in 1 .. Len(bs) - 1 |-> IF j <= i THEN bs[j] ELSE bs[j + 1]]
    ELSE bs

MergeBlock(bs, i) ==
  IF CanMerge(bs, i)
    THEN [j \in 1 .. Len(bs) - 1 |->
            IF j < i THEN bs[j]
            ELSE IF j = i THEN [bs[i] EXCEPT !.size = bs[i].size + bs[i + 1].size]
            ELSE bs[j + 1]]
    ELSE bs

(* Mutant of SetFree: only a block that a free block follows becomes free. *)
SetFreeBeforeFree(bs, i) ==
  IF i < Len(bs) /\ bs[i + 1].free THEN [bs EXCEPT ![i].free = TRUE] ELSE bs

SetFree(bs, i) == [bs EXCEPT ![i].free = TRUE]

-----------------------------------------------------------------------------
(* allocate *)

AllocateNegative(size) ==
  /\ size < 0
  /\ Returns("allocate", size, 0)
  /\ UNCHANGED <<blocks, pos>>

(* No free block fits, or there is no block yet: createBlock takes new memory
   at pos. The code compares pos with end nowhere. *)
AllocateNew(size) ==
  /\ size >= 0
  /\ \A i \in DOMAIN blocks : ~Fits(i, size)
  /\ Len(blocks) < MaxBlocks /\ pos + size <= MaxPos
  /\ blocks' = Append(blocks, [address |-> pos, size |-> size, free |-> FALSE])
  /\ pos' = pos + size
  /\ Returns("allocate", size, pos)

AllocateSplit(size) ==
  /\ size >= 0
  /\ Len(blocks) < MaxBlocks
  /\ \E i \in DOMAIN blocks :
       /\ FindsFreeBlock(i, size)
       /\ blocks' = SplitBlock(blocks, i, size)
       /\ Returns("allocate", size, blocks[i].address)
  /\ UNCHANGED pos

allocate(size) == AllocateNegative(size) \/ AllocateNew(size) \/ AllocateSplit(size)

-----------------------------------------------------------------------------
(* free *)

FreeNull(addr) ==
  /\ addr <= 0
  /\ Returns("free", addr, 0)
  /\ UNCHANGED <<blocks, pos>>

FreeUnknown(addr) ==
  /\ addr > 0
  /\ \A i \in DOMAIN blocks : blocks[i].address # addr
  /\ Throws("free", addr)
  /\ UNCHANGED <<blocks, pos>>

(* Mutant of FreeBlock: the block is not merged into its predecessor. *)
FreeMergesForward(addr) ==
  /\ addr > 0
  /\ \E i \in DOMAIN blocks :
       /\ FindsBlock(i, addr)
       /\ blocks' = MergeBlock(SetFree(blocks, i), i)
  /\ Returns("free", addr, 0)
  /\ UNCHANGED pos

FreeBlock(addr) ==
  /\ addr > 0
  /\ \E i \in DOMAIN blocks :
       /\ FindsBlock(i, addr)
       /\ blocks' = MergeBlock(MergeBlock(SetFree(blocks, i), i), i - 1)
  /\ Returns("free", addr, 0)
  /\ UNCHANGED pos

free(addr) == FreeNull(addr) \/ FreeUnknown(addr) \/ FreeBlock(addr)

Next ==
  \/ \E size \in Sizes : allocate(size)
  \/ \E addr \in 0 .. MaxPos : free(addr)

Spec == Init /\ [][Next]_vars

-----------------------------------------------------------------------------
(* Properties *)

(* Every block is a record of the list, pos an address, and the last call one
   of allocate and free (HeapAllocator's fields and HeapBlock). *)
TypeOK ==
  /\ blocks \in Seq(Block)
  /\ pos \in Nat
  /\ last \in Calls

(* The list tiles the memory from begin to pos in address order: no byte is in
   two blocks and none is lost between two of them, whatever splitBlock and
   mergeBlock did before (the sizes and addresses they compute). *)
Tiled ==
  /\ \A i, j \in DOMAIN blocks :
       i < j => blocks[i].address + blocks[i].size <= blocks[j].address
  /\ \A i \in DOMAIN blocks :
       /\ blocks[i].address >= Begin
       /\ blocks[i].address + blocks[i].size
            = IF i = Len(blocks) THEN pos ELSE blocks[i + 1].address
  /\ IF blocks = <<>> THEN pos = Begin ELSE blocks[1].address = Begin

(* Two calls of mergeBlock in free are enough: no two neighbours are ever both
   free, so free memory never stays fragmented across adjacent blocks. *)
Coalesced ==
  \A i \in 1 .. Len(blocks) - 1 : ~(blocks[i].free /\ blocks[i + 1].free)

(* The address allocate returned starts a block in use of exactly the size
   that was asked for (allocate, with splitBlock and createBlock). *)
ReturnedInUse ==
  last.call = "allocate" /\ last.arg >= 0 =>
    \E i \in DOMAIN blocks :
      /\ blocks[i].address = last.ret
      /\ blocks[i].size = last.arg
      /\ ~blocks[i].free

InUse ==
  {<<blocks[i].address, blocks[i].size>> :
     i \in {k \in DOMAIN blocks : ~blocks[k].free /\ blocks[k].size > 0}}

Pool == INSTANCE HeapPool WITH inUse <- InUse

(* The list implements the pool of regions: allocate hands out only memory that
   nobody holds, and free releases nothing but the region at its argument, even
   when it is called twice or with an address inside another block. *)
ImplementsPool == Pool!PoolSpec

OneBlockAt(addr) ==
  \A i, j \in DOMAIN blocks :
    blocks[i].address = addr /\ blocks[j].address = addr => i = j

(* free releases the memory at its address (the comment on HeapAllocator.free)
   unless two blocks start there: an empty block, which splitBlock leaves in
   front of the next one after an exact fit, is the only way to lose memory. *)
FreeReleases ==
  [][\A addr \in 0 .. MaxPos :
       FreeBlock(addr) /\ OneBlockAt(addr) => \A r \in InUse' : r[1] # addr]_vars
=============================================================================
