------------------------------ MODULE UcMemory ------------------------------
(***************************************************************************)
(* Guest memory as Unicorn keeps it (uc.c and qemu/softmmu/memory.c): the  *)
(* array mapped_blocks of MemoryRegion pointers, sorted by address and     *)
(* searched by bisection.  Addresses and sizes are counted in pages.       *)
(*                                                                         *)
(* uc_mem_unmap, uc_mem_protect and uc_mem_write first check that all of   *)
(* the requested range is mapped and then go through it one region at a    *)
(* time; an iteration of that loop is a step here, and `op' is what the    *)
(* call in progress has left to do.  Every region is RAM that Unicorn      *)
(* allocated (the emulator uses neither uc_mem_map_ptr nor uc_mmio_map),   *)
(* and allocating it succeeds.                                             *)
(***************************************************************************)
EXTENDS Integers, Sequences

CONSTANTS
  PageCount,      \* the pages of the model are 0 .. PageCount - 1
  Perms,          \* the permissions of a region
  Contents, Zero, \* the contents of a page, and of a page just mapped
  MEM_BLOCK_INCR  \* by how many pointers mapped_blocks grows

ASSUME UcAssumption ==
  /\ PageCount \in Nat
  /\ Zero \in Contents
  /\ MEM_BLOCK_INCR \in Nat \ {0}

VARIABLES
  mapped_blocks,  \* the regions, in the order of the array
  room,           \* the number of pointers the array has been allocated for
  op              \* the call in progress

ucVars == <<mapped_blocks, room, op>>

Idle == [call |-> "none", addr |-> 0, left |-> 0, arg |-> Zero]

Array(blocks, n) == [blocks |-> blocks, room |-> n]

-----------------------------------------------------------------------------
(* The array *)

(* bsearch_mapped_blocks: the position of the region that holds address or,
   when none does, of the first region behind it. *)
bsearch_mapped_blocks(blocks, address) ==
  CHOOSE i \in 1 .. Len(blocks) + 1 :
    /\ \A j \in 1 .. i - 1 : blocks[j].end <= address
    /\ i <= Len(blocks) => address < blocks[i].end

(* memory_mapping: the position of the region that holds address, or 0. *)
memory_mapping(blocks, address) ==
  LET i == bsearch_mapped_blocks(blocks, address)
  IN  IF i <= Len(blocks) /\ blocks[i].addr <= address THEN i ELSE 0

memory_overlap(blocks, begin, size) ==
  LET i == bsearch_mapped_blocks(blocks, begin)
  IN  i <= Len(blocks) /\ begin + size - 1 >= blocks[i].addr

(* Mutant of check_mem_area: only the first page is looked at. *)
CheckFirstPage(blocks, address, size) == memory_mapping(blocks, address) # 0

check_mem_area(blocks, address, size) ==
  \A p \in address .. address + size - 1 : memory_mapping(blocks, p) # 0

(* Mutant of mem_map: the array grows one region too late. *)
MapGrowsLate(array, region) ==
  LET blocks == array.blocks
      i == bsearch_mapped_blocks(blocks, region.addr)
  IN  Array(SubSeq(blocks, 1, i - 1) \o <<region>> \o SubSeq(blocks, i, Len(blocks)),
            IF Len(blocks) = 0 \/ Len(blocks) % MEM_BLOCK_INCR = 1
              THEN Len(blocks) + MEM_BLOCK_INCR - 1 ELSE array.room)

(* mem_map: the array grows when its length is a multiple of the increment. *)
mem_map(array, region) ==
  LET blocks == array.blocks
      i == bsearch_mapped_blocks(blocks, region.addr)
  IN  Array(SubSeq(blocks, 1, i - 1) \o <<region>> \o SubSeq(blocks, i, Len(blocks)),
            IF Len(blocks) % MEM_BLOCK_INCR = 0
              THEN Len(blocks) + MEM_BLOCK_INCR ELSE array.room)

memory_unmap(array, i) ==
  Array(SubSeq(array.blocks, 1, i - 1)
          \o SubSeq(array.blocks, i + 1, Len(array.blocks)), array.room)

(* Mutant of MapPiece: the contents are not written back. *)
MapEmptyPiece(array, region, from, to) ==
  IF from < to
    THEN mem_map(array, [addr |-> from, end |-> to, perms |-> region.perms,
                         data |-> [p \in from .. to - 1 |-> Zero]])
    ELSE array

(* uc_mem_map and uc_mem_write of a piece of a region that was copied; there
   is nothing to map when the piece is empty. *)
MapPiece(array, region, from, to) ==
  IF from < to
    THEN mem_map(array, [addr |-> from, end |-> to, perms |-> region.perms,
                         data |-> [p \in from .. to - 1 |-> region.data[p]]])
    ELSE array

(* split_region of the region at position i at from and to, which lie inside
   it: the region is unmapped, and its pieces are mapped again one by one. *)
split_region(array, i, from, to, do_delete) ==
  LET mr == array.blocks[i]
      left == MapPiece(memory_unmap(array, i), mr, mr.addr, from)
      middle == IF do_delete THEN left ELSE MapPiece(left, mr, from, to)
  IN  IF from <= mr.addr /\ to >= mr.end THEN array
      ELSE MapPiece(middle, mr, to, mr.end)

Becomes(array) == mapped_blocks' = array.blocks /\ room' = array.room

-----------------------------------------------------------------------------
(* The calls *)

UcInit == mapped_blocks = <<>> /\ room = 0 /\ op = Idle

(* A range that overlaps a region is UC_ERR_MAP, an empty one UC_ERR_ARG. *)
uc_mem_map(address, size, perms) ==
  /\ op = Idle
  /\ size > 0 /\ ~memory_overlap(mapped_blocks, address, size)
  /\ Becomes(mem_map(Array(mapped_blocks, room),
       [addr |-> address, end |-> address + size, perms |-> perms,
        data |-> [p \in address .. address + size - 1 |-> Zero]]))
  /\ UNCHANGED op

(* The checks of uc_mem_unmap, uc_mem_protect and uc_mem_write: an empty range
   is a success that changes nothing, one not all mapped an error. *)
Begins(call, address, size, arg) ==
  /\ op = Idle
  /\ size > 0 /\ check_mem_area(mapped_blocks, address, size)
  /\ op' = [call |-> call, addr |-> address, left |-> size, arg |-> arg]
  /\ UNCHANGED <<mapped_blocks, room>>

uc_mem_unmap(address, size) == Begins("unmap", address, size, Zero)

uc_mem_protect(address, size, perms) == Begins("protect", address, size, perms)

uc_mem_write(address, size, value) == Begins("write", address, size, value)

(* The region that the loop of a call is at, and the end of its part in it. *)
RegionAt == memory_mapping(mapped_blocks, op.addr)

ChunkEnd ==
  IF op.left < mapped_blocks[RegionAt].end - op.addr
    THEN op.addr + op.left ELSE mapped_blocks[RegionAt].end

(* Mutant of Advance: what is left to do is not counted down. *)
AdvanceKeepsLeft ==
  op' = IF op.addr + op.left = ChunkEnd THEN Idle ELSE [op EXCEPT !.addr = ChunkEnd]

Advance ==
  op' = IF op.addr + op.left = ChunkEnd THEN Idle
        ELSE [op EXCEPT !.addr = ChunkEnd, !.left = op.addr + op.left - ChunkEnd]

(* An iteration of uc_mem_unmap: the region that still holds the address after
   the split, which is then all of the chunk, is unmapped. *)
UnmapChunk ==
  /\ op.call = "unmap"
  /\ LET split == split_region(Array(mapped_blocks, room), RegionAt,
                               op.addr, ChunkEnd, TRUE)
         still == memory_mapping(split.blocks, op.addr)
     IN  Becomes(IF still # 0 THEN memory_unmap(split, still) ELSE split)
  /\ Advance

ProtectChunk ==
  /\ op.call = "protect"
  /\ LET split == split_region(Array(mapped_blocks, room), RegionAt,
                               op.addr, ChunkEnd, FALSE)
         mr == memory_mapping(split.blocks, op.addr)
     IN  Becomes([split EXCEPT !.blocks[mr].perms = op.arg])
  /\ Advance

WriteChunk ==
  /\ op.call = "write"
  /\ mapped_blocks' = [mapped_blocks EXCEPT ![RegionAt].data =
       [p \in DOMAIN @ |-> IF op.addr <= p /\ p < ChunkEnd THEN op.arg ELSE @[p]]]
  /\ Advance
  /\ UNCHANGED room

Requests == {r \in (0 .. PageCount - 1) \X (1 .. PageCount) : r[1] + r[2] <= PageCount}

UcNext ==
  \/ \E r \in Requests :
       \/ \E perms \in Perms :
            uc_mem_map(r[1], r[2], perms) \/ uc_mem_protect(r[1], r[2], perms)
       \/ uc_mem_unmap(r[1], r[2])
       \/ \E value \in Contents : uc_mem_write(r[1], r[2], value)
  \/ UnmapChunk
  \/ ProtectChunk
  \/ WriteChunk

UcSpec == UcInit /\ [][UcNext]_ucVars

-----------------------------------------------------------------------------
(* Properties *)

(* The array holds regions of pages with their permissions and contents, and
   the call in progress is inside the address space (struct uc_struct). *)
UcTypeOK ==
  /\ \A i \in DOMAIN mapped_blocks :
       /\ mapped_blocks[i].addr \in 0 .. PageCount /\ mapped_blocks[i].end \in 0 .. PageCount
       /\ mapped_blocks[i].perms \in Perms
       /\ mapped_blocks[i].data \in
            [mapped_blocks[i].addr .. mapped_blocks[i].end - 1 -> Contents]
  /\ room \in Nat
  /\ op.call \in {"none", "unmap", "protect", "write"}
  /\ op.addr + op.left \in 0 .. PageCount

(* The order that bsearch_mapped_blocks relies on survives every insertion by
   mem_map and every split: regions are not empty, ascend and never overlap. *)
Sorted ==
  \A i, j \in DOMAIN mapped_blocks :
    /\ mapped_blocks[i].addr < mapped_blocks[i].end
    /\ i < j => mapped_blocks[i].end <= mapped_blocks[j].addr

(* The loops of uc_mem_unmap, uc_mem_protect and uc_mem_write dereference what
   memory_mapping returns without looking: it is never NULL, although the
   splits and unmaps of earlier iterations have changed the array since
   check_mem_area looked at it. *)
LoopFindsRegion ==
  op.call # "none" =>
    \A p \in op.addr .. op.addr + op.left - 1 : memory_mapping(mapped_blocks, p) # 0

(* mem_map never writes behind the array it reallocates only when the count is
   a multiple of MEM_BLOCK_INCR, however the count rises and falls. *)
RoomEnough == Len(mapped_blocks) <= room

(* The array of regions is one that the binary search and the insertions may
   rely on, also in the middle of a call that splits regions, and holds what
   such a call has yet to look up. *)
UcInv == UcTypeOK /\ Sorted /\ RoomEnough /\ LoopFindsRegion

Pending == op.addr .. op.addr + op.left - 1

MappedPages ==
  {p \in 0 .. PageCount - 1 : memory_mapping(mapped_blocks, p) # 0}
    \ (IF op.call = "unmap" THEN Pending ELSE {})

PageOf(p) ==
  LET mr == mapped_blocks[memory_mapping(mapped_blocks, p)]
  IN  [perms |-> IF op.call = "protect" /\ p \in Pending THEN op.arg ELSE mr.perms,
       data |-> IF op.call = "write" /\ p \in Pending THEN op.arg ELSE mr.data[p]]

Table == INSTANCE PageTable WITH pages <- [p \in MappedPages |-> PageOf(p)]

(* The array of regions implements the page table: a call changes exactly the
   pages it names, at once, whatever regions they lie in, and splitting a
   region keeps the permissions and contents of every page around them. *)
ImplementsPageTable == Table!TableSpec

(* The loop of a call ends: every iteration leaves less of the range to do, and
   nothing else runs in between. *)
LoopShrinks == [][op.call # "none" => op'.left < op.left]_ucVars
=============================================================================
