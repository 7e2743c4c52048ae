---------------------------- MODULE GuestMemory ----------------------------
(***************************************************************************)
(* Who gets which part of guest memory: memory/MemoryManager.java with     *)
(* memory/IncrementalAllocator.java and utils/MemUtils.java, the system    *)
(* calls mmap2, mprotect and munmap of cenv/Handler.java, and the mapping  *)
(* of a library's segments by module/Modules.java.                         *)
(*                                                                         *)
(* Guest memory is the page table that UcMemory is shown to implement:     *)
(* pages is the function of the mapped pages to their permissions.         *)
(* Addresses and sizes are in bytes.  A handler that throws leaves what it *)
(* has done so far, and stops the emulation until the next callNative.     *)
(***************************************************************************)
EXTENDS Integers, Sequences

CONSTANTS
  PageSize,                  \* UC_MEM_ALIGN
  ModulesMin, ModulesMax,    \* MODULES_MIN, MODULES_MAX
  HeapMin, HeapMax,          \* HEAP_MIN, HEAP_MAX
  MappingMin, MappingMax,    \* MAPPING_MIN, MAPPING_MAX
  MmapSizes,                 \* the sizes native code asks for
  MmapProts,                 \* the permissions it asks for
  Addresses,                 \* the addresses it names in munmap and the like
  Images,                    \* the libraries that can be loaded: whether they are
                             \* shared, what their symbol table says of each name
                             \* nobody hooks, and their segments
  MaxPos,                    \* bound on pos, which the code lets grow for ever
  MaxModules                 \* bound on the length of modules

Prot == SUBSET {"r", "w", "x"}

Segment == [va : Nat, size : Nat, flags : Prot]

ASSUME MemoryAssumption ==
  /\ PageSize \in Nat \ {0}
  /\ {ModulesMin, ModulesMax, HeapMin, HeapMax, MappingMin, MappingMax} \subseteq Nat
  /\ ModulesMin < ModulesMax /\ ModulesMax < HeapMin
  /\ HeapMin < HeapMax /\ HeapMax <= MappingMin /\ MappingMin < MappingMax
  /\ \A a \in {ModulesMin, ModulesMax, HeapMin, HeapMax, MappingMin, MappingMax} :
       a % PageSize = 0
  /\ MmapSizes \subseteq Nat /\ MmapProts \subseteq Prot /\ Addresses \subseteq Nat
  /\ \A image \in Images :
       /\ image.shared \in BOOLEAN
       /\ image.segments \in Seq(Segment)
       /\ \A i \in DOMAIN image.segments :
            ModulesMax + image.segments[i].va + image.segments[i].size <= HeapMax
  /\ MaxPos \in Nat

VARIABLES
  pages,     \* the mapped pages, each with its permissions
  pos,       \* IncrementalAllocator.pos
  modules,   \* Modules.modules: each library, where it is, the names it has
  last       \* the call that ended last: its name, result and whether it threw

memVars == <<pages, pos, modules, last>>

(* loadModule appends null for a file that is not a shared library. *)
IsNull(module) == ~module.image.shared

Ends(call, ret) == last' = [call |-> call, ret |-> ret, threw |-> FALSE]

Raises(call) == last' = [call |-> call, ret |-> 0, threw |-> TRUE]

-----------------------------------------------------------------------------
(* Pages *)

PagesOf(addr, size) == addr \div PageSize .. (addr + size - 1) \div PageSize

Aligned(n) == n % PageSize = 0

(* MemUtils.align with growl: the page behind the end is always included. *)
align(addr, size) ==
  LET start == (addr \div PageSize) * PageSize
  IN  [addr |-> start, size |-> ((addr + size) \div PageSize + 1) * PageSize - start]

(* What uc_mem_map, uc_mem_unmap and uc_mem_protect accept. *)
CanMap(table, chunk) ==
  /\ chunk.size > 0 /\ Aligned(chunk.addr) /\ Aligned(chunk.size)
  /\ PagesOf(chunk.addr, chunk.size) \cap DOMAIN table = {}

MapPages(table, chunk, prot) ==
  [p \in DOMAIN table \cup PagesOf(chunk.addr, chunk.size) |->
     IF p \in DOMAIN table THEN table[p] ELSE prot]

AllMapped(addr, size) ==
  Aligned(addr) /\ Aligned(size) /\ PagesOf(addr, size) \subseteq DOMAIN pages

MemInit ==
  /\ pages = [p \in PagesOf(HeapMin, HeapMax - HeapMin) |-> {"r", "w"}]
  /\ pos = ModulesMin
  /\ modules = <<>>
  /\ last = [call |-> "none", ret |-> 0, threw |-> FALSE]

-----------------------------------------------------------------------------
(* IncrementalAllocator.reserve: pos moves on before it is compared with the
   end, and whether or not the comparison fails. *)
reserve(size) == [addr |-> pos, size |-> align(0, size).size]

(* A variant of Reserves that adds the size asked for. *)
ReservesAsked(size) ==
  /\ pos + size <= MaxPos
  /\ pos' = pos + size

Reserves(size) ==
  /\ pos + align(0, size).size <= MaxPos
  /\ pos' = pos + align(0, size).size

(* A variant of OutOfSpace that gives up at the end itself. *)
OutOfSpaceAtEnd == pos >= ModulesMax

OutOfSpace == pos > ModulesMax

-----------------------------------------------------------------------------
(* System calls *)

(* lookupSymbol asks the modules in turn, and fails at a null one. *)
LookupThrows(name) ==
  \E i \in DOMAIN modules :
    /\ IsNull(modules[i])
    /\ \A j \in 1 .. i - 1 : name \notin modules[j].syms

(* mmap2 without MAP_FIXED: the memory is mapped before errno is looked up.
   Without errno address 0 is written, which is in the stack. *)
mmap(size, prot) ==
  LET chunk == reserve(size)
  IN  /\ Reserves(size)
      /\ IF OutOfSpace \/ ~CanMap(pages, chunk)
           THEN Raises("mmap2") /\ UNCHANGED pages
           ELSE /\ pages' = MapPages(pages, chunk, prot)
                /\ IF LookupThrows("__errno") THEN Raises("mmap2") ELSE Ends("mmap2", chunk.addr)
      /\ UNCHANGED modules

(* MemoryManager.protect, called by mprotect and by mmap2 with MAP_FIXED: it
   does nothing outside the area of mappings. *)
protect(call, chunk, prot, ret) ==
  /\ IF chunk.addr >= MappingMin /\ chunk.addr + chunk.size <= MappingMax
       THEN IF AllMapped(chunk.addr, chunk.size)
              THEN /\ pages' = [p \in DOMAIN pages |->
                        IF p \in PagesOf(chunk.addr, chunk.size) THEN prot ELSE pages[p]]
                   /\ Ends(call, ret)
              ELSE Raises(call) /\ UNCHANGED pages
       ELSE Ends(call, ret) /\ UNCHANGED pages
  /\ UNCHANGED <<pos, modules>>

mmapFixed(addr, size, prot) ==
  LET chunk == align(addr, size)
  IN  \/ chunk.addr = addr /\ protect("fixed", chunk, prot, addr)
      \/ /\ chunk.addr # addr
         /\ Ends("fixed", -1) /\ UNCHANGED <<pages, pos, modules>>

mprotect(addr, size, prot) ==
  LET chunk == align(addr, size)
  IN  \/ chunk.addr = addr /\ protect("mprotect", chunk, prot, 0)
      \/ /\ chunk.addr # addr
         /\ Ends("mprotect", -1) /\ UNCHANGED <<pages, pos, modules>>

(* munmap sets no result: the caller finds its own argument in R0. *)
munmap(addr, size) ==
  /\ IF addr >= MappingMin /\ addr + size <= MappingMax /\ size # 0
       THEN IF AllMapped(addr, size)
              THEN /\ pages' = [p \in DOMAIN pages \ PagesOf(addr, size) |-> pages[p]]
                   /\ Ends("munmap", addr)
              ELSE Raises("munmap") /\ UNCHANGED pages
       ELSE Ends("munmap", addr) /\ UNCHANGED pages
  /\ UNCHANGED <<pos, modules>>

-----------------------------------------------------------------------------
(* Loading a library *)

(* Modules.get_segment_protection: the flags are joined with the bit that is
   asked for, so every answer is yes. *)
get_segment_protection(flags) == {p \in {"r", "w", "x"} : flags \cup {p} # {}}

(* The segments that the loops of writeSegmentsToMemory do not pass over. *)
LoadSegments(image) == {i \in DOMAIN image.segments : image.segments[i].size # 0}

SegmentEnd(image, i) == image.segments[i].va + image.segments[i].size

(* A variant of ModuleSize that takes the end of the first segment. *)
ModuleSizeOfFirst(image) ==
  IF LoadSegments(image) = {} THEN 0
  ELSE SegmentEnd(image, CHOOSE i \in LoadSegments(image) :
                           \A j \in LoadSegments(image) : i <= j)

(* bound_high; bound_low is never below 0. *)
ModuleSize(image) ==
  CHOOSE high \in {SegmentEnd(image, i) : i \in LoadSegments(image)} \cup {0} :
    \A i \in LoadSegments(image) : SegmentEnd(image, i) <= high

(* What the loader maps for segment i of a library at base. *)
SegmentChunk(image, i, base) == align(base + image.segments[i].va, image.segments[i].size)

SegmentPages(image, i, base) ==
  LET chunk == SegmentChunk(image, i, base) IN PagesOf(chunk.addr, chunk.size)

(* Unicorn refuses segment i when a page of it was mapped before the library or
   for an earlier segment. *)
Refused(image, i, base) ==
  \/ ~CanMap(pages, SegmentChunk(image, i, base))
  \/ \E j \in LoadSegments(image) :
       j < i /\ SegmentPages(image, j, base) \cap SegmentPages(image, i, base) # {}

(* The loop of writeSegmentsToMemory: the first mapping that Unicorn refuses
   ends it, and the ones before it stay. *)
writeSegmentsToMemory(image, base) ==
  LET mapped == {i \in LoadSegments(image) :
                   \A j \in LoadSegments(image) : j <= i => ~Refused(image, j, base)}
      Of(p)  == CHOOSE i \in mapped : p \in SegmentPages(image, i, base)
  IN  [ok |-> mapped = LoadSegments(image),
       table |-> [p \in DOMAIN pages \cup UNION {SegmentPages(image, i, base) : i \in mapped} |->
                    IF p \in DOMAIN pages THEN pages[p]
                    ELSE get_segment_protection(image.segments[Of(p)].flags)]]

(* The names a library that is loaded now has a value for. *)
resloveDynSymbols(image) ==
  {name \in DOMAIN image.symbols :
     \/ image.symbols[name] \in {"defined", "weak"}
     \/ \E i \in DOMAIN modules : name \in modules[i].syms}

(* Every symbol that is not defined is looked up. *)
ResolveThrows(image) ==
  \E name \in DOMAIN image.symbols :
    image.symbols[name] # "defined" /\ LookupThrows(name)

(* Emulator.loadLibrary. *)
loadNotShared(image) ==
  /\ ~image.shared
  /\ modules' = Append(modules, [image |-> image, base |-> 0, syms |-> {}])
  /\ Ends("load", 0)
  /\ UNCHANGED <<pages, pos>>

(* Symbols are resolved when all segments are mapped; a load that fails there
   leaves them mapped as well. *)
loadLibrary(image) ==
  LET chunk == reserve(ModuleSize(image))
      done  == writeSegmentsToMemory(image, chunk.addr)
  IN  /\ image.shared
      /\ Reserves(ModuleSize(image))
      /\ \/ OutOfSpace /\ Raises("load") /\ UNCHANGED <<pages, modules>>
         \/ /\ ~OutOfSpace /\ done.ok /\ ~ResolveThrows(image)
            /\ pages' = done.table
            /\ modules' = Append(modules, [image |-> image, base |-> chunk.addr,
                                           syms |-> resloveDynSymbols(image)])
            /\ Ends("load", chunk.addr)
         \/ /\ ~OutOfSpace /\ (~done.ok \/ ResolveThrows(image))
            /\ pages' = done.table
            /\ Raises("load") /\ UNCHANGED modules

-----------------------------------------------------------------------------
MemNext ==
  \/ \E size \in MmapSizes, prot \in MmapProts : mmap(size, prot)
  \/ \E addr \in Addresses, size \in MmapSizes, prot \in MmapProts :
       mmapFixed(addr, size, prot)
  \/ \E addr \in Addresses, size \in MmapSizes, prot \in MmapProts :
       mprotect(addr, size, prot)
  \/ \E addr \in Addresses, size \in MmapSizes : munmap(addr, size)
  \/ \E image \in Images : Len(modules) < MaxModules /\ loadNotShared(image)
  \/ \E image \in Images : Len(modules) < MaxModules /\ loadLibrary(image)

MemSpec == MemInit /\ [][MemNext]_memVars

-----------------------------------------------------------------------------
HeapPages == PagesOf(HeapMin, HeapMax - HeapMin)

(* Every mapped page has permissions, pos is aligned, and every module is a
   library at an address. *)
MemTypeOK ==
  /\ DOMAIN pages \subseteq Nat /\ \A p \in DOMAIN pages : pages[p] \in Prot
  /\ pos \in Nat /\ Aligned(pos)
  /\ \A i \in DOMAIN modules :
       modules[i].image \in Images /\ modules[i].base \in Nat

(* What IncrementalAllocator hands out next is not mapped: mmap and the loader,
   failed loads included, have mapped nothing at or behind pos, so that only
   the heap can be in the way of a reservation. *)
NothingAhead ==
  \A p \in DOMAIN pages \ HeapPages : p >= ModulesMin \div PageSize /\ p * PageSize < pos

(* mmap2 succeeds for as long as there is room in front of the heap, whatever
   was loaded, mapped or failed before, unless a null module keeps errno from
   being found, and then every byte asked for is in a page that was not mapped
   before. *)
MmapServed ==
  [][\A size \in MmapSizes, prot \in MmapProts :
       mmap(size, prot) /\ pos <= ModulesMax /\ pos' <= HeapMin /\ ~LookupThrows("__errno") =>
         /\ ~last'.threw
         /\ LET asked == last'.ret \div PageSize .. (last'.ret + size) \div PageSize
            IN  asked \subseteq DOMAIN pages' /\ asked \cap DOMAIN pages = {}]_memVars

(* The segments of every library in modules are mapped, first byte to last,
   also after loads that failed half way. *)
ModulesMapped ==
  \A i \in DOMAIN modules : ~IsNull(modules[i]) =>
    \A j \in LoadSegments(modules[i].image) :
      LET s == modules[i].image.segments[j]
      IN  PagesOf(modules[i].base + s.va, s.size) \subseteq DOMAIN pages

(* The address space is laid out as MemoryManager and the loader mean it: what
   they hand out next is free, what they have loaded is there. *)
MemInv == MemTypeOK /\ NothingAhead /\ ModulesMapped

(* The comment of loadElfModule, a library is loaded by its segments: one for
   which there is room is loaded, whatever was loaded, mapped or failed before,
   unless the pages that align gives to two of its segments meet, or a null module
   is listed in front of all that have a name it refers to. *)
LoadsBySegments ==
  [][\A image \in Images :
       /\ loadLibrary(image) /\ pos <= ModulesMax /\ pos' <= HeapMin
       /\ ~ResolveThrows(image)
       /\ \A i, j \in LoadSegments(image) :
            i # j => SegmentPages(image, i, 0) \cap SegmentPages(image, j, 0) = {}
       => ~last'.threw]_memVars
=============================================================================
