# Tank: a TLA+ model of the emulator

Tank runs the native code of an Android library (an ARM32 `.so`) inside a Java
process. Unicorn executes the instructions; Tank supplies what the library
expects around it: memory, an ELF loader, Linux system calls, a file system, and
a Java virtual machine behind the JNI function table. This directory holds
TLA+ modules for those parts, TLC configurations that check them on small
instances, and theorems with proofs that TLAPS checks.

Paths below are relative to `src/emu/src/main/java/com/android/emu/` unless they
start with `src/`.

## The system

| part | code | state | operations | talks to |
|---|---|---|---|---|
| Emulator | `Emulator.java` | the Unicorn instance and all parts below | `loadLibrary`, `callModuleInit`, `callNative`, `callSymbol`, `addSymbolHook`, `stop` | everything |
| Guest memory | `src/uni/src/main/cpp/unicorn/uc.c`, `qemu/softmmu/memory.c` | `mapped_blocks`, a sorted array of regions | `uc_mem_map`, `uc_mem_unmap`, `uc_mem_protect`, `uc_mem_read`, `uc_mem_write` | memory manager, loader, every handler that writes results |
| Memory manager | `memory/MemoryManager.java`, `IncrementalAllocator.java`, `utils/MemUtils.java` | `pos` of the module area, the fixed mappings | `reserve_module`, `mmap`, `unmap`, `protect`, `allocate`, `free` | guest memory, heap |
| Heap | `memory/HeapAllocator.java` | linked list of blocks, `pos` | `allocate`, `free` | JNI string and array functions |
| ELF loader | `module/Modules.java`, `module/Module.java`, `src/support/src/main/java/net/fornwall/jelf/` (file parsing) | the list of modules, hooked symbols | `loadModule` (segments, init array, symbols, relocation), `lookupSymbol` | memory manager, guest memory |
| Symbol hooks | `module/SymHooker.java`, `cenv/Hooker.java` | hook tables, write position in hook memory | `addHook`, `hook` (`dlopen`, `__system_property_get`) | loader, Unicorn hooks |
| System calls | `cenv/Handler.java`, `cenv/syscall/`, `cenv/cpu/`, `cenv/fork/` | handler table, `fork`, `sockets`, `socket_idx`, clock | about 25 calls | memory manager, registers, loader |
| File system | `vfs/VirtualFileSystem.java`, `vfs/VirtualFile.java`, `src/emu/src/main/java/com/emu/vm/RootDir.java` | descriptor table, host files under a root | `open`, `openat`, `read`, `writev`, `close`, `access`, `stat64`, ... | system calls, guest memory |
| JNI environment | `jenv/JniEnv.java`, `jenv/JReferencTable.java` | `locals`, `globals` | about 60 JNI functions | class mirror, heap, guest memory |
| JNI dispatch | `jenv/JHandler.java`, `jenv/Jvm.java` | function tables in guest memory, hook ids | `writeFunctionTable`, `hook` | Unicorn hooks, registers |
| Class mirror | `jenv/mirror/`, `jenv/JClassLoader.java` | classes by index and by name, native methods | `addClass`, `findClass`, `findMethod`, `registerNative` | JNI environment |
| Calling convention | `helper/NativeCallHelper.java`, `utils/DigitUtils.java` | registers and stack | `writeArgs`, `readArgs`, `readVaArgs`, `readSyscallArgs` | `callNative`, hooks |
| Unicorn binding | `src/uni/src/main/java/unicorn/Unicorn.java`, `src/uni/src/main/cpp/` | hook lists, one native hook per kind | `hook_add`, `hook_del`, `emu_start`, `emu_stop` | all hooks |
| Unicorn hooks | `src/uni/src/main/cpp/unicorn/uc.c`, `list.c`, `include/uc_priv.h` | a list of hooks per event, hooks to delete, the count hook | `uc_hook_add`, `uc_hook_del`, calls from translated code | translation cache, binding |
| Emulation control | `uc.c`, `qemu/softmmu/cpus.c`, `qemu/accel/tcg/cpu-exec.c` | stop, quit and exit requests, nested levels, a timer thread | `uc_emu_start`, `uc_emu_stop`, writing PC | hooks, translation cache |
| Translation cache | `qemu/accel/tcg/translate-all.c`, `cpu-exec.c` | blocks, hash table, page lists, chains | `tb_find`, invalidation, flush | guest memory, hooks |
| Instruction translation | `qemu/target/arm/`, `qemu/tcg/` | registers | executing ARM instructions | - |

Native code and the Java side run on one thread: `callNative` runs Unicorn until
the code returns to a stop address, and in between Unicorn calls hooks (system
calls, JNI functions, symbol hooks) on the same stack. The one other thread is
Unicorn's timer, which shares flags with the emulation without a lock. What makes
the code hard:

- **Long sequences of calls.** The heap, the reference tables, the descriptor
  table and the region array are all structures whose next answer depends on the
  whole history of splits, merges, reuse and deletions.
- **Calls with numbers native code makes up**: stale or foreign references,
  addresses that were never allocated, descriptors that are closed.
- **Partial failure.** An exception in a hook stops the emulation in the middle
  of a handler; what the handler did before the exception stays, and the host
  may call native code again.
- **Limits.** The module area, the heap and the local reference table have ends
  that the code checks late or not at all.
- **Nesting.** A hook may load a library, which calls native code, which may
  call hooks again, on the same registers and the same stack.
- **Caches.** Translated code remembers instructions, hooks and exit addresses
  that change behind it.
- **A thread.** The timeout may stop an emulation at any of its steps.

## The modules

| module | models | state | actions |
|---|---|---|---|
| `HeapAllocator` | `memory/HeapAllocator.java` | `blocks` (the linked list, in order), `pos`, `last` (the call that ended last) | `allocate`, `free` with their searches, `splitBlock`, `mergeBlock`, `createBlock` and error paths |
| `HeapPool` | what a heap promises | the set of regions in use | take a region nobody holds, give back one region |
| `JniRefs` | the reference tables of `jenv/JniEnv.java` | `locals`, `globals`, `stopped`; `held` and `doubled` record what native code was given | one per JNI function that makes or deletes a reference, and `CallNative` |
| `JniBuffers` | string and array buffers of `jenv/JniEnv.java`, composed with `HeapAllocator` | the heap's, and `chars`, the buffers lent | `GetStringChars`, `ReleaseStringChars`, `GetBooleanArrayElements`, and the host's `allocate` and `free` |
| `ClassMirror` | `jenv/JClassLoader.java`, `jenv/mirror/`, the JNI functions on members, composed with `JniRefs` | the tables', and `mirrors`, `classes2`, `jclass`, `natives`; `ids` and `again` record the IDs given out and the classes added twice | `loadClass`, `newInstance` for the host; `FindClass` by name, `GetMemberID`, calls, field access, `NewObjectV`, arrays, `RegisterNatives` for native code |
| `UcMemory` | `uc.c`'s guest memory | `mapped_blocks`, `room` (the size of the array), `op` (the call in progress) | `uc_mem_map`, and the loops of `uc_mem_unmap`, `uc_mem_protect` and `uc_mem_write` one region at a time |
| `PageTable` | what guest memory promises | page to permissions and content | map, unmap, protect, write |
| `GuestMemory` | `MemoryManager`, `IncrementalAllocator`, `MemUtils.align`, `mmap2`, `mprotect`, `munmap`, the loader's segments | `pages` (a page table), `pos`, `modules`, `last` | `mmap`, `mmapFixed`, `mprotect`, `munmap`, `loadLibrary`, `loadNotShared` |
| `GuestFiles` | `vfs/` | `files`, `host`, `running`, `ret` | `openat`, `close`, `read`, `writev`, `NextCall` |
| `GuestProcess` | `vfork`, `exit_group`, `socket`, `bind`, composed with `GuestFiles` | the files', and `sockets`, `fork`, `call`, `calls`; `forked` and `resumed` count how often `vfork` has set `fork` and `exit_group` has returned to a parent | `vfork`, `exitgroup`, `socket`, `bind`, `Stop`, `callNative` |
| `UcHooks` | hooks of `uc.c` and how translated code calls them | `hook`, `hooks_count`, `hooks_to_del`, `hk` (the hook objects), the counter, `tb` (the cached block), `frames` (nested emulations) | `HookAdd`, `HookDel`, `EmuStart`, `StartRefused`, `EmuStop`, `CallbackReturns` for the program; `CountCallback`, `EnterBlock`, `CallHooks`, `Execute`, `EmuReturns` for the vCPU |
| `UcEmu` | `uc_emu_start`, `uc_emu_stop`, the vCPU loop and the timer thread | the shared flags, `frames`, `timer`; the fields `failed`, `asked` and `late` of a frame record why its level may end | one per access to a flag that the other thread also uses |
| `TbCache` | `translate-all.c`, `cpu-exec.c` | `mem` (guest code), `tbs`, `htable`, `jmp_cache`, `pages`, `pc`, `until`, `cur`, `last` | `tb_find`, `FlushFull`, `LeaveBlock`, `GuestStore`, `HostEdit`, `HostFlush`, `EmuStart` and the ends of an emulation |
| `Linker` | symbols and relocation of `module/Modules.java` | `modules` | operators: `lookupSymbol`, `getSymValue`, `relocateDynSymbols`, `loadElfModule` |
| `GuestCalls` | `Emulator.java`, `cenv/Hooker.java`, `module/SymHooker.java`, `jenv/JHandler.java`, the code hooks of the binding, composed with `Linker` | `codeList`, `hookers`, `levels` (nested `emu_start`s), registers and stack; `disturbed` records what a nested call has spoiled | `callSymbol`, `loadLibrary`, `addSymbolHook`, the dispatch to each handler, the three ends of a callback, the steps of native code |
| `HeapProofs`, `RefsProofs`, `GuestProofs`, `UnicornProofs`, `HooksProofs`, `TbProofs`, `CallsProofs` | - | - | theorems about `HeapAllocator` and `JniBuffers`; `JniRefs` and `ClassMirror`; `GuestFiles`, `GuestProcess` and `GuestMemory`; `UcMemory` and `UcEmu`; `UcHooks`; `TbCache`; `Linker` and `GuestCalls` |
| `CallsLemmas` | - | - | the inductive invariant of `GuestCalls` and the steps of native code that keep it |

`MC...` modules give the constants of a module their values for TLC. The
operators introduced as "a variant of ..." or "mutant of ..." are wrong versions of the definition
they name, kept to confirm that the properties notice such a mistake; no
specification uses them.

Conventions shared by the modules:

- A handler is one action, from its arguments to its return. Three things are
  split: the loops of `uc.c`'s guest memory, because their intermediate states are
  what `LoopFindsRegion` and `LoopShrinks` are about; `uc_emu_start` and
  `uc_emu_stop` in `UcEmu`, where the timer thread runs in between; and handlers
  that call back into the host's code (`UcHooks`, `GuestCalls`).
- A handler that throws keeps what it has done and stops the emulation
  (`SyscallHandler.handle` and `JHandler.hook` call `emu_stop`); the host may
  start the next native call, with all tables as they were left.
- Arguments native code makes up come from sets that include stale, foreign and
  invalid values.

## What the runs check

An invariant `...Inv` is the module's type invariant together with the invariants
in parentheses. `TypeOK` and `ReturnedInUse` of the heap are not among the
properties of a run, since they are proved.

| run | instance | properties | what it shows |
|---|---|---|---|
| `heap` | module `JniBuffers`: 4 bytes, sizes -1..3, lengths 0..2, up to 5 blocks | `Tiled` `Coalesced` `BuffersInv` (`CharsOwned`) `ImplementsPool` `FreeReleases` | under calls of native code and of the host the list has no gap and no overlap, free neighbours are merged, memory handed out belongs to nobody else, `free` releases its block when only one starts there; a string buffer stays its holder's until it is released, whatever else is released, also twice |
| `jni_refs` | local indexes 1..2, global 4..5, four objects | `RefsInv` (`RefsFaithful`) `DeletesThatReference` | a reference resolves to its object, and a deletion removes the reference it names, for as long as no object is twice in a table |
| `class_mirror` | two classes, one in a package, three mirrors, one local and one global reference, one ID | `MirrorInv` (`OneMirror`) | a class has one mirror in use: IDs, objects and native methods stay with what `FindClass` returns |
| `uc_memory` | 4 pages, array grows by 2 | `UcInv` (`Sorted`, `RoomEnough`, `LoopFindsRegion`) `ImplementsPageTable` `LoopShrinks` | the sorted array implements a page table, the loops find a region at each step and get on |
| `memory` | 4 pages of modules, 1 of heap, 2 of mappings | `MemInv` (`NothingAhead`, `ModulesMapped`) `MmapServed` `LoadsBySegments` | nothing is mapped ahead of `pos`, so `mmap2` succeeds while there is room, also after loads that failed half way, in their segments or in their symbols; a library for which there is room is loaded |
| `files` | two descriptors beside the standard ones, three paths | `FilesInv` (`StreamsBacked`) `DescriptorsKept` `StreamsAdvance` | a descriptor keeps its file and a stream its position, also when the file is recreated under it |
| `process` | three native calls, two forks | `ProcInv` (`ForkBalanced`) | a fork is held from its `vfork` until one return to the parent has completed, also when saving or restoring the registers throws |
| `uc_hooks` | three hook addresses, two levels, a block of two instructions, counts 0 and 1 | `HooksInv` (`NoDanglingHook`) `CountsAgree` `CachedHooksLive` `CountRunsFirst` `DeletedNotCalled` `SweptAtTheEnd` | callbacks may add, delete, stop and nest while lists are walked: no hook dangles, none is called after its deletion by code entered later, all deleted ones are freed in the end |
| `uc_emu` | two levels, callbacks that stop, write PC and nest | `EmuInv` (`TimerInside`, `EndsForAReason`) `StopIsHeard` `ErrorOfOwnLevel` `StopEndsLevel` `TimeoutEndsLoop` `JoinReturns` | stops and timeouts are heard and end the level they are meant for; an emulation ends for a reason of its own, not because another one was stopped; nobody waits for ever |
| `tb_cache` | two pages of two halfwords, three blocks, two exit addresses | `TbInv` (`ListsAgree`, `ChainsAgree`) `CodeCurrent` `HaltsOnlyAtUntil` `EntersCurrent` | lists, hash table and chains agree; only current code is found and entered |
| `calls` | four files, three modules, two levels, two hooks | `CallsInv` (`AnsweredOnce`) `BindingsAgree` `SlotsJustified` (`NullOnlyByWeak`, `UnwrittenOnlyIfMissing`) `ReturnsToCaller` `ConstructorsCalled` `JniAnswered` | names mean the same everywhere; calls return to their level, once, with their own result; constructors run once each |

One run shows a disagreement between the code and its comments, as a shortest
counterexample: in `hooked_symbol` native code calls a symbol `SymHooker` hooks
(`dlopen`, `__system_property_get`). `writeCFunction` returns the address of the
Thumb stub without the Thumb bit (`module/SymHooker.java:141`), the slot is bound
to it as it is, and the stub runs as ARM code. `JHandler` adds 1 for the same
stub (`jenv/JHandler.java:170`).

Some properties hold with one exception, which is stated in the property because
the code really behaves that way:

- `FreeReleases`: `free` of a block behind an exact fit finds the empty block that
  `splitBlock` left at the same address, and the block itself stays in use
  (`memory/HeapAllocator.java:71`, `:163`).
- `DeletesThatReference`: with two references to an object in a table, deleting
  one can remove the other (`jenv/JniEnv.java:1087`).
- `MirrorInv`: `addClass` looks for the name with dots among names with slashes, so a
  class in a package that the host adds a second time gets a second mirror, for
  which the IDs of the first are unknown (`jenv/JClassLoader.java:20`).
- `LoadsBySegments`: `align` adds a page to an end that is aligned, so a library
  whose segments meet at a page boundary fails to load and stays half mapped
  (`utils/MemUtils.java:17`).
- `LoadsBySegments`, `MmapServed`: a file that is not a shared library puts null into
  the list of modules. A lookup that gets that far throws: at an undefined symbol
  of a library whose segments are mapped by then (`module/Modules.java:107`), and in
  `mmap2` at `__errno` (`cenv/Handler.java:143`). What is mapped stays mapped.
- `EmuInv`: only the outermost level sets `emulation_done`, so the timer of a nested
  call that has a timeout fires at the latest while it is joined, and its stop
  reaches the level that made the call (`uc.c:886`, `:894`).
- `StopEndsLevel`: a callback that stops the emulation and writes PC as well is not
  stopped (`cpus.c:99`), nor is one that then starts a nested emulation, which
  clears the requests.
- `ReturnsToCaller`: an observing callback that calls native code loses LR, and a
  nested call that is stopped or has stack arguments leaves the stack pointer
  where it is (`cenv/Hooker.java:46`, `Emulator.java:163`).
- `EntersCurrent`: a block that its own store invalidates keeps its patched jump
  until it is left.
- `DeletedNotCalled`: a running block that calls a hook directly goes on calling
  it after its deletion.

Two definitions are kept that state a line of `unicorn.h` and do not hold. Adding
one to the configuration of its module gives the counterexample:

- `UcEmu!TimeoutEnds` (`unicorn.h:821`, "duration to emulate the code"): a timer
  that fires between `uc.c:877` and `cpus.c:209` sets `exit_request`, which
  `resume_all_vcpus` clears; the guest runs on.
- `TbCache!StopsAtUntil` (`unicorn.h:820`, "address where emulation stops"): a block
  an earlier emulation with another `until` has left in the cache runs past it.

`HaltsOnlyAtUntil` is checked for exit addresses with mapped memory in front of
them: `uc_exit_invalidate_iter` asks for `exit - 1`, which at the first address of a
region is not mapped, so that the block there stays in the cache.

Others are kept in the models as the code has them but have no run: the heap and
the module area are granted behind their ends (`memory/HeapAllocator.java:181`,
`memory/IncrementalAllocator.java:30`); `NewGlobalRef` throws for a global
reference (`jenv/JniEnv.java:1106`); local indexes run into the global ones
(`jenv/JReferencTable.java:40`); `GetBooleanArrayElements` returns the address
behind the elements (`jenv/JniEnv.java:474`); `GetObjectClass` returns the index of
the object, which names nothing in the tables (`jenv/JniEnv.java:944`); the parent keeps the child's
descriptors (`cenv/fork/ForkInfo.java:22`). Not in a model: `vfork` and `getpid`
disagree about process IDs (`cenv/Handler.java:357` and `:106`), and `wait4`
returns its argument (`cenv/Handler.java:438`). `get_segment_protection` uses `|`
for `&`, so every segment is readable, writable and executable
(`module/Modules.java:352`; `GuestMemory` models it as it is). `fork` outlives a
native call whose child did not end by `exit_group`, which in a later call returns
into the finished one (`cenv/Handler.java:326`). Both loops over the registers end
with `UC_ARM_REG_CP_REG`, for which Unicorn expects a structure and gets the
binding's variable: `vfork` may throw with `fork` set, `exit_group` with the
parent's registers written and `fork` still set (`cenv/fork/ForkInfo.java:24`, `:30`). A weak reference bound to 0 hides
every later definition (`module/Modules.java:228`), an `R_ARM_ABS32` against an
undefined symbol gives the module's own base (`:147`). Adding the count hook drops
no translated block, so a block cached without hooks is not counted (`uc.c:846`).

### Bounds

The bounds cap what the code lets grow: heap position and blocks (`MaxPos`,
`MaxBlocks`), reservations (`MaxPos`), modules, descriptors (`MaxFd`), sockets,
native calls and forks, stack words
(`MaxStack`), hooks. Each is large enough for the case it is about: the heap
instance has exact fits, splits with a rest, merges on both sides and growth
behind the end; the reference tables overflow into each other; the region array
grows while it is in use and a range spans three regions; reservations reach the
end of the module area and run into the heap; two descriptors share a file that
is recreated. `UC_MAX_NESTED_LEVEL` is 64 in the code and 2 here: a level sees the
one below it and the limit, and both are reached. Three hook addresses let one be
freed, reused and deleted while another is walked. Two pages let a block cross a
boundary, be on both pages' lists and be invalidated from either; three blocks
fill the buffer. In `class_mirror` three
mirrors let a class be added twice beside another one, and one reference of each
kind is enough because a local one can be deleted once a global one is made;
`OneMirror` speaks of one ID at a time, so native code keeps one. In `calls` a null module, a weak reference before its definition,
two constructors, a refused level and a hook in each level all occur. In
`process` descriptors are opened and closed but not read, since
`files` covers that.

### Fairness and deadlock

`UcEmu` assumes weak fairness of the emulation thread and of the timer thread:
both are scheduled by the operating system, neither holds a lock, time passes and
a callback returns. Nothing makes the guest halt, fault or call back: it may loop
for ever, which is what timeouts are for. The other specifications assume no
fairness: native code may call anything or nothing. That the loops of `uc.c` end
is the safety property `LoopShrinks` (each step leaves less to do) together with
`LoopFindsRegion`. Deadlock checking is off where a bound ends the instance.

### Assumptions on callers

- `UcHooks`: a handle is not used after `uc_hook_del` (as `unicorn.h` asks), every
  hook is unbounded (as the Java binding's are), `malloc` succeeds, and a callback
  does not start an emulation without a count while the count hook exists, which
  would drop the block it runs in.
- `UcEmu`: a timeout is not asked for while the timer of an enclosing
  `uc_emu_start` runs; `uc_struct` has one timer handle.
- `TbCache`: who edits code from outside calls `uc_ctl_remove_cache` on it, as
  `docs/FAQ.md` asks; emulations are not nested.
- `GuestCalls`: callbacks add no hooks, which would change the list under its
  iterator (`src/uni/src/main/java/unicorn/Unicorn.java:141`).

## What is proved

Every safety invariant, action property and refinement that a passing run checks
is proved for all values of the constants. Only the liveness properties are not.

`HeapProofs` proves for all heaps, sizes and bounds that satisfy
`HeapAssumption`, of `HeapAllocator` on its own:

- `HeapTypes`, `HeapTiled`, `HeapCoalesced`, `HeapReturned`: the types, the
  invariants of run `heap`, and that `allocate` returns a block in use of the
  requested size;
- `HeapImplementsPool`: the block list refines `HeapPool`;
- `HeapFreeReleases`: `free` releases the block at its address when one block only
  starts there.

The inductive invariant is `IInv == TypeOK /\ Tiled /\ Coalesced`. `Tiled` alone is
inductive with the types; `Coalesced` needs it, and the argument is the heart of
the proof: `free` marks one block, which can make a pair of free neighbours on
either side of it and nowhere else, and the two calls of `mergeBlock` remove
exactly these (`MergeCoalesces`). `allocate` splits a block that had no free
neighbour, so the free rest has none either. The lemmas `AppendLaid`, `SplitLaid`,
`SetFreeLaid` and `MergeLaid` say what each list operation does to the tiling;
`UsedAppend`, `UsedSplit`, `UsedSetFree` and `UsedMerge` what it does to the set of
regions in use, from which each call is a step of the pool (`PoolStep`).

For `JniBuffers`, whose steps are calls of `allocate` and `free`, `BuffersTiled`,
`BuffersFreeReleases` and `BuffersImplementPool` carry this over, and `BuffersOwned` proves
`BuffersInv`: a new buffer is apart from all memory in use, which the other buffers are
part of, and only `free` with the address of a buffer takes it out of use.

`RefsProofs`, for reference tables of any size and any objects (`RefsSafe`,
`RefsDeletesThatReference`): the two properties of run `jni_refs`. `RefsFaithful`
speaks of the references that native code holds; it is not inductive, because
`remove` searches for the object and not for the index. `EntriesHeld` adds that no
object is twice in a table as long as `doubled` is false, which makes the entry that
`remove` finds the one that is meant (`RemoveOne`).

`RefsProofs` also proves, for any classes, members, mirrors and tables: `MirrorSafe`, the
property of run `class_mirror`, and `MirrorImplementsRefs`, by which what `RefsProofs`
shows holds with classes and members as well. `OneMirror` becomes inductive with two
facts of `MirrorTypeOK`: a mirror in use was made from a class, and a name finds a
mirror of its own class. A step of native code only brings into use what is in use
or what a name finds (`NativeStep`); a step of the host makes a mirror that is not
in use (`AddClassStep`).

`GuestProofs`, for any paths, any number of descriptors from the standard ones
up (`MaxFd >= 2`), calls, forks and sockets (`MaxCalls >= 1`): `FilesSafe`,
`FilesDescriptorsKept` and `FilesStreamsAdvance` for `GuestFiles`, `ProcessSafe` for
the composition. That `nextFd` gives out a number nobody has is a pigeonhole
argument (`NextFdFree`). One lemma per system call says that the table stays
well-formed (`TableOK`) and that a descriptor that stays open keeps its name and its
stream its direction (`Continues`);
from them follow the invariants and both action properties. `vfork` and `exit_group`
compose with every file call because these leave the fork alone; `fork` is set and
cleared together with the counters, and a step that throws in between changes
neither.

`GuestProofs` also proves the properties of run `memory` for any page size, any
areas and any libraries (`MemSafe`, `MemMmapServed`, `MemLoadsBySegments`). `MemIInv`
adds to `MemInv` that `pos` is not in front of the module area and that every module
starts in it. Lookups that throw change nothing but the outcome of a call. Lemmas about rounding up and down to pages say what `align` makes of a
range; with `NothingAhead`, the pages of a reservation are free, so that a load for which there
is room fails only at a segment that meets another one or at a lookup.

`UnicornProofs`, for any number of pages, contents and `MEM_BLOCK_INCR`: `UcSafe`,
`UcLoopShrinks` and `UcImplementsPageTable`, the properties of run `uc_memory`.
`UcIInv` says that the array is sorted, that `room` reaches up to the next multiple of
`MEM_BLOCK_INCR`, and that all pages of the call in progress are mapped
(`LoopFindsRegion`). The array is turned into the set of its regions early on: what
splitting, unmapping and protecting do to it is said about the set, and the page
table is a function of the set alone.

For `UcEmu`, for any number of nested levels and every interleaving with the timer
thread: `EmuTimersOwned`, `EmuStopIsHeard`, `EmuErrorOfOwnLevel`. None of the three
is inductive. `EmuIInv` adds where the levels below the innermost one are
(`OuterWait`: all are in a callback), that `emulation_done` is set only when the
outermost level has ended or is about to (`DoneOutside`), that a level that
failed is on its way out (`FailedLeaves`), that `invalid_error` is that of the
innermost level (`ErrorIsTops`), that a timer's level is in progress and
has asked for one (`TimerOwned`), and who has asked a level to leave `cpu_exec`
(`Accounted`): where the loop of `tcg_cpu_exec` begins and from its end on only a
timer can have set `exit_request`, in between also a write of PC or the level
itself. The stop request does not account for anything by itself, since a nested
emulation that was stopped leaves it set.

`HooksProofs`, for any number of hooks, levels, instructions of a block and counts, the
six properties of run `uc_hooks`: `HooksSafe`, `HooksCounted`, `HooksCached`,
`HooksCountFirst`, `HooksDeleted`, `HooksSwept`. `HooksIInv` has five parts. `ListsOK`: a
deleted hook is queued once for each list it is in, and its reference count is the
number of its places in lists and queue. `LevelsOK`: what the nested
emulations walk or call is in a list, which holds because lists shrink only when the
outermost level leaves. `CacheOK`: a hook that the cached block calls directly has the
block among its regions, so that its deletion takes the block out of the cache.
`CountFirst`: whatever precedes the count hook is deleted. `FlagsOK` has the types of
the rest.

`TbProofs`, for pages of any size and number, any buffer, bitmap threshold, exits and
patches: `TbSafe`, `TbCurrent`, `TbEnters`, and `TbHalts`, which assumes that no exit is
the first mapped address (see above). `TbIInv` says of the cache (`CacheOK`) how blocks
lie on pages (`Shape`: at most one halfword on a second page, which is what makes the
arithmetic of `TbEnd` right), where all jumps lead, also those of invalid blocks, that
a bitmap covers all code of its page, and what `ListsAgree` and `ChainsAgree` state; of
the loop (`RunOK`) that the running block starts at the program counter and that the jump
to be patched goes there. The argument has three parts. One
invalidation keeps the structures in agreement, block by block, jump by jump
and page by page (`CutChains`, `PagesWithout`, `InvalidateStep`). The loops over
a list and over the pages of a range remove every block they hit (`PageRangeIs`,
`PhysRangeIs`), by induction on their iterations. A halfword of a valid block that
is written is hit, by a range or by way of the bitmap (`UcInvalidateIs`, `FastIs`),
so that no block is left whose code has changed. `TbEnters` follows from what the steps
leave of the running block, `TbHalts` from what the end of an emulation removes.

`CallsProofs`, for any libraries, symbol tables, hooked symbols and orders of
loading, loads nested in callbacks included: `LinkBindingsAgree` and
`LinkSlotsJustified`. `BindingsAgree` is not inductive: it does not say how a module
that passes a name on came by it. `Resolved` says of every name of every module where
its value comes from (hook, own definition, the first module that had the name, or
nobody), in terms of the modules before it only, so that a module added at the end
cannot disturb it (`ModuleKeeps`); `LoadStep` shows it for the module added.
`ListGrows` goes through the actions of `GuestCalls`: all of them leave the list
alone but `loadLibrary`, which adds to it.

`CallsProofs` and `CallsLemmas` prove the other properties of run `calls`, for any depth of
nesting and any hooks: `CallsSafe`, `CallsReturn`, `CallsConstructors`, `CallsJniAnswered`
(which assumes that the numbers `SymHooker` and `JHandler` share are those of functions
that only throw). `CallsIInv` says of each nested level which hooked function it is in
(`LevelsOK`), which handler's turn it is (`TurnOK`), that who goes back into the function
of a level finds a word of the level's own on the stack (`StackOK`), and, as long as
nothing is disturbed, where the way back is kept (`WaysOK`): in LR until the function has
pushed it, on the top of the level's part of the stack from then on.

The assumptions of all proofs are the named `ASSUME`s of the modules, which TLC
evaluates in the runs, and the two named above. Model-checked only, on the
instance above, is liveness (`StopEndsLevel`, `TimeoutEndsLoop`, `JoinReturns`), which is out of the
prover's reach.

## What is not modelled

- **The meaning of instructions** (`qemu/target/`, `qemu/tcg/`, `qemu/fpu/`, the
  vector helpers). By far most lines of the repository: 464,000 lines of C, of
  which the emulator uses the ARM target only. They are functions from instructions to host code, without
  a protocol to explore; the reference would be the architecture manual. What the
  control flow needs of them is in `UcHooks`, `UcEmu` and `TbCache`. For this reason
  the models cover a small share of the repository's lines.
- **ELF parsing** (a stateless library), the user interface, the samples.
- **Calls that keep no state** (`getpid`, `wait4`, `futex`, `getcpu`, `stat64`, the
  clocks, ...).
- In the Unicorn modules: IT blocks, MMIO, bounded hooks, memory and interrupt
  hooks (they share the lists), nested emulations in `TbCache`. `TbCache` keeps a bitmap
and the write protection of a page longer than the code does, which drops the
bitmap when an equal block is already there and both when the last block of a page
goes (`translate-all.c:1526`, `:1805`): a bitmap that covers the code of its page
and a store that looks at a page without blocks invalidate the same blocks.
`UcMemory` leaves out that `uc_mem_protect` makes the running block leave when its own
page becomes non-executable (`uc.c:1457`), with the requests `UcEmu` has as `WritePc`.
- **JNI functions that keep no state of their own**: the contents of arrays,
  `IsInstanceOf`, `IsSameObject`, `GetObjectClass`.
- **Not yet**: the calling convention.

Permissions outside read, write and execute, which Unicorn refuses, are not among
the inputs.

## Plan

1. The calling convention and the clocks: argument passing, byte conversions and
   times as pure functions against reference definitions, for TLC only.
2. Nested emulations in `TbCache`, with the levels of `UcEmu`.
