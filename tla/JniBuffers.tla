----------------------------- MODULE JniBuffers -----------------------------
(***************************************************************************)
(* The buffers JniEnv lends to native code (jenv/JniEnv.java): the copies  *)
(* of a string's characters and of a boolean array's elements, in memory   *)
(* that MemoryManager.allocate takes from the heap.  The module composes   *)
(* the JNI functions with HeapAllocator, whose operations are part of      *)
(* their actions.                                                          *)
(*                                                                         *)
(* Of a string or an array only the length matters.  A function that       *)
(* writes behind the mapped heap throws before it returns the address, so  *)
(* that the block stays in use and native code never learns of it.         *)
(***************************************************************************)
EXTENDS HeapAllocator

CONSTANT Lengths      \* the lengths of strings and arrays

ASSUME BuffersAssumption == Lengths \subseteq Nat

VARIABLE chars   \* <<address, size>> of string buffers lent and not yet released

bufferVars == <<blocks, pos, last, chars>>

BuffersInit == Init /\ chars = {}

-----------------------------------------------------------------------------

(* uc.mem_write of n bytes succeeds; writing nothing always does. *)
Writable(address, n) == n = 0 \/ address + n <= End

(* The buffer has room for a terminator, which is not written. *)
GetStringChars(len) ==
  /\ allocate(len + 1)
  /\ chars' = IF Writable(last'.ret, len)
                THEN chars \cup {<<last'.ret, len + 1>>} ELSE chars

(* memoryManager.free for any address but null; one the heap does not know
   makes free throw. *)
ReleaseStringChars(addr) ==
  \/ addr = 0 /\ UNCHANGED bufferVars
  \/ /\ addr # 0
     /\ free(addr)
     /\ chars' = {b \in chars : b[1] # addr}

(* The address returned is the one behind the elements, so native code holds
   nothing it could release; ReleaseBooleanArrayElements does nothing. *)
GetBooleanArrayElements(len) == allocate(len) /\ UNCHANGED chars

(* Java code of the host has the memory manager too (getMemoryManager); it
   frees what is not a string buffer lent to native code. *)
HostAllocate(size) == allocate(size) /\ UNCHANGED chars

HostFree(addr) == (\A b \in chars : b[1] # addr) /\ free(addr) /\ UNCHANGED chars

BuffersNext ==
  \/ \E size \in Sizes : HostAllocate(size)
  \/ \E addr \in 0 .. MaxPos : HostFree(addr)
  \/ \E len \in Lengths : GetStringChars(len) \/ GetBooleanArrayElements(len)
  \/ \E addr \in 0 .. MaxPos : ReleaseStringChars(addr)

BuffersSpec == BuffersInit /\ [][BuffersNext]_bufferVars

-----------------------------------------------------------------------------
(* Properties *)

(* The heap's record of the last call and the set of lent buffers have
   their types. *)
BuffersTypeOK ==
  /\ TypeOK
  /\ chars \subseteq Nat \X Nat

(* A string buffer that native code got from GetStringChars and has not
   released is memory in use, all of it, and shares no byte with another such
   buffer: no ReleaseStringChars of another address, of an address twice, or of
   one that array elements or nothing at all live at takes it away. *)
CharsOwned ==
  /\ chars \subseteq InUse
  /\ \A b, c \in chars : b # c => b[1] + b[2] <= c[1] \/ c[1] + c[2] <= b[1]

(* Buffers and heap have their types, and the buffers lent belong to native code
   (GetStringChars, ReleaseStringChars over allocate and free). *)
BuffersInv == BuffersTypeOK /\ CharsOwned

=============================================================================
