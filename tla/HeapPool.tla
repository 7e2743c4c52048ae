------------------------------ MODULE HeapPool ------------------------------
(***************************************************************************)
(* What the emulated heap promises to its callers, with no block list: a   *)
(* pool of memory regions in use.  A call of allocate takes a region that  *)
(* touches no region in use, a call of free gives back at most the region  *)
(* that starts at the given address, and nothing else ever changes.        *)
(* Regions of size 0 hold no memory and are not part of the promise.       *)
(***************************************************************************)
EXTENDS Integers

VARIABLES
  inUse,  \* the regions <<address, size>> handed out and not given back
  last    \* the last call: its name, argument, result and whether it threw

poolVars == <<inUse, last>>

(* The bytes of two regions are disjoint. *)
Apart(r, s) == r[1] + r[2] <= s[1] \/ s[1] + s[2] <= r[1]

PoolInit ==
  /\ inUse = {}
  /\ last = [call |-> "none", arg |-> 0, ret |-> 0, error |-> FALSE]

(* allocate with a positive size: the result starts a fresh region. *)
PoolAllocate ==
  /\ last'.call = "allocate" /\ last'.arg > 0 /\ ~last'.error
  /\ \A r \in inUse : Apart(r, <<last'.ret, last'.arg>>)
  /\ inUse' = inUse \cup {<<last'.ret, last'.arg>>}

(* allocate with size 0 or a negative size takes no memory. *)
PoolAllocateNothing ==
  /\ last'.call = "allocate" /\ last'.arg <= 0
  /\ UNCHANGED inUse

(* free releases the region at its argument, or nothing. *)
PoolFree ==
  /\ last'.call = "free"
  /\ \/ UNCHANGED inUse
     \/ /\ ~last'.error
        /\ \E r \in inUse : r[1] = last'.arg /\ inUse' = inUse \ {r}

PoolNext == PoolAllocate \/ PoolAllocateNothing \/ PoolFree

PoolSpec == PoolInit /\ [][PoolNext]_poolVars
=============================================================================
