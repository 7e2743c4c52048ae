---------------------------- MODULE GuestProcess ----------------------------
(***************************************************************************)
(* The process that native code believes it runs in: the descriptors of    *)
(* GuestFiles with the sockets and the fork of cenv/Handler.java and       *)
(* cenv/fork/ForkInfo.java.                                                *)
(*                                                                         *)
(* The registers are the number of the native call they belong to: what    *)
(* vfork saves is where it was called.                                     *)
(***************************************************************************)
EXTENDS GuestFiles

CONSTANTS
  Domains,      \* the socket domains
  BindDomains,  \* those that bind accepts
  MaxSockets,   \* bound on the sockets made
  MaxCalls,     \* bound on the native calls
  MaxForks      \* bound on the calls of vfork

ASSUME ProcessAssumption ==
  /\ BindDomains \subseteq Domains
  /\ MaxSockets \in Nat /\ MaxCalls \in Nat \ {0} /\ MaxForks \in Nat

VARIABLES
  sockets,   \* Handler.sockets: the domain and whether it is bound
  fork,      \* Handler.fork: the call whose registers it holds, or NoFork
  call,      \* the call the registers belong to
  calls,     \* how many native calls were started
  forked,    \* how often vfork has set fork
  resumed    \* how often exit_group has returned to a parent

forkVars == <<fork, forked, resumed>>
procVars == <<files, host, running, ret, sockets, fork, call, calls, forked, resumed>>

NoFork == 0
SocketBase == 1048576
MainPid == 23456

ProcInit ==
  /\ FilesInit
  /\ sockets = << >> /\ fork = NoFork /\ call = 1 /\ calls = 1
  /\ forked = 0 /\ resumed = 0

-----------------------------------------------------------------------------
(* Sockets *)

(* close does not know sockets: the table only grows. *)
socket(domain) ==
  LET id == SocketBase + Cardinality(DOMAIN sockets) + 1
  IN  /\ Cardinality(DOMAIN sockets) < MaxSockets
      /\ sockets' = [s \in DOMAIN sockets \cup {id} |->
                       IF s = id THEN [domain |-> domain, bound |-> FALSE] ELSE sockets[s]]
      /\ Returns(id)
      /\ UNCHANGED <<fileVars, call, calls, forkVars>>

bind(id, mapped) ==
  /\ IF id \in DOMAIN sockets /\ sockets[id].domain \in BindDomains /\ mapped
       THEN sockets' = [sockets EXCEPT ![id].bound = TRUE] /\ Returns(0)
       ELSE Throws /\ UNCHANGED sockets
  /\ UNCHANGED <<fileVars, call, calls, forkVars>>

-----------------------------------------------------------------------------
(* Processes *)

(* Both loops end with CP_REG, for which Unicorn takes the binding's variable as
   the description of a coprocessor register: it finds one there or reports an
   error, after all other registers have been read or written. *)
saveState == fork' = call

loadState == call' = fork

(* A variant of vfork that forks again. *)
VforkAgain ==
  /\ forked < MaxForks
  /\ saveState /\ forked' = forked + 1 /\ UNCHANGED resumed
  /\ Returns(0) \/ Throws
  /\ UNCHANGED <<fileVars, sockets, call, calls>>

(* vfork keeps the registers; the execution that goes on is the child.  fork is
   set before the registers are read, and stays set when that throws. *)
vfork ==
  /\ forked < MaxForks
  /\ \/ fork # NoFork /\ Throws /\ UNCHANGED forkVars
     \/ /\ fork = NoFork
        /\ saveState /\ forked' = forked + 1 /\ UNCHANGED resumed
        /\ Returns(0) \/ Throws
  /\ UNCHANGED <<fileVars, sockets, call, calls>>

(* A variant of exitgroup that keeps the fork. *)
ExitKeepsFork ==
  /\ \/ fork = NoFork /\ Throws /\ UNCHANGED <<call, forkVars>>
     \/ /\ fork # NoFork
        /\ loadState /\ resumed' = resumed + 1
        /\ Returns(MainPid + 1) /\ UNCHANGED <<fork, forked>>
  /\ UNCHANGED <<fileVars, sockets, calls>>

(* exit_group goes back to where vfork was called, in the parent.  When writing
   the registers throws, fork stays; the stop is dropped, since PC was written,
   but with the exception pending no callback reaches Java any more. *)
exitgroup ==
  /\ \/ fork = NoFork /\ Throws /\ UNCHANGED <<call, forkVars>>
     \/ /\ fork # NoFork /\ loadState
        /\ fork' = NoFork /\ resumed' = resumed + 1
        /\ Returns(MainPid + 1) /\ UNCHANGED forked
     \/ fork # NoFork /\ loadState /\ Throws /\ UNCHANGED forkVars
  /\ UNCHANGED <<fileVars, sockets, calls>>

(* Native code returns to its caller, or uses a call nobody handles. *)
Stop ==
  /\ running /\ running' = FALSE
  /\ UNCHANGED <<fileVars, sockets, call, calls, ret, forkVars>>

(* Emulator.callNative: new arguments, a new return address. *)
callNative ==
  /\ ~running /\ calls < MaxCalls
  /\ running' = TRUE /\ call' = calls + 1 /\ calls' = calls + 1
  /\ UNCHANGED <<fileVars, sockets, ret, forkVars>>

-----------------------------------------------------------------------------
ProcNext ==
  \/ FilesNext /\ UNCHANGED <<sockets, call, calls, forkVars>>
  \/ \E domain \in Domains : socket(domain)
  \/ \E id \in SocketBase .. SocketBase + MaxSockets, mapped \in BOOLEAN : bind(id, mapped)
  \/ vfork
  \/ exitgroup
  \/ Stop
  \/ callNative

ProcSpec == ProcInit /\ [][ProcNext]_procVars

-----------------------------------------------------------------------------
(* A fork holds the registers of a call that has been made. *)
ProcTypeOK ==
  /\ FilesTypeOK
  /\ \A id \in DOMAIN sockets : id \in Nat /\ sockets[id].bound \in BOOLEAN
  /\ calls \in 1 .. MaxCalls /\ call \in 1 .. calls /\ fork \in 0 .. calls
  /\ forked \in Nat /\ resumed \in Nat

(* A fork that vfork has taken is let go by the one exit_group that returns to
   its parent, and by nothing else: not by another vfork, nor by an exception in
   between or in saving and loading the registers, nor by the end of the native
   call.  No parent's registers are lost, and none is given the child's pid twice. *)
ForkBalanced ==
  forked - resumed = IF fork = NoFork THEN 0 ELSE 1

(* Calls, forks and sockets have their types, and every fork is held until its
   parent is returned to (Handler.vfork, Handler.exitgroup). *)
ProcInv == ProcTypeOK /\ ForkBalanced
=============================================================================
