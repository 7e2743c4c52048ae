-------------------------------- MODULE UcEmu --------------------------------
(***************************************************************************)
(* Starting and stopping an emulation: uc_emu_start and uc_emu_stop (uc.c) *)
(* around the vCPU loop (softmmu/cpus.c, accel/tcg/cpu-exec.c), with the   *)
(* thread that watches the timeout.                                        *)
(*                                                                         *)
(* The emulation thread and the timer thread share the flags below without *)
(* a lock.  A step of either is one access to a flag the other one also    *)
(* uses; stores that the other thread cannot tell apart are one step.      *)
(*                                                                         *)
(* A callback may write the program counter, call uc_emu_stop and start a  *)
(* nested emulation.  `frames' is the stack of uc_emu_start calls.  The    *)
(* guest may loop for ever, halt at `until', fault or reach a callback.    *)
(*                                                                         *)
(* One assumption on callers: a timeout is not asked for while the timer   *)
(* of an enclosing uc_emu_start runs.  uc_struct has room for one timer,   *)
(* and the outer uc_emu_start would join the inner one's thread again.     *)
(***************************************************************************)
EXTENDS Naturals, Sequences

CONSTANTS
  UC_MAX_NESTED_LEVEL,
  Callbacks            \* what callbacks do, of {"stop", "pc", "start"}

ASSUME EmuAssumption ==
  /\ UC_MAX_NESTED_LEVEL \in Nat \ {0}
  /\ Callbacks \subseteq {"stop", "pc", "start"}

VARIABLES
  stop_request,    \* uc_emu_stop has been called
  quit_request,    \* the program counter has been written
  invalid_error,   \* the guest has faulted
  emulation_done,  \* no emulation is running
  exit_request,    \* cpu->exit_request: leave cpu_exec
  icount_high,     \* cpu->icount_decr: leave the running block
  frames,          \* the uc_emu_start calls in progress, the innermost last: where
                   \* they are, and as history whether the level has failed,
                   \* whether a callback of it has asked it to stop, and whether
                   \* a nested call with a timeout has returned to it
  timer            \* the timer thread and the level that has started it

requests == <<stop_request, quit_request, exit_request, icount_high>>
status == <<invalid_error, emulation_done>>
emuVars == <<requests, status, frames, timer>>

NoTimer == [pc |-> "none", level |-> 0]

Top == frames[Len(frames)]

At(pc) == frames # <<>> /\ Top.pc = pc

(* The innermost level goes on at pc. *)
Goto(pc) == frames' = [frames EXCEPT ![Len(frames)].pc = pc]

(* cpu_exec returns r to tcg_cpu_exec. *)
Returns(r) == frames' = [frames EXCEPT ![Len(frames)].pc = "ret",
                                       ![Len(frames)].r = r]

UserRuns == frames # <<>> => Top.pc = "callback"

-----------------------------------------------------------------------------
(* uc_emu_start up to vm_start *)

LevelFree == Len(frames) < UC_MAX_NESTED_LEVEL

(* The flags are reset before the level is checked, also for a call that is
   then refused with UC_ERR_RESOURCE. *)
EmuStart(timeout) ==
  /\ UserRuns
  /\ frames # <<>> => "start" \in Callbacks
  /\ timeout => timer = NoTimer
  /\ invalid_error' = FALSE
  /\ emulation_done' = FALSE
  /\ frames' = IF ~LevelFree THEN frames
               ELSE Append(frames, [pc |-> "begin", timeout |-> timeout,
                                    r |-> "none", failed |-> FALSE,
                                    asked |-> FALSE, late |-> FALSE])
  /\ UNCHANGED <<requests, timer>>

(* cpu_exit *)
cpu_exit == exit_request' = TRUE /\ icount_high' = TRUE

(* uc_emu_stop, called on the emulation thread. *)
uc_emu_stop ==
  IF emulation_done THEN UNCHANGED <<stop_request, exit_request, icount_high>>
                    ELSE stop_request' = TRUE /\ cpu_exit

(* reg_write of R15 *)
WritePc == quit_request' = TRUE /\ uc_emu_stop

Begin ==
  /\ At("begin")
  /\ WritePc
  /\ Goto("setup")
  /\ UNCHANGED <<status, timer>>

(* enable_emu_timer, when the call has a timeout. *)
Setup ==
  /\ At("setup")
  /\ stop_request' = FALSE
  /\ timer' = IF Top.timeout THEN [pc |-> "sleep", level |-> Len(frames)] ELSE timer
  /\ Goto("resume")
  /\ UNCHANGED <<quit_request, exit_request, icount_high, status>>

-----------------------------------------------------------------------------
(* vm_start: the vCPU loop *)

(* resume_all_vcpus *)
Resume ==
  /\ At("resume")
  /\ exit_request' = FALSE
  /\ Goto("exec")
  /\ UNCHANGED <<stop_request, quit_request, icount_high, status, timer>>

(* tcg_cpu_exec calls cpu_exec. *)
Exec ==
  /\ At("exec")
  /\ quit_request' = FALSE
  /\ Goto("interrupt")
  /\ UNCHANGED <<stop_request, exit_request, icount_high, status, timer>>

(* cpu_handle_interrupt: icount_high is cleared, then exit_request is read;
   cpu_exit sets them in the other order. *)
cpu_handle_interrupt ==
  \/ /\ At("interrupt")
     /\ icount_high' = FALSE
     /\ Goto("exiting")
     /\ UNCHANGED <<stop_request, quit_request, exit_request, status, timer>>
  \/ /\ At("exiting")
     /\ IF exit_request THEN Returns("EXCP_INTERRUPT") ELSE Goto("entering")
     /\ exit_request' = FALSE
     /\ UNCHANGED <<stop_request, quit_request, icount_high, status, timer>>

(* cpu_exec looks at exit_request once more between tb_find and the block. *)
EnterBlock ==
  /\ At("entering")
  /\ Goto(IF exit_request THEN "interrupt" ELSE "check")
  /\ UNCHANGED <<requests, status, timer>>

(* Mutant of check_exit_request: blocks are chained without the test. *)
BlockNotAsked ==
  /\ At("check")
  /\ Goto("insn")
  /\ UNCHANGED <<requests, status, timer>>

(* The test of icount_decr at the start of a block and behind a callback. *)
check_exit_request ==
  /\ At("check")
  /\ Goto(IF icount_high THEN "interrupt" ELSE "insn")
  /\ UNCHANGED <<requests, status, timer>>

(* The guest executes an instruction; it may have a callback. *)
Insn ==
  /\ At("insn")
  /\ Goto("check") \/ (Callbacks # {} /\ Goto("callback"))
  /\ UNCHANGED <<requests, status, timer>>

(* The guest reaches `until'. *)
Halt ==
  /\ At("insn")
  /\ Returns("EXCP_HLT")
  /\ UNCHANGED <<requests, status, timer>>

(* An access fails and no callback repairs it. *)
Fault ==
  /\ At("insn")
  /\ invalid_error' = TRUE
  /\ cpu_exit
  /\ frames' = [frames EXCEPT ![Len(frames)].pc = "interrupt",
                              ![Len(frames)].failed = TRUE]
  /\ UNCHANGED <<stop_request, quit_request, emulation_done, timer>>

CallbackStops ==
  /\ At("callback") /\ "stop" \in Callbacks
  /\ uc_emu_stop
  /\ frames' = [frames EXCEPT ![Len(frames)].asked = TRUE]
  /\ UNCHANGED <<quit_request, status, timer>>

CallbackWritesPc ==
  /\ At("callback") /\ "pc" \in Callbacks
  /\ WritePc
  /\ UNCHANGED <<status, frames, timer>>

CallbackReturns ==
  /\ At("callback")
  /\ Goto("check")
  /\ UNCHANGED <<requests, status, timer>>

(* The history of stops that a written program counter has overridden ends. *)
LeaveOrGoOn(pc) ==
  frames' = [frames EXCEPT ![Len(frames)].pc = pc,
                           ![Len(frames)].asked = Top.asked /\ ~quit_request,
                           ![Len(frames)].late = Top.late /\ ~quit_request]

(* Mutant of tcg_cpu_exec: a stop request does not end the loop. *)
StopRequestUnread ==
  /\ At("ret")
  /\ IF quit_request THEN stop_request' = FALSE /\ exit_request' = FALSE
                     ELSE UNCHANGED <<stop_request, exit_request>>
  /\ LeaveOrGoOn(IF invalid_error \/ Top.r = "EXCP_HLT" THEN "finish" ELSE "exec")
  /\ UNCHANGED <<quit_request, icount_high, status, timer>>

(* Mutant of tcg_cpu_exec: a written program counter does not resume the vCPU. *)
PcWriteStops ==
  /\ At("ret")
  /\ IF quit_request THEN stop_request' = FALSE /\ exit_request' = FALSE
                     ELSE UNCHANGED <<stop_request, exit_request>>
  /\ LeaveOrGoOn(IF stop_request \/ invalid_error \/ Top.r = "EXCP_HLT"
                 THEN "finish" ELSE "exec")
  /\ UNCHANGED <<quit_request, icount_high, status, timer>>

(* tcg_cpu_exec behind cpu_exec.  A written program counter resumes the vCPU
   and drops the stop request that came with it. *)
tcg_cpu_exec ==
  /\ At("ret")
  /\ IF quit_request THEN stop_request' = FALSE /\ exit_request' = FALSE
                     ELSE UNCHANGED <<stop_request, exit_request>>
  /\ LeaveOrGoOn(IF \/ ~quit_request /\ stop_request
                    \/ invalid_error
                    \/ Top.r = "EXCP_HLT"
                 THEN "finish" ELSE "exec")
  /\ UNCHANGED <<quit_request, icount_high, status, timer>>

Finish ==
  /\ At("finish")
  /\ exit_request' = FALSE
  /\ icount_high' = FALSE
  /\ Goto("done")
  /\ UNCHANGED <<stop_request, quit_request, status, timer>>

-----------------------------------------------------------------------------
(* uc_emu_start behind vm_start *)

(* Mutant of Done: every level ends the emulation. *)
DoneAtEveryLevel ==
  /\ At("done")
  /\ emulation_done' = TRUE
  /\ Goto("join")
  /\ UNCHANGED <<requests, invalid_error, timer>>

(* Only the outermost level ends the emulation. *)
Done ==
  /\ At("done")
  /\ emulation_done' = (emulation_done \/ Len(frames) = 1)
  /\ Goto("join")
  /\ UNCHANGED <<requests, invalid_error, timer>>

Pop ==
  frames' = [i \in 1 .. Len(frames) - 1 |->
               [frames[i] EXCEPT !.late = @ \/ (i = Len(frames) - 1 /\ Top.timeout)]]

(* Mutant of Join: the timer is left alone. *)
ReturnsAtOnce ==
  /\ At("join")
  /\ invalid_error' = FALSE
  /\ Pop
  /\ UNCHANGED <<requests, emulation_done, timer>>

(* Mutant of Join: the error is left for the caller's level. *)
JoinKeepsError ==
  /\ At("join")
  /\ Top.timeout => timer.pc = "end"
  /\ timer' = IF Top.timeout THEN NoTimer ELSE timer
  /\ Pop
  /\ UNCHANGED <<requests, invalid_error, emulation_done>>

(* The timer is joined and the error handed to the caller. *)
Join ==
  /\ At("join")
  /\ Top.timeout => timer.pc = "end"
  /\ timer' = IF Top.timeout THEN NoTimer ELSE timer
  /\ invalid_error' = FALSE
  /\ Pop
  /\ UNCHANGED <<requests, emulation_done>>

-----------------------------------------------------------------------------
(* The timer thread *)

TimerGoto(pc) == timer' = [timer EXCEPT !.pc = pc]

(* Mutant of Sleep: only the end of the emulation ends the loop. *)
SleepsUntilDone ==
  /\ timer.pc = "sleep"
  /\ TimerGoto(IF emulation_done THEN "expired" ELSE "sleep")
  /\ UNCHANGED <<requests, status, frames>>

(* The loop of _timeout_fn ends: the emulation is done, or the time is up,
   which it may be as soon as the thread runs. *)
Sleep ==
  /\ timer.pc = "sleep"
  /\ TimerGoto("expired")
  /\ UNCHANGED <<requests, status, frames>>

(* emulation_done is tested by _timeout_fn and again by uc_emu_stop. *)
TestDone ==
  /\ timer.pc \in {"expired", "stop"}
  /\ TimerGoto(IF emulation_done THEN "end"
               ELSE IF timer.pc = "expired" THEN "stop" ELSE "request")
  /\ UNCHANGED <<requests, status, frames>>

(* uc_emu_stop on the timer thread: three stores. *)
TimerStores ==
  \/ /\ timer.pc = "request"
     /\ stop_request' = TRUE
     /\ TimerGoto("exit")
     /\ UNCHANGED <<quit_request, exit_request, icount_high, status, frames>>
  \/ /\ timer.pc = "exit"
     /\ exit_request' = TRUE
     /\ TimerGoto("high")
     /\ UNCHANGED <<stop_request, quit_request, icount_high, status, frames>>
  \/ /\ timer.pc = "high"
     /\ icount_high' = TRUE
     /\ TimerGoto("end")
     /\ UNCHANGED <<stop_request, quit_request, exit_request, status, frames>>

-----------------------------------------------------------------------------

EmuInit ==
  /\ stop_request = FALSE /\ quit_request = FALSE
  /\ exit_request = FALSE /\ icount_high = FALSE
  /\ invalid_error = FALSE /\ emulation_done = FALSE
  /\ frames = <<>>
  /\ timer = NoTimer

EmulationStep ==
  \/ Begin \/ Setup \/ Resume \/ Exec \/ cpu_handle_interrupt
  \/ EnterBlock \/ check_exit_request \/ Insn \/ Halt \/ Fault
  \/ CallbackStops \/ CallbackWritesPc \/ CallbackReturns
  \/ tcg_cpu_exec \/ Finish \/ Done \/ Join

TimerStep == Sleep \/ TestDone \/ TimerStores

EmuNext ==
  \/ \E timeout \in BOOLEAN : EmuStart(timeout)
  \/ EmulationStep
  \/ TimerStep

(* Both threads are scheduled, time passes and a callback returns.  Nothing
   makes the guest halt, fault or call back. *)
EmuFairness == WF_emuVars(EmulationStep) /\ WF_emuVars(TimerStep)

EmuSpec == EmuInit /\ [][EmuNext]_emuVars /\ EmuFairness

-----------------------------------------------------------------------------
(* Properties *)

(* The flags, the stack of calls and the timer have their types. *)
EmuTypeOK ==
  /\ {stop_request, quit_request, exit_request, icount_high, invalid_error,
      emulation_done} \subseteq BOOLEAN
  /\ frames \in Seq([pc : {"begin", "setup", "resume", "exec", "interrupt",
                           "exiting", "entering", "check", "insn", "callback",
                           "ret", "finish", "done", "join"},
                     timeout : BOOLEAN, failed : BOOLEAN, asked : BOOLEAN, late : BOOLEAN,
                     r : {"none", "EXCP_INTERRUPT", "EXCP_HLT"}])
  /\ Len(frames) <= UC_MAX_NESTED_LEVEL
  /\ timer \in [pc : {"none", "sleep", "expired", "stop", "request", "exit",
                      "high", "end"},
                level : 0 .. UC_MAX_NESTED_LEVEL]

(* "emulation is done if and only if we exit the outer uc_emu_start or we may
   lost uc_emu_stop" (uc.c, 884): a callback that calls uc_emu_stop is heard,
   also after nested emulations have come and gone. *)
StopIsHeard == At("callback") => ~emulation_done

(* The timer has made its stop request. *)
TimerFired == timer.pc \in {"exit", "high", "end"}

(* No timer outlives the uc_emu_start that has started it. *)
TimerInside == timer # NoTimer => timer.level <= Len(frames)

(* Every emulation ends for a reason of its own: it has reached `until', failed,
   been stopped by one of its own callbacks after PC was last written, or by the
   timer of a call in progress that is its own or encloses it.  Requests that
   nested emulations leave behind when they are stopped do not end it, with one
   exception: the timer of a nested call that has a timeout fires at the latest
   while it is joined, since only the outermost level sets emulation_done, and
   then stops the level that made the call (uc.c, 886 and 894). *)
EndsForAReason ==
  At("finish") =>
    Top.failed \/ Top.r = "EXCP_HLT" \/ Top.asked \/ TimerFired \/ Top.late

(* Flags, calls and timer have their types, timers belong to calls in progress
   and emulations end for a reason of their own (enable_emu_timer,
   qemu_thread_join, tcg_cpu_exec). *)
EmuInv == EmuTypeOK /\ TimerInside /\ EndsForAReason

(* The error uc_emu_start reports is one of its own level: a nested emulation
   that fails does not make the enclosing one fail, nor hide its failure
   (test_x86.c, 960: "This call shouldn't fail!"). *)
ErrorOfOwnLevel == At("join") => invalid_error = Top.failed

(* A callback that has called uc_emu_stop ends its own level once it returns,
   whatever the timer does meanwhile.  Two things drop the stop and are excepted:
   a write of PC in the same callback (cpus.c, 99-107) and a nested emulation,
   which clears the requests when it starts and when it ends. *)
StopEndsLevel ==
  \A n \in 1 .. UC_MAX_NESTED_LEVEL :
    (/\ Len(frames) = n /\ Top.pc = "callback"
     /\ stop_request /\ exit_request /\ icount_high /\ ~quit_request)
    ~> (Len(frames) < n \/ Len(frames) > n \/ (At("callback") /\ quit_request))

(* A guest that loops for ever is stopped by the timeout if the time is up
   after the vCPU has been resumed, and no callback writes the program counter
   or starts a nested emulation. *)
TimeoutEndsLoop ==
  (/\ Len(frames) = 1 /\ Top.pc = "exec"
   /\ timer.pc = "sleep")
  ~> (frames = <<>> \/ Len(frames) = 2 \/ (At("callback") /\ quit_request))

(* uc_emu_start never waits for its timer for ever, on any level. *)
JoinReturns ==
  \A n \in 1 .. UC_MAX_NESTED_LEVEL :
    (Len(frames) = n /\ Top.pc = "join") ~> Len(frames) < n

(* unicorn.h, 821: "@timeout: duration to emulate the code (in microseconds)".
   An emulation that is given a timeout ends.  It need not: when the time is up
   between enable_emu_timer and resume_all_vcpus, the latter clears the exit
   request again. *)
TimeoutEnds == (frames # <<>> /\ frames[1].timeout) ~> frames = <<>>
=============================================================================
