----------------------------- MODULE GuestCalls -----------------------------
(***************************************************************************)
(* Native calls and the hooks that answer them: Emulator.java (callNative, *)
(* loadLibrary, callModuleInit), the code hooks of Unicorn.java and their  *)
(* three handlers, module/SymHooker.java, jenv/JHandler.java and           *)
(* cenv/Hooker.java, over the modules of Linker.                           *)
(*                                                                         *)
(* A level is one emu_start.  The callback of a function hook is the       *)
(* host's own code: it may call native code or load a library, which       *)
(* starts a level inside the one it interrupts; both use the same          *)
(* registers and the same stack.  The function a level starts keeps its    *)
(* return address on the stack; what it calls are leaf functions, JNI      *)
(* stubs and symbol stubs.                                                 *)
(*                                                                         *)
(* Callbacks register no further hooks: the list of code hooks would       *)
(* change under its iterator.                                              *)
(***************************************************************************)
EXTENDS Linker

CONSTANTS
  HostNames,      \* the names the host calls and hooks
  Constructors,   \* Constructors[file]: the length of its init array
  JniIds,         \* the numbers of the JNI functions native code calls
  Unimplemented,  \* those whose function only throws
  MaxLevel,       \* UC_MAX_NESTED_LEVEL
  MaxHooks,       \* bound on the function hooks added
  MaxStack        \* bound on the words on the stack when a level starts

ASSUME CallsAssumption ==
  /\ HostNames \subseteq Names /\ Constructors \in [Files -> Nat]
  /\ JniIds \subseteq Nat /\ Unimplemented \subseteq JniIds
  /\ MaxLevel \in Nat \ {0} /\ MaxHooks \in Nat /\ MaxStack \in Nat

VARIABLES
  codeList,    \* Unicorn.codeList: the handlers, in the order they were added
  hookers,     \* Hooker.hookers: the functions with a hook
  levels,      \* the calls of emu_start in progress, the innermost last
  pc, lr, r0,  \* the registers; r0 is who wrote it
  stack,       \* the words between the stack pointer and its start
  throwing,    \* an exception leaves callNative
  inits,       \* the constructors called, for each module
  failed,      \* the modules whose loadLibrary returned null
  disturbed    \* a level inside has left registers or stack changed

regs == <<pc, lr, r0, stack>>
callsVars == <<modules, codeList, hookers, levels, regs, throwing, inits, failed, disturbed>>

Depth == Len(levels)
Top == levels[Depth]
Below == SubSeq(levels, 1, Depth - 1)
Back(d) == Place("back", d, "", 1)    \* after a call of level d's function
Until(d) == Place("stop", d, "", 1)   \* the stop address of level d
Args == Place("args", 0, "", 0)       \* an argument on the stack
Jni(id) == Place("jni", id, "", 1)    \* the table holds the stub's address + 1
Mov(id) == Place("mov", id, "", 1)    \* MOV R4, R4 with the id in R4

(* A variant of SymIds with two more symbols hooked. *)
SymIdsMore == 0 .. Len(SymHooks) + 1

(* Both handlers number their functions from 0xFF00 on. *)
SymIds == {k - 1 : k \in DOMAIN SymHooks}
SymId(name) == (CHOOSE k \in DOMAIN SymHooks : SymHooks[k] = name) - 1

SetTop(level) == [levels EXCEPT ![Depth] = level]

(* The constructor of Emulator makes SymHooker before Jvm. *)
CodeHandlers == <<"sym", "jni">>

CallsInit ==
  /\ modules = << >> /\ codeList = CodeHandlers /\ hookers = {}
  /\ levels = << >> /\ pc = Null /\ lr = Null /\ r0 = "guest" /\ stack = << >>
  /\ throwing = FALSE
  /\ inits = << >> /\ failed = {} /\ disturbed = FALSE

-----------------------------------------------------------------------------
(* The host's code: outside all levels, or in the callback of a hook *)

Hosting == ~throwing /\ (levels # << >> => Top.java /\ ~Top.made)

(* The levels, with the innermost callback marked as having made a call. *)
Marked == IF levels = << >> THEN levels ELSE SetTop([Top EXCEPT !.made = TRUE])

Level(sp, module) ==
  [sp |-> sp, for |-> module, body |-> 0, it |-> 0, insn |-> Null, lr |-> Null,
   java |-> FALSE, made |-> FALSE, jump |-> FALSE, quit |-> FALSE]

(* What a level left behind matters to the level below it only. *)
Disturb(below, left) == disturbed' = (below # << >> /\ (disturbed \/ left))

(* uc_emu_start refuses a level too many. *)
LevelFree(below) == Len(below) < MaxLevel

(* callNative on top of the levels below: arguments and return address are
   written before emu_start is refused.  loadLibrary catches what the call of a
   constructor throws. *)
callNative(below, to, onStack, module) ==
  /\ Len(stack) < MaxStack
  /\ lr' = Until(Len(below) + 1)
  /\ stack' = IF onStack THEN Append(stack, Args) ELSE stack
  /\ IF ~LevelFree(below)
       THEN /\ levels' = below /\ throwing' = (module = 0)
            /\ failed' = failed \cup ({module} \ {0})
            /\ UNCHANGED pc
       ELSE /\ levels' = Append(below, Level(Len(stack), module))
            /\ pc' = to /\ UNCHANGED <<throwing, failed>>
  /\ UNCHANGED r0

(* callSymbol of a module; a symbol it does not have is reported and ignored.
   callNativeSymbol is callSymbol of the first module that has the name. *)
callSymbol(i, name, onStack) ==
  /\ Hosting /\ i \in Loaded /\ name \in DOMAIN modules[i].syms
  /\ callNative(Marked, modules[i].syms[name], onStack, 0)
  /\ Disturb(levels, onStack /\ ~LevelFree(levels))
  /\ UNCHANGED <<modules, codeList, hookers, inits>>

(* The library has no constructor to call: loadLibrary is done. *)
NoConstructors == levels' = Marked /\ UNCHANGED <<regs, throwing, failed>>

(* The module is in the list before callModuleInit calls its constructors. *)
LoadShared(file) ==
  /\ modules' = Append(modules, loadElfModule(file))
  /\ IF Constructors[file] = 0
       THEN inits' = Append(inits, 0) /\ NoConstructors
       ELSE /\ inits' = Append(inits, 1)
            /\ callNative(Marked, Function(Len(modules) + 1, "init"), FALSE, Len(modules) + 1)

loadLibrary(file) ==
  /\ Hosting /\ Len(modules) < MaxModules
  /\ \/ /\ file \in NotShared /\ NoConstructors
        /\ modules' = Append(modules, NullModule) /\ inits' = Append(inits, 0)
     \/ /\ file \notin NotShared /\ LoadThrows(file) /\ NoConstructors
        /\ UNCHANGED <<modules, inits>>
     \/ file \notin NotShared /\ ~LoadThrows(file) /\ LoadShared(file)
  /\ Disturb(levels, FALSE)
  /\ UNCHANGED <<codeList, hookers>>

(* findCSymbol of an unknown name or a null symbol gives 0: no hook.  Hooker
   is added to the list of code hooks once more for every function. *)
addSymbolHook(name) ==
  /\ levels = << >> /\ ~throwing /\ Len(codeList) < Len(CodeHandlers) + MaxHooks
  /\ ~LookupThrows(name) /\ lookupSymbol(name) \notin {SYMBOL_UNDEF, Null}
  /\ hookers' = hookers \cup {lookupSymbol(name)}
  /\ codeList' = Append(codeList, "hooker")
  /\ UNCHANGED <<modules, levels, regs, throwing, inits, failed, disturbed>>

-----------------------------------------------------------------------------
(* The end of a level *)

(* A variant of MoreConstructors that forgets the last one. *)
MoreButLast(i) == i > 0 /\ inits[i] + 1 < Constructors[modules[i].file]

MoreConstructors(i) == i > 0 /\ inits[i] < Constructors[modules[i].file]

(* Outside all levels nobody reads the registers, and the next call of the host
   does not use the words earlier ones have left on the stack. *)
Settled ==
  /\ pc' = Null /\ lr' = Null /\ r0' = "guest" /\ stack' = << >>

(* emu_start returns, at the stop address or because of emu_stop; callNative
   does not look which, and the stack pointer stays where it is. *)
LevelReturns ==
  LET below == Below  i == Top.for
  IN  /\ IF MoreConstructors(i)
           THEN /\ callNative(below, Function(i, "init"), FALSE, i)
                /\ inits' = [inits EXCEPT ![i] = @ + 1]
           ELSE /\ levels' = below /\ UNCHANGED <<throwing, inits, failed>>
                /\ IF below = << >> THEN Settled ELSE UNCHANGED regs
      /\ Disturb(below, Len(stack) > Top.sp)
      /\ UNCHANGED <<modules, codeList, hookers>>

(* An exception leaves callNative; loadLibrary turns it into null. *)
LevelThrows ==
  LET below == Below  i == Top.for
  IN  /\ levels' = below
      /\ throwing' = (i = 0 /\ below # << >>)
      /\ failed' = failed \cup ({i} \ {0})
      /\ Disturb(below, Len(stack) > Top.sp)
      /\ IF below = << >> THEN Settled ELSE UNCHANGED regs
      /\ UNCHANGED <<modules, codeList, hookers, inits>>

-----------------------------------------------------------------------------
(* invokeCodeCallbacks: every handler in the list, whatever its range *)

Running == levels # << >> /\ ~throwing /\ ~Top.java

(* What a handler looks for: the number in R4 at a MOV R4, R4, or the PC
   register, which a callback before may have changed. *)
Acts(handler, insn, at) ==
  CASE handler = "sym" -> insn.kind = "mov" /\ insn.i \in SymIds
    [] handler = "jni" -> insn.kind = "mov" /\ insn.i \in JniIds
    [] handler = "hooker" -> at \in hookers

Done == Len(codeList) + 1

NextActing(k, insn, at) ==
  CHOOSE j \in k .. Done :
    /\ j = Done \/ Acts(codeList[j], insn, at)
    /\ \A i \in k .. j - 1 : ~Acts(codeList[i], insn, at)

Passed == [Top EXCEPT !.it = NextActing(Top.it + 1, Top.insn, pc)]

unchangedInHook == <<modules, codeList, hookers, lr, stack, throwing, inits, failed, disturbed>>

(* The binding registers one code hook, so the translated code calls it itself,
   without looking for a stop request that a level inside has left. *)
Traced ==
  /\ Running /\ Top.it = 0 /\ NextActing(1, pc, pc) # Done
  /\ levels' = SetTop([Top EXCEPT !.insn = pc, !.it = NextActing(1, pc, pc)])
  /\ UNCHANGED <<modules, codeList, hookers, regs, throwing, inits, failed, disturbed>>

HookIs(handler) == Running /\ Top.it \in DOMAIN codeList /\ codeList[Top.it] = handler

(* The handlers of the stubs catch what a function throws and call emu_stop. *)
Caught ==
  levels' = SetTop([Passed EXCEPT !.quit = TRUE]) /\ UNCHANGED r0

(* SymHooker.hook.  It is reached by the numbers JHandler shares with it only,
   with the JavaVM as the first argument, which is no path dlopen would load. *)
SymCall ==
  /\ HookIs("sym")
  /\ \/ r0' = "sym" /\ levels' = SetTop(Passed)
     \/ Caught
  /\ UNCHANGED <<unchangedInHook, pc>>

(* JHandler.hook reads the arguments when its turn comes. *)
JniCall ==
  /\ HookIs("jni")
  /\ \/ /\ Top.insn.i \notin Unimplemented
        /\ r0' = "jni" /\ levels' = SetTop(Passed)
     \/ Caught
  /\ UNCHANGED <<unchangedInHook, pc>>

(* Hooker.hook reads LR, then calls the host's function. *)
HookerCall ==
  /\ HookIs("hooker")
  /\ levels' = SetTop([Top EXCEPT !.lr = lr, !.java = TRUE, !.made = FALSE])
  /\ UNCHANGED <<unchangedInHook, pc, r0>>

-----------------------------------------------------------------------------
(* The callback of a function hook *)

InCallback == levels # << >> /\ ~throwing /\ Top.java

(* A variant of CallbackReplaces that reads LR after the callback. *)
ReplacesByLateLr ==
  /\ InCallback
  /\ r0' = "hook" /\ pc' = lr
  /\ levels' = SetTop([Top EXCEPT !.java = FALSE, !.jump = TRUE,
                                  !.it = NextActing(Top.it + 1, Top.insn, lr)])
  /\ UNCHANGED unchangedInHook

(* A variant of CallbackReplaces that leaves PC for the end of the list. *)
ReplacesLater ==
  /\ InCallback
  /\ r0' = "hook"
  /\ levels' = SetTop([Passed EXCEPT !.java = FALSE, !.jump = TRUE])
  /\ UNCHANGED <<unchangedInHook, pc>>

(* The callback has a result: the function returns to the LR it was entered
   with. *)
CallbackReplaces ==
  /\ InCallback
  /\ r0' = "hook" /\ pc' = Top.lr
  /\ levels' = SetTop([Top EXCEPT !.java = FALSE, !.jump = TRUE,
                                  !.it = NextActing(Top.it + 1, Top.insn, Top.lr)])
  /\ UNCHANGED unchangedInHook

(* The callback has no result: the function runs, with the registers that a
   native call of the callback has left. *)
CallbackObserves ==
  /\ InCallback
  /\ levels' = SetTop([Passed EXCEPT !.java = FALSE])
  /\ disturbed' = (disturbed \/ Top.made)
  /\ UNCHANGED <<modules, codeList, hookers, regs, throwing, inits, failed>>

(* Hooker.hook catches the exception, calls emu_stop and then uses the result
   that is not there: the second exception leaves emu_start.  What a native
   call inside has thrown takes the same way. *)
CallbackThrows ==
  /\ levels # << >> /\ Top.java
  /\ LevelThrows

-----------------------------------------------------------------------------
(* One instruction, after its hooks *)

Insn == IF Top.it = 0 THEN pc ELSE Top.insn

Ready ==
  /\ Running
  /\ \/ Top.it = Done
     \/ Top.it = 0 /\ NextActing(1, pc, pc) = Done

Executes(kind) == Ready /\ ~Top.jump /\ ~Top.quit /\ Insn.kind = kind

unchangedByInsn == <<modules, codeList, hookers, throwing, inits, failed, disturbed>>

Fetched == [Top EXCEPT !.it = 0, !.insn = Null, !.lr = Null, !.made = FALSE]

(* Writing PC is a stop request too, which tcg_cpu_exec drops to go on there. *)
Jump ==
  /\ Ready /\ Top.jump
  /\ levels' = SetTop([Fetched EXCEPT !.jump = FALSE])
  /\ UNCHANGED <<modules, codeList, hookers, regs, throwing, inits, failed, disturbed>>

Quit == Ready /\ Top.quit /\ LevelReturns

Push == stack' = Append(stack, lr) /\ UNCHANGED lr

Pop ==
  /\ pc' = stack[Len(stack)] /\ stack' = SubSeq(stack, 1, Len(stack) - 1)
  /\ UNCHANGED lr

(* The function the level started pushes LR; those it calls return by LR. *)
EnterFunction ==
  /\ Executes("function")
  /\ IF Top.body = 0
       THEN Push /\ pc' = Back(Depth) /\ levels' = SetTop([Fetched EXCEPT !.body = Insn.i])
       ELSE pc' = lr /\ levels' = SetTop(Fetched) /\ UNCHANGED <<lr, stack>>
  /\ UNCHANGED <<unchangedByInsn, r0>>

(* PUSH {R4, LR}; LDR R4, =id.  Entered with the Thumb bit only. *)
EnterStub ==
  /\ Ready /\ ~Top.jump /\ ~Top.quit /\ Insn.kind \in {"jni", "stub"} /\ Insn.bit = 1
  /\ Push /\ pc' = Mov(IF Insn.kind = "jni" THEN Insn.i ELSE SymId(Insn.name))
  /\ levels' = SetTop(Fetched)
  /\ UNCHANGED <<unchangedByInsn, r0>>

(* MOV R4, R4; POP {R4, PC} *)
LeaveStub ==
  /\ Executes("mov")
  /\ Pop /\ levels' = SetTop(Fetched)
  /\ UNCHANGED <<unchangedByInsn, r0>>

(* No code to go on with: an address without the Thumb bit (0, a word the linker
   left, the base of a module, data, a stub taken for ARM code), or the return
   or stop address of another level. *)
Wild == Insn.bit = 0 \/ (Insn.kind \in {"back", "stop"} /\ Insn.i # Depth)

RunsWild ==
  /\ Ready /\ ~Top.jump /\ ~Top.quit /\ Wild
  /\ LevelThrows

GuestReturns ==
  /\ Executes("back") /\ Insn.i = Depth
  /\ Pop /\ levels' = SetTop(Fetched)
  /\ UNCHANGED <<unchangedByInsn, r0>>

GuestCallsPlace(place) ==
  /\ lr' = Back(Depth) /\ pc' = place /\ r0' = "guest"
  /\ levels' = SetTop(Fetched)
  /\ UNCHANGED <<unchangedByInsn, stack>>

(* Through a slot, through an absolute pointer, or through the JNI table. *)
GuestCalls ==
  /\ Executes("back") /\ Insn.i = Depth
  /\ \/ \E name \in DOMAIN modules[Top.body].slots :
          \/ GuestCallsPlace(modules[Top.body].slots[name])
          \/ GuestCallsPlace(modules[Top.body].words[name])
     \/ \E id \in JniIds : GuestCallsPlace(Jni(id))

Halt == Executes("stop") /\ Insn.i = Depth /\ LevelReturns

-----------------------------------------------------------------------------
CallsNext ==
  \/ \E i \in 1 .. MaxModules, name \in HostNames, onStack \in BOOLEAN : callSymbol(i, name, onStack)
  \/ \E file \in Files : loadLibrary(file)
  \/ \E name \in HostNames : addSymbolHook(name)
  \/ Traced
  \/ SymCall
  \/ JniCall
  \/ HookerCall
  \/ CallbackReplaces
  \/ CallbackObserves
  \/ CallbackThrows
  \/ Jump
  \/ Quit
  \/ EnterFunction
  \/ EnterStub
  \/ LeaveStub
  \/ RunsWild
  \/ GuestReturns
  \/ GuestCalls
  \/ Halt

CallsSpec == CallsInit /\ [][CallsNext]_callsVars

-----------------------------------------------------------------------------
(* The levels are within Unicorn's limit, and all but the innermost are in the
   callback of a function hook. *)
CallsTypeOK ==
  /\ Depth \in 0 .. MaxLevel
  /\ \A d \in 1 .. Depth - 1 : levels[d].java
  /\ \A d \in 1 .. Depth : levels[d].it \in 0 .. Done /\ levels[d].sp <= Len(stack)
  /\ Len(inits) = Len(modules) /\ failed \subseteq DOMAIN modules
  /\ {throwing, disturbed} \subseteq BOOLEAN

(* Whatever hooks replace, observe or throw, a function goes back to the level
   that called it, until an observing callback has made a native call (LR is
   gone) or a call inside was stopped or had arguments on the stack (the stack
   pointer is not put back): Hooker.hook, Emulator.callNative. *)
ReturnsToCaller ==
  Running /\ Top.it = 0 /\ ~disturbed =>
    (pc.kind \in {"back", "stop"} => pc.i = Depth) /\ pc # Args

(* Hooker is in the list once for every function hooked, but a call that was
   answered is not answered again: no callback runs once PC is written. *)
AnsweredOnce == Depth > 0 /\ Top.jump => ~Top.java

(* The levels have their types, and no call is answered by a second hook. *)
CallsInv == CallsTypeOK /\ AnsweredOnce

(* SymHooker answers the same numbers as JHandler, before it.  Still a JNI function
   that returns has read the R0 native code passed, and native code goes on with
   the result of the JNI function in R0; a function that threw does not return
   (SymHooker.hook, JHandler.hook).  It is so because the functions that share
   their numbers with symbol hooks only throw. *)
JniAnswered ==
  [][/\ JniCall /\ r0' = "jni" => r0 = "guest"
     /\ LeaveStub /\ Insn.i \in JniIds => r0 = "jni" \/ disturbed]_callsVars

(* loadLibrary that returns a module has called all its constructors, once
   each, whatever libraries their callbacks have loaded meanwhile. *)
ConstructorsCalled ==
  \A i \in Loaded :
    /\ inits[i] <= Constructors[modules[i].file]
    /\ \/ inits[i] = Constructors[modules[i].file]
       \/ i \in failed
       \/ \E d \in 1 .. Depth : levels[d].for = i

-----------------------------------------------------------------------------
(* The comment in SymHooker.asmCode: the stub of a hooked symbol is PUSH {R4, LR},
   LDR R4, MOV R4, R4, POP {R4, PC}.  Entering it leads to its MOV R4, R4,
   where SymHooker answers the call. *)
HookedSymbolAnswered ==
  [][(Ready /\ ~Top.jump /\ ~Top.quit /\ Insn.kind = "stub") => pc' \in {Mov(id) : id \in SymIds}]_callsVars
=============================================================================
