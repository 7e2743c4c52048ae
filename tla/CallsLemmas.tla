---------------------------- MODULE CallsLemmas ----------------------------
(***************************************************************************)
(* The invariant of GuestCalls, and the steps of native code that keep it: *)
(* what the levels, the registers and the stack are while calls nest in    *)
(* callbacks to any depth.  CallsProofs adds the handlers, the libraries   *)
(* and the theorems.                                                       *)
(***************************************************************************)
EXTENDS GuestCalls, TLAPS

-----------------------------------------------------------------------------
(* Native calls: the types *)

PlaceKinds == {"null", "file", "base", "function", "stub", "jni", "mov", "back", "stop", "args"}

PlaceSet == [kind : PlaceKinds, i : Nat, name : Names \cup {"", "init"}, bit : {0, 1}]

(* A place that native code can get to: a function is one of a loaded library,
   and the address of a symbol stub has no Thumb bit. *)
InReach(p, loaded) ==
  /\ p \in PlaceSet
  /\ p.kind = "function" => p.i \in loaded
  /\ p.kind = "stub" => p.bit = 0
  /\ p.kind = "null" => p = Null

Reachable(p) == InReach(p, Loaded)

(* What the linker has put into the tables of a module. *)
LinkedKinds == {"stub", "function", "null", "file", "base"}

Linked(p, loaded) == InReach(p, loaded) /\ p.kind \in LinkedKinds

ModuleTables(m, loaded) ==
  /\ DOMAIN m.slots \subseteq DOMAIN m.words
  /\ \A name \in DOMAIN m.syms : Linked(m.syms[name], loaded)
  /\ \A name \in DOMAIN m.slots : Linked(m.slots[name], loaded) /\ Linked(m.words[name], loaded)

TablesOK == \A i \in Loaded : ModuleTables(modules[i], Loaded)

LevelSet ==
  [sp : Nat, for : Nat, body : Nat, it : Nat, insn : PlaceSet, lr : PlaceSet,
   java : BOOLEAN, made : BOOLEAN, jump : BOOLEAN, quit : BOOLEAN]

IsBack(p, d) == p.kind = "back" /\ p.i = d
IsStop(p, d) == p.kind = "stop" /\ p.i = d

(* SymHooker and JHandler come first, and then Hooker once for every function. *)
HandlersOK ==
  /\ codeList \in Seq({"sym", "jni", "hooker"})
  /\ Len(codeList) >= 2 /\ codeList[1] = "sym" /\ codeList[2] = "jni"
  /\ \A k \in 3 .. Len(codeList) : codeList[k] = "hooker"
  /\ \A p \in hookers : Reachable(p) /\ p.kind \in {"function", "stub"}

StateOK ==
  /\ levels \in Seq(LevelSet) /\ Reachable(pc) /\ lr \in PlaceSet
  /\ stack \in Seq(PlaceSet)
  /\ \A j \in 1 .. Len(stack) : stack[j].kind \in {"args", "back", "stop"}
  /\ levels # << >> => lr.kind \in {"back", "stop"}
  /\ r0 \in {"guest", "sym", "jni", "hook"} /\ throwing \in BOOLEAN /\ disturbed \in BOOLEAN
  /\ inits \in Seq(Nat) /\ Len(inits) = Len(modules) /\ failed \subseteq DOMAIN modules

(* A level that is in a callback is at a hooked function, which no hook has
   answered, and holds the LR it was entered with. *)
LevelOK(d) ==
  LET l == levels[d]
  IN  /\ l.it <= Done /\ l.sp <= Len(stack)
      /\ l.for # 0 => l.for \in Loaded
      /\ l.body # 0 => l.body \in Loaded
      /\ l.it # 0 => l.insn.kind = "mov" \/ l.insn \in hookers
      /\ l.java => /\ l.it \in 1 .. Len(codeList) /\ l.insn \in hookers /\ ~l.jump
                   /\ l.lr.kind \in {"back", "stop"}

LevelsOK ==
  /\ Depth <= MaxLevel
  /\ \A d \in 1 .. Depth : LevelOK(d)
  /\ \A d \in 1 .. Depth - 1 : levels[d].java /\ levels[d].made
  /\ \A d, e \in 1 .. Depth : d < e => levels[d].sp <= levels[e].sp

(* Outside a callback the handler whose turn it is acts, nothing has changed
   PC at a MOV R4, R4, and a PC that was written is no hooked function. *)
TurnOK ==
  Depth > 0 /\ ~Top.java =>
    /\ Top.it \in 1 .. Len(codeList) => Acts(codeList[Top.it], Top.insn, pc)
    /\ Top.it # 0 /\ Top.insn.kind = "mov" => pc = Top.insn
    /\ Top.jump => pc.kind \in {"back", "stop"} /\ Top.it # 0 /\ Top.insn \in hookers

-----------------------------------------------------------------------------
(* Native calls: the stack *)

(* The instruction that level d is at, and the top of its part of the stack. *)
Cur(d) == IF levels[d].it = 0 THEN pc ELSE levels[d].insn
Ceiling(d) == IF d < Depth THEN levels[d + 1].sp ELSE Len(stack)

(* No return or stop address, and nothing that was popped. *)
Alive(p) == p.kind \notin {"back", "stop", "args"}

(* The innermost level goes back into its function, or may do so by LR. *)
GoesBack ==
  \/ IsBack(Cur(Depth), Depth)
  \/ Alive(Cur(Depth)) /\ IsBack(lr, Depth)
  \/ Top.jump /\ IsBack(pc, Depth)

(* Who goes back into the function of a level, or out of a stub, finds a word of
   the level's own on the stack, and the function has been entered: wherever the
   way back is kept, in PC, in LR, in the LR a callback was entered with or in the
   stack itself. *)
StackOK ==
  /\ \A d \in 1 .. Depth, j \in 1 .. Len(stack) :
       j > levels[d].sp /\ IsBack(stack[j], d) => j >= levels[d].sp + 2 /\ levels[d].body # 0
  /\ \A d \in 1 .. Depth - 1 : ~IsBack(lr, d)
  /\ \A d \in 1 .. Depth :
       levels[d].java /\ IsBack(levels[d].lr, d) => Ceiling(d) > levels[d].sp /\ levels[d].body # 0
  /\ Depth > 0 =>
       /\ GoesBack => Len(stack) > Top.sp /\ Top.body # 0
       /\ Cur(Depth).kind = "mov" => Len(stack) > Top.sp

(* As long as nothing is disturbed, level d knows its way back: the stop address
   is in LR until the function of the level has pushed it, and on the top of the
   stack from then on, below the way back into the function in a stub. *)
KnowsWay(d) ==
  LET l == levels[d]  c == Cur(d)  top == Ceiling(d)
      back == IF l.java THEN l.lr ELSE lr
  IN  /\ c.kind # "args" /\ (c.kind \in {"back", "stop"} => c.i = d)
      /\ l.body = 0 =>
           /\ c.kind # "back"
           /\ Alive(c) /\ c.kind # "mov" /\ ~l.jump => IsStop(back, d)
           /\ c.kind = "mov" => top > 0 /\ IsStop(stack[top], d)
           /\ l.jump => IsStop(pc, d)
      /\ l.body # 0 /\ c.kind # "stop" =>
           IF c.kind = "mov" THEN top > 1 /\ IsBack(stack[top], d) /\ IsStop(stack[top - 1], d)
           ELSE /\ top > 0 /\ IsStop(stack[top], d)
                /\ Alive(c) /\ ~l.jump => IsBack(back, d)
                /\ l.jump => IsBack(pc, d)
      /\ d = Depth /\ l.java /\ ~l.made => lr = l.lr

WaysOK == ~disturbed => \A d \in 1 .. Depth : KnowsWay(d)

(* Who has written R0 at the stub of a JNI function. *)
JniOK ==
  Depth > 0 =>
    /\ Cur(Depth).kind = "jni" => r0 = "guest" /\ Cur(Depth).i \in JniIds
    /\ Cur(Depth).kind = "mov" /\ Cur(Depth).i \in JniIds =>
         /\ Top.it \in {0, 1} => r0 = "guest"
         /\ Top.it = 2 => r0 = "guest" \/ (r0 = "sym" /\ Top.insn.i \in Unimplemented)
         /\ Top.it > 2 => Top.quit \/ r0 = "jni"

(* The list of modules is one. *)
Listed == \E S : modules \in Seq(S)

CallsIInv ==
  /\ Listed /\ TablesOK /\ HandlersOK /\ StateOK /\ LevelsOK /\ TurnOK /\ StackOK /\ WaysOK
  /\ ConstructorsCalled

JniIInv == CallsIInv /\ JniOK

-----------------------------------------------------------------------------
(* Native calls: handlers and places *)

(* What popping the last item of a stack leaves. *)
LEMMA ButLast ==
  ASSUME NEW S, NEW s \in Seq(S), Len(s) > 0
  PROVE  /\ SubSeq(s, 1, Len(s) - 1) \in Seq(S) /\ Len(SubSeq(s, 1, Len(s) - 1)) = Len(s) - 1
         /\ \A j \in 1 .. Len(s) - 1 : SubSeq(s, 1, Len(s) - 1)[j] = s[j]
<1> DEFINE t == SubSeq(s, 1, Len(s) - 1)
<1>1. t \in Seq(S) /\ \A j \in 1 .. Len(s) - 1 : t[j] = s[j]
  OBVIOUS
<1>2. PICK n \in Nat : n = Len(s)
  OBVIOUS
<1>3. Len(t) = IF 1 <= n - 1 THEN n - 1 - 1 + 1 ELSE 0
  BY <1>2
<1>4. Len(t) = Len(s) - 1
  BY <1>2, <1>3
<1> QED BY <1>1, <1>4, Zenon

(* The handlers of the stubs act at a MOV R4, R4, Hooker at a hooked function. *)
LEMMA ActsMeans ==
  ASSUME NEW h, NEW insn, NEW at
  PROVE  /\ h = "sym" => (Acts(h, insn, at) <=> insn.kind = "mov" /\ insn.i \in SymIds)
         /\ h = "jni" => (Acts(h, insn, at) <=> insn.kind = "mov" /\ insn.i \in JniIds)
         /\ h = "hooker" => (Acts(h, insn, at) <=> at \in hookers)
  BY Zenon DEF Acts

(* The places that are not in a module's tables. *)
LEMMA OwnPlaces ==
  ASSUME NEW d \in Nat
  PROVE  /\ Back(d) \in PlaceSet /\ IsBack(Back(d), d)
         /\ Until(d) \in PlaceSet /\ IsStop(Until(d), d)
         /\ Jni(d) \in PlaceSet /\ Jni(d).kind = "jni" /\ Jni(d).i = d
         /\ Mov(d) \in PlaceSet /\ Mov(d).kind = "mov" /\ Mov(d).i = d
         /\ Args \in PlaceSet /\ Args.kind = "args"
         /\ Null \in PlaceSet /\ Null.kind = "null"
  BY Zenon DEF Back, Until, Jni, Mov, Args, Null, Place, PlaceSet, PlaceKinds, IsBack, IsStop

(* More modules leave every place reachable. *)
LEMMA ReachGrows ==
  ASSUME NEW loaded, NEW more, loaded \subseteq more, NEW p
  PROVE  /\ InReach(p, loaded) => InReach(p, more)
         /\ Linked(p, loaded) => Linked(p, more)
  BY Zenon DEF InReach, Linked

-----------------------------------------------------------------------------
(* Native calls: levels that wait in a callback *)

Resting(l, loaded, hooked, n) ==
  /\ l.java /\ l.made /\ ~l.jump
  /\ l.it \in 1 .. n /\ l.insn \in hooked /\ l.lr.kind \in {"back", "stop"}
  /\ l.for # 0 => l.for \in loaded
  /\ l.body # 0 => l.body \in loaded

CeilingIn(b, s, d) == IF d < Len(b) THEN b[d + 1].sp ELSE Len(s)

(* The levels b with the stack s, and a list of n handlers. *)
RestOK(b, s, loaded, hooked, n) ==
  /\ b \in Seq(LevelSet) /\ Len(b) <= MaxLevel
  /\ \A d \in 1 .. Len(b) : Resting(b[d], loaded, hooked, n) /\ b[d].sp <= Len(s)
  /\ \A d, e \in 1 .. Len(b) : d < e => b[d].sp <= b[e].sp
  /\ \A d \in 1 .. Len(b), j \in 1 .. Len(s) :
       j > b[d].sp /\ IsBack(s[j], d) => j >= b[d].sp + 2 /\ b[d].body # 0
  /\ \A d \in 1 .. Len(b) :
       IsBack(b[d].lr, d) => CeilingIn(b, s, d) > b[d].sp /\ b[d].body # 0

RestWays(b, s) ==
  \A d \in 1 .. Len(b) :
    /\ b[d].body = 0 => IsStop(b[d].lr, d)
    /\ b[d].body # 0 => /\ CeilingIn(b, s, d) > 0 /\ IsStop(s[CeilingIn(b, s, d)], d)
                        /\ IsBack(b[d].lr, d)

(* The variables that do not change while the levels do. *)
Steady == UNCHANGED <<codeList, hookers>> /\ Loaded \subseteq Loaded'

(* More modules leave the levels as they are. *)
LEMMA RestGrows ==
  ASSUME NEW b, NEW s, RestOK(b, s, Loaded, hookers, Len(codeList)), Steady
  PROVE  RestOK(b, s, Loaded', hookers', Len(codeList'))
  BY Zenon DEF RestOK, Resting, Steady

(* A level below the innermost, or one in a callback. *)
LEMMA WaysOfResting ==
  ASSUME HandlersOK, NEW d \in 1 .. Depth, KnowsWay(d), levels[d].java, levels[d].it # 0,
         levels[d].insn \in hookers, ~levels[d].jump
  PROVE  /\ levels[d].body = 0 => IsStop(levels[d].lr, d)
         /\ levels[d].body # 0 => /\ Ceiling(d) > 0 /\ IsStop(stack[Ceiling(d)], d)
                                  /\ IsBack(levels[d].lr, d)
<1>1. Cur(d) = levels[d].insn /\ Cur(d).kind \in {"function", "stub"}
  BY Zenon DEF Cur, HandlersOK
<1> QED BY <1>1, Zenon DEF KnowsWay, Alive

(* While the host's code runs, every level waits in a callback. *)
LEMMA MarkedRests ==
  ASSUME CallsIInv, Hosting
  PROVE  /\ RestOK(Marked, stack, Loaded, hookers, Len(codeList))
         /\ ~disturbed => RestWays(Marked, stack)
         /\ Len(Marked) = Depth
         /\ \A d \in 1 .. Depth : Marked[d].for = levels[d].for
<1> USE DEF CallsIInv
<1>1. CASE levels = << >>
  <2>1. Marked = << >> /\ Len(Marked) = 0 /\ Depth = 0
    BY <1>1, Zenon DEF Marked, Depth
  <2>2. MaxLevel >= 0 /\ << >> \in Seq(LevelSet)
    BY CallsAssumption
  <2> QED BY <2>1, <2>2 DEF RestOK, RestWays
<1>2. CASE levels # << >>
  <2>1. levels \in Seq(LevelSet) /\ Depth \in Nat \ {0} /\ stack \in Seq(PlaceSet)
    BY <1>2 DEF StateOK, Depth
  <2>2. Top \in LevelSet /\ Top.java /\ Depth \in 1 .. Depth
    BY <1>2, <2>1 DEF Hosting, Top, Depth
  <2> DEFINE new == [Top EXCEPT !.made = TRUE]
  <2>3. /\ new \in LevelSet /\ new.made
        /\ new.sp = Top.sp /\ new.for = Top.for /\ new.body = Top.body /\ new.it = Top.it
        /\ new.insn = Top.insn /\ new.lr = Top.lr /\ new.java = Top.java /\ new.jump = Top.jump
    BY <2>2, Zenon DEF LevelSet
  <2>4. Marked = [levels EXCEPT ![Depth] = new]
    BY <1>2, Zenon DEF Marked, SetTop
  <2> HIDE DEF new
  <2>5. /\ Marked \in Seq(LevelSet) /\ Len(Marked) = Depth
        /\ Marked[Depth] = new
        /\ \A d \in 1 .. Depth - 1 : Marked[d] = levels[d]
    BY <2>1, <2>2, <2>3, <2>4 DEF Depth
  <2>6. \A d \in 1 .. Depth :
          /\ Marked[d].sp = levels[d].sp /\ Marked[d].for = levels[d].for
          /\ Marked[d].body = levels[d].body /\ Marked[d].it = levels[d].it
          /\ Marked[d].insn = levels[d].insn /\ Marked[d].lr = levels[d].lr
          /\ Marked[d].java /\ Marked[d].made /\ levels[d].java
          /\ Marked[d].jump = levels[d].jump
    <3> TAKE d \in 1 .. Depth
    <3>1. CASE d = Depth
      BY <3>1, <2>1, <2>2, <2>3, <2>5, Zenon DEF Top
    <3>2. CASE d # Depth
      BY <3>2, <2>1, <2>5 DEF LevelsOK
    <3> QED BY <3>1, <3>2, Zenon
  <2>7. \A d \in 1 .. Depth : CeilingIn(Marked, stack, d) = Ceiling(d)
    BY <2>1, <2>5, <2>6 DEF CeilingIn, Ceiling
  <2>8. \A d \in 1 .. Depth : LevelOK(d) /\ Depth <= MaxLevel
    BY Zenon DEF LevelsOK
  <2>9. \A d \in 1 .. Depth : Resting(Marked[d], Loaded, hookers, Len(codeList))
                              /\ Marked[d].sp <= Len(stack)
    BY <2>6, <2>8, Zenon DEF Resting, LevelOK
  <2>10. \A d, e \in 1 .. Depth : d < e => Marked[d].sp <= Marked[e].sp
    BY <2>6, Zenon DEF LevelsOK
  <2>11. \A d \in 1 .. Depth, j \in 1 .. Len(stack) :
           j > Marked[d].sp /\ IsBack(stack[j], d) => j >= Marked[d].sp + 2 /\ Marked[d].body # 0
    BY <2>6, Zenon DEF StackOK
  <2>12. \A d \in 1 .. Depth :
           IsBack(Marked[d].lr, d) => CeilingIn(Marked, stack, d) > Marked[d].sp /\ Marked[d].body # 0
    BY <2>6, <2>7, Zenon DEF StackOK
  <2>13. ~disturbed => RestWays(Marked, stack)
    <3> SUFFICES ASSUME ~disturbed, NEW d \in 1 .. Depth
                 PROVE  /\ Marked[d].body = 0 => IsStop(Marked[d].lr, d)
                        /\ Marked[d].body # 0 => /\ CeilingIn(Marked, stack, d) > 0
                                                 /\ IsStop(stack[CeilingIn(Marked, stack, d)], d)
                                                 /\ IsBack(Marked[d].lr, d)
      BY <2>5, Zenon DEF RestWays
    <3>1. KnowsWay(d) /\ LevelOK(d)
      BY <2>8, Zenon DEF WaysOK
    <3>2. levels[d].java /\ levels[d].it # 0 /\ levels[d].insn \in hookers /\ ~levels[d].jump
      BY <2>6, <3>1 DEF LevelOK
    <3>3. /\ levels[d].body = 0 => IsStop(levels[d].lr, d)
          /\ levels[d].body # 0 => /\ Ceiling(d) > 0 /\ IsStop(stack[Ceiling(d)], d)
                                   /\ IsBack(levels[d].lr, d)
      BY <3>1, <3>2, WaysOfResting, Zenon
    <3> QED BY <3>3, <2>6, <2>7, Zenon
  <2>14. RestOK(Marked, stack, Loaded, hookers, Len(codeList))
    BY <2>5, <2>8, <2>9, <2>10, <2>11, <2>12, <2>1, SMTT(30) DEF RestOK
  <2> QED BY <2>5, <2>6, <2>13, <2>14, Zenon
<1> QED BY <1>1, <1>2, Zenon

(* So do the levels below one that ends. *)
LEMMA BelowRests ==
  ASSUME CallsIInv, Depth > 0
  PROVE  /\ RestOK(Below, stack, Loaded, hookers, Len(codeList))
         /\ ~disturbed /\ Len(stack) <= Top.sp => RestWays(Below, stack)
         /\ Len(Below) = Depth - 1
         /\ \A d \in 1 .. Depth - 1 : Below[d] = levels[d]
<1> USE DEF CallsIInv
<1>1. levels \in Seq(LevelSet) /\ Depth \in Nat \ {0} /\ stack \in Seq(PlaceSet) /\ Len(stack) \in Nat
  BY DEF StateOK, Depth
<1>2. /\ Below \in Seq(LevelSet) /\ Len(Below) = Depth - 1
      /\ \A d \in 1 .. Depth - 1 : Below[d] = levels[d]
  BY <1>1, ButLast, Zenon DEF Below, Depth
<1>3. Depth <= MaxLevel /\ (\A d \in 1 .. Depth : LevelOK(d)) /\ Depth - 1 <= MaxLevel
  BY <1>1, CallsAssumption DEF LevelsOK
<1>4. \A d \in 1 .. Depth - 1 : levels[d].java /\ levels[d].made
  BY Zenon DEF LevelsOK
<1>5. \A d \in 1 .. Depth : levels[d] \in LevelSet /\ levels[d].sp \in Nat
  <2>1. \A d \in 1 .. Depth : levels[d] \in LevelSet
    BY <1>1 DEF Depth
  <2> QED BY <2>1, Zenon DEF LevelSet
<1>6. Top.sp <= Len(stack) /\ Top.sp = levels[Depth].sp
  BY <1>1, <1>3 DEF LevelOK, Top
<1>7. \A d \in 1 .. Depth - 1 :
        CeilingIn(Below, stack, d) >= Ceiling(d) /\ Ceiling(d) \in Nat
        /\ CeilingIn(Below, stack, d) \in Nat
  BY <1>1, <1>2, <1>5, <1>6 DEF CeilingIn, Ceiling
<1>8. Len(stack) <= Top.sp => \A d \in 1 .. Depth - 1 : CeilingIn(Below, stack, d) = Ceiling(d)
  BY <1>1, <1>2, <1>5, <1>6 DEF CeilingIn, Ceiling
<1>9. \A d \in 1 .. Len(Below) : Resting(Below[d], Loaded, hookers, Len(codeList))
                                 /\ Below[d].sp <= Len(stack)
  <2> TAKE d \in 1 .. Len(Below)
  <2>1. d \in 1 .. Depth /\ d \in 1 .. Depth - 1 /\ Below[d] = levels[d]
    BY <1>1, <1>2
  <2>2. LevelOK(d) /\ levels[d].java /\ levels[d].made
    BY <1>3, <1>4, <2>1, Zenon
  <2> QED BY <2>1, <2>2, Zenon DEF Resting, LevelOK
<1>10. \A d, e \in 1 .. Len(Below) : d < e => Below[d].sp <= Below[e].sp
  BY <1>1, <1>2 DEF LevelsOK
<1>11. \A d \in 1 .. Len(Below), j \in 1 .. Len(stack) :
         j > Below[d].sp /\ IsBack(stack[j], d) => j >= Below[d].sp + 2 /\ Below[d].body # 0
  BY <1>1, <1>2 DEF StackOK
<1>12. \A d \in 1 .. Len(Below) :
         IsBack(Below[d].lr, d) => CeilingIn(Below, stack, d) > Below[d].sp /\ Below[d].body # 0
  <2> TAKE d \in 1 .. Len(Below)
  <2>1. d \in 1 .. Depth /\ d \in 1 .. Depth - 1 /\ Below[d] = levels[d]
    BY <1>1, <1>2
  <2>2. IsBack(levels[d].lr, d) => Ceiling(d) > levels[d].sp /\ levels[d].body # 0
    BY <1>4, <2>1, Zenon DEF StackOK
  <2> QED BY <1>5, <1>7, <2>1, <2>2
<1>13. ~disturbed /\ Len(stack) <= Top.sp => RestWays(Below, stack)
  <2> SUFFICES ASSUME ~disturbed, Len(stack) <= Top.sp, NEW d \in 1 .. Depth - 1
               PROVE  /\ Below[d].body = 0 => IsStop(Below[d].lr, d)
                      /\ Below[d].body # 0 => /\ CeilingIn(Below, stack, d) > 0
                                              /\ IsStop(stack[CeilingIn(Below, stack, d)], d)
                                              /\ IsBack(Below[d].lr, d)
    BY <1>2, Zenon DEF RestWays
  <2>1. d \in 1 .. Depth /\ Below[d] = levels[d] /\ CeilingIn(Below, stack, d) = Ceiling(d)
    BY <1>1, <1>2, <1>8
  <2>2. KnowsWay(d) /\ LevelOK(d) /\ levels[d].java
    BY <1>3, <1>4, <2>1, Zenon DEF WaysOK
  <2>3. levels[d].it # 0 /\ levels[d].insn \in hookers /\ ~levels[d].jump
    BY <2>2 DEF LevelOK
  <2> QED BY <2>1, <2>2, <2>3, WaysOfResting
<1> QED BY <1>2, <1>3, <1>9, <1>10, <1>11, <1>12, <1>13, Zenon DEF RestOK

(* The callback of the innermost level goes on: no level runs. *)
LEMMA RestStep ==
  ASSUME Listed', TablesOK', HandlersOK', StateOK', ConstructorsCalled',
         RestOK(levels', stack', Loaded', hookers', Len(codeList')),
         ~disturbed' => RestWays(levels', stack'),
         \A d \in 1 .. Len(levels') - 1 : ~IsBack(lr', d),
         Len(levels') > 0 /\ IsBack(lr', Len(levels')) =>
           /\ Len(stack') > levels'[Len(levels')].sp
           /\ levels'[Len(levels')].body # 0
  PROVE  CallsIInv'
<1>1. levels' \in Seq(LevelSet) /\ Depth' = Len(levels') /\ Depth' \in Nat /\ Len(stack') \in Nat
  BY DEF StateOK, Depth
<1>2. \A d \in 1 .. Depth' : levels'[d] \in LevelSet
  BY <1>1
<1>3. \A d \in 1 .. Depth' : Resting(levels'[d], Loaded', hookers', Len(codeList')) /\ levels'[d].sp <= Len(stack')
  BY <1>1, Zenon DEF RestOK
<1>4. \A p \in hookers' : p.kind \in {"function", "stub"}
  BY Zenon DEF HandlersOK
<1>5. \A d \in 1 .. Depth' :
        /\ Cur(d)' = levels'[d].insn /\ levels'[d].insn \in hookers'
        /\ levels'[d].java /\ levels'[d].made /\ ~levels'[d].jump
        /\ Cur(d)'.kind \in {"function", "stub"}
        /\ Ceiling(d)' = CeilingIn(levels', stack', d)
  BY <1>1, <1>3, <1>4 DEF Cur, Resting, Ceiling, CeilingIn
<1>6. Depth' > 0 => Depth' \in 1 .. Depth' /\ Top' = levels'[Depth']
  BY <1>1 DEF Top
<1>7. LevelsOK'
  <2>1. \A d \in 1 .. Depth' : LevelOK(d)'
    <3> TAKE d \in 1 .. Depth'
    <3>1. Resting(levels'[d], Loaded', hookers', Len(codeList')) /\ levels'[d].sp <= Len(stack')
      BY <1>3, Zenon
    <3>2. Len(codeList') \in Nat
      BY DEF HandlersOK
    <3> QED BY <3>1, <3>2 DEF LevelOK, Resting, Done
  <2>2. Depth' <= MaxLevel /\ \A d, e \in 1 .. Depth' : d < e => levels'[d].sp <= levels'[e].sp
    BY <1>1, Zenon DEF RestOK
  <2>3. \A d \in 1 .. Depth' - 1 : levels'[d].java /\ levels'[d].made
    BY <1>1, <1>5
  <2> QED BY <2>1, <2>2, <2>3, Zenon DEF LevelsOK
<1>8. TurnOK'
  BY <1>5, <1>6, Zenon DEF TurnOK
<1>9. StackOK'
  <2>1. \A d \in 1 .. Depth', j \in 1 .. Len(stack') :
          j > levels'[d].sp /\ IsBack(stack'[j], d) => j >= levels'[d].sp + 2 /\ levels'[d].body # 0
    BY <1>1, Zenon DEF RestOK
  <2>2. \A d \in 1 .. Depth' :
          IsBack(levels'[d].lr, d) => Ceiling(d)' > levels'[d].sp /\ levels'[d].body # 0
    BY <1>1, <1>5, Zenon DEF RestOK
  <2>3. \A d \in 1 .. Depth' - 1 : ~IsBack(lr', d)
    BY <1>1, Zenon
  <2>4. Depth' > 0 => /\ ~IsBack(Cur(Depth)', Depth') /\ Cur(Depth)'.kind # "mov" /\ ~Top'.jump
                      /\ IsBack(lr', Depth') => Len(stack') > Top'.sp /\ Top'.body # 0
    BY <1>1, <1>5, <1>6, Zenon DEF IsBack
  <2> QED BY <2>1, <2>2, <2>3, <2>4, Zenon DEF StackOK, GoesBack
<1>10. WaysOK'
  <2> SUFFICES ASSUME ~disturbed', NEW d \in 1 .. Depth' PROVE KnowsWay(d)'
    BY Zenon DEF WaysOK
  <2>1. /\ levels'[d].body = 0 => IsStop(levels'[d].lr, d)
        /\ levels'[d].body # 0 => /\ Ceiling(d)' > 0 /\ IsStop(stack'[Ceiling(d)'], d)
                                  /\ IsBack(levels'[d].lr, d)
    BY <1>1, <1>5, Zenon DEF RestWays
  <2> QED BY <1>5, <2>1, Zenon DEF KnowsWay, Alive
<1> QED BY <1>7, <1>8, <1>9, <1>10, Zenon DEF CallsIInv

(* A level starts on top of levels that wait. *)
LEMMA EnterStep ==
  ASSUME NEW b, NEW s \in Seq(PlaceSet), NEW module,
         Listed', TablesOK', HandlersOK', StateOK', ConstructorsCalled',
         RestOK(b, s, Loaded', hookers', Len(codeList')), Len(b) < MaxLevel,
         ~disturbed' => RestWays(b, s),
         levels' = Append(b, Level(Len(s), module)),
         lr' = Until(Len(b) + 1), stack' = s \/ stack' = Append(s, Args),
         module # 0 => module \in Loaded',
         pc'.kind \in LinkedKinds
  PROVE  CallsIInv'
<1> DEFINE n == Len(s)
<1> DEFINE new == Level(n, module)
<1>1. b \in Seq(LevelSet) /\ Len(b) \in Nat /\ n \in Nat
  BY DEF RestOK
<1>2. levels' \in Seq(LevelSet) /\ Depth' = Len(levels') /\ Depth' \in Nat /\ Len(stack') \in Nat
  BY DEF StateOK, Depth
<1>3. /\ new.sp = n /\ new.for = module /\ new.body = 0 /\ new.it = 0
      /\ ~new.java /\ ~new.made /\ ~new.jump /\ ~new.quit
  BY Zenon DEF Level
<1>4. levels' = Append(b, new)
  BY Zenon
<1> HIDE DEF new
<1>5. /\ Depth' = Len(b) + 1 /\ Top' = new /\ levels'[Depth'] = new
      /\ \A d \in 1 .. Depth' - 1 : levels'[d] = b[d]
  BY <1>1, <1>2, <1>4 DEF Top
<1>6. /\ Len(stack') \in {n, n + 1}
      /\ \A j \in 1 .. n : stack'[j] = s[j]
      /\ \A j \in 1 .. Len(stack') : j > n => stack'[j].kind = "args"
  <2>1. CASE stack' = s
    BY <2>1, <1>1
  <2>2. CASE stack' = Append(s, Args)
    BY <2>2, <1>1, OwnPlaces
  <2> QED BY <2>1, <2>2, Zenon
<1> HIDE DEF n
<1>7. \A d \in 1 .. Depth' - 1 : Resting(b[d], Loaded', hookers', Len(codeList')) /\ b[d].sp <= n
                                 /\ b[d].sp \in Nat
  <2>1. \A d \in 1 .. Depth' - 1 : b[d] \in LevelSet /\ d \in 1 .. Len(b)
    BY <1>1, <1>5
  <2> QED BY <2>1, Zenon DEF RestOK, LevelSet, n
<1>8. \A p \in hookers' : p.kind \in {"function", "stub"}
  BY Zenon DEF HandlersOK
<1>9. \A d \in 1 .. Depth' - 1 :
        /\ Cur(d)' = b[d].insn /\ b[d].insn \in hookers'
        /\ b[d].java /\ b[d].made /\ ~b[d].jump
        /\ Cur(d)'.kind \in {"function", "stub"}
  BY <1>1, <1>5, <1>7, <1>8, SMTT(20) DEF Cur, Resting
<1>10. \A d \in 1 .. Depth' - 1 : Ceiling(d)' = CeilingIn(b, s, d) /\ CeilingIn(b, s, d) \in 0 .. n
  <2> TAKE d \in 1 .. Depth' - 1
  <2>1. CASE d = Depth' - 1
    BY <2>1, <1>1, <1>3, <1>5 DEF Ceiling, CeilingIn, n
  <2>2. CASE d # Depth' - 1
    <3>1. d + 1 \in 1 .. Depth' - 1 /\ d < Len(b) /\ d < Depth'
      BY <2>2, <1>1, <1>5
    <3>2. b[d + 1].sp \in 0 .. n /\ levels'[d + 1] = b[d + 1]
      BY <1>1, <1>5, <1>7, <3>1
    <3> QED BY <3>1, <3>2, Zenon DEF Ceiling, CeilingIn
  <2> QED BY <2>1, <2>2, Zenon
<1>11. Cur(Depth)' = pc' /\ Depth' \in 1 .. Depth' /\ Depth' > 0
  BY <1>1, <1>3, <1>5 DEF Cur
<1>12. IsStop(lr', Depth') /\ lr'.kind = "stop"
  BY <1>1, <1>5, OwnPlaces DEF IsStop
<1>13. LevelsOK'
  <2>1. \A d \in 1 .. Depth' : LevelOK(d)'
    <3> TAKE d \in 1 .. Depth'
    <3>1. Len(codeList') \in Nat
      BY DEF HandlersOK
    <3>2. CASE d = Depth'
      BY <3>1, <3>2, <1>1, <1>3, <1>5, <1>6 DEF LevelOK, Done
    <3>3. CASE d # Depth'
      <4>1. d \in 1 .. Depth' - 1 /\ levels'[d] = b[d]
        BY <3>3, <1>2, <1>5
      <4>2. Resting(b[d], Loaded', hookers', Len(codeList')) /\ b[d].sp <= Len(stack')
        BY <4>1, <1>1, <1>6, <1>7
      <4> QED BY <4>1, <4>2, <3>1 DEF LevelOK, Resting, Done
    <3> QED BY <3>2, <3>3, Zenon
  <2>2. Depth' <= MaxLevel
    BY <1>1, <1>5, CallsAssumption
  <2>3. \A d, e \in 1 .. Depth' : d < e => levels'[d].sp <= levels'[e].sp
    <3> TAKE d, e \in 1 .. Depth'
    <3>1. CASE e = Depth'
      BY <3>1, <1>2, <1>3, <1>5, <1>7
    <3>2. CASE e # Depth'
      BY <3>2, <1>1, <1>2, <1>5 DEF RestOK
    <3> QED BY <3>1, <3>2, Zenon
  <2>4. \A d \in 1 .. Depth' - 1 : levels'[d].java /\ levels'[d].made
    BY <1>5, <1>9, Zenon
  <2> QED BY <2>1, <2>2, <2>3, <2>4, Zenon DEF LevelsOK
<1>14. TurnOK'
  BY <1>3, <1>5, SMTT(30) DEF TurnOK
<1>15. StackOK'
  <2>1. ASSUME NEW d \in 1 .. Depth', NEW j \in 1 .. Len(stack'), j > levels'[d].sp, IsBack(stack'[j], d)
        PROVE  j >= levels'[d].sp + 2 /\ levels'[d].body # 0
    <3>1. j \in 1 .. n /\ stack'[j] = s[j]
      BY <2>1, <1>1, <1>6, SMTT(30) DEF IsBack
    <3>2. d \in 1 .. Len(b) /\ levels'[d] = b[d]
      BY <2>1, <3>1, <1>1, <1>3, <1>5
    <3> QED BY <2>1, <3>1, <3>2, Zenon DEF RestOK, n
  <2>2. \A d \in 1 .. Depth' :
          levels'[d].java /\ IsBack(levels'[d].lr, d) => Ceiling(d)' > levels'[d].sp /\ levels'[d].body # 0
    <3> TAKE d \in 1 .. Depth'
    <3>1. CASE d = Depth'
      BY <3>1, <1>3, <1>5, Zenon
    <3>2. CASE d # Depth'
      <4>1. d \in 1 .. Depth' - 1 /\ d \in 1 .. Len(b) /\ levels'[d] = b[d]
        BY <3>2, <1>1, <1>5
      <4>2. Ceiling(d)' = CeilingIn(b, s, d)
        BY <4>1, <1>10, Zenon
      <4> QED BY <4>1, <4>2, Zenon DEF RestOK
    <3> QED BY <3>1, <3>2, Zenon
  <2>3. \A d \in 1 .. Depth' : ~IsBack(lr', d)
    BY <1>12, Zenon DEF IsBack
  <2>4. /\ ~IsBack(Cur(Depth)', Depth') /\ Cur(Depth)'.kind # "mov" /\ ~Top'.jump
        /\ ~IsBack(lr', Depth')
    BY <1>3, <1>5, <1>11, <1>12, Zenon DEF IsBack, LinkedKinds
  <2> QED BY <2>1, <2>2, <2>3, <2>4, <1>2, SMTT(30) DEF StackOK, GoesBack
<1>16. WaysOK'
  <2> SUFFICES ASSUME ~disturbed', NEW d \in 1 .. Depth' PROVE KnowsWay(d)'
    BY Zenon DEF WaysOK
  <2>1. CASE d = Depth'
    BY <2>1, <1>3, <1>5, <1>11, <1>12, Zenon DEF KnowsWay, LinkedKinds
  <2>2. CASE d # Depth'
    <3>1. d \in 1 .. Depth' - 1 /\ d \in 1 .. Len(b) /\ levels'[d] = b[d]
      BY <2>2, <1>1, <1>5
    <3>2. Ceiling(d)' = CeilingIn(b, s, d) /\ CeilingIn(b, s, d) \in 0 .. n
      BY <3>1, <1>10, Zenon
    <3>3. /\ b[d].body = 0 => IsStop(b[d].lr, d)
          /\ b[d].body # 0 => /\ CeilingIn(b, s, d) > 0 /\ IsStop(s[CeilingIn(b, s, d)], d)
                              /\ IsBack(b[d].lr, d)
      BY <3>1, Zenon DEF RestWays
    <3>4. /\ levels'[d].body = 0 => IsStop(levels'[d].lr, d)
          /\ levels'[d].body # 0 => /\ Ceiling(d)' > 0 /\ IsStop(stack'[Ceiling(d)'], d)
                                    /\ IsBack(levels'[d].lr, d)
      BY <3>1, <3>2, <3>3, <1>1, <1>6
    <3>5. /\ Cur(d)'.kind \in {"function", "stub"} /\ levels'[d].java /\ levels'[d].made /\ ~levels'[d].jump
      BY <3>1, <1>9, Zenon
    <3> QED BY <3>4, <3>5, Zenon DEF KnowsWay, Alive
  <2> QED BY <2>1, <2>2, Zenon
<1> QED BY <1>13, <1>14, <1>15, <1>16, Zenon DEF CallsIInv

-----------------------------------------------------------------------------
(* Native calls: a step of the innermost level *)

unchangedAround == <<modules, codeList, hookers, throwing, inits, failed>>

(* What a step of the innermost level may do to the stack. *)
StackStep ==
  \/ stack' = stack
  \/ /\ stack' = Append(stack, lr)
     /\ IsBack(lr, Depth) => Len(stack) > Top.sp /\ Top.body # 0
  \/ Len(stack) > Top.sp /\ stack' = SubSeq(stack, 1, Len(stack) - 1)

(* What StackOK and WaysOK say of the innermost level. *)
TopStackOK ==
  /\ Top.java /\ IsBack(Top.lr, Depth) => Len(stack) > Top.sp /\ Top.body # 0
  /\ GoesBack => Len(stack) > Top.sp /\ Top.body # 0
  /\ Cur(Depth).kind = "mov" => Len(stack) > Top.sp

(* The stack keeps the words of the other levels. *)
LEMMA StackStepKeeps ==
  ASSUME StateOK, Depth > 0, Top.sp \in Nat, Top.sp <= Len(stack), StackStep, lr.kind \in {"back", "stop"}
  PROVE  /\ stack' \in Seq(PlaceSet)
         /\ \A j \in 1 .. Len(stack') : stack'[j].kind \in {"args", "back", "stop"}
         /\ Top.sp <= Len(stack')
         /\ \A j \in 1 .. Top.sp : stack'[j] = stack[j]
         /\ \A j \in 1 .. Len(stack') :
              \/ j <= Len(stack) /\ stack'[j] = stack[j]
              \/ /\ j = Len(stack) + 1 /\ stack'[j] = lr
                 /\ IsBack(lr, Depth) => Len(stack) > Top.sp /\ Top.body # 0
<1>1. stack \in Seq(PlaceSet) /\ lr \in PlaceSet /\ Len(stack) \in Nat
  BY DEF StateOK
<1>2. \A j \in 1 .. Len(stack) : stack[j].kind \in {"args", "back", "stop"}
  BY Zenon DEF StateOK
<1>3. CASE stack' = stack
  BY <1>1, <1>2, <1>3
<1>4. CASE stack' = Append(stack, lr) /\ (IsBack(lr, Depth) => Len(stack) > Top.sp /\ Top.body # 0)
  <2>1. /\ stack' \in Seq(PlaceSet) /\ Len(stack') = Len(stack) + 1
        /\ stack'[Len(stack) + 1] = lr /\ \A j \in 1 .. Len(stack) : stack'[j] = stack[j]
    BY <1>1, <1>4
  <2>2. \A j \in 1 .. Len(stack') : j = Len(stack) + 1 \/ j \in 1 .. Len(stack)
    BY <1>1, <2>1
  <2> QED BY <1>1, <1>2, <1>4, <2>1, <2>2
<1>5. CASE Len(stack) > Top.sp /\ stack' = SubSeq(stack, 1, Len(stack) - 1)
  <2>1. Len(stack) > 0
    BY <1>1, <1>5
  <2>2. /\ stack' \in Seq(PlaceSet) /\ Len(stack') = Len(stack) - 1
        /\ \A j \in 1 .. Len(stack) - 1 : stack'[j] = stack[j]
    BY <1>1, <1>5, <2>1, ButLast, Zenon
  <2> QED BY <1>1, <1>2, <1>5, <2>2
<1> QED BY <1>3, <1>4, <1>5, Zenon DEF StackStep

(* A step that changes nothing of the other levels. *)
LEMMA TopStep ==
  ASSUME CallsIInv, Depth > 0, Listed', UNCHANGED unchangedAround,
         NEW new \in LevelSet, levels' = SetTop(new), new.sp = Top.sp, new.for = Top.for,
         Reachable(pc)', lr' \in PlaceSet, lr' = lr \/ IsBack(lr', Depth), r0' \in {"guest", "sym", "jni", "hook"},
         Top.body # 0 => new.body # 0,
         StackStep, disturbed' \in BOOLEAN, disturbed => disturbed',
         LevelOK(Depth)', TurnOK', TopStackOK', ~disturbed' => KnowsWay(Depth)'
  PROVE  CallsIInv'
<1> USE DEF CallsIInv
<1>1. levels \in Seq(LevelSet) /\ Depth \in Nat \ {0} /\ Len(stack) \in Nat
  BY DEF StateOK, Depth
<1>2. /\ levels' \in Seq(LevelSet) /\ Depth' = Depth /\ levels'[Depth] = new /\ Top' = new
      /\ \A d \in 1 .. Depth - 1 : levels'[d] = levels[d]
  BY <1>1 DEF SetTop, Depth, Top
<1>3. \A d \in 1 .. Depth : LevelOK(d) /\ levels[d] \in LevelSet /\ levels[d].sp \in Nat
  <2>1. \A d \in 1 .. Depth : levels[d] \in LevelSet
    BY <1>1 DEF Depth
  <2> QED BY <2>1, Zenon DEF LevelsOK, LevelSet
<1>4. Top.sp \in Nat /\ Top.sp <= Len(stack) /\ Top = levels[Depth]
  BY <1>1, <1>3 DEF LevelOK, Top
<1>5. lr.kind \in {"back", "stop"} /\ lr'.kind \in {"back", "stop"}
  <2>1. levels # << >>
    BY <1>1 DEF Depth
  <2> QED BY <2>1, Zenon DEF StateOK, IsBack
<1>6. /\ stack' \in Seq(PlaceSet)
      /\ \A j \in 1 .. Len(stack') : stack'[j].kind \in {"args", "back", "stop"}
      /\ Top.sp <= Len(stack')
      /\ \A j \in 1 .. Top.sp : stack'[j] = stack[j]
      /\ \A j \in 1 .. Len(stack') :
           \/ j <= Len(stack) /\ stack'[j] = stack[j]
           \/ /\ j = Len(stack) + 1 /\ stack'[j] = lr
              /\ IsBack(lr, Depth) => Len(stack) > Top.sp /\ Top.body # 0
  BY <1>4, <1>5, StackStepKeeps, Zenon
<1>7. StateOK'
  <2>1. throwing' \in BOOLEAN /\ inits' \in Seq(Nat) /\ Len(inits') = Len(modules') /\ failed' \subseteq DOMAIN modules'
    BY Zenon DEF StateOK, unchangedAround
  <2> QED BY <1>2, <1>5, <1>6, <2>1, Zenon DEF StateOK
<1>8. TablesOK' /\ HandlersOK' /\ Loaded' = Loaded /\ Done' = Done /\ Len(codeList') = Len(codeList) /\ hookers' = hookers
  BY Zenon DEF TablesOK, HandlersOK, Reachable, Loaded, Done, unchangedAround
<1>9. \A d \in 1 .. Depth : levels'[d].sp = levels[d].sp /\ levels'[d].for = levels[d].for
                            /\ (levels[d].body # 0 => levels'[d].body # 0)
  BY <1>1, <1>2, <1>4, SMTT(30)
<1>10. \A d \in 1 .. Depth - 1 : /\ levels[d].java /\ levels[d].made /\ levels[d].it # 0
                                 /\ Cur(d)' = Cur(d) /\ Ceiling(d)' = Ceiling(d)
                                 /\ Ceiling(d) <= Top.sp /\ Ceiling(d) \in Nat
  <2> TAKE d \in 1 .. Depth - 1
  <2>1. d \in 1 .. Depth /\ d + 1 \in 1 .. Depth /\ d < Depth
    BY <1>1, SMTT(30)
  <2>2. levels[d].java /\ levels[d].made /\ levels[d].it # 0
    BY <1>3, <2>1 DEF LevelsOK, LevelOK
  <2>3. Ceiling(d) = levels[d + 1].sp /\ Ceiling(d)' = Ceiling(d)
    BY <1>2, <1>9, <2>1, Zenon DEF Ceiling
  <2>4. levels[d + 1].sp <= Top.sp
    <3>1. CASE d + 1 = Depth
      BY <1>4, <3>1
    <3>2. CASE d + 1 # Depth
      BY <1>1, <1>4, <2>1, <3>2, SMTT(30) DEF LevelsOK
    <3> QED BY <3>1, <3>2, ZenonT(30)
  <2> QED BY <1>2, <1>3, <2>1, <2>2, <2>3, <2>4, Zenon DEF Cur
<1>11. LevelsOK'
  <2>1. \A d \in 1 .. Depth' : LevelOK(d)'
    <3> TAKE d \in 1 .. Depth'
    <3>1. CASE d = Depth
      BY <3>1, <1>2, Zenon
    <3>2. CASE d # Depth
      <4>1. d \in 1 .. Depth /\ d \in 1 .. Depth - 1 /\ levels'[d] = levels[d] /\ d < Depth
        BY <3>2, <1>1, <1>2, SMTT(30)
      <4>2. levels[d].sp <= Len(stack')
        BY <4>1, <1>1, <1>3, <1>4, <1>6, SMTT(20) DEF LevelsOK
      <4>3. LevelOK(d)
        BY <4>1, <1>3, Zenon
      <4> QED BY <4>1, <4>2, <4>3, <1>8, Zenon DEF LevelOK
    <3> QED BY <3>1, <3>2, Zenon
  <2>2. Depth' <= MaxLevel /\ \A d, e \in 1 .. Depth' : d < e => levels'[d].sp <= levels'[e].sp
    BY <1>2, <1>9, Zenon DEF LevelsOK
  <2>3. \A d \in 1 .. Depth' - 1 : levels'[d].java /\ levels'[d].made
    BY <1>2, <1>10, Zenon
  <2> QED BY <2>1, <2>2, <2>3, Zenon DEF LevelsOK
<1>12. StackOK'
  <2>1. ASSUME NEW d \in 1 .. Depth', NEW j \in 1 .. Len(stack'), j > levels'[d].sp, IsBack(stack'[j], d)
        PROVE  j >= levels'[d].sp + 2 /\ levels'[d].body # 0
    <3>1. d \in 1 .. Depth /\ j > levels[d].sp
      BY <2>1, <1>2, <1>9, Zenon
    <3>2. CASE j <= Len(stack) /\ stack'[j] = stack[j]
      <4>1. j \in 1 .. Len(stack)
        BY <3>2, <1>1
      <4> QED BY <2>1, <3>1, <3>2, <4>1, <1>9, Zenon DEF StackOK
    <3>3. CASE j = Len(stack) + 1 /\ stack'[j] = lr /\ (IsBack(lr, Depth) => Len(stack) > Top.sp /\ Top.body # 0)
      <4>1. d = Depth
        BY <2>1, <3>1, <3>3, <1>1 DEF StackOK
      <4> QED BY <2>1, <3>3, <4>1, <1>1, <1>4, <1>9, SMTT(20)
    <3> QED BY <3>2, <3>3, <1>6, Zenon
  <2>2. \A d \in 1 .. Depth' :
          levels'[d].java /\ IsBack(levels'[d].lr, d) => Ceiling(d)' > levels'[d].sp /\ levels'[d].body # 0
    <3> TAKE d \in 1 .. Depth'
    <3>1. CASE d = Depth
      <4>1. Ceiling(d)' = Len(stack')
        BY <3>1, <1>1, <1>2 DEF Ceiling
      <4> QED BY <3>1, <4>1, <1>2, Zenon DEF TopStackOK
    <3>2. CASE d # Depth
      <4>1. d \in 1 .. Depth /\ d \in 1 .. Depth - 1 /\ levels'[d] = levels[d]
        BY <3>2, <1>1, <1>2, SMTT(30)
      <4> QED BY <4>1, <1>10, Zenon DEF StackOK
    <3> QED BY <3>1, <3>2, Zenon
  <2>3. \A d \in 1 .. Depth' - 1 : ~IsBack(lr', d)
    BY <1>1, <1>2 DEF StackOK, IsBack
  <2> QED BY <2>1, <2>2, <2>3, <1>2, Zenon DEF StackOK, TopStackOK, GoesBack
<1>13. WaysOK'
  <2> SUFFICES ASSUME ~disturbed', NEW d \in 1 .. Depth' PROVE KnowsWay(d)'
    BY Zenon DEF WaysOK
  <2>1. CASE d = Depth
    BY <2>1, <1>2, Zenon
  <2>2. CASE d # Depth
    <3>1. d \in 1 .. Depth /\ d \in 1 .. Depth - 1 /\ levels'[d] = levels[d] /\ d # Depth'
      BY <2>2, <1>1, <1>2
    <3>2. KnowsWay(d) /\ LevelOK(d)
      BY <3>1, <1>3, Zenon DEF WaysOK
    <3>3. levels[d].java /\ levels[d].it # 0 /\ levels[d].insn \in hookers /\ ~levels[d].jump
      BY <3>1, <3>2, <1>10, Zenon DEF LevelOK
    <3>4. /\ levels[d].body = 0 => IsStop(levels[d].lr, d)
          /\ levels[d].body # 0 => /\ Ceiling(d) > 0 /\ IsStop(stack[Ceiling(d)], d)
                                   /\ IsBack(levels[d].lr, d)
      BY <3>1, <3>2, <3>3, WaysOfResting, Zenon
    <3>5. Ceiling(d)' = Ceiling(d) /\ (Ceiling(d) > 0 => stack'[Ceiling(d)] = stack[Ceiling(d)])
      BY <3>1, <1>4, <1>6, <1>10, SMTT(20)
    <3>6. Cur(d)' = levels[d].insn /\ Cur(d)'.kind \in {"function", "stub"}
      BY <3>1, <3>3, <1>10, Zenon DEF Cur, HandlersOK
    <3> QED BY <3>1, <3>3, <3>4, <3>5, <3>6, Zenon DEF KnowsWay, Alive
  <2> QED BY <2>1, <2>2, Zenon
<1>14. ConstructorsCalled'
  <2> SUFFICES ASSUME NEW i \in Loaded
               PROVE  /\ inits[i] <= Constructors[modules[i].file]
                      /\ \/ inits[i] = Constructors[modules[i].file]
                         \/ i \in failed
                         \/ \E d \in 1 .. Depth' : levels'[d].for = i
    BY <1>8, Zenon DEF ConstructorsCalled, unchangedAround
  <2> QED BY <1>2, <1>9, SMTT(20) DEF ConstructorsCalled
<1> QED BY <1>7, <1>8, <1>11, <1>12, <1>13, <1>14, Zenon

(* What the invariant says of the innermost level. *)
InnerOK ==
  /\ Depth \in Nat \ {0} /\ Depth > 0 /\ Top \in LevelSet /\ Top = levels[Depth]
  /\ LevelOK(Depth) /\ TopStackOK /\ (~disturbed => KnowsWay(Depth))
  /\ Ceiling(Depth) = Len(stack) /\ Len(stack) \in Nat /\ Top.sp \in Nat /\ Top.it \in Nat
  /\ Len(codeList) \in Nat /\ Done = Len(codeList) + 1
  /\ lr \in PlaceSet /\ lr.kind \in {"back", "stop"} /\ Reachable(pc) /\ pc \in PlaceSet
  /\ \A p \in hookers : Reachable(p) /\ p.kind \in {"function", "stub"}
  /\ r0 \in {"guest", "sym", "jni", "hook"} /\ disturbed \in BOOLEAN

LEMMA TopFacts ==
  ASSUME CallsIInv, levels # << >>
  PROVE  InnerOK
<1> USE DEF CallsIInv
<1>1. levels \in Seq(LevelSet) /\ Depth \in Nat \ {0} /\ Len(stack) \in Nat
  BY DEF StateOK, Depth
<1>2. Depth \in 1 .. Depth /\ Depth > 0 /\ Top = levels[Depth] /\ ~(Depth < Depth)
  BY <1>1 DEF Top
<1>3. Top \in LevelSet
  BY <1>1, <1>2 DEF Depth
<1>4. LevelOK(Depth) /\ (~disturbed => KnowsWay(Depth))
  BY <1>2, Zenon DEF LevelsOK, WaysOK
<1>5. Ceiling(Depth) = Len(stack)
  BY <1>2, Zenon DEF Ceiling
<1>6. TopStackOK
  BY <1>2, <1>5, Zenon DEF TopStackOK, StackOK, GoesBack
<1>7. Top.sp \in Nat /\ Top.it \in Nat
  BY <1>3, Zenon DEF LevelSet
<1>8. Len(codeList) \in Nat /\ Done = Len(codeList) + 1
  BY DEF HandlersOK, Done
<1>9. lr \in PlaceSet /\ lr.kind \in {"back", "stop"} /\ Reachable(pc) /\ pc \in PlaceSet
  BY Zenon DEF StateOK, Reachable, InReach
<1>10. \A p \in hookers : Reachable(p) /\ p.kind \in {"function", "stub"}
  BY Zenon DEF HandlersOK
<1>11. r0 \in {"guest", "sym", "jni", "hook"} /\ disturbed \in BOOLEAN
  BY Zenon DEF StateOK
<1> QED BY <1>1, <1>2, <1>3, <1>4, <1>5, <1>6, <1>7, <1>8, <1>9, <1>10, <1>11, Zenon DEF InnerOK

(* The innermost level after a step of its own. *)
Installed(new) ==
  /\ Depth' = Depth /\ Top' = new /\ levels'[Depth] = new
  /\ Cur(Depth)' = IF new.it = 0 THEN pc' ELSE new.insn
  /\ Ceiling(Depth)' = Len(stack')
  /\ Done' = Done /\ Loaded' = Loaded /\ hookers' = hookers /\ codeList' = codeList

LEMMA NewTop ==
  ASSUME CallsIInv, levels # << >>, NEW new \in LevelSet, levels' = SetTop(new),
         UNCHANGED unchangedAround
  PROVE  Installed(new)
<1>1. levels \in Seq(LevelSet) /\ Depth \in Nat \ {0}
  BY SMTT(30) DEF StateOK, Depth, CallsIInv
<1>2. Depth' = Depth /\ Top' = new /\ levels'[Depth] = new
  BY <1>1 DEF SetTop, Depth, Top
<1>3. Cur(Depth)' = IF new.it = 0 THEN pc' ELSE new.insn
  BY <1>2, Zenon DEF Cur
<1>4. Ceiling(Depth)' = Len(stack')
  BY <1>1, <1>2 DEF Ceiling
<1> QED BY <1>2, <1>3, <1>4, Zenon DEF unchangedAround, Done, Loaded, Installed


(* Hooker.hook enters the host's function at a hooked function that no hook has
   answered yet, with LR as the level has it. *)
LEMMA HookerStep ==
  ASSUME CallsIInv, Listed', HookerCall
  PROVE  CallsIInv'
<1> DEFINE new == [Top EXCEPT !.lr = lr, !.java = TRUE, !.made = FALSE]
<1>1. /\ levels # << >> /\ ~Top.java /\ Top.it \in 1 .. Len(codeList)
      /\ codeList[Top.it] = "hooker" /\ Top.it # 0
  BY SMTT(30) DEF HookerCall, HookIs, Running, CallsIInv, HandlersOK
<1>2. InnerOK
  BY <1>1, TopFacts, Zenon
<1>3. /\ UNCHANGED unchangedAround /\ levels' = SetTop(new)
      /\ pc' = pc /\ lr' = lr /\ r0' = r0 /\ stack' = stack /\ disturbed' = disturbed
  BY Zenon DEF HookerCall, unchangedInHook, unchangedAround
<1>4. pc \in hookers
  <2>1. Acts(codeList[Top.it], Top.insn, pc)
    BY <1>1, <1>2, Zenon DEF CallsIInv, TurnOK, InnerOK
  <2> QED BY <1>1, <2>1, ActsMeans, Zenon
<1>5. Top.insn \in hookers /\ ~Top.jump
  <2>1. pc.kind \in {"function", "stub"}
    BY <1>2, <1>4, Zenon DEF InnerOK
  <2>2. Top.insn.kind # "mov" /\ ~Top.jump
    BY <1>1, <1>2, <2>1, Zenon DEF CallsIInv, TurnOK, InnerOK
  <2> QED BY <1>1, <1>2, <2>2, Zenon DEF LevelOK, InnerOK
<1>6. /\ new \in LevelSet /\ new.sp = Top.sp /\ new.for = Top.for /\ new.body = Top.body
      /\ new.it = Top.it /\ new.insn = Top.insn /\ new.lr = lr /\ new.java /\ ~new.made
      /\ new.jump = Top.jump
  <2>1. Top \in LevelSet /\ lr \in PlaceSet
    BY <1>2, Zenon DEF InnerOK
  <2> QED BY <2>1, Zenon DEF LevelSet
<1> HIDE DEF new
<1>7. Installed(new)
  BY <1>1, <1>3, <1>6, NewTop, Zenon
<1>8. Cur(Depth) = Top.insn /\ Cur(Depth)' = Top.insn /\ Top.insn.kind \in {"function", "stub"}
  BY <1>1, <1>2, <1>5, <1>6, <1>7, Zenon DEF Cur, InnerOK, Installed
<1>9. LevelOK(Depth)'
  BY <1>1, <1>2, <1>3, <1>5, <1>6, <1>7, SMTT(30) DEF LevelOK, InnerOK, Installed
<1>10. TurnOK'
  BY <1>6, <1>7, Zenon DEF TurnOK, Installed
<1>11. TopStackOK'
  <2>1. Alive(Cur(Depth)) /\ Cur(Depth).kind # "mov" /\ ~IsBack(Cur(Depth), Depth)
    BY <1>8, Zenon DEF Alive, IsBack
  <2>2. IsBack(lr, Depth) => Len(stack) > Top.sp /\ Top.body # 0
    BY <1>2, <2>1, Zenon DEF TopStackOK, GoesBack, InnerOK
  <2>3. Cur(Depth)' = Cur(Depth)
    BY <1>8, ZenonT(30)
  <2> QED BY <1>3, <1>5, <1>6, <1>7, <2>1, <2>2, <2>3, Zenon DEF TopStackOK, GoesBack, Installed
<1>12. ~disturbed' => KnowsWay(Depth)'
  BY <1>1, <1>2, <1>3, <1>5, <1>6, <1>7, <1>8, SMTT(30) DEF KnowsWay, InnerOK, Installed, Alive
<1>13. Reachable(pc)' /\ StackStep
  BY <1>2, <1>3, <1>7, Zenon DEF Reachable, InReach, StackStep, InnerOK, Installed
<1> QED BY <1>2, <1>3, <1>6, <1>9, <1>10, <1>11, <1>12, <1>13, TopStep, Zenon DEF InnerOK

(* The innermost level between two instructions. *)
LEMMA FetchedFacts ==
  ASSUME InnerOK
  PROVE  /\ Fetched \in LevelSet /\ Fetched.sp = Top.sp /\ Fetched.for = Top.for
         /\ Fetched.body = Top.body /\ Fetched.it = 0 /\ Fetched.java = Top.java
         /\ Fetched.jump = Top.jump /\ ~Fetched.made
<1>1. Top \in LevelSet /\ Null \in PlaceSet
  BY OwnPlaces, Zenon DEF InnerOK
<1> QED BY <1>1, Zenon DEF Fetched, LevelSet

(* The way back of level d when it is at c with LR ret and the stack s. *)
WayAt(body, c, ret, s, d) ==
  /\ c.kind # "args" /\ (c.kind \in {"back", "stop"} => c.i = d)
  /\ body = 0 =>
       /\ c.kind # "back"
       /\ Alive(c) /\ c.kind # "mov" => IsStop(ret, d)
       /\ c.kind = "mov" => Len(s) > 0 /\ IsStop(s[Len(s)], d)
  /\ body # 0 /\ c.kind # "stop" =>
       IF c.kind = "mov" THEN Len(s) > 1 /\ IsBack(s[Len(s)], d) /\ IsStop(s[Len(s) - 1], d)
       ELSE Len(s) > 0 /\ IsStop(s[Len(s)], d) /\ (Alive(c) => IsBack(ret, d))

(* What an instruction leaves to be shown: the level fetches the next one. *)
LEMMA NextInsn ==
  ASSUME CallsIInv, Listed', Running, UNCHANGED unchangedByInsn,
         NEW new \in LevelSet, levels' = SetTop(new), new.sp = Top.sp, new.for = Top.for,
         new.it = 0, ~new.java, ~new.jump, new.body = Top.body \/ new.body \in Loaded,
         Reachable(pc)', lr' \in PlaceSet, lr' = lr \/ IsBack(lr', Depth),
         r0' \in {"guest", "sym", "jni", "hook"}, StackStep,
         IsBack(pc', Depth) \/ (Alive(pc') /\ IsBack(lr', Depth)) => Len(stack') > Top.sp /\ new.body # 0,
         pc'.kind = "mov" => Len(stack') > Top.sp,
         ~disturbed => WayAt(new.body, pc', lr', stack', Depth)
  PROVE  CallsIInv'
<1>1. levels # << >> /\ ~Top.java
  BY Zenon DEF Running
<1>2. InnerOK
  BY <1>1, TopFacts, Zenon
<1>3. UNCHANGED unchangedAround /\ disturbed' = disturbed
  BY Zenon DEF unchangedByInsn, unchangedAround
<1>4. Installed(new)
  BY <1>1, <1>3, NewTop, Zenon
<1>5. Cur(Depth)' = pc'
  BY <1>4, Zenon DEF Installed
<1>6. Len(stack') >= Top.sp
  BY <1>2, StackStepKeeps, ZenonT(30) DEF InnerOK, CallsIInv, LevelOK
<1>7. LevelOK(Depth)'
  <2>1. LevelOK(Depth) /\ Top = levels[Depth] /\ Len(codeList) \in Nat /\ Done = Len(codeList) + 1
    BY <1>2, Zenon DEF InnerOK
  <2>2. Done \in Nat
    BY <2>1, SMTT(30)
  <2> QED BY <1>3, <1>4, <1>6, <2>1, <2>2, SMTT(30) DEF LevelOK, Installed
<1>8. TurnOK'
  <2>1. ~(0 \in 1 .. Len(codeList))
    BY <1>2, SMTT(30) DEF InnerOK
  <2> QED BY <1>4, <2>1, Zenon DEF TurnOK, Installed
<1>9. TopStackOK'
  BY <1>4, <1>5, Zenon DEF TopStackOK, GoesBack, Installed
<1>10. ~disturbed' => KnowsWay(Depth)'
  BY <1>3, <1>4, <1>5, Zenon DEF KnowsWay, WayAt, Installed
<1>11. Top.body # 0 => new.body # 0
  <2>1. 0 \notin Loaded
    BY SMTT(30) DEF Loaded, CallsIInv, Listed
  <2> QED BY <2>1, Zenon
<1> QED BY <1>2, <1>3, <1>7, <1>8, <1>9, <1>10, <1>11, TopStep, Zenon DEF InnerOK

(* Who executes an instruction is at it. *)
LEMMA InsnFacts ==
  ASSUME CallsIInv, Ready, ~Top.jump
  PROVE  /\ InnerOK /\ Running /\ ~Top.java /\ Insn = Cur(Depth) /\ Reachable(Insn)
         /\ (Alive(Insn) /\ IsBack(lr, Depth)) \/ IsBack(Insn, Depth) => Len(stack) > Top.sp /\ Top.body # 0
         /\ Insn.kind = "mov" => Len(stack) > Top.sp
         /\ ~disturbed => WayAt(Top.body, Insn, lr, stack, Depth)
<1>1. Running /\ levels # << >> /\ ~Top.java
  BY Zenon DEF Ready, Running
<1>2. InnerOK
  BY <1>1, TopFacts, Zenon
<1>3. Insn = Cur(Depth)
  BY <1>2, Zenon DEF Insn, Cur, InnerOK
<1>4. Reachable(Insn)
  <2>1. CASE Top.it = 0
    BY <1>2, <2>1, Zenon DEF InnerOK, Insn
  <2>2. CASE Top.it # 0
    <3>1. Insn = Top.insn /\ Top.insn \in PlaceSet
      BY <1>2, <2>2, Zenon DEF InnerOK, Insn, LevelSet
    <3>2. Top.insn.kind = "mov" \/ Top.insn \in hookers
      BY <1>2, <2>2, Zenon DEF InnerOK, LevelOK
    <3> QED BY <1>2, <3>1, <3>2, Zenon DEF InnerOK, Reachable, InReach
  <2> QED BY <2>1, <2>2, Zenon
<1>5. /\ (Alive(Insn) /\ IsBack(lr, Depth)) \/ IsBack(Insn, Depth) => Len(stack) > Top.sp /\ Top.body # 0
      /\ Insn.kind = "mov" => Len(stack) > Top.sp
  BY <1>2, <1>3, Zenon DEF TopStackOK, GoesBack, InnerOK
<1>6. ASSUME ~disturbed PROVE WayAt(Top.body, Insn, lr, stack, Depth)
  <2>1. KnowsWay(Depth) /\ Top = levels[Depth] /\ Ceiling(Depth) = Len(stack)
    BY <1>2, <1>6, Zenon DEF InnerOK
  <2> QED BY <1>1, <1>3, <2>1, Zenon DEF KnowsWay, WayAt
<1> QED BY <1>1, <1>2, <1>3, <1>4, <1>5, <1>6, Zenon

(* The jump that a callback has asked for. *)
LEMMA JumpStep ==
  ASSUME CallsIInv, Listed', Jump
  PROVE  CallsIInv'
<1> DEFINE new == [Fetched EXCEPT !.jump = FALSE]
<1>1. Running /\ levels # << >> /\ ~Top.java /\ Top.jump
  BY Zenon DEF Jump, Ready, Running
<1>2. InnerOK
  BY <1>1, TopFacts, Zenon
<1>3. /\ UNCHANGED unchangedByInsn /\ levels' = SetTop(new)
      /\ pc' = pc /\ lr' = lr /\ r0' = r0 /\ stack' = stack
  BY Zenon DEF Jump, unchangedByInsn, regs
<1>4. pc.kind \in {"back", "stop"} /\ Top.it # 0 /\ Top.insn \in hookers
  BY <1>1, <1>2, Zenon DEF CallsIInv, TurnOK, InnerOK
<1>5. Top.insn.kind \in {"function", "stub"} /\ Cur(Depth) = Top.insn
  BY <1>2, <1>4, Zenon DEF InnerOK, Cur
<1>6. /\ new \in LevelSet /\ new.sp = Top.sp /\ new.for = Top.for /\ new.body = Top.body
      /\ new.it = 0 /\ ~new.java /\ ~new.jump
  <2>1. /\ Fetched \in LevelSet /\ Fetched.sp = Top.sp /\ Fetched.for = Top.for
        /\ Fetched.body = Top.body /\ Fetched.it = 0 /\ ~Fetched.java
    BY <1>1, <1>2, FetchedFacts, Zenon
  <2> QED BY <2>1, Zenon DEF LevelSet
<1> HIDE DEF new
<1>7. IsBack(pc', Depth) => Len(stack') > Top.sp /\ new.body # 0
  BY <1>1, <1>2, <1>3, <1>6, Zenon DEF InnerOK, TopStackOK, GoesBack
<1>8. ~disturbed => WayAt(new.body, pc', lr', stack', Depth)
  <2> SUFFICES ASSUME ~disturbed PROVE WayAt(Top.body, pc, lr, stack, Depth)
    BY <1>3, <1>6, Zenon
  <2>1. KnowsWay(Depth) /\ Top = levels[Depth] /\ Ceiling(Depth) = Len(stack)
    BY <1>2, Zenon DEF InnerOK
  <2> QED BY <1>1, <1>4, <1>5, <2>1, Zenon DEF KnowsWay, WayAt, Alive, IsBack, IsStop
<1>9. ~Alive(pc') /\ pc'.kind # "mov"
  BY <1>3, <1>4, Zenon DEF Alive
<1>10. Reachable(pc)' /\ StackStep
  BY <1>2, <1>3, Zenon DEF Reachable, InReach, StackStep, InnerOK, unchangedByInsn, Loaded
<1> QED BY <1>1, <1>2, <1>3, <1>6, <1>7, <1>8, <1>9, <1>10, NextInsn, Zenon DEF InnerOK

(* The function of the level pushes the stop address; others return by LR. *)
LEMMA FunctionStep ==
  ASSUME CallsIInv, Listed', EnterFunction
  PROVE  CallsIInv'
<1>1. Ready /\ ~Top.jump /\ Insn.kind = "function" /\ UNCHANGED unchangedByInsn /\ r0' = r0
  BY Zenon DEF EnterFunction, Executes
<1>2. /\ InnerOK /\ Running /\ ~Top.java /\ Reachable(Insn)
      /\ (Alive(Insn) /\ IsBack(lr, Depth)) \/ IsBack(Insn, Depth) => Len(stack) > Top.sp /\ Top.body # 0
      /\ ~disturbed => WayAt(Top.body, Insn, lr, stack, Depth)
  BY <1>1, InsnFacts, Zenon
<1>3. /\ Fetched \in LevelSet /\ Fetched.sp = Top.sp /\ Fetched.for = Top.for
      /\ Fetched.body = Top.body /\ Fetched.it = 0 /\ ~Fetched.java /\ ~Fetched.jump
  BY <1>1, <1>2, FetchedFacts, Zenon
<1>4. Alive(Insn) /\ Insn.kind # "mov" /\ Insn.i \in Loaded /\ Insn.i \in Nat
  BY <1>1, <1>2, Zenon DEF Alive, Reachable, InReach, PlaceSet
<1>5. Loaded' = Loaded
  BY <1>1, Zenon DEF unchangedByInsn, Loaded
<1>6. /\ lr \in PlaceSet /\ lr.kind \in {"back", "stop"} /\ Depth \in Nat /\ Top.sp \in Nat
      /\ r0 \in {"guest", "sym", "jni", "hook"} /\ stack \in Seq(PlaceSet) /\ Top.sp <= Len(stack)
  BY <1>2, Zenon DEF InnerOK, CallsIInv, StateOK, LevelOK
<1>7. CASE Top.body = 0
  <2> DEFINE new == [Fetched EXCEPT !.body = Insn.i]
  <2>1. levels' = SetTop(new) /\ stack' = Append(stack, lr) /\ lr' = lr /\ pc' = Back(Depth)
    BY <1>7, Zenon DEF EnterFunction, Push
  <2>2. /\ new \in LevelSet /\ new.sp = Top.sp /\ new.for = Top.for /\ new.body = Insn.i
        /\ new.it = 0 /\ ~new.java /\ ~new.jump
    BY <1>3, <1>4, Zenon DEF LevelSet
  <2> HIDE DEF new
  <2>3. new.body # 0
    BY <1>4, <2>2, SMTT(30) DEF Loaded, CallsIInv, Listed
  <2>4. IsBack(pc', Depth) /\ pc'.kind = "back" /\ pc'.i = Depth /\ pc' \in PlaceSet
    BY <1>6, <2>1, OwnPlaces, Zenon DEF IsBack
  <2>5. Len(stack') = Len(stack) + 1 /\ Len(stack) \in Nat /\ stack'[Len(stack')] = lr
    BY <1>6, <2>1
  <2>6. Len(stack') > Top.sp /\ Len(stack') > 0
    BY <1>6, <2>5
  <2>7. StackStep
    BY <1>2, <1>4, <2>1, Zenon DEF StackStep
  <2>8. ~disturbed => WayAt(new.body, pc', lr', stack', Depth)
    <3> SUFFICES ASSUME ~disturbed PROVE WayAt(new.body, pc', lr', stack', Depth)
      BY Zenon
    <3>1. IsStop(lr, Depth)
      BY <1>2, <1>4, <1>7, Zenon DEF WayAt
    <3> QED BY <2>3, <2>4, <2>5, <2>6, <3>1, Zenon DEF WayAt, Alive
  <2>9. Reachable(pc)' /\ pc'.kind # "mov"
    BY <2>4, Zenon DEF Reachable, InReach
  <2> QED
    BY <1>1, <1>2, <1>4, <1>6, <2>1, <2>2, <2>3, <2>6, <2>7, <2>8, <2>9, NextInsn, Zenon
<1>8. CASE Top.body # 0
  <2>1. levels' = SetTop(Fetched) /\ pc' = lr /\ lr' = lr /\ stack' = stack
    BY <1>8, Zenon DEF EnterFunction
  <2>2. ~Alive(pc') /\ pc'.kind # "mov" /\ Reachable(pc)' /\ StackStep
    BY <1>6, <2>1, Zenon DEF Alive, Reachable, InReach, StackStep
  <2>3. IsBack(pc', Depth) => Len(stack') > Top.sp /\ Fetched.body # 0
    BY <1>2, <1>3, <1>4, <2>1, Zenon
  <2>4. ~disturbed => WayAt(Fetched.body, pc', lr', stack', Depth)
    <3> SUFFICES ASSUME ~disturbed PROVE WayAt(Top.body, lr, lr, stack, Depth)
      BY <1>3, <2>1, Zenon
    <3>1. WayAt(Top.body, Insn, lr, stack, Depth)
      BY <1>2, Zenon
    <3> QED BY <1>1, <1>4, <1>6, <1>8, <3>1, Zenon DEF WayAt, Alive, IsBack, IsStop
  <2> QED
    BY <1>1, <1>2, <1>3, <1>6, <2>1, <2>2, <2>3, <2>4, NextInsn, Zenon
<1> QED BY <1>7, <1>8, Zenon

(* PUSH {R4, LR} of a JNI stub; a symbol stub is never entered with its Thumb
   bit. *)
LEMMA EnterStubStep ==
  ASSUME CallsIInv, Listed', EnterStub
  PROVE  CallsIInv'
<1>1. /\ Ready /\ ~Top.jump /\ Insn.kind \in {"jni", "stub"} /\ Insn.bit = 1
      /\ UNCHANGED unchangedByInsn /\ r0' = r0
  BY Zenon DEF EnterStub
<1>2. /\ InnerOK /\ Running /\ ~Top.java /\ Reachable(Insn)
      /\ (Alive(Insn) /\ IsBack(lr, Depth)) \/ IsBack(Insn, Depth) => Len(stack) > Top.sp /\ Top.body # 0
      /\ ~disturbed => WayAt(Top.body, Insn, lr, stack, Depth)
  BY <1>1, InsnFacts, Zenon
<1>3. /\ Fetched \in LevelSet /\ Fetched.sp = Top.sp /\ Fetched.for = Top.for
      /\ Fetched.body = Top.body /\ Fetched.it = 0 /\ ~Fetched.java /\ ~Fetched.jump
  BY <1>1, <1>2, FetchedFacts, Zenon
<1>4. Insn.kind = "jni" /\ Alive(Insn) /\ Insn.i \in Nat
  <2>1. Insn.kind = "stub" => Insn.bit = 0
    BY <1>2, Zenon DEF Reachable, InReach
  <2>2. Insn.kind = "jni"
    BY <1>1, <2>1
  <2>3. Insn.i \in Nat
    BY <1>2, Zenon DEF Reachable, InReach, PlaceSet
  <2> QED BY <2>2, <2>3, Zenon DEF Alive
<1>5. levels' = SetTop(Fetched) /\ stack' = Append(stack, lr) /\ lr' = lr /\ pc' = Mov(Insn.i)
  BY <1>4, Zenon DEF EnterStub, Push
<1>6. /\ lr \in PlaceSet /\ lr.kind \in {"back", "stop"} /\ Top.sp \in Nat
      /\ r0 \in {"guest", "sym", "jni", "hook"} /\ stack \in Seq(PlaceSet) /\ Top.sp <= Len(stack)
  BY <1>2, Zenon DEF InnerOK, CallsIInv, StateOK, LevelOK
<1>7. pc'.kind = "mov" /\ pc' \in PlaceSet
  BY <1>4, <1>5, OwnPlaces, Zenon
<1>8. /\ Len(stack') = Len(stack) + 1 /\ Len(stack) \in Nat /\ stack'[Len(stack')] = lr
      /\ Len(stack) > 0 => stack'[Len(stack') - 1] = stack[Len(stack)]
  BY <1>5, <1>6
<1>9. Len(stack') > Top.sp /\ Len(stack') > 0
  BY <1>6, <1>8
<1>10. StackStep /\ Reachable(pc)'
  BY <1>2, <1>4, <1>5, <1>7, Zenon DEF StackStep, Reachable, InReach
<1>11. ~disturbed => WayAt(Fetched.body, pc', lr', stack', Depth)
  <2> SUFFICES ASSUME ~disturbed PROVE WayAt(Fetched.body, pc', lr', stack', Depth)
    BY Zenon
  <2>1. Top.body = 0 => IsStop(lr, Depth)
    BY <1>2, <1>4, Zenon DEF WayAt
  <2>2. Top.body # 0 => Len(stack) > 0 /\ IsStop(stack[Len(stack)], Depth) /\ IsBack(lr, Depth)
    BY <1>2, <1>4, Zenon DEF WayAt
  <2> QED BY <1>3, <1>7, <1>8, <1>9, <2>1, <2>2 DEF WayAt, Alive
<1>12. ~IsBack(pc', Depth)
  BY <1>7, Zenon DEF IsBack
<1>13. Alive(pc') /\ IsBack(lr', Depth) => Len(stack') > Top.sp /\ Fetched.body # 0
  BY <1>2, <1>3, <1>4, <1>5, <1>9, Zenon
<1> QED
  BY <1>1, <1>2, <1>3, <1>5, <1>6, <1>9, <1>10, <1>11, <1>12, <1>13, NextInsn, Zenon

(* What is popped: the level's own word. *)
LEMMA PopStep ==
  ASSUME CallsIInv, Listed', Ready, ~Top.jump, Pop, levels' = SetTop(Fetched), r0' = r0,
         UNCHANGED unchangedByInsn, Insn.kind = "mov" \/ IsBack(Insn, Depth)
  PROVE  CallsIInv'
<1>1. /\ InnerOK /\ Running /\ ~Top.java
      /\ IsBack(Insn, Depth) => Len(stack) > Top.sp /\ Top.body # 0
      /\ Insn.kind = "mov" => Len(stack) > Top.sp
      /\ ~disturbed => WayAt(Top.body, Insn, lr, stack, Depth)
  BY InsnFacts, Zenon
<1>2. /\ Fetched \in LevelSet /\ Fetched.sp = Top.sp /\ Fetched.for = Top.for
      /\ Fetched.body = Top.body /\ Fetched.it = 0 /\ ~Fetched.java /\ ~Fetched.jump
  BY <1>1, FetchedFacts, Zenon
<1> DEFINE n == Len(stack)
<1>3. /\ n \in Nat /\ n > Top.sp /\ Top.sp \in Nat /\ stack \in Seq(PlaceSet) /\ n \in 1 .. n
      /\ r0 \in {"guest", "sym", "jni", "hook"} /\ lr \in PlaceSet /\ Top = levels[Depth]
      /\ Depth \in 1 .. Depth
  <2>1. n \in Nat /\ Top.sp \in Nat /\ n > Top.sp
    BY <1>1, Zenon DEF InnerOK
  <2> QED BY <1>1, <2>1, SMTT(30) DEF InnerOK, CallsIInv, StateOK
<1>4. pc' = stack[n] /\ stack' = SubSeq(stack, 1, n - 1) /\ lr' = lr
  BY Zenon DEF Pop
<1>5. pc' \in PlaceSet /\ pc'.kind \in {"args", "back", "stop"}
  BY <1>3, <1>4, SMTT(30) DEF CallsIInv, StateOK
<1>6. StackStep /\ Reachable(pc)' /\ ~Alive(pc') /\ pc'.kind # "mov"
  BY <1>3, <1>4, <1>5, Zenon DEF StackStep, Reachable, InReach, Alive
<1> HIDE DEF n
<1>7. Len(stack') = n - 1 /\ \A j \in 1 .. n - 1 : stack'[j] = stack[j]
  <2>1. n > 0
    BY <1>3, SMTT(30)
  <2> QED BY <1>3, <1>4, <2>1, ButLast, Zenon DEF n
<1>8. IsBack(pc', Depth) => Len(stack') > Top.sp /\ Fetched.body # 0
  <2>1. IsBack(stack[n], Depth) => n >= Top.sp + 2 /\ Top.body # 0
    BY <1>3, Zenon DEF CallsIInv, StackOK, n
  <2> QED BY <1>2, <1>3, <1>4, <1>7, <2>1
<1>9. ~disturbed => WayAt(Fetched.body, pc', lr', stack', Depth)
  <2> SUFFICES ASSUME ~disturbed PROVE WayAt(Fetched.body, pc', lr', stack', Depth)
    BY Zenon
  <2>1. WayAt(Top.body, Insn, lr, stack, Depth)
    BY <1>1, Zenon
  <2>2. CASE Top.body = 0
    <3>1. IsStop(pc', Depth)
      BY <1>1, <1>4, <2>1, <2>2, Zenon DEF WayAt, n
    <3> QED BY <1>2, <2>2, <3>1, Zenon DEF WayAt, IsStop, Alive
  <2>3. CASE Top.body # 0 /\ Insn.kind = "mov"
    <3>1. n > 1 /\ IsBack(pc', Depth) /\ IsStop(stack[n - 1], Depth)
      BY <1>4, <2>1, <2>3, Zenon DEF WayAt, n
    <3>2. n - 1 > 0 /\ stack'[n - 1] = stack[n - 1]
      BY <1>3, <1>7, <3>1
    <3> QED BY <1>2, <1>7, <2>3, <3>1, <3>2, Zenon DEF WayAt, IsBack, Alive
  <2>4. CASE Top.body # 0 /\ Insn.kind # "mov"
    <3>1. Insn.kind = "back"
      BY <2>4, Zenon DEF IsBack
    <3>2. IsStop(pc', Depth)
      BY <1>4, <2>1, <2>4, <3>1, Zenon DEF WayAt, n
    <3> QED BY <1>2, <2>4, <3>2, Zenon DEF WayAt, IsStop, Alive
  <2> QED BY <2>2, <2>3, <2>4, Zenon
<1> QED BY <1>1, <1>2, <1>3, <1>4, <1>6, <1>8, <1>9, NextInsn, Zenon

(* A call the function of the level makes, through its slots or the JNI table. *)
LEMMA CallPlaceStep ==
  ASSUME CallsIInv, Listed', GuestCalls
  PROVE  CallsIInv'
<1>1. Ready /\ ~Top.jump /\ Insn.kind = "back" /\ Insn.i = Depth
  BY Zenon DEF GuestCalls, Executes
<1>2. /\ InnerOK /\ Running /\ ~Top.java /\ IsBack(Insn, Depth)
      /\ Len(stack) > Top.sp /\ Top.body # 0
      /\ ~disturbed => WayAt(Top.body, Insn, lr, stack, Depth)
  BY <1>1, InsnFacts, Zenon DEF IsBack
<1>3. /\ Fetched \in LevelSet /\ Fetched.sp = Top.sp /\ Fetched.for = Top.for
      /\ Fetched.body = Top.body /\ Fetched.it = 0 /\ ~Fetched.java /\ ~Fetched.jump
  BY <1>1, <1>2, FetchedFacts, Zenon
<1>4. PICK place : /\ GuestCallsPlace(place)
                   /\ Linked(place, Loaded) \/ (place \in PlaceSet /\ place.kind = "jni")
  <2>1. Top.body \in Loaded
    BY <1>2, Zenon DEF InnerOK, LevelOK
  <2>2. ASSUME NEW name \in DOMAIN modules[Top.body].slots
        PROVE  Linked(modules[Top.body].slots[name], Loaded) /\ Linked(modules[Top.body].words[name], Loaded)
    BY <2>1, <2>2, Zenon DEF CallsIInv, TablesOK, ModuleTables
  <2>3. ASSUME NEW id \in JniIds PROVE Jni(id) \in PlaceSet /\ Jni(id).kind = "jni"
    BY CallsAssumption, OwnPlaces, Zenon
  <2> QED BY <2>2, <2>3, Zenon DEF GuestCalls
<1>5. /\ lr' = Back(Depth) /\ pc' = place /\ r0' = "guest" /\ levels' = SetTop(Fetched)
      /\ UNCHANGED unchangedByInsn /\ stack' = stack
  BY <1>4, Zenon DEF GuestCallsPlace
<1>6. lr' \in PlaceSet /\ IsBack(lr', Depth)
  BY <1>2, <1>5, OwnPlaces, Zenon DEF InnerOK
<1>7. /\ pc' \in PlaceSet /\ pc'.kind \in {"stub", "function", "null", "file", "base", "jni"}
      /\ Reachable(pc)' /\ StackStep
  <2>1. Loaded' = Loaded
    BY <1>5, Zenon DEF unchangedByInsn, Loaded
  <2> QED BY <1>4, <1>5, <2>1, Zenon DEF Linked, LinkedKinds, Reachable, InReach, StackStep
<1>8. Alive(pc') /\ pc'.kind # "mov" /\ ~IsBack(pc', Depth) /\ pc'.kind # "stop"
  BY <1>7, Zenon DEF Alive, IsBack
<1>9. ~disturbed => WayAt(Fetched.body, pc', lr', stack', Depth)
  <2> SUFFICES ASSUME ~disturbed PROVE WayAt(Fetched.body, pc', lr', stack', Depth)
    BY Zenon
  <2>1. WayAt(Top.body, Insn, lr, stack, Depth)
    BY <1>2, Zenon
  <2>2. Len(stack) > 0 /\ IsStop(stack[Len(stack)], Depth)
    BY <1>1, <1>2, <2>1, Zenon DEF WayAt
  <2> QED BY <1>2, <1>3, <1>5, <1>6, <1>7, <1>8, <2>2, Zenon DEF WayAt
<1> QED BY <1>2, <1>3, <1>5, <1>6, <1>7, <1>8, <1>9, NextInsn, Zenon

-----------------------------------------------------------------------------
(* Native calls: a new level *)

(* An argument on the stack changes nothing for the levels that wait. *)
LEMMA RestPush ==
  ASSUME NEW b, NEW s \in Seq(PlaceSet), NEW loaded, NEW hooked, NEW n,
         RestOK(b, s, loaded, hooked, n)
  PROVE  RestOK(b, Append(s, Args), loaded, hooked, n)
<1> DEFINE t == Append(s, Args)
<1>1. /\ Len(s) \in Nat /\ Len(t) = Len(s) + 1 /\ t[Len(s) + 1] = Args /\ Args.kind = "args"
      /\ \A j \in 1 .. Len(s) : t[j] = s[j]
  BY OwnPlaces
<1> HIDE DEF t
<1>2. \A d \in 1 .. Len(b) : b[d] \in LevelSet /\ b[d].sp \in Nat
  <2>1. \A d \in 1 .. Len(b) : b[d] \in LevelSet
    BY DEF RestOK
  <2> QED BY <2>1, Zenon DEF LevelSet
<1>3. \A d \in 1 .. Len(b) : CeilingIn(b, t, d) >= CeilingIn(b, s, d) /\ CeilingIn(b, s, d) \in Nat
                             /\ CeilingIn(b, t, d) \in Nat
  <2>1. Len(b) \in Nat
    BY SMTT(30) DEF RestOK
  <2> QED BY <1>1, <1>2, <2>1, SMTT(30) DEF CeilingIn
<1>4. \A d \in 1 .. Len(b) : Resting(b[d], loaded, hooked, n) /\ b[d].sp <= Len(t)
  BY <1>1, <1>2 DEF RestOK
<1>5. \A d \in 1 .. Len(b), j \in 1 .. Len(t) :
        j > b[d].sp /\ IsBack(t[j], d) => j >= b[d].sp + 2 /\ b[d].body # 0
  <2> TAKE d \in 1 .. Len(b), j \in 1 .. Len(t)
  <2>1. CASE j = Len(s) + 1
    BY <1>1, <2>1, Zenon DEF IsBack
  <2>2. CASE j # Len(s) + 1
    <3>1. j \in 1 .. Len(s) /\ t[j] = s[j]
      BY <1>1, <2>2, SMTT(30)
    <3> QED BY <3>1, Zenon DEF RestOK
  <2> QED BY <2>1, <2>2, Zenon
<1>6. \A d \in 1 .. Len(b) :
        IsBack(b[d].lr, d) => CeilingIn(b, t, d) > b[d].sp /\ b[d].body # 0
  BY <1>2, <1>3 DEF RestOK
<1>7. RestOK(b, t, loaded, hooked, n)
  BY <1>4, <1>5, <1>6, Zenon DEF RestOK
<1> QED BY <1>7, Zenon DEF t

(* callNative over levels that wait, refused or not. *)
LEMMA CallStep ==
  ASSUME NEW b, NEW to, NEW onStack \in BOOLEAN, NEW module, CallsIInv,
         RestOK(b, stack, Loaded, hookers, Len(codeList)), callNative(b, to, onStack, module),
         Listed', TablesOK', HandlersOK', Steady, ConstructorsCalled',
         Linked(to, Loaded'), module # 0 => module \in Loaded', module \in Nat,
         inits' \in Seq(Nat), Len(inits') = Len(modules'), failed' \subseteq DOMAIN modules',
         disturbed' \in BOOLEAN,
         ~disturbed' => RestWays(b, stack) /\ (onStack => LevelFree(b))
  PROVE  CallsIInv'
<1>1. /\ lr' = Until(Len(b) + 1) /\ stack' = (IF onStack THEN Append(stack, Args) ELSE stack)
      /\ r0' = r0
  BY Zenon DEF callNative
<1>2. RestOK(b, stack, Loaded', hookers', Len(codeList'))
  BY RestGrows, ZenonT(30)
<1>3. /\ stack \in Seq(PlaceSet) /\ Len(stack) \in Nat /\ b \in Seq(LevelSet) /\ Len(b) \in Nat
      /\ \A j \in 1 .. Len(stack) : stack[j].kind \in {"args", "back", "stop"}
      /\ r0 \in {"guest", "sym", "jni", "hook"} /\ InReach(pc, Loaded)
  BY SMTT(30) DEF CallsIInv, StateOK, RestOK, Reachable
<1>4. IsStop(lr', Len(b) + 1) /\ lr' \in PlaceSet
  <2>1. Len(b) + 1 \in Nat
    BY <1>3
  <2> QED BY <1>1, <2>1, OwnPlaces, ZenonT(30)
<1>5. stack' \in Seq(PlaceSet) /\ \A j \in 1 .. Len(stack') : stack'[j].kind \in {"args", "back", "stop"}
  <2>1. CASE onStack
    <3>1. stack' = Append(stack, Args) /\ Args \in PlaceSet /\ Args.kind = "args"
      BY <1>1, <2>1, OwnPlaces, Zenon
    <3> QED BY <1>3, <3>1
  <2>2. CASE ~onStack
    BY <1>1, <1>3, <2>2, Zenon
  <2> QED BY <2>1, <2>2, ZenonT(30)
<1>6. CASE LevelFree(b)
  <2>1. levels' = Append(b, Level(Len(stack), module)) /\ pc' = to /\ throwing' = throwing
    BY <1>6, Zenon DEF callNative
  <2>2. Level(Len(stack), module) \in LevelSet
    BY <1>3, OwnPlaces, ZenonT(30) DEF Level, LevelSet
  <2>3. levels' \in Seq(LevelSet)
    BY <1>3, <2>1, <2>2
  <2>4. InReach(pc', Loaded') /\ pc'.kind \in LinkedKinds
    BY <2>1, Zenon DEF Linked
  <2>5. throwing' \in BOOLEAN
    BY <2>1, Zenon DEF CallsIInv, StateOK
  <2>6. StateOK'
    BY <1>1, <1>3, <1>4, <1>5, <2>3, <2>4, <2>5, Zenon DEF StateOK, Reachable, IsStop
  <2>7. stack' = stack \/ stack' = Append(stack, Args)
    BY <1>1, Zenon
  <2>8. Len(b) < MaxLevel
    BY <1>6, Zenon DEF LevelFree
  <2> QED BY <1>1, <1>2, <1>3, <2>1, <2>4, <2>6, <2>7, <2>8, EnterStep, Zenon
<1>7. CASE ~LevelFree(b)
  <2>1. levels' = b /\ throwing' = (module = 0) /\ pc' = pc
    BY <1>7, Zenon DEF callNative
  <2>2. InReach(pc', Loaded')
    BY <1>3, <2>1, ReachGrows, Zenon DEF Steady
  <2>3. StateOK'
    BY <1>1, <1>3, <1>4, <1>5, <2>1, <2>2, Zenon DEF StateOK, Reachable, IsStop
  <2>4. RestOK(levels', stack', Loaded', hookers', Len(codeList'))
    <3>1. CASE onStack
      BY <1>1, <1>2, <1>3, <2>1, <3>1, RestPush, Zenon
    <3>2. CASE ~onStack
      BY <1>1, <1>2, <2>1, <3>2, Zenon
    <3> QED BY <3>1, <3>2, Zenon
  <2>5. ~disturbed' => RestWays(levels', stack')
    BY <1>1, <1>7, <2>1, Zenon
  <2>6. \A d : ~IsBack(lr', d)
    BY <1>4, Zenon DEF IsBack, IsStop
  <2> QED BY <2>3, <2>4, <2>5, <2>6, RestStep, Zenon
<1> QED BY <1>6, <1>7, Zenon

(* The constructors of the modules loaded, when the levels b stay. *)
LEMMA StillCalled ==
  ASSUME ConstructorsCalled, Loaded' = Loaded, \A i \in Loaded : modules'[i] = modules[i] /\ inits'[i] = inits[i],
         failed \subseteq failed',
         \A d \in 1 .. Depth : \/ \E e \in 1 .. Depth' : levels'[e].for = levels[d].for
                               \/ levels[d].for \notin Loaded
                               \/ levels[d].for \in failed'
                               \/ inits[levels[d].for] = Constructors[modules[levels[d].for].file]
  PROVE  ConstructorsCalled'
<1> SUFFICES ASSUME NEW i \in Loaded
             PROVE  /\ inits[i] <= Constructors[modules[i].file]
                    /\ \/ inits[i] = Constructors[modules[i].file]
                       \/ i \in failed'
                       \/ \E d \in 1 .. Depth' : levels'[d].for = i
  BY Zenon DEF ConstructorsCalled
<1> QED BY DEF ConstructorsCalled

(* The levels after callNative. *)
LEMMA CalledLevels ==
  ASSUME NEW b \in Seq(LevelSet), NEW to, NEW onStack, NEW module,
         callNative(b, to, onStack, module)
  PROVE  /\ failed \subseteq failed' /\ failed' \subseteq failed \cup ({module} \ {0})
         /\ \A d \in 1 .. Len(b) : d \in 1 .. Depth' /\ levels'[d] = b[d]
         /\ \/ \E e \in 1 .. Depth' : levels'[e].for = module
            \/ module = 0
            \/ module \in failed'
<1>1. Len(b) \in Nat
  BY SMTT(30)
<1>2. CASE LevelFree(b)
  <2>1. PICK l : l = Level(Len(stack), module)
    BY Zenon
  <2>2. levels' = Append(b, l) /\ failed' = failed
    BY <1>2, <2>1, Zenon DEF callNative
  <2>3. Depth' = Len(b) + 1 /\ levels'[Len(b) + 1] = l /\ \A d \in 1 .. Len(b) : levels'[d] = b[d]
    BY <1>1, <2>2 DEF Depth
  <2>4. l.for = module
    BY <2>1, Zenon DEF Level
  <2>5. Depth' \in 1 .. Depth' /\ levels'[Depth'].for = module
    BY <1>1, <2>3, <2>4
  <2> QED BY <1>1, <2>2, <2>3, <2>5
<1>3. CASE ~LevelFree(b)
  BY <1>1, <1>3, Zenon DEF callNative, Depth
<1> QED BY <1>2, <1>3, Zenon

-----------------------------------------------------------------------------
(* Native calls: the functions of JNI *)

(* A level in a callback is at a hooked function, and at no stub. *)
LEMMA CallbackJni ==
  ASSUME CallsIInv', Depth' > 0, Top'.java
  PROVE  JniOK'
<1>1. Depth' \in 1 .. Depth'
  BY SMTT(30) DEF CallsIInv, StateOK, Depth
<1>2. LevelOK(Depth)' /\ Top' = levels'[Depth']
  BY <1>1, Zenon DEF CallsIInv, LevelsOK, Top
<1>3. Top'.it # 0 /\ Top'.insn \in hookers'
  BY <1>2 DEF LevelOK
<1>4. Cur(Depth)' = Top'.insn /\ Top'.insn.kind \in {"function", "stub"}
  BY <1>2, <1>3, Zenon DEF Cur, CallsIInv, HandlersOK
<1> QED BY <1>4, Zenon DEF JniOK

(* The places an instruction leads to. *)
LEMMA InsnJni ==
  ASSUME CallsIInv, Running, UNCHANGED unchangedByInsn, NEW new \in LevelSet, levels' = SetTop(new), new.it = 0,
         \/ pc'.kind \notin {"jni", "mov"}
         \/ pc'.kind \in {"jni", "mov"} /\ r0' = "guest" /\ pc'.i \in JniIds
  PROVE  JniOK'
<1>1. levels # << >> /\ UNCHANGED unchangedAround
  BY Zenon DEF Running, unchangedByInsn, unchangedAround
<1>2. Installed(new)
  BY <1>1, NewTop, Zenon
<1> QED BY <1>2 DEF Installed, JniOK

(* The places of the two stub handlers in the list. *)
LEMMA StubHandlers ==
  ASSUME HandlersOK, NEW k \in DOMAIN codeList
  PROVE  /\ codeList[k] = "sym" => k = 1
         /\ codeList[k] = "jni" => k = 2
         /\ 2 \in 1 .. Done /\ 3 \in 1 .. Done /\ Done > 2 /\ codeList[2] = "jni"
<1>1. k \in 1 .. Len(codeList) /\ Len(codeList) \in Nat /\ Len(codeList) >= 2
  BY DEF HandlersOK
<1>2. k \in {1, 2} \/ k \in 3 .. Len(codeList)
  BY <1>1
<1> QED BY <1>1, <1>2 DEF HandlersOK, Done

(* A native call begins at no stub of a JNI function, and a level below is in
   a callback. *)
LEMMA EdgeJni ==
  ASSUME CallsIInv', NEW below \in Seq(LevelSet), below # << >> => below[Len(below)].java,
         \/ levels' = below
         \/ /\ pc'.kind \notin {"jni", "mov"}
            /\ \E module : levels' = Append(below, Level(Len(stack), module))
  PROVE  JniOK'
<1>1. CASE levels' = below
  <2>1. Depth' > 0 => Top'.java
    BY <1>1 DEF Depth, Top
  <2>2. ~(Depth' > 0) => JniOK'
    BY Zenon DEF JniOK
  <2> QED BY <2>1, <2>2, CallbackJni, Zenon
<1>2. ASSUME NEW module, levels' = Append(below, Level(Len(stack), module)), pc'.kind \notin {"jni", "mov"}
      PROVE  JniOK'
  <2>1. levels'[Len(levels')] = Level(Len(stack), module)
    BY <1>2, SMTT(30)
  <2>2. levels'[Depth'].it = 0
    BY <2>1 DEF Depth, Level
  <2>3. Cur(Depth)' = pc'
    BY <2>2, Zenon DEF Cur
  <2> QED BY <1>2, <2>3, Zenon DEF JniOK
<1> QED BY <1>1, <1>2, Zenon

LEMMA EdgesJni ==
  ASSUME JniIInv, CallsIInv',
         \/ \E i \in 1 .. MaxModules, name \in HostNames, onStack \in BOOLEAN : callSymbol(i, name, onStack)
         \/ \E file \in Files : loadLibrary(file)
         \/ levels # << >> /\ (LevelReturns \/ LevelThrows)
  PROVE  JniOK'
<1> USE DEF JniIInv
<1>1. ASSUME Hosting PROVE Marked \in Seq(LevelSet) /\ (Marked # << >> => Marked[Len(Marked)].java)
  <2>1. CASE levels = << >>
    BY <2>1, Zenon DEF Marked, CallsIInv, StateOK
  <2>2. CASE levels # << >>
    <3>1. levels \in Seq(LevelSet) /\ Len(levels) \in 1 .. Len(levels) /\ Top = levels[Len(levels)] /\ Top.java
      BY <1>1, <2>2, SMTT(30) DEF CallsIInv, StateOK, Hosting, Top, Depth
    <3>2. Marked = [levels EXCEPT ![Len(levels)] = [Top EXCEPT !.made = TRUE]]
      BY <2>2, Zenon DEF Marked, SetTop, Depth
    <3>3. [Top EXCEPT !.made = TRUE] \in LevelSet /\ [Top EXCEPT !.made = TRUE].java
      <4>1. Top \in LevelSet
        BY <3>1
      <4> QED BY <3>1, <4>1, Zenon DEF LevelSet
    <3> QED BY <3>1, <3>2, <3>3, SMTT(30)
  <2> QED BY <2>1, <2>2, Zenon
<1>2. ASSUME levels # << >> PROVE Below \in Seq(LevelSet) /\ (Below # << >> => Below[Len(Below)].java)
  <2>1. levels \in Seq(LevelSet) /\ Depth \in Nat /\ Depth # 0 /\ Depth = Len(levels)
    BY <1>2, SMTT(30) DEF CallsIInv, StateOK, Depth
  <2>2. Below \in Seq(LevelSet) /\ Len(Below) = Depth - 1 /\ \A d \in 1 .. Depth - 1 : Below[d] = levels[d]
    BY <2>1 DEF Below
  <2>3. Below # << >> => Depth - 1 \in 1 .. Depth - 1
    BY <2>1, <2>2
  <2> QED BY <2>2, <2>3, Zenon DEF CallsIInv, LevelsOK
<1>3. ASSUME NEW i, NEW name, NEW onStack, callSymbol(i, name, onStack) PROVE JniOK'
  <2>1. Linked(modules[i].syms[name], Loaded)
    BY <1>3, Zenon DEF callSymbol, CallsIInv, TablesOK, ModuleTables
  <2>2. modules[i].syms[name].kind \notin {"jni", "mov"}
    BY <2>1, Zenon DEF Linked, LinkedKinds
  <2>3. Hosting /\ callNative(Marked, modules[i].syms[name], onStack, 0)
    BY <1>3, Zenon DEF callSymbol
  <2> QED BY <1>1, <2>2, <2>3, EdgeJni, Zenon DEF callNative
<1>4. ASSUME NEW i, NEW name PROVE Function(i, name).kind \notin {"jni", "mov"}
  BY Zenon DEF Function, Place
<1>5. ASSUME NEW file, loadLibrary(file) PROVE JniOK'
  <2>1. Hosting /\ (NoConstructors \/ callNative(Marked, Function(Len(modules) + 1, "init"), FALSE, Len(modules) + 1))
    BY <1>5, Zenon DEF loadLibrary, LoadShared
  <2> QED BY <1>1, <1>4, <2>1, EdgeJni, Zenon DEF callNative, NoConstructors
<1>6. CASE levels # << >> /\ (LevelReturns \/ LevelThrows)
  <2>1. levels' = Below \/ callNative(Below, Function(Top.for, "init"), FALSE, Top.for)
    BY <1>6, Zenon DEF LevelReturns, LevelThrows
  <2> QED BY <1>2, <1>4, <1>6, <2>1, EdgeJni, Zenon DEF callNative
<1> QED BY <1>3, <1>5, <1>6, Zenon

(* The instructions: only native code's call of a JNI function gets to its stub. *)
LEMMA InsnsJni ==
  ASSUME JniIInv, Jump \/ EnterFunction \/ EnterStub \/ LeaveStub \/ GuestReturns \/ GuestCalls
  PROVE  JniOK'
<1> USE DEF JniIInv
<1>1. Running /\ Ready /\ levels # << >> /\ UNCHANGED unchangedByInsn
  BY Zenon DEF Jump, EnterFunction, EnterStub, LeaveStub, GuestReturns, GuestCalls, GuestCallsPlace, Executes, Ready,
         Running, unchangedByInsn, regs
<1>2. InnerOK
  BY <1>1, TopFacts, Zenon
<1>3. Fetched \in LevelSet /\ Fetched.it = 0
  BY <1>1, <1>2, FetchedFacts, Zenon DEF Running
<1>4. /\ Back(Depth).kind = "back" /\ lr.kind \in {"back", "stop"}
      /\ \A k \in 1 .. Len(stack) : stack[k].kind \in {"args", "back", "stop"}
  BY <1>1, Zenon DEF Back, Place, CallsIInv, StateOK
<1>5. CASE Jump
  <2>1. pc.kind \in {"back", "stop"} /\ pc' = pc
    <3>1. Top.jump /\ ~Top.java /\ Depth > 0
      BY <1>1, <1>2, <1>5, Zenon DEF Jump, Running, InnerOK
    <3>2. pc' = pc
      BY <1>5, Zenon DEF Jump, regs
    <3> QED BY <1>2, <3>1, <3>2, Zenon DEF CallsIInv, TurnOK, InnerOK
  <2>2. levels' = SetTop([Fetched EXCEPT !.jump = FALSE])
    BY <1>5, Zenon DEF Jump
  <2>3. [Fetched EXCEPT !.jump = FALSE] \in LevelSet /\ [Fetched EXCEPT !.jump = FALSE].it = 0
    BY <1>3, Zenon DEF LevelSet
  <2> QED BY <1>1, <2>1, <2>2, <2>3, InsnJni, Zenon
<1>6. CASE EnterFunction
  <2>1. pc'.kind \notin {"jni", "mov"}
    BY <1>4, <1>6, Zenon DEF EnterFunction
  <2>2. CASE Top.body = 0
    <3>1. levels' = SetTop([Fetched EXCEPT !.body = Insn.i]) /\ Insn.kind = "function" /\ ~Top.jump
      BY <1>6, <2>2, Zenon DEF EnterFunction, Executes
    <3>2. Insn.i \in Nat
      BY <1>1, <3>1, InsnFacts, Zenon DEF Reachable, InReach, PlaceSet
    <3>3. [Fetched EXCEPT !.body = Insn.i] \in LevelSet /\ [Fetched EXCEPT !.body = Insn.i].it = 0
      BY <1>3, <3>2, Zenon DEF LevelSet
    <3> QED BY <1>1, <2>1, <3>1, <3>3, InsnJni, Zenon
  <2>3. CASE Top.body # 0
    <3>1. levels' = SetTop(Fetched)
      BY <1>6, <2>3, Zenon DEF EnterFunction
    <3> QED BY <1>1, <1>3, <2>1, <3>1, InsnJni, Zenon
  <2> QED BY <2>2, <2>3, Zenon
<1>7. CASE EnterStub
  <2>1. /\ ~Top.jump /\ Insn.kind \in {"jni", "stub"} /\ Insn.bit = 1 /\ levels' = SetTop(Fetched) /\ r0' = r0
    BY <1>7, Zenon DEF EnterStub
  <2>2. Insn = Cur(Depth) /\ Reachable(Insn)
    BY <1>1, <2>1, InsnFacts, Zenon
  <2>3. Insn.kind = "jni"
    BY <2>1, <2>2 DEF Reachable, InReach
  <2>4. r0 = "guest" /\ Insn.i \in JniIds /\ Insn.i \in Nat
    BY <1>2, <2>2, <2>3, Zenon DEF JniOK, InnerOK, Reachable, InReach, PlaceSet
  <2>5. pc' = Mov(Insn.i)
    BY <1>7, <2>3, Zenon DEF EnterStub
  <2>6. pc'.kind = "mov" /\ pc'.i \in JniIds
    BY <2>4, <2>5, OwnPlaces, Zenon
  <2> QED BY <1>1, <1>3, <2>1, <2>4, <2>6, InsnJni, Zenon
<1>8. CASE LeaveStub \/ GuestReturns
  <2>1. /\ levels' = SetTop(Fetched) /\ pc' = stack[Len(stack)] /\ ~Top.jump
        /\ Insn.kind = "mov" \/ IsBack(Insn, Depth)
    BY <1>8, Zenon DEF LeaveStub, GuestReturns, Pop, Executes, IsBack
  <2>2. Len(stack) > Top.sp /\ Top.sp \in Nat /\ Len(stack) \in Nat
    BY <1>1, <1>2, <2>1, InsnFacts, Zenon DEF InnerOK, LevelSet, CallsIInv, StateOK
  <2>3. Len(stack) \in 1 .. Len(stack)
    BY <2>2
  <2>4. pc'.kind \notin {"jni", "mov"}
    BY <1>4, <2>1, <2>3, Zenon
  <2> QED BY <1>1, <1>3, <2>1, <2>4, InsnJni, Zenon
<1>9. CASE GuestCalls
  <2>1. Executes("back") /\ Insn.i = Depth
    BY <1>9, Zenon DEF GuestCalls
  <2>2. Top.body \in Loaded
    <3>1. IsBack(Insn, Depth) /\ ~Top.jump
      BY <2>1, Zenon DEF Executes, IsBack
    <3>2. Top.body # 0
      BY <1>1, <3>1, InsnFacts, Zenon
    <3> QED BY <1>2, <3>2, Zenon DEF InnerOK, LevelOK
  <2>3. ASSUME NEW place, GuestCallsPlace(place),
               place.kind \notin {"jni", "mov"} \/ (place.kind = "jni" /\ place.i \in JniIds)
        PROVE  JniOK'
    <3>1. levels' = SetTop(Fetched) /\ pc' = place /\ r0' = "guest"
      BY <2>3, Zenon DEF GuestCallsPlace
    <3> QED BY <1>1, <1>3, <2>3, <3>1, InsnJni, Zenon
  <2>4. ASSUME NEW name \in DOMAIN modules[Top.body].slots
        PROVE  /\ modules[Top.body].slots[name].kind \notin {"jni", "mov"}
               /\ modules[Top.body].words[name].kind \notin {"jni", "mov"}
    BY <2>2, Zenon DEF CallsIInv, TablesOK, ModuleTables, Linked, LinkedKinds
  <2>5. ASSUME NEW id \in JniIds PROVE Jni(id).kind = "jni" /\ Jni(id).i = id
    BY Zenon DEF Jni, Place
  <2> QED BY <1>9, <2>3, <2>4, <2>5, Zenon DEF GuestCalls
<1> QED BY <1>5, <1>6, <1>7, <1>8, <1>9, Zenon
=============================================================================
