------------------------------- MODULE UcHooks -------------------------------
(***************************************************************************)
(* The callbacks Unicorn keeps for the program that embeds it (uc.c,       *)
(* list.c, uc_priv.h) and the translated code that calls them              *)
(* (translator.c, tcg-op.h).                                               *)
(*                                                                         *)
(* A hook is a heap object that sits in one list per event it listens to,  *)
(* counts the list items that point at it, and dies with the last of them. *)
(* uc_hook_del only marks it: a callback may delete any hook, its own      *)
(* included, while lists are being walked on several nested levels of      *)
(* uc_emu_start.  The lists are swept when the outermost level is left.    *)
(*                                                                         *)
(* Translated code knows hooks in two ways.  With one hook on the list it  *)
(* calls the callback directly (an inline hook); otherwise it calls        *)
(* helper_uc_tracecode, which walks the list.  The guest program is one    *)
(* block of Insns instructions that repeats until the level ends.          *)
(*                                                                         *)
(* Every hook is unbounded, as the ones the Java binding registers are     *)
(* (begin 1, end 0), and allocation succeeds.  Callers keep the rule of    *)
(* unicorn.h that a handle is not used again once it has been deleted.     *)
(***************************************************************************)
EXTENDS Integers, Sequences, FiniteSets

CONSTANTS
  Handles,              \* the addresses malloc may return for a hook
  Nil,                  \* no hook
  UC_MAX_NESTED_LEVEL,
  Insns,                \* the instructions of the guest's block
  Counts                \* the count arguments of uc_emu_start

ASSUME HooksAssumption ==
  /\ Nil \notin Handles
  /\ UC_MAX_NESTED_LEVEL \in Nat \ {0}
  /\ Insns \in Nat \ {0}
  /\ Counts \subseteq Nat

VARIABLES
  hook,          \* the list of each event, in the order of its items
  hooks_count,   \* how many hooks of each list have not been deleted
  hooks_to_del,  \* the items of the list of hooks to sweep
  hk,            \* the hook objects
  count_hook,    \* the hook that counts instructions
  emu_counter, emu_count,
  stop_request,
  exit_flag,     \* the vCPU's request to leave the running block
  tb,            \* the block in the translation cache
  frames         \* the nested uc_emu_starts, the innermost last

lists == <<hook, hooks_count, hooks_to_del, hk>>
counter == <<count_hook, emu_counter, emu_count>>
stop == <<stop_request, exit_flag>>
hooksVars == <<lists, counter, stop, tb, frames>>

Idx == {"CODE", "BLOCK"}

(* The lists in front of each one in uc_struct. *)
Before == [CODE |-> {}, BLOCK |-> {"CODE"}]

(* A hook object: its references, the mark of uc_hook_del, whether the block
   is one of its hooked_regions and whether its callback is hook_count_cb. *)
Free == [refs |-> 0, to_delete |-> FALSE, regions |-> FALSE, counts |-> FALSE]

(* How a translated block calls the hooks of a list. *)
NoCall == [via |-> "none", to |-> Nil]
Helper == [via |-> "helper", to |-> Nil]
Inline(h) == [via |-> "inline", to |-> h]

NotCached == [e \in Idx |-> [via |-> "uncached", to |-> Nil]]

nested_level == Len(frames)
Top == frames[nested_level]
SetTop(f) == [frames EXCEPT ![nested_level] = f]

-----------------------------------------------------------------------------
(* The lists *)

Lists == [hook |-> hook, hooks_count |-> hooks_count,
          hooks_to_del |-> hooks_to_del, hk |-> hk]

SetLists(l) ==
  /\ hook' = l.hook
  /\ hooks_count' = l.hooks_count
  /\ hooks_to_del' = l.hooks_to_del
  /\ hk' = l.hk

list_exists(list, h) == \E i \in DOMAIN list : list[i] = h

(* The lists that h is in. *)
In(l, h) == {e \in Idx : list_exists(l.hook[e], h)}

(* How many items of a list point at h. *)
Items(list, h) == Cardinality({i \in DOMAIN list : list[i] = h})

(* The list with the items of S taken out and the others in their order. *)
Without(list, S) ==
  LET kept  == {i \in DOMAIN list : list[i] \notin S}
      order == CHOOSE f \in [1 .. Cardinality(kept) -> kept] :
                 \A m, n \in 1 .. Cardinality(kept) : m < n => f[m] < f[n]
  IN  [n \in 1 .. Cardinality(kept) |-> list[order[n]]]

(* Mutant of uc_hook_add: a hook goes to the end of its list whatever
   hook_insert says. *)
HookAddAppends(l, h, types, insert, counts) ==
  [hook |-> [e \in Idx |-> IF e \in types THEN Append(l.hook[e], h) ELSE l.hook[e]],
   hooks_count |-> [e \in Idx |-> IF e \in types THEN l.hooks_count[e] + 1
                                                 ELSE l.hooks_count[e]],
   hooks_to_del |-> l.hooks_to_del,
   hk |-> [l.hk EXCEPT ![h] = [Free EXCEPT !.refs = Cardinality(types), !.counts = counts]]]

(* uc_hook_add: h, just allocated, becomes an item of the list of every event
   in types, at its head when hook_insert is set. *)
uc_hook_add(l, h, types, insert, counts) ==
  [hook |-> [e \in Idx |->
               IF e \notin types THEN l.hook[e]
               ELSE IF insert THEN <<h>> \o l.hook[e] ELSE Append(l.hook[e], h)],
   hooks_count |-> [e \in Idx |-> IF e \in types THEN l.hooks_count[e] + 1
                                                 ELSE l.hooks_count[e]],
   hooks_to_del |-> l.hooks_to_del,
   hk |-> [l.hk EXCEPT ![h] = [Free EXCEPT !.refs = Cardinality(types), !.counts = counts]]]

(* A hook object with the mark of uc_hook_del and n more items that point at it. *)
Marked(obj, n) == [obj EXCEPT !.to_delete = TRUE, !.regions = FALSE, !.refs = @ + n]

(* Mutant of uc_hook_del: a hook of two lists is queued and discounted once. *)
HookDelOnce(l, h) ==
  LET in == CHOOSE e \in In(l, h) : TRUE
  IN  [hook |-> l.hook,
       hooks_count |-> [l.hooks_count EXCEPT ![in] = @ - 1],
       hooks_to_del |-> Append(l.hooks_to_del, h),
       hk |-> [l.hk EXCEPT ![h] = Marked(l.hk[h], 1)]]

(* uc_hook_del: h is marked, leaves the count of every list it is in and is
   queued once for each of them.  The blocks of its hooked_regions go: see
   Invalidate. *)
uc_hook_del(l, h) ==
  LET in == In(l, h)
  IN  [hook |-> l.hook,
       hooks_count |-> [e \in Idx |-> IF e \in in THEN l.hooks_count[e] - 1
                                                  ELSE l.hooks_count[e]],
       hooks_to_del |-> l.hooks_to_del \o [i \in 1 .. Cardinality(in) |-> h],
       hk |-> [l.hk EXCEPT ![h] = Marked(l.hk[h], Cardinality(in))]]

(* Mutant of Invalidate: translated code is kept. *)
KeepTranslated(h) == tb

(* hook_invalidate_region, for every region uc_hook_del finds. *)
Invalidate(h) == IF hk[h].regions THEN NotCached ELSE tb

(* hook_delete, n times: every one of n items lets go of the hook, and the last
   that points at it frees it. *)
hook_delete(obj, n) == IF obj.refs = n THEN Free ELSE [obj EXCEPT !.refs = @ - n]

(* The lists that clear_deleted_hooks takes h out of: every item of h in
   hooks_to_del takes it out of the first list that still has it. *)
Swept(l, h) ==
  {e \in In(l, h) : Cardinality(In(l, h) \cap Before[e]) < Items(l.hooks_to_del, h)}

(* Mutant of clear_deleted_hooks: the walk over the lists stops short of the
   last one. *)
SweepButLast(l) ==
  [hook |-> [e \in Idx |->
               IF e = "BLOCK" THEN l.hook[e]
               ELSE Without(l.hook[e], {h \in Handles : e \in Swept(l, h)})],
   hooks_count |-> l.hooks_count,
   hooks_to_del |-> <<>>,
   hk |-> [h \in Handles |->
             hook_delete(l.hk[h], Cardinality(Swept(l, h) \ {"BLOCK"})
                                    + Items(l.hooks_to_del, h))]]

(* clear_deleted_hooks: the hooks leave their lists, then the queue itself is
   cleared; an item taken out of a list or of the queue deletes its hook once.
   A list has a hook at most once, since uc_hook_add is given a new one. *)
clear_deleted_hooks(l) ==
  [hook |-> [e \in Idx |-> Without(l.hook[e], {h \in Handles : e \in Swept(l, h)})],
   hooks_count |-> l.hooks_count,
   hooks_to_del |-> <<>>,
   hk |-> [h \in Handles |->
             hook_delete(l.hk[h], Cardinality(Swept(l, h)) + Items(l.hooks_to_del, h))]]

-----------------------------------------------------------------------------
(* Translated code *)

(* The items of a list whose hooks have not been deleted. *)
Alive(e) == {i \in DOMAIN hook[e] : ~hk[hook[e][i]].to_delete}

(* The hook of the first of some items of a list. *)
First(e, items) ==
  IF items = {} THEN Nil
  ELSE hook[e][CHOOSE i \in items : \A j \in items : i <= j]

(* gen_uc_tracecode, where HOOK_EXISTS_BOUNDED asks for it. *)
gen_uc_tracecode(e) ==
  IF Alive(e) = {} THEN NoCall
  ELSE IF hooks_count[e] = 1 THEN Inline(First(e, Alive(e))) ELSE Helper

Translated == [e \in Idx |-> gen_uc_tracecode(e)]

(* hooked_regions_check: the block becomes a region of every hook its code
   may call. *)
hooked_regions_check ==
  [h \in Handles |->
    IF \E e \in Idx : \E i \in Alive(e) : hook[e][i] = h
      THEN [hk[h] EXCEPT !.regions = TRUE] ELSE hk[h]]

(* The event of the point that the frame f has reached in its block: the
   block itself, then each instruction. *)
Event(f) == IF f.at = 0 THEN "BLOCK" ELSE "CODE"

(* Mutant of Callees: the walk calls hooks that are marked for deletion. *)
CalleesMarked(e) == DOMAIN hook[e]

(* The items that helper_uc_tracecode, walking the list, makes a call for. *)
Callees(e) == Alive(e)

(* The frame f calls h, or is done with its hooks when there is none. *)
Calling(f, h) == [f EXCEPT !.step = IF h = Nil THEN "exec" ELSE "in", !.cur = h]

(* The first callback of a hook point. *)
FirstCallee(f) ==
  LET call == f.code[Event(f)]
  IN  IF call.via = "inline" THEN call.to
      ELSE IF call.via = "helper" /\ ~stop_request THEN First(Event(f), Callees(Event(f)))
      ELSE Nil

(* The callback after the one that has just returned: cur->next, read now. *)
NextCallee(f, stopped) ==
  LET e    == Event(f)
      rest == {i \in Callees(e) : \A j \in DOMAIN hook[e] : hook[e][j] = f.cur => j < i}
  IN  IF f.code[e].via = "helper" /\ ~stopped THEN First(e, rest) ELSE Nil

-----------------------------------------------------------------------------
(* What the embedding program does: between emulations, and in a callback *)

HostRuns == frames = <<>>

CallbackRuns == frames # <<>> /\ Top.step = "in" /\ ~hk[Top.cur].counts

UserRuns == HostRuns \/ CallbackRuns

HookAdd(h, types) ==
  /\ UserRuns
  /\ hk[h].refs = 0
  /\ SetLists(uc_hook_add(Lists, h, types, FALSE, FALSE))
  /\ UNCHANGED <<counter, stop, tb, frames>>

HookDel(h) ==
  /\ UserRuns
  /\ hk[h].refs > 0 /\ ~hk[h].to_delete /\ ~hk[h].counts
  /\ SetLists(uc_hook_del(Lists, h))
  /\ tb' = Invalidate(h)
  /\ UNCHANGED <<counter, stop, frames>>

(* uc_emu_stop, from a callback: outside an emulation it does nothing. *)
uc_emu_stop ==
  /\ stop_request' = TRUE
  /\ exit_flag' = TRUE

EmuStop ==
  /\ CallbackRuns
  /\ uc_emu_stop
  /\ UNCHANGED <<lists, counter, tb, frames>>

Level == [code |-> NotCached, at |-> 0, step |-> "enter", cur |-> Nil]

(* uc_emu_start refuses to nest deeper, with UC_ERR_RESOURCE. *)
LevelFree == nested_level < UC_MAX_NESTED_LEVEL

(* uc_emu_start up to vm_start.  The count hook is set up or taken down; when
   it is taken down every translated block is dropped, which a callback may
   not ask for while its own block is one of them. *)
EmuStart(count) ==
  /\ UserRuns
  /\ LevelFree
  /\ frames' = Append(frames, Level)
  /\ stop_request' = FALSE
  /\ exit_flag' = FALSE
  /\ emu_counter' = 0
  /\ emu_count' = count
  /\ \/ /\ count = 0 /\ count_hook # Nil
        /\ HostRuns
        /\ SetLists(uc_hook_del(Lists, count_hook))
        /\ count_hook' = Nil
        /\ tb' = NotCached
     \/ /\ count > 0 /\ count_hook = Nil
        /\ \E h \in Handles :
             /\ hk[h].refs = 0
             /\ SetLists(uc_hook_add(Lists, h, {"CODE"}, TRUE, TRUE))
             /\ count_hook' = h
        /\ UNCHANGED tb
     \/ /\ (count = 0) = (count_hook = Nil)
        /\ UNCHANGED <<lists, count_hook, tb>>

(* The counter is reset before the level is checked, also for a call that is
   then refused. *)
StartRefused ==
  /\ UserRuns
  /\ ~LevelFree
  /\ emu_counter' = 0
  /\ UNCHANGED <<lists, count_hook, emu_count, stop, tb, frames>>

CallbackReturns ==
  /\ CallbackRuns
  /\ frames' = SetTop(Calling(Top, NextCallee(Top, stop_request)))
  /\ UNCHANGED <<lists, counter, stop, tb>>

-----------------------------------------------------------------------------
(* What the emulation does *)

(* hook_count_cb, and the return from it. *)
CountCallback ==
  /\ frames # <<>> /\ Top.step = "in" /\ hk[Top.cur].counts
  /\ emu_counter' = emu_counter + 1
  /\ IF emu_counter' > emu_count THEN uc_emu_stop ELSE UNCHANGED stop
  /\ frames' = SetTop(Calling(Top, NextCallee(Top, stop_request')))
  /\ UNCHANGED <<lists, count_hook, emu_count, tb>>

(* tb_find: the cached block, or a new translation of it. *)
EnterBlock ==
  /\ frames # <<>> /\ Top.step = "enter"
  /\ IF tb # NotCached
       THEN UNCHANGED <<tb, hk>>
       ELSE tb' = Translated /\ hk' = hooked_regions_check
  /\ frames' = SetTop([Top EXCEPT !.step = "hooks", !.code = tb', !.at = 0])
  /\ UNCHANGED <<hook, hooks_count, hooks_to_del, counter, stop>>

CallHooks ==
  /\ frames # <<>> /\ Top.step = "hooks"
  /\ frames' = SetTop(Calling(Top, FirstCallee(Top)))
  /\ UNCHANGED <<lists, counter, stop, tb>>

(* check_exit_request: at the start of a block, and behind every call. *)
Checked(f) == f.at = 0 \/ f.code["CODE"] # NoCall

Execute ==
  /\ frames # <<>> /\ Top.step = "exec"
  /\ ~(exit_flag /\ Checked(Top))
  /\ frames' = SetTop(IF Top.at < Insns
                        THEN [Top EXCEPT !.at = @ + 1, !.step = "hooks"]
                        ELSE [Top EXCEPT !.step = "enter"])
  /\ UNCHANGED <<lists, counter, stop, tb>>

(* Mutant of LeaveLevel: hooks are swept when any level is left. *)
LeaveLevelSweeps ==
  /\ frames' = SubSeq(frames, 1, nested_level - 1)
  /\ SetLists(clear_deleted_hooks(Lists))

(* uc_emu_start behind vm_start: only the outermost level sweeps. *)
LeaveLevel ==
  /\ frames' = SubSeq(frames, 1, nested_level - 1)
  /\ IF nested_level = 1 THEN SetLists(clear_deleted_hooks(Lists))
                         ELSE UNCHANGED lists

(* vm_start returns: a stop request has been seen, or the guest has come to
   the end of the block and reached `until'.  The block goes when it is the
   one in front of `until'. *)
EmuReturns ==
  /\ frames # <<>> /\ Top.step = "exec"
  /\ (exit_flag /\ Checked(Top)) \/ Top.at = Insns
  /\ LeaveLevel
  /\ exit_flag' = FALSE
  /\ tb' \in {tb, NotCached}
  /\ UNCHANGED <<counter, stop_request>>

-----------------------------------------------------------------------------

HooksInit ==
  /\ hook = [e \in Idx |-> <<>>]
  /\ hooks_count = [e \in Idx |-> 0]
  /\ hooks_to_del = <<>>
  /\ hk = [h \in Handles |-> Free]
  /\ count_hook = Nil
  /\ emu_counter = 0
  /\ emu_count = 0
  /\ stop_request = FALSE
  /\ exit_flag = FALSE
  /\ tb = NotCached
  /\ frames = <<>>

HooksNext ==
  \/ \E h \in Handles : HookDel(h)
  \/ \E h \in Handles, types \in SUBSET Idx \ {{}} : HookAdd(h, types)
  \/ \E count \in Counts : EmuStart(count)
  \/ StartRefused
  \/ EmuStop
  \/ CallbackReturns
  \/ CountCallback
  \/ EnterBlock
  \/ CallHooks
  \/ Execute
  \/ EmuReturns

HooksSpec == HooksInit /\ [][HooksNext]_hooksVars

-----------------------------------------------------------------------------
(* Properties *)

(* The state of the hook machinery has the types of uc_struct. *)
HooksTypeOK ==
  LET Calls == [via : {"uncached", "none", "helper", "inline"},
                to : Handles \cup {Nil}]
  IN  /\ hook \in [Idx -> Seq(Handles)]
      /\ hooks_count \in [Idx -> Int]
      /\ hooks_to_del \in Seq(Handles)
      /\ hk \in [Handles -> [refs : Int, to_delete : BOOLEAN,
                             regions : BOOLEAN, counts : BOOLEAN]]
      /\ count_hook \in Handles \cup {Nil}
      /\ emu_counter \in Nat /\ emu_count \in Nat
      /\ stop_request \in BOOLEAN /\ exit_flag \in BOOLEAN
      /\ tb \in [Idx -> Calls]
      /\ frames \in Seq([code : [Idx -> Calls], at : 0 .. Insns,
                         step : {"enter", "hooks", "in", "exec"},
                         cur : Handles \cup {Nil}])
      /\ nested_level <= UC_MAX_NESTED_LEVEL

(* The reference count of a hook is the number of list items that point at it
   (so that hook_delete frees it exactly when the last one goes), and nothing
   that is still going to be read points at a freed hook: no list, no walk
   that waits for a callback on any nested level, not the count hook. *)
NoDanglingHook ==
  /\ \A h \in Handles :
       hk[h].refs = Items(hook["CODE"], h) + Items(hook["BLOCK"], h)
                      + Items(hooks_to_del, h)
  /\ \A i \in DOMAIN frames : frames[i].step = "in" => hk[frames[i].cur].refs > 0
  /\ count_hook # Nil => hk[count_hook].refs > 0

(* uc_struct has its types and no pointer to a hook dangles, on any level and in
   the middle of any walk. *)
HooksInv == HooksTypeOK /\ NoDanglingHook

(* hooks_count, which decides between inline and walked hooks when a block is
   translated, is the number of hooks of the list that are not deleted. *)
CountsAgree == \A e \in Idx : hooks_count[e] = Cardinality(Alive(e))

(* A block in the cache calls no hook directly that has been deleted, let
   alone freed: uc_hook_del has invalidated every block that did. *)
CachedHooksLive ==
  \A e \in Idx : tb[e].via = "inline" =>
    /\ list_exists(hook[e], tb[e].to)
    /\ ~hk[tb[e].to].to_delete

(* "callback to count instructions must be run before everything else" (uc.c,
   856): no hook that is still called precedes the count hook, also when it
   was set up by a nested uc_emu_start in the middle of a walk. *)
CountRunsFirst ==
  count_hook # Nil => First("CODE", Alive("CODE")) = count_hook

(* Once uc_hook_del has returned, the only code that can still call the hook
   is a block that called it directly and was already running. *)
DeletedNotCalled ==
  [][\A i \in DOMAIN frames' :
       /\ frames'[i].step = "in"
       /\ i \in DOMAIN frames => frames[i] # frames'[i]
       /\ hk[frames'[i].cur].to_delete
       => /\ frames'[i].code[Event(frames'[i])] = Inline(frames'[i].cur)
          /\ frames'[i].code # tb]_hooksVars

(* When the outermost uc_emu_start returns, every hook deleted so far has left
   all of its lists and has been freed. *)
SweptAtTheEnd ==
  [][(frames # <<>> /\ frames' = <<>>) =>
       /\ hooks_to_del' = <<>>
       /\ \A h \in Handles : ~hk'[h].to_delete]_hooksVars
=============================================================================
