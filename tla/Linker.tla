------------------------------- MODULE Linker -------------------------------
(***************************************************************************)
(* Symbols and relocation: module/Modules.java and module/Module.java,     *)
(* with the symbols module/SymHooker.java hooks when the emulator is made. *)
(*                                                                         *)
(* A library file is what its symbol table says of each name.  A place is  *)
(* an address: what lies there (kind), in which module or under which      *)
(* number (i), under which name, and the bit that selects Thumb code.      *)
(***************************************************************************)
EXTENDS Integers, Sequences

CONSTANTS
  Files,         \* the library files
  NotShared,     \* those that are no shared objects
  Names,         \* the names of symbols
  Symbol,        \* Symbol[file][name]: "defined", "undefined", "weak" or "none"
  SymHooks,      \* the names SymHooker.init hooks, in order
  MaxModules     \* bound on the modules loaded

ASSUME LinkerAssumption ==
  /\ NotShared \subseteq Files /\ SymHooks \in Seq(Names) /\ MaxModules \in Nat
  /\ Symbol \in [Files -> [Names -> {"defined", "undefined", "weak", "none"}]]

VARIABLE modules   \* Modules.modules, in the order of loading

Place(kind, i, name, bit) == [kind |-> kind, i |-> i, name |-> name, bit |-> bit]

Null == Place("null", 0, "", 0)        \* address 0
Unwritten == Place("file", 0, "", 0)   \* what the file holds before relocation
SYMBOL_UNDEF == Place("undef", 0, "", 0)

(* loadElfModule of a file that is no shared object returns null, and
   loadModule adds it to the list. *)
NullModule == [file |-> "null"]

(* Library code is Thumb code. *)
Function(i, name) == Place("function", i, name, 1)

(* writeCFunction returns the address it wrote the stub to, as it is. *)
Stub(name) == Place("stub", 0, name, 0)

hookedSymbols == [name \in {SymHooks[k] : k \in DOMAIN SymHooks} |-> Stub(name)]

-----------------------------------------------------------------------------
(* Looking up *)

Provides(m, name) == m # NullModule /\ name \in DOMAIN m.syms

Providers(name) == {i \in DOMAIN modules : Provides(modules[i], name)}

(* A variant of FirstProvider that takes the module loaded last. *)
LastProvider(name) == CHOOSE i \in Providers(name) : \A j \in Providers(name) : j <= i

FirstProvider(name) == CHOOSE i \in Providers(name) : \A j \in Providers(name) : i <= j

(* lookupSymbol meets a null module before one that has the name. *)
LookupThrows(name) ==
  \E i \in DOMAIN modules : modules[i] = NullModule /\ \A j \in Providers(name) : i < j

lookupSymbol(name) ==
  IF Providers(name) = {} THEN SYMBOL_UNDEF ELSE modules[FirstProvider(name)].syms[name]

-----------------------------------------------------------------------------
(* Loading *)

(* A variant of getSymValue that looks weak symbols up only. *)
SymValueWeakOnly(i, file, name) ==
  IF name \in DOMAIN hookedSymbols THEN hookedSymbols[name]
  ELSE IF Symbol[file][name] = "defined" THEN Function(i, name)
  ELSE IF Symbol[file][name] = "weak"
    THEN IF lookupSymbol(name) = SYMBOL_UNDEF THEN Null ELSE lookupSymbol(name)
  ELSE SYMBOL_UNDEF

(* The value of a symbol in module i: its hook, its own definition, or what
   the modules loaded before have under the name. *)
getSymValue(i, file, name) ==
  IF name \in DOMAIN hookedSymbols THEN hookedSymbols[name]
  ELSE IF Symbol[file][name] = "defined" THEN Function(i, name)
  ELSE IF lookupSymbol(name) = SYMBOL_UNDEF /\ Symbol[file][name] = "weak" THEN Null
  ELSE lookupSymbol(name)

NamesOf(file) == {name \in Names : Symbol[file][name] # "none"}

(* Every symbol that has a value is in the module's table, those of other
   modules and weak ones without a definition included. *)
resloveSectionSymbols(i, file) ==
  [name \in {n \in NamesOf(file) : getSymValue(i, file, n) # SYMBOL_UNDEF} |->
     getSymValue(i, file, name)]

(* R_ARM_JUMP_SLOT and R_ARM_GLOB_DAT: a symbol without a value leaves the
   word as it is. *)
RelocateSlot(syms, name) == IF name \in DOMAIN syms THEN syms[name] ELSE Unwritten

(* R_ARM_ABS32 adds the value of the symbol in this file, which is 0 for an
   undefined one, to the module's own base. *)
RelocateAbs(i, file, name) ==
  IF Symbol[file][name] = "defined" THEN Function(i, name) ELSE Place("base", i, "", 0)

relocateDynSymbols(i, file, syms) ==
  [slots |-> [name \in NamesOf(file) |-> RelocateSlot(syms, name)],
   words |-> [name \in NamesOf(file) |-> RelocateAbs(i, file, name)]]

loadElfModule(file) ==
  LET i    == Len(modules) + 1
      syms == resloveSectionSymbols(i, file)
      rel  == relocateDynSymbols(i, file, syms)
  IN  [file |-> file, syms |-> syms, slots |-> rel.slots, words |-> rel.words]

(* Resolving an external symbol throws; nothing is added to the list. *)
LoadThrows(file) ==
  \E name \in NamesOf(file) \ DOMAIN hookedSymbols :
    Symbol[file][name] # "defined" /\ LookupThrows(name)

-----------------------------------------------------------------------------
(* Real modules, and those that refer to a name they do not define. *)
Loaded == {i \in DOMAIN modules : modules[i] # NullModule}

References(i, name) == i \in Loaded /\ Symbol[modules[i].file][name] \in {"undefined", "weak"}

(* The module that had a name first. *)
IsFirst(i, name) ==
  /\ i \in Loaded /\ name \in DOMAIN modules[i].syms
  /\ \A j \in Loaded : j < i => name \notin DOMAIN modules[j].syms

(* All modules mean the same function by an external name: a slot bound to a
   function holds what the module that had the name first has there, however
   many modules in between passed it on (lookupSymbol, getSymValue). *)
BindingsAgree ==
  \A i \in Loaded : \A name \in DOMAIN modules[i].slots :
    References(i, name) /\ modules[i].slots[name] \notin {Null, Unwritten} =>
      \A j \in Loaded : IsFirst(j, name) => modules[i].slots[name] = modules[j].syms[name]

(* A reference is bound to address 0 only if the first module that has the name
   referred to it weakly when nobody defined it; from then on address 0 hides
   every later definition, from strong references too (Modules.java:228-231). *)
NullOnlyByWeak ==
  \A i \in Loaded : \A name \in DOMAIN modules[i].slots :
    modules[i].slots[name] = Null =>
      \E j \in Loaded : IsFirst(j, name) /\ Symbol[modules[j].file][name] = "weak"

(* A slot is left as the file has it only if no module before defined the name:
   a definition that was there is never missed (relocateDynSymbol). *)
UnwrittenOnlyIfMissing ==
  \A i \in Loaded : \A name \in DOMAIN modules[i].slots :
    modules[i].slots[name] = Unwritten =>
      \A j \in Loaded : j <= i => Symbol[modules[j].file][name] # "defined"

(* A slot without a function to call is one that load order explains. *)
SlotsJustified == NullOnlyByWeak /\ UnwrittenOnlyIfMissing
=============================================================================
