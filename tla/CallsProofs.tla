---------------------------- MODULE CallsProofs ----------------------------
(***************************************************************************)
(* Proofs about GuestCalls, and about the modules of Linker as GuestCalls  *)
(* loads them: for every set of library files and symbol tables, every     *)
(* order of loading, every set of hooked symbols, every number of hooks    *)
(* and every depth of native calls inside callbacks.                       *)
(***************************************************************************)
EXTENDS CallsLemmas

-----------------------------------------------------------------------------
(* The list of modules *)

(* No module before i has the name. *)
NobodyHas(i, name) ==
  \A j \in 1 .. i - 1 : j \in Loaded => name \notin DOMAIN modules[j].syms

(* What loadElfModule gave a name in module i: its hook, its definition, what
   the first module that had the name has, or, when nobody had it, address 0
   for a weak reference and nothing for a strong one. *)
Resolved(i, name) ==
  LET m   == modules[i]
      own == Symbol[m.file][name]
  IN  IF name \in DOMAIN hookedSymbols
        THEN name \in DOMAIN m.syms /\ m.syms[name] = Stub(name)
      ELSE IF own = "defined"
        THEN name \in DOMAIN m.syms /\ m.syms[name] = Function(i, name)
      ELSE \/ \E j \in 1 .. i - 1 :
                /\ IsFirst(j, name) /\ name \in DOMAIN m.syms
                /\ m.syms[name] = modules[j].syms[name]
           \/ /\ NobodyHas(i, name)
              /\ own = "weak" => name \in DOMAIN m.syms /\ m.syms[name] = Null
              /\ own # "weak" => name \notin DOMAIN m.syms

ModuleOK(i) ==
  LET m == modules[i]
  IN  /\ m.file \in Files
      /\ DOMAIN m.slots = NamesOf(m.file) /\ DOMAIN m.syms \subseteq NamesOf(m.file)
      /\ \A name \in NamesOf(m.file) :
           /\ m.slots[name] = RelocateSlot(m.syms, name)
           /\ name \in DOMAIN m.syms => m.syms[name].kind \in {"stub", "function", "null"}
           /\ Resolved(i, name)

(* Of the modules that have a name one is the first. *)
FirstKnown ==
  \A name : \/ Providers(name) = {}
            \/ \E j \in Providers(name) : \A k \in Providers(name) : j <= k

LinkIInv == Listed /\ FirstKnown /\ \A i \in Loaded : ModuleOK(i)

-----------------------------------------------------------------------------
(* The places that the linker tells apart. *)
LEMMA Kinds ==
  /\ \A name : Stub(name).kind = "stub"
  /\ \A i, name : Function(i, name).kind = "function"
  /\ Null.kind = "null" /\ Unwritten.kind = "file" /\ SYMBOL_UNDEF.kind = "undef"
BY Zenon DEF Stub, Function, Null, Unwritten, SYMBOL_UNDEF, Place

(* A library that has been loaded is told from a null module. *)
LEMMA NotNullModule ==
  ASSUME NEW file
  PROVE  loadElfModule(file) # NullModule
<1>1. "syms" \in DOMAIN loadElfModule(file)
  BY Zenon DEF loadElfModule
<1>2. "syms" \notin DOMAIN NullModule
  BY Zenon DEF NullModule
<1> QED
  BY <1>1, <1>2, Zenon

(* lookupSymbol finds what the first module that has the name has. *)
LEMMA LookupFirst ==
  ASSUME LinkIInv, NEW name
  PROVE  \/ /\ Providers(name) = {} /\ lookupSymbol(name) = SYMBOL_UNDEF
         \/ \E j \in 1 .. Len(modules) : /\ IsFirst(j, name)
                                         /\ lookupSymbol(name) = modules[j].syms[name]
<1>1. Len(modules) \in Nat /\ DOMAIN modules = 1 .. Len(modules)
  BY DEF Listed, LinkIInv
<1>2. Providers(name) = {j \in Loaded : name \in DOMAIN modules[j].syms}
  BY Zenon DEF Providers, Provides, Loaded
<1>3. CASE Providers(name) = {}
  BY <1>3, Zenon DEF lookupSymbol
<1>4. CASE Providers(name) # {}
  <2>1. Providers(name) \subseteq Nat
    BY <1>1 DEF Providers
  <2>2. PICK k \in Providers(name) : \A j \in Providers(name) : k <= j
    BY <1>4, Zenon DEF LinkIInv, FirstKnown
  <2>3. /\ FirstProvider(name) \in Providers(name)
        /\ \A j \in Providers(name) : FirstProvider(name) <= j
    BY <2>2, Zenon DEF FirstProvider
  <2>4. PICK j \in Providers(name) : j = FirstProvider(name)
    BY <2>3, Zenon
  <2>5. lookupSymbol(name) = modules[j].syms[name]
    BY <1>4, <2>4, Zenon DEF lookupSymbol
  <2>6. j \in 1 .. Len(modules) /\ j \in Loaded /\ name \in DOMAIN modules[j].syms
    BY <1>1, <1>2, Zenon DEF Loaded
  <2>7. \A k2 \in Loaded : k2 < j => name \notin DOMAIN modules[k2].syms
    <3> SUFFICES ASSUME NEW k2 \in Loaded, k2 < j, name \in DOMAIN modules[k2].syms
                 PROVE  FALSE
      BY Zenon
    <3>1. k2 \in Providers(name) /\ k2 \in Nat /\ j \in Nat
      BY <1>2, <2>1, Zenon
    <3> QED
      BY <2>3, <2>4, <3>1
  <2> QED
    BY <2>5, <2>6, <2>7, Zenon DEF IsFirst
<1> QED
  BY <1>3, <1>4, Zenon

(* What lookupSymbol finds has one of the three kinds of values. *)
LEMMA LookupKind ==
  ASSUME LinkIInv, NEW name, NEW j, IsFirst(j, name)
  PROVE  modules[j].syms[name].kind \in {"stub", "function", "null"}
BY Zenon DEF LinkIInv, ModuleOK, IsFirst

-----------------------------------------------------------------------------
(* A step adds a module at the end of the list or leaves the list alone. *)
Grows == \/ UNCHANGED modules
         \/ modules' = Append(modules, NullModule)
         \/ \E file \in Files : modules' = Append(modules, loadElfModule(file))

-----------------------------------------------------------------------------
(* Adding a module changes nothing about those before it. *)
LEMMA AppendKeeps ==
  ASSUME Listed, NEW m, modules' = Append(modules, m)
  PROVE  /\ Listed'
         /\ Len(modules) \in Nat /\ DOMAIN modules = 1 .. Len(modules)
         /\ DOMAIN modules' = 1 .. Len(modules) + 1
         /\ \A j \in 1 .. Len(modules) : modules'[j] = modules[j]
         /\ modules'[Len(modules) + 1] = m
<1>1. PICK S : modules \in Seq(S)
  BY Zenon DEF Listed
<1>2. modules \in Seq(S \cup {m}) /\ m \in S \cup {m}
  BY <1>1
<1>3. modules' \in Seq(S \cup {m})
  BY <1>2
<1> QED
  BY <1>2, <1>3 DEF Listed

(* The modules loaded before stay the loaded ones among them. *)
LEMMA LoadedKeeps ==
  ASSUME Listed, NEW m, modules' = Append(modules, m)
  PROVE  /\ \A j \in 1 .. Len(modules) : j \in Loaded' <=> j \in Loaded
         /\ Loaded \subseteq 1 .. Len(modules) /\ Loaded' \subseteq 1 .. Len(modules) + 1
         /\ Len(modules) + 1 \in Loaded' <=> m # NullModule
BY AppendKeeps DEF Loaded

(* Who had a name first, or that nobody had it, stays so for those before. *)
LEMMA FirstKeeps ==
  ASSUME Listed, NEW m, modules' = Append(modules, m), NEW name
  PROVE  /\ \A j \in 1 .. Len(modules) : IsFirst(j, name) => IsFirst(j, name)'
         /\ \A i \in 1 .. Len(modules) + 1 : NobodyHas(i, name) => NobodyHas(i, name)'
<1>1. ASSUME NEW j \in 1 .. Len(modules), IsFirst(j, name) PROVE IsFirst(j, name)'
  <2>1. j \in Loaded' /\ name \in DOMAIN modules'[j].syms
    BY <1>1, AppendKeeps, LoadedKeeps, Zenon DEF IsFirst
  <2>2. ASSUME NEW k \in Loaded', k < j PROVE name \notin DOMAIN modules'[k].syms
    <3>1. k \in 1 .. Len(modules)
      BY <2>2, AppendKeeps, LoadedKeeps
    <3> QED
      BY <1>1, <2>2, <3>1, AppendKeeps, LoadedKeeps, Zenon DEF IsFirst
  <2> QED
    BY <2>1, <2>2, Zenon DEF IsFirst
<1>2. ASSUME NEW i \in 1 .. Len(modules) + 1, NobodyHas(i, name) PROVE NobodyHas(i, name)'
  <2>1. ASSUME NEW k \in 1 .. i - 1, k \in Loaded' PROVE name \notin DOMAIN modules'[k].syms
    <3>1. k \in 1 .. Len(modules)
      BY <2>1, AppendKeeps
    <3> QED
      BY <1>2, <2>1, <3>1, AppendKeeps, LoadedKeeps, Zenon DEF NobodyHas
  <2> QED
    BY <2>1, Zenon DEF NobodyHas
<1> QED
  BY <1>1, <1>2, Zenon

(* A module stays resolved when another one is added behind it. *)
LEMMA ModuleKeeps ==
  ASSUME Listed, NEW m, modules' = Append(modules, m),
         NEW i \in Loaded, ModuleOK(i)
  PROVE  ModuleOK(i)'
<1>1. i \in 1 .. Len(modules) /\ Len(modules) \in Nat /\ modules'[i] = modules[i]
  BY AppendKeeps, LoadedKeeps, Zenon
<1>2. ASSUME NEW name, Resolved(i, name) PROVE Resolved(i, name)'
  <2>1. \A j \in 1 .. i - 1 : j \in 1 .. Len(modules) /\ modules'[j] = modules[j]
    BY <1>1, AppendKeeps
  <2>2. \A j \in 1 .. i - 1 : IsFirst(j, name) => IsFirst(j, name)'
    BY <2>1, FirstKeeps, Zenon
  <2>3. NobodyHas(i, name) => NobodyHas(i, name)'
    <3>1. i \in 1 .. Len(modules) + 1
      BY <1>1
    <3> QED
      BY <3>1, FirstKeeps, Zenon
  <2> QED
    BY <1>1, <1>2, <2>1, <2>2, <2>3, Zenon DEF Resolved
<1> QED
  BY <1>1, <1>2, Zenon DEF ModuleOK

(* The first that has a name stays the first; a new module is the first to have
   what nobody had. *)
LEMMA FirstKnownKeeps ==
  ASSUME Listed, FirstKnown, NEW m, modules' = Append(modules, m)
  PROVE  FirstKnown'
<1> SUFFICES ASSUME NEW name
             PROVE  \/ Providers(name)' = {}
                    \/ \E j \in Providers(name)' : \A k \in Providers(name)' : j <= k
  BY Zenon DEF FirstKnown
<1>1. /\ Len(modules) \in Nat /\ Providers(name) \subseteq 1 .. Len(modules)
      /\ \A j \in 1 .. Len(modules) : j \in Providers(name)' <=> j \in Providers(name)
      /\ Providers(name)' \subseteq 1 .. Len(modules) + 1
  BY AppendKeeps DEF Providers, Provides
<1>2. CASE Providers(name) = {}
  <2>1. \A j \in Providers(name)' : j = Len(modules) + 1
    BY <1>1, <1>2
  <2>2. \A j, k \in Providers(name)' : j <= k
    BY <1>1, <2>1
  <2> QED BY <2>2
<1>3. CASE Providers(name) # {}
  <2>1. PICK j \in Providers(name) : \A k \in Providers(name) : j <= k
    BY <1>3, Zenon DEF FirstKnown
  <2>2. j \in Providers(name)' /\ j \in 1 .. Len(modules)
    BY <1>1
  <2>3. \A k \in Providers(name)' : j <= k
    BY <1>1, <2>1, <2>2
  <2> QED BY <2>2, <2>3, Zenon
<1> QED BY <1>2, <1>3, Zenon

(* A null module is skipped by everything said of modules. *)
LEMMA NullStep ==
  ASSUME LinkIInv, modules' = Append(modules, NullModule)
  PROVE  LinkIInv'
<1>1. PICK m : m = NullModule
  BY Zenon
<1>2. Listed /\ modules' = Append(modules, m)
  BY <1>1, Zenon DEF LinkIInv
<1>3. ASSUME NEW i \in Loaded' PROVE i \in Loaded
  BY <1>1, <1>2, <1>3, AppendKeeps, LoadedKeeps
<1>4. ASSUME NEW i \in Loaded' PROVE ModuleOK(i)'
  BY <1>2, <1>3, <1>4, ModuleKeeps, Zenon DEF LinkIInv
<1>5. FirstKnown'
  BY <1>2, FirstKnownKeeps, Zenon DEF LinkIInv
<1> QED
  BY <1>2, <1>4, <1>5, AppendKeeps, Zenon DEF LinkIInv

(* The value v that getSymValue gives a name, before module i is in the list. *)
Value(i, file, name, v) ==
  IF name \in DOMAIN hookedSymbols THEN v = Stub(name)
  ELSE IF Symbol[file][name] = "defined" THEN v = Function(i, name)
  ELSE \/ \E j \in 1 .. Len(modules) :
            /\ IsFirst(j, name) /\ v = modules[j].syms[name]
            /\ v.kind \in {"stub", "function", "null"}
       \/ /\ Providers(name) = {}
          /\ v = IF Symbol[file][name] = "weak" THEN Null ELSE SYMBOL_UNDEF

(* getSymValue finds its values in the order Value lists them. *)
LEMMA ValueOf ==
  ASSUME LinkIInv, NEW file \in Files, NEW name \in NamesOf(file),
         NEW i, NEW v, v = getSymValue(i, file, name)
  PROVE  Value(i, file, name, v)
<1>1. CASE name \in DOMAIN hookedSymbols
  BY <1>1, Zenon DEF getSymValue, hookedSymbols, Value
<1>2. CASE name \notin DOMAIN hookedSymbols /\ Symbol[file][name] = "defined"
  BY <1>2, Zenon DEF getSymValue, Value
<1>3. CASE name \notin DOMAIN hookedSymbols /\ Symbol[file][name] # "defined"
  <2>1. v = IF lookupSymbol(name) = SYMBOL_UNDEF /\ Symbol[file][name] = "weak" THEN Null
            ELSE lookupSymbol(name)
    BY <1>3, Zenon DEF getSymValue
  <2>2. CASE Providers(name) = {} /\ lookupSymbol(name) = SYMBOL_UNDEF
    <3>1. v = IF Symbol[file][name] = "weak" THEN Null ELSE SYMBOL_UNDEF
      BY <2>1, <2>2, Zenon
    <3> QED
      BY <1>3, <2>2, <3>1, Zenon DEF Value
  <2>3. ASSUME NEW j \in 1 .. Len(modules), IsFirst(j, name),
               lookupSymbol(name) = modules[j].syms[name]
        PROVE  /\ v = modules[j].syms[name]
               /\ v.kind \in {"stub", "function", "null"}
    <3>1. lookupSymbol(name).kind \in {"stub", "function", "null"}
      BY <2>3, LookupKind, Zenon
    <3>2. lookupSymbol(name) # SYMBOL_UNDEF
      BY <3>1, Kinds, Zenon
    <3>3. v = lookupSymbol(name)
      BY <2>1, <3>2, Zenon
    <3> QED
      BY <2>3, <3>1, <3>3, Zenon
  <2>4. Listed
    BY Zenon DEF LinkIInv
  <2> QED
    BY <1>3, <2>2, <2>3, <2>4, LookupFirst, Zenon DEF Value
<1> QED
  BY <1>1, <1>2, <1>3, Zenon

(* The tables that loadElfModule makes for module i. *)
Tables(i, file, m) ==
  /\ m.file = file
  /\ DOMAIN m.syms = {n \in NamesOf(file) : getSymValue(i, file, n) # SYMBOL_UNDEF}
  /\ \A name \in DOMAIN m.syms : m.syms[name] = getSymValue(i, file, name)
  /\ DOMAIN m.slots = NamesOf(file)
  /\ \A name \in NamesOf(file) : m.slots[name] = RelocateSlot(m.syms, name)

(* loadElfModule makes them so. *)
LEMMA LoadedTables ==
  ASSUME NEW file, NEW m, m = loadElfModule(file), NEW i, i = Len(modules) + 1
  PROVE  Tables(i, file, m)
<1> DEFINE syms == resloveSectionSymbols(i, file)
<1>1. /\ m.file = file /\ m.syms = syms
      /\ m.slots = [name \in NamesOf(file) |-> RelocateSlot(syms, name)]
  BY Zenon DEF loadElfModule, relocateDynSymbols
<1>2. /\ DOMAIN syms = {n \in NamesOf(file) : getSymValue(i, file, n) # SYMBOL_UNDEF}
      /\ \A name \in DOMAIN syms : syms[name] = getSymValue(i, file, name)
  BY Zenon DEF resloveSectionSymbols
<1> HIDE DEF syms
<1> QED
  BY <1>1, <1>2, Zenon DEF Tables

(* A library that is loaded has every name resolved as Resolved says. *)
LEMMA LoadStep ==
  ASSUME LinkIInv, NEW file \in Files, modules' = Append(modules, loadElfModule(file))
  PROVE  LinkIInv'
<1>1. PICK m : m = loadElfModule(file)
  BY Zenon
<1>2. PICK i : i = Len(modules) + 1
  BY Zenon
<1>3. Listed /\ modules' = Append(modules, m)
  BY <1>1, Zenon DEF LinkIInv
<1>4. /\ i \in 1 .. Len(modules) + 1 /\ 1 .. i - 1 = 1 .. Len(modules)
      /\ modules'[i] = m /\ \A j \in 1 .. i - 1 : modules'[j] = modules[j]
  BY <1>2, <1>3, AppendKeeps
<1>5. Tables(i, file, m)
  BY <1>1, <1>2, LoadedTables, Zenon
<1>6. ASSUME NEW name \in NamesOf(file)
      PROVE  /\ name \in DOMAIN m.syms => m.syms[name].kind \in {"stub", "function", "null"}
             /\ Resolved(i, name)'
  <2>1. PICK v : v = getSymValue(i, file, name)
    BY Zenon
  <2>2. /\ name \in DOMAIN m.syms <=> v # SYMBOL_UNDEF
        /\ name \in DOMAIN m.syms => m.syms[name] = v
    BY <1>5, <2>1, Zenon DEF Tables
  <2>3. Value(i, file, name, v)
    BY <2>1, ValueOf, Zenon
  <2>4. /\ v.kind \in {"stub", "function", "null"} => v # SYMBOL_UNDEF
        /\ Stub(name) # SYMBOL_UNDEF /\ Function(i, name) # SYMBOL_UNDEF /\ Null # SYMBOL_UNDEF
    BY Kinds, Zenon
  <2>5. Symbol[modules'[i].file][name] = Symbol[file][name]
    BY <1>4, <1>5, Zenon DEF Tables
  <2>6. CASE name \in DOMAIN hookedSymbols
    <3>1. v = Stub(name) /\ name \in DOMAIN m.syms /\ m.syms[name] = Stub(name)
      BY <2>2, <2>3, <2>4, <2>6, Zenon DEF Value
    <3>2. Resolved(i, name)'
      BY <1>4, <2>6, <3>1, Zenon DEF Resolved, hookedSymbols
    <3> QED
      BY <3>1, <3>2, Kinds, Zenon
  <2>7. CASE name \notin DOMAIN hookedSymbols /\ Symbol[file][name] = "defined"
    <3>1. v = Function(i, name) /\ name \in DOMAIN m.syms /\ m.syms[name] = Function(i, name)
      BY <2>2, <2>3, <2>4, <2>7, Zenon DEF Value
    <3>2. Resolved(i, name)'
      BY <1>4, <2>5, <2>7, <3>1, Zenon DEF Resolved
    <3> QED
      BY <3>1, <3>2, Kinds, Zenon
  <2>8. CASE name \notin DOMAIN hookedSymbols /\ Symbol[file][name] # "defined"
    <3>1. ASSUME NEW j \in 1 .. Len(modules), IsFirst(j, name), v = modules[j].syms[name],
                 v.kind \in {"stub", "function", "null"}
          PROVE  /\ m.syms[name].kind \in {"stub", "function", "null"}
                 /\ Resolved(i, name)'
      <4>1. name \in DOMAIN m.syms /\ m.syms[name] = modules[j].syms[name]
        BY <2>2, <2>4, <3>1, Zenon
      <4>2. IsFirst(j, name)' /\ j \in 1 .. i - 1
        BY <1>3, <1>4, <3>1, FirstKeeps, Zenon
      <4>3. Resolved(i, name)'
        BY <1>4, <2>5, <2>8, <4>1, <4>2, Zenon DEF Resolved
      <4> QED
        BY <3>1, <4>1, <4>3, Zenon
    <3>2. CASE /\ Providers(name) = {}
               /\ v = IF Symbol[file][name] = "weak" THEN Null ELSE SYMBOL_UNDEF
      <4>1. NobodyHas(i, name)
        BY <1>4, <3>2, Zenon DEF NobodyHas, Providers, Provides, Loaded
      <4>2. NobodyHas(i, name)'
        BY <1>3, <1>4, <4>1, FirstKeeps, Zenon
      <4>3. /\ Symbol[file][name] = "weak" => name \in DOMAIN m.syms /\ m.syms[name] = Null
            /\ Symbol[file][name] # "weak" => name \notin DOMAIN m.syms
        BY <2>2, <2>4, <3>2, Zenon
      <4>4. Resolved(i, name)'
        BY <1>4, <2>5, <2>8, <4>2, <4>3, Zenon DEF Resolved
      <4> QED
        BY <4>3, <4>4, Kinds, Zenon
    <3> QED
      BY <2>3, <2>8, <3>1, <3>2, Zenon DEF Value
  <2> QED
    BY <2>6, <2>7, <2>8, Zenon
<1>7. ModuleOK(i)'
  BY <1>4, <1>5, <1>6, Zenon DEF ModuleOK, Tables
<1>8. ASSUME NEW k \in Loaded' PROVE ModuleOK(k)'
  <2>1. k \in Loaded \/ k = i
    BY <1>2, <1>3, <1>8, AppendKeeps, LoadedKeeps
  <2> QED
    BY <1>3, <1>7, <2>1, ModuleKeeps, Zenon DEF LinkIInv
<1>9. FirstKnown'
  BY <1>3, FirstKnownKeeps, Zenon DEF LinkIInv
<1> QED
  BY <1>3, <1>8, <1>9, AppendKeeps, Zenon DEF LinkIInv

(* A step that leaves the list alone leaves all this true. *)
LEMMA UnchangedStep ==
  ASSUME LinkIInv, UNCHANGED modules
  PROVE  LinkIInv'
<1>1. Loaded' = Loaded /\ Listed'
  BY Zenon DEF Loaded, Listed, LinkIInv
<1>2. ASSUME NEW i, NEW name
      PROVE  /\ IsFirst(i, name) => IsFirst(i, name)'
             /\ NobodyHas(i, name) => NobodyHas(i, name)'
  BY <1>1, Zenon DEF IsFirst, NobodyHas
<1>3. ASSUME NEW i, NEW name, Resolved(i, name) PROVE Resolved(i, name)'
  BY <1>2, <1>3, Zenon DEF Resolved
<1>4. ASSUME NEW i, ModuleOK(i) PROVE ModuleOK(i)'
  BY <1>3, <1>4, Zenon DEF ModuleOK
<1>5. FirstKnown'
  BY Zenon DEF FirstKnown, Providers, LinkIInv
<1> QED
  BY <1>1, <1>4, <1>5, Zenon DEF LinkIInv

-----------------------------------------------------------------------------
(* No two modules are the first to have a name. *)
LEMMA FirstIsOne ==
  ASSUME Listed, NEW name, NEW j, NEW k, IsFirst(j, name), IsFirst(k, name)
  PROVE  j = k
<1>1. j \in Int /\ k \in Int
  BY DEF Listed, IsFirst, Loaded
<1> QED
  BY <1>1 DEF IsFirst

(* A name in a module's table is one of its file's, resolved. *)
LEMMA Has ==
  ASSUME LinkIInv, NEW i \in Loaded, NEW name, name \in DOMAIN modules[i].syms
  PROVE  Resolved(i, name) /\ modules[i].syms[name].kind \in {"stub", "function", "null"}
BY Zenon DEF LinkIInv, ModuleOK

(* What a slot holds says whether the module's table has the name. *)
LEMMA Slot ==
  ASSUME LinkIInv, NEW i \in Loaded, NEW name \in DOMAIN modules[i].slots
  PROVE  /\ Resolved(i, name)
         /\ \/ /\ name \in DOMAIN modules[i].syms
               /\ modules[i].slots[name] = modules[i].syms[name]
               /\ modules[i].slots[name] # Unwritten
            \/ /\ name \notin DOMAIN modules[i].syms
               /\ modules[i].slots[name] = Unwritten /\ modules[i].slots[name] # Null
<1>1. Resolved(i, name) /\ modules[i].slots[name] = RelocateSlot(modules[i].syms, name)
  BY Zenon DEF LinkIInv, ModuleOK
<1>2. CASE name \in DOMAIN modules[i].syms
  <2>1. modules[i].slots[name] = modules[i].syms[name]
    BY <1>1, <1>2, Zenon DEF RelocateSlot
  <2>2. modules[i].syms[name].kind # Unwritten.kind
    BY <1>2, Has, Kinds, Zenon
  <2> QED
    BY <1>1, <1>2, <2>1, <2>2, Zenon
<1>3. CASE name \notin DOMAIN modules[i].syms
  <2>1. modules[i].slots[name] = Unwritten
    BY <1>1, <1>3, Zenon DEF RelocateSlot
  <2>2. Unwritten # Null
    BY Kinds, Zenon
  <2> QED
    BY <1>1, <1>3, <2>1, <2>2, Zenon
<1> QED
  BY <1>2, <1>3, Zenon

(* The names of all modules agree, from how each was resolved. *)
LEMMA Agreement == LinkIInv => BindingsAgree
<1> SUFFICES ASSUME LinkIInv, NEW i \in Loaded, NEW name \in DOMAIN modules[i].slots,
                    References(i, name), modules[i].slots[name] \notin {Null, Unwritten},
                    NEW j \in Loaded, IsFirst(j, name)
             PROVE  modules[i].slots[name] = modules[j].syms[name]
  BY Zenon DEF BindingsAgree
<1>1. /\ Resolved(i, name) /\ name \in DOMAIN modules[i].syms
      /\ modules[i].slots[name] = modules[i].syms[name] /\ modules[i].syms[name] # Null
  BY Slot, Zenon
<1>2. Symbol[modules[i].file][name] # "defined"
  BY Zenon DEF References
<1>3. CASE name \in DOMAIN hookedSymbols
  <2>1. modules[i].syms[name] = Stub(name)
    BY <1>1, <1>3, Zenon DEF Resolved
  <2>2. Resolved(j, name)
    BY Has, Zenon DEF IsFirst
  <2>3. modules[j].syms[name] = Stub(name)
    BY <1>3, <2>2, Zenon DEF Resolved
  <2> QED
    BY <1>1, <2>1, <2>3, Zenon
<1>4. CASE name \notin DOMAIN hookedSymbols
  <2>1. PICK k \in 1 .. i - 1 :
          IsFirst(k, name) /\ modules[i].syms[name] = modules[k].syms[name]
    BY <1>1, <1>2, <1>4, Zenon DEF Resolved
  <2>2. j = k
    BY <2>1, FirstIsOne, Zenon DEF LinkIInv
  <2> QED
    BY <1>1, <2>1, <2>2, Zenon
<1> QED
  BY <1>3, <1>4, Zenon

(* The slots without a function are justified in the same way. *)
LEMMA Justification == LinkIInv => SlotsJustified
<1>1. LinkIInv => NullOnlyByWeak
  <2> SUFFICES ASSUME LinkIInv, NEW i \in Loaded, NEW name \in DOMAIN modules[i].slots,
                      modules[i].slots[name] = Null
               PROVE  \E j \in Loaded : IsFirst(j, name) /\ Symbol[modules[j].file][name] = "weak"
    BY Zenon DEF NullOnlyByWeak
  <2>1. Resolved(i, name) /\ name \in DOMAIN modules[i].syms /\ modules[i].syms[name] = Null
    BY Slot, Zenon
  <2>2. ASSUME NEW k \in Loaded, Resolved(k, name), name \in DOMAIN modules[k].syms,
               modules[k].syms[name] = Null
        PROVE  \/ \E j \in 1 .. k - 1 : IsFirst(j, name) /\ modules[j].syms[name] = Null
               \/ NobodyHas(k, name) /\ Symbol[modules[k].file][name] = "weak"
    <3>1. Stub(name) # Null /\ Function(k, name) # Null
      BY Kinds, Zenon
    <3> QED
      BY <2>2, <3>1, Zenon DEF Resolved
  <2>3. ASSUME NEW k \in Loaded, NobodyHas(k, name), name \in DOMAIN modules[k].syms
        PROVE  IsFirst(k, name)
    <3>1. Loaded \subseteq Nat \ {0}
      BY DEF LinkIInv, Listed, Loaded
    <3>2. ASSUME NEW j \in Loaded, j < k PROVE j \in 1 .. k - 1
      BY <3>1, <3>2
    <3> QED
      BY <2>3, <3>2, Zenon DEF NobodyHas, IsFirst
  <2>4. ASSUME NEW j, IsFirst(j, name), modules[j].syms[name] = Null
        PROVE  Symbol[modules[j].file][name] = "weak" /\ j \in Loaded
    <3>1. j \in Loaded /\ name \in DOMAIN modules[j].syms /\ Resolved(j, name)
      BY <2>4, Has, Zenon DEF IsFirst
    <3>2. ASSUME NEW k \in 1 .. j - 1, IsFirst(k, name) PROVE FALSE
      <4>1. k = j /\ j \in Nat
        BY <2>4, <3>2, FirstIsOne DEF LinkIInv, Listed, IsFirst, Loaded
      <4> QED
        BY <3>2, <4>1
    <3> QED
      BY <2>2, <2>4, <3>1, <3>2, Zenon
  <2> QED
    BY <2>1, <2>2, <2>3, <2>4, Zenon
<1>2. LinkIInv => UnwrittenOnlyIfMissing
  <2> SUFFICES ASSUME LinkIInv, NEW i \in Loaded, NEW name \in DOMAIN modules[i].slots,
                      modules[i].slots[name] = Unwritten,
                      NEW j \in Loaded, j <= i, Symbol[modules[j].file][name] = "defined"
               PROVE  FALSE
    BY Zenon DEF UnwrittenOnlyIfMissing
  <2>1. Resolved(i, name) /\ name \notin DOMAIN modules[i].syms
    BY Slot, Zenon
  <2>2. /\ name \notin DOMAIN hookedSymbols /\ Symbol[modules[i].file][name] # "defined"
        /\ NobodyHas(i, name)
    BY <2>1, Zenon DEF Resolved
  <2>3. j # i /\ j \in Nat \ {0} /\ i \in Nat
    BY <2>2 DEF LinkIInv, Listed, Loaded
  <2>4. name \in Names
    BY Zenon DEF LinkIInv, ModuleOK, NamesOf
  <2>5. Resolved(j, name)
    BY <2>4, Zenon DEF LinkIInv, ModuleOK, NamesOf
  <2>6. name \in DOMAIN modules[j].syms
    BY <2>2, <2>5, Zenon DEF Resolved
  <2> QED
    BY <2>2, <2>3, <2>6 DEF NobodyHas
<1> QED
  BY <1>1, <1>2, Zenon DEF SlotsJustified

-----------------------------------------------------------------------------
(* The list of modules as GuestCalls loads them *)

(* Every action of GuestCalls leaves the list alone or adds to it. *)
LEMMA ListGrows == CallsNext => Grows
<1> SUFFICES ASSUME CallsNext PROVE Grows
  BY Zenon
<1>1. ASSUME NEW i, NEW name, NEW onStack, callSymbol(i, name, onStack) PROVE Grows
  BY <1>1, Zenon DEF callSymbol, Grows
<1>2. ASSUME NEW file \in Files, loadLibrary(file) PROVE Grows
  BY <1>2, Zenon DEF loadLibrary, LoadShared, Grows
<1>3. ASSUME NEW name, addSymbolHook(name) PROVE Grows
  BY <1>3, Zenon DEF addSymbolHook, Grows
<1>4. CASE Traced \/ Jump \/ CallbackObserves
  BY <1>4, Zenon DEF Traced, Jump, CallbackObserves, Grows
<1>5. CASE SymCall \/ JniCall \/ HookerCall \/ CallbackReplaces
  BY <1>5, Zenon DEF SymCall, JniCall, HookerCall, CallbackReplaces, unchangedInHook, Grows
<1>6. CASE CallbackThrows \/ RunsWild
  BY <1>6, Zenon DEF CallbackThrows, RunsWild, LevelThrows, Grows
<1>7. CASE Quit \/ Halt
  BY <1>7, Zenon DEF Quit, Halt, LevelReturns, Grows
<1>8. CASE EnterFunction \/ EnterStub \/ LeaveStub \/ GuestReturns
  BY <1>8, Zenon DEF EnterFunction, EnterStub, LeaveStub, GuestReturns, unchangedByInsn, Grows
<1>9. CASE GuestCalls
  BY <1>9, Zenon DEF GuestCalls, GuestCallsPlace, unchangedByInsn, Grows
<1> QED
  BY <1>1, <1>2, <1>3, <1>4, <1>5, <1>6, <1>7, <1>8, <1>9, Zenon DEF CallsNext

-----------------------------------------------------------------------------
(* What the linker keeps true of the list of modules: every name of every
   module is resolved as load order says (Modules.loadModule). *)
THEOREM LinkInductive == CallsSpec => []LinkIInv
<1>1. CallsInit => LinkIInv
  <2> SUFFICES ASSUME CallsInit PROVE LinkIInv
    BY Zenon
  <2>1. modules = << >> /\ modules \in Seq({}) /\ DOMAIN modules = {}
    BY DEF CallsInit
  <2>2. FirstKnown
    BY <2>1, Zenon DEF FirstKnown, Providers
  <2> QED
    BY <2>1, <2>2, Zenon DEF LinkIInv, Listed, Loaded
<1>2. LinkIInv /\ [CallsNext]_callsVars => LinkIInv'
  <2> SUFFICES ASSUME LinkIInv, [CallsNext]_callsVars PROVE LinkIInv'
    BY Zenon
  <2>1. CASE UNCHANGED modules
    BY <2>1, UnchangedStep, Zenon
  <2>2. CASE modules' = Append(modules, NullModule)
    BY <2>2, NullStep, Zenon
  <2>3. ASSUME NEW file \in Files, modules' = Append(modules, loadElfModule(file))
        PROVE  LinkIInv'
    BY <2>3, LoadStep, Zenon
  <2>4. CASE UNCHANGED callsVars
    BY <2>1, <2>4, Zenon DEF callsVars
  <2> QED
    BY <2>1, <2>2, <2>3, <2>4, ListGrows, Zenon DEF Grows
<1> QED
  BY <1>1, <1>2, PTL DEF CallsSpec

(* All modules mean the same function by an external name, whatever is loaded
   in whatever order (Modules.lookupSymbol, Modules.getSymValue). *)
THEOREM LinkBindingsAgree == CallsSpec => []BindingsAgree
BY LinkInductive, Agreement, PTL

(* A slot without a function is one that load order explains: address 0 comes
   from a weak reference that was first, and a word is left as it was only when
   no module up to this one defines the name (Modules.relocateDynSymbol). *)
THEOREM LinkSlotsJustified == CallsSpec => []SlotsJustified
BY LinkInductive, Justification, PTL

(* The next handler that acts, or none. *)
LEMMA NextActs ==
  ASSUME HandlersOK, NEW k \in 1 .. Done, NEW insn, NEW at
  PROVE  LET j == NextActing(k, insn, at)
         IN  /\ j \in k .. Done
             /\ j = Done \/ Acts(codeList[j], insn, at)
             /\ \A i \in k .. j - 1 : ~Acts(codeList[i], insn, at)
<1> DEFINE Acting == {j \in k .. Done : j = Done \/ Acts(codeList[j], insn, at)}
<1>1. Done \in Nat
  BY DEF HandlersOK, Done
<1>2. Acting \subseteq Nat /\ Done \in Acting
  BY <1>1
<1>3. PICK j \in Acting : \A i \in Acting : j <= i
  <2>1. /\ Len(codeList) \in Nat /\ Done = Len(codeList) + 1 /\ Done >= 3
        /\ \A i \in 3 .. Len(codeList) : codeList[i] = "hooker"
    BY DEF HandlersOK, Done
  <2>2. ASSUME NEW n \in k .. Done, n >= 3, \A i \in k .. n - 1 : i \notin Acting
        PROVE  \E j \in Acting : \A i \in Acting : j <= i
    <3>1. CASE n \in Acting
      <4>1. \A i \in Acting : n <= i
        BY <2>2
      <4> QED BY <3>1, <4>1, Zenon
    <3>2. CASE n \notin Acting
      <4>1. n \in 3 .. Len(codeList) /\ ~Acts("hooker", insn, at)
        BY <1>1, <2>1, <2>2, <3>2
      <4>2. \A i \in Acting : i \in 3 .. Len(codeList) => i = Done
        BY <2>1, <4>1
      <4>3. \A i \in Acting : Done <= i
        BY <1>1, <2>1, <2>2, <4>2
      <4> QED BY <1>2, <4>3, Zenon
    <3> QED BY <3>1, <3>2, Zenon
  <2>3. CASE k \in Acting
    <3>1. \A i \in Acting : k <= i
      BY <1>1
    <3> QED BY <2>3, <3>1, Zenon
  <2>4. CASE k \notin Acting /\ k + 1 \in Acting
    <3>1. \A i \in Acting : k + 1 <= i
      BY <1>1, <2>4
    <3> QED BY <2>4, <3>1, Zenon
  <2>5. CASE k \notin Acting /\ k + 1 \notin Acting
    <3>1. k + 2 \in k .. Done /\ k + 2 >= 3 /\ \A i \in k .. k + 1 : i \notin Acting
      BY <1>1, <2>1, <2>5
    <3> QED BY <3>1, <2>2
  <2> QED BY <2>3, <2>4, <2>5, Zenon
<1>4. j \in k .. Done /\ (j = Done \/ Acts(codeList[j], insn, at))
  BY <1>3, Zenon
<1>5. \A i \in k .. j - 1 : ~Acts(codeList[i], insn, at)
  BY <1>1, <1>3, <1>4
<1> QED BY <1>4, <1>5, Zenon DEF NextActing

-----------------------------------------------------------------------------
(* Native calls: the handlers *)

(* The first handler that has something to do at an instruction. *)
LEMMA TracedStep ==
  ASSUME CallsIInv, LinkIInv, LinkIInv', Listed', Traced
  PROVE  CallsIInv'
<1> DEFINE j == NextActing(1, pc, pc)
<1> DEFINE new == [Top EXCEPT !.insn = pc, !.it = j]
<1>1. levels # << >> /\ Top.it = 0 /\ ~Top.java /\ j # Done
  BY Zenon DEF Traced, Running
<1>2. InnerOK
  BY <1>1, TopFacts, Zenon
<1>3. j \in 1 .. Len(codeList) /\ Acts(codeList[j], pc, pc)
  <2>1. 1 \in 1 .. Done /\ HandlersOK
    BY <1>2, SMTT(30) DEF CallsIInv, InnerOK
  <2>2. j \in 1 .. Done /\ (j = Done \/ Acts(codeList[j], pc, pc))
    BY <2>1, NextActs, Zenon
  <2> QED BY <1>1, <1>2, <2>2, SMTT(30) DEF InnerOK
<1>4. /\ UNCHANGED unchangedAround /\ levels' = SetTop(new)
      /\ pc' = pc /\ lr' = lr /\ r0' = r0 /\ stack' = stack /\ disturbed' = disturbed
  BY Zenon DEF Traced, unchangedAround, regs
<1> HIDE DEF j
<1>5. /\ new \in LevelSet /\ new.sp = Top.sp /\ new.for = Top.for /\ new.body = Top.body
      /\ new.it = j /\ new.insn = pc /\ new.lr = Top.lr /\ new.java = Top.java
      /\ new.jump = Top.jump /\ j # 0
  <2>1. Top \in LevelSet
    BY <1>2, Zenon DEF InnerOK
  <2>2. j \in Nat /\ j # 0 /\ pc \in PlaceSet
    BY <1>2, <1>3, SMTT(30) DEF InnerOK
  <2> QED BY <2>1, <2>2, Zenon DEF LevelSet
<1> HIDE DEF new
<1>6. Installed(new)
  BY <1>1, <1>4, <1>5, NewTop, Zenon
<1>7. Cur(Depth) = pc /\ Cur(Depth)' = pc
  BY <1>1, <1>2, <1>5, <1>6, Zenon DEF Cur, InnerOK, Installed
<1>8. ~Top.jump
  BY <1>1, <1>2, Zenon DEF CallsIInv, TurnOK, InnerOK
<1>9. pc.kind = "mov" \/ pc \in hookers
  <2>1. codeList[j] \in {"sym", "jni", "hooker"}
    BY <1>3, SMTT(30) DEF CallsIInv, HandlersOK
  <2> QED BY <1>3, <2>1, Zenon DEF Acts
<1>10. LevelOK(Depth)'
  BY <1>1, <1>2, <1>3, <1>4, <1>5, <1>6, <1>9, SMTT(30) DEF LevelOK, InnerOK, Installed
<1>11. TurnOK'
  BY <1>3, <1>4, <1>5, <1>6, <1>8, Zenon DEF TurnOK, Acts, Installed
<1>12. TopStackOK'
  BY <1>1, <1>2, <1>4, <1>5, <1>6, <1>7, <1>8, Zenon DEF TopStackOK, GoesBack, InnerOK, Installed
<1>13. ~disturbed' => KnowsWay(Depth)'
  BY <1>1, <1>2, <1>4, <1>5, <1>6, <1>7, <1>8, SMTT(30) DEF KnowsWay, InnerOK, Installed
<1>14. Reachable(pc)' /\ StackStep
  BY <1>2, <1>4, <1>6, Zenon DEF Reachable, InReach, StackStep, InnerOK, Installed
<1> QED BY <1>2, <1>4, <1>5, <1>10, <1>11, <1>12, <1>13, <1>14, TopStep, Zenon DEF InnerOK

(* SymHooker.hook and JHandler.hook: at a MOV R4, R4, which PC has not left. *)
LEMMA StubHookStep ==
  ASSUME CallsIInv, LinkIInv, LinkIInv', Listed', SymCall \/ JniCall
  PROVE  CallsIInv'
<1> DEFINE j == NextActing(Top.it + 1, Top.insn, pc)
<1>1. /\ levels # << >> /\ ~Top.java /\ Top.it \in 1 .. Len(codeList)
      /\ codeList[Top.it] \in {"sym", "jni"}
  BY SMTT(30) DEF SymCall, JniCall, HookIs, Running, CallsIInv, HandlersOK
<1>2. InnerOK
  BY <1>1, TopFacts, Zenon
<1>3. j \in Top.it + 1 .. Done /\ (j = Done \/ Acts(codeList[j], Top.insn, pc))
  <2>1. Top.it + 1 \in 1 .. Done /\ HandlersOK
    BY <1>1, <1>2, SMTT(30) DEF CallsIInv, InnerOK
  <2> QED BY <2>1, NextActs, Zenon
<1>4. /\ UNCHANGED unchangedAround
      /\ pc' = pc /\ lr' = lr /\ stack' = stack /\ disturbed' = disturbed
  BY Zenon DEF SymCall, JniCall, unchangedInHook, unchangedAround
<1>5. Top.insn.kind = "mov" /\ Top.insn = pc /\ ~Top.jump
  <2>1. Acts(codeList[Top.it], Top.insn, pc)
    BY <1>1, <1>2, Zenon DEF CallsIInv, TurnOK, InnerOK
  <2>2. Top.insn.kind = "mov" /\ Top.it # 0
    BY <1>1, <2>1, ActsMeans
  <2> QED BY <1>1, <1>2, <2>2, Zenon DEF CallsIInv, TurnOK, InnerOK
<1>6. PICK new : /\ levels' = SetTop(new)
                 /\ new = Passed \/ new = [Passed EXCEPT !.quit = TRUE]
  BY Zenon DEF SymCall, JniCall, Caught
<1>7. r0' \in {"guest", "sym", "jni", "hook"}
  BY <1>2, Zenon DEF SymCall, JniCall, Caught, InnerOK
<1>8. Passed = [Top EXCEPT !.it = j]
  BY Zenon DEF Passed
<1> HIDE DEF j
<1>9. /\ new \in LevelSet /\ new.sp = Top.sp /\ new.for = Top.for /\ new.body = Top.body
      /\ new.it = j /\ new.insn = Top.insn /\ new.lr = Top.lr /\ new.java = Top.java
      /\ new.jump = Top.jump /\ j # 0
  <2>1. Top \in LevelSet
    BY <1>2, Zenon DEF InnerOK
  <2>2. j \in Nat /\ j # 0
    BY <1>1, <1>2, <1>3, SMTT(30) DEF InnerOK
  <2>3. CASE new = Passed
    BY <1>8, <2>1, <2>2, <2>3, Zenon DEF LevelSet
  <2>4. CASE new = [Passed EXCEPT !.quit = TRUE]
    BY <1>8, <2>1, <2>2, <2>4, Zenon DEF LevelSet
  <2> QED BY <1>6, <2>3, <2>4, Zenon
<1>10. Installed(new)
  BY <1>1, <1>4, <1>6, <1>9, NewTop, Zenon
<1>11. Cur(Depth) = Top.insn /\ Cur(Depth)' = Top.insn
  BY <1>1, <1>2, <1>9, <1>10, SMTT(30) DEF Cur, InnerOK, Installed
<1>12. LevelOK(Depth)'
  BY <1>1, <1>2, <1>3, <1>4, <1>5, <1>9, <1>10, SMTT(20) DEF LevelOK, InnerOK, Installed
<1>13. TurnOK'
  <2>1. (Top.it)' \in 1 .. Len(codeList') => Acts(codeList[j], Top.insn, pc)
    BY <1>2, <1>3, <1>9, <1>10, SMTT(30) DEF InnerOK, Installed
  <2> QED BY <2>1, <1>4, <1>5, <1>9, <1>10, Zenon DEF TurnOK, Acts, Installed
<1>14. TopStackOK'
  BY <1>1, <1>2, <1>4, <1>5, <1>9, <1>10, <1>11, Zenon DEF TopStackOK, GoesBack, InnerOK, Installed
<1>15. ~disturbed' => KnowsWay(Depth)'
  BY <1>1, <1>2, <1>4, <1>5, <1>9, <1>10, <1>11, Zenon DEF KnowsWay, InnerOK, Installed
<1>16. Reachable(pc)' /\ StackStep
  BY <1>2, <1>4, <1>10, Zenon DEF Reachable, InReach, StackStep, InnerOK, Installed
<1> QED BY <1>2, <1>4, <1>6, <1>7, <1>9, <1>12, <1>13, <1>14, <1>15, <1>16, TopStep, SMTT(20) DEF InnerOK

(* Once a callback has written PC no handler acts any more. *)
LEMMA ReplacesStep ==
  ASSUME CallsIInv, LinkIInv, LinkIInv', Listed', CallbackReplaces
  PROVE  CallsIInv'
<1> DEFINE j == NextActing(Top.it + 1, Top.insn, Top.lr)
<1> DEFINE new == [Top EXCEPT !.java = FALSE, !.jump = TRUE, !.it = j]
<1>1. levels # << >> /\ Top.java
  BY Zenon DEF CallbackReplaces, InCallback
<1>2. InnerOK
  BY <1>1, TopFacts, Zenon
<1>3. /\ UNCHANGED unchangedAround /\ levels' = SetTop(new)
      /\ pc' = Top.lr /\ lr' = lr /\ r0' = "hook" /\ stack' = stack /\ disturbed' = disturbed
  BY Zenon DEF CallbackReplaces, unchangedInHook, unchangedAround
<1>4. /\ Top.it \in 1 .. Len(codeList) /\ Top.it # 0 /\ Top.insn \in hookers /\ ~Top.jump
      /\ Top.lr.kind \in {"back", "stop"}
  BY <1>1, <1>2, SMTT(30) DEF LevelOK, InnerOK
<1>5. Top.insn.kind \in {"function", "stub"} /\ Top.lr \notin hookers
  BY <1>2, <1>4, Zenon DEF InnerOK
<1>6. j = Done
  <2>1. Top.it + 1 \in 1 .. Done /\ HandlersOK
    BY <1>2, <1>4, SMTT(30) DEF CallsIInv, InnerOK
  <2>2. j \in Top.it + 1 .. Done /\ (j = Done \/ Acts(codeList[j], Top.insn, Top.lr))
    BY <2>1, NextActs, Zenon
  <2> HIDE DEF j
  <2>3. SUFFICES ASSUME j # Done PROVE FALSE
    BY Zenon
  <2>4. j \in 1 .. Len(codeList)
    BY <1>2, <1>4, <2>2, <2>3, SMTT(30) DEF InnerOK
  <2>5. codeList[j] \in {"sym", "jni", "hooker"}
    BY <2>4, SMTT(30) DEF CallsIInv, HandlersOK
  <2> QED BY <1>5, <2>2, <2>3, <2>5, ActsMeans, Zenon
<1> HIDE DEF j
<1>7. /\ new \in LevelSet /\ new.sp = Top.sp /\ new.for = Top.for /\ new.body = Top.body
      /\ new.it = Done /\ new.insn = Top.insn /\ ~new.java /\ new.jump
      /\ Top.lr \in PlaceSet /\ Done # 0
  <2>1. Top \in LevelSet
    BY <1>2, Zenon DEF InnerOK
  <2>2. j \in Nat /\ Done # 0
    BY <1>2, <1>6, SMTT(30) DEF InnerOK
  <2> QED BY <1>6, <2>1, <2>2, Zenon DEF LevelSet
<1> HIDE DEF new
<1>8. Installed(new)
  BY <1>1, <1>3, <1>7, NewTop, Zenon
<1>9. Cur(Depth) = Top.insn /\ Cur(Depth)' = Top.insn
  BY <1>1, <1>2, <1>4, <1>7, <1>8, Zenon DEF Cur, InnerOK, Installed
<1>10. LevelOK(Depth)'
  BY <1>2, <1>3, <1>4, <1>7, <1>8, SMTT(30) DEF LevelOK, InnerOK, Installed
<1>11. TurnOK'
  <2>1. ~(Done \in 1 .. Len(codeList))
    BY <1>2, SMTT(30) DEF InnerOK
  <2> QED BY <1>3, <1>4, <1>5, <1>7, <1>8, <2>1, Zenon DEF TurnOK, Installed
<1>12. TopStackOK'
  BY <1>1, <1>2, <1>3, <1>7, <1>8, <1>9, ZenonT(30) DEF TopStackOK, GoesBack, InnerOK, Installed
<1>13. ~disturbed' => KnowsWay(Depth)'
  BY <1>1, <1>2, <1>3, <1>4, <1>5, <1>7, <1>8, <1>9, SMTT(20) DEF KnowsWay, InnerOK, Installed, Alive
<1>14. Reachable(pc)' /\ StackStep
  BY <1>3, <1>4, <1>7, Zenon DEF Reachable, InReach, StackStep
<1> QED BY <1>2, <1>3, <1>7, <1>10, <1>11, <1>12, <1>13, <1>14, TopStep, Zenon DEF InnerOK

(* A callback that only observes: LR is what the function was entered with
   unless the callback has made a call. *)
LEMMA ObservesStep ==
  ASSUME CallsIInv, LinkIInv, LinkIInv', Listed', CallbackObserves
  PROVE  CallsIInv'
<1> DEFINE j == NextActing(Top.it + 1, Top.insn, pc)
<1> DEFINE new == [Passed EXCEPT !.java = FALSE]
<1>1. levels # << >> /\ Top.java
  BY Zenon DEF CallbackObserves, InCallback
<1>2. InnerOK
  BY <1>1, TopFacts, Zenon
<1>3. /\ UNCHANGED unchangedAround /\ levels' = SetTop(new)
      /\ pc' = pc /\ lr' = lr /\ r0' = r0 /\ stack' = stack /\ disturbed' = (disturbed \/ Top.made)
  BY Zenon DEF CallbackObserves, unchangedAround, regs
<1>4. Top.it \in 1 .. Len(codeList) /\ Top.it # 0 /\ Top.insn \in hookers /\ ~Top.jump
  BY <1>1, <1>2, SMTT(30) DEF LevelOK, InnerOK
<1>5. Top.insn.kind \in {"function", "stub"}
  BY <1>2, <1>4, Zenon DEF InnerOK
<1>6. j \in Top.it + 1 .. Done /\ (j = Done \/ Acts(codeList[j], Top.insn, pc))
  <2>1. Top.it + 1 \in 1 .. Done /\ HandlersOK
    BY <1>2, <1>4, SMTT(30) DEF CallsIInv, InnerOK
  <2> QED BY <2>1, NextActs, Zenon
<1>7. Passed = [Top EXCEPT !.it = j]
  BY Zenon DEF Passed
<1> HIDE DEF j
<1>8. /\ new \in LevelSet /\ new.sp = Top.sp /\ new.for = Top.for /\ new.body = Top.body
      /\ new.it = j /\ new.insn = Top.insn /\ ~new.java /\ new.jump = Top.jump /\ j # 0
      /\ Top.made \in BOOLEAN
  <2>1. Top \in LevelSet
    BY <1>2, Zenon DEF InnerOK
  <2>2. j \in Nat /\ j # 0
    BY <1>2, <1>4, <1>6, SMTT(30) DEF InnerOK
  <2> QED BY <1>7, <2>1, <2>2, Zenon DEF LevelSet
<1> HIDE DEF new
<1>9. Installed(new)
  BY <1>1, <1>3, <1>8, NewTop, Zenon
<1>10. Cur(Depth) = Top.insn /\ Cur(Depth)' = Top.insn
  BY <1>1, <1>2, <1>4, <1>8, <1>9, Zenon DEF Cur, InnerOK, Installed
<1>11. LevelOK(Depth)'
  BY <1>2, <1>3, <1>4, <1>6, <1>8, <1>9, SMTT(30) DEF LevelOK, InnerOK, Installed
<1>12. TurnOK'
  <2>1. (Top.it)' \in 1 .. Len(codeList') => Acts(codeList[j], Top.insn, pc)
    BY <1>2, <1>6, <1>8, <1>9, SMTT(30) DEF InnerOK, Installed
  <2> QED BY <1>3, <1>4, <1>5, <1>8, <1>9, <2>1, ZenonT(30) DEF TurnOK, Acts, Installed
<1>13. TopStackOK'
  BY <1>2, <1>3, <1>4, <1>8, <1>9, <1>10, ZenonT(30) DEF TopStackOK, GoesBack, InnerOK, Installed
<1>14. ~disturbed' => KnowsWay(Depth)'
  BY <1>1, <1>2, <1>3, <1>4, <1>5, <1>8, <1>9, <1>10, SMTT(20) DEF KnowsWay, InnerOK, Installed, Alive
<1>15. Reachable(pc)' /\ StackStep
  BY <1>2, <1>3, <1>9, Zenon DEF Reachable, InReach, StackStep, InnerOK, Installed
<1>16. disturbed' \in BOOLEAN /\ (disturbed => disturbed')
  BY <1>2, <1>3, <1>8, Zenon DEF InnerOK
<1> QED BY <1>2, <1>3, <1>8, <1>11, <1>12, <1>13, <1>14, <1>15, <1>16, TopStep, Zenon DEF InnerOK

-----------------------------------------------------------------------------
(* Native calls: loading *)


(* The tables of a library hold places that native code can get to. *)
LEMMA NewTables ==
  ASSUME LinkIInv, TablesOK, NEW file \in Files, NEW m, m = loadElfModule(file),
         NEW i, i = Len(modules) + 1, i \in Nat, NEW loaded, Loaded \subseteq loaded, i \in loaded
  PROVE  ModuleTables(m, loaded)
<1>1. Tables(i, file, m)
  BY LoadedTables, Zenon
<1>2. DOMAIN m.words = NamesOf(file) /\ \A name \in NamesOf(file) : m.words[name] = RelocateAbs(i, file, name)
  BY Zenon DEF loadElfModule, relocateDynSymbols
<1>3. \A name \in NamesOf(file) : name \in Names
  BY Zenon DEF NamesOf
<1>4. ASSUME NEW name \in Names
      PROVE  /\ Linked(Stub(name), loaded) /\ Linked(Function(i, name), loaded)
             /\ Linked(Null, loaded) /\ Linked(Unwritten, loaded) /\ Linked(Place("base", i, "", 0), loaded)
  BY <1>4, Zenon DEF Linked, LinkedKinds, InReach, PlaceSet, PlaceKinds, Stub, Function, Null, Unwritten, Place
<1>5. ASSUME NEW name \in DOMAIN m.syms PROVE Linked(m.syms[name], loaded)
  <2>1. PICK v : v = getSymValue(i, file, name)
    BY Zenon
  <2>2. name \in NamesOf(file) /\ v # SYMBOL_UNDEF /\ m.syms[name] = v /\ name \in Names
    BY <1>1, <1>3, <1>5, <2>1, Zenon DEF Tables
  <2>3. Value(i, file, name, v)
    BY <2>1, <2>2, ValueOf, Zenon
  <2>4. ASSUME NEW j, IsFirst(j, name) PROVE Linked(modules[j].syms[name], loaded)
    <3>1. j \in Loaded /\ name \in DOMAIN modules[j].syms
      BY <2>4, Zenon DEF IsFirst
    <3>2. Linked(modules[j].syms[name], Loaded)
      BY <3>1, Zenon DEF TablesOK, ModuleTables
    <3> QED BY <3>2, ReachGrows, Zenon
  <2> QED BY <1>4, <2>2, <2>3, <2>4, Zenon DEF Value
<1>6. ASSUME NEW name \in DOMAIN m.slots
      PROVE  Linked(m.slots[name], loaded) /\ Linked(m.words[name], loaded)
  <2>1. name \in NamesOf(file) /\ name \in Names /\ m.slots[name] = RelocateSlot(m.syms, name)
    BY <1>1, <1>3, <1>6, Zenon DEF Tables
  <2>2. Linked(m.slots[name], loaded)
    BY <1>4, <1>5, <2>1, Zenon DEF RelocateSlot
  <2>3. Linked(m.words[name], loaded)
    BY <1>2, <1>4, <2>1, Zenon DEF RelocateAbs
  <2> QED BY <2>2, <2>3, Zenon
<1>7. DOMAIN m.slots \subseteq DOMAIN m.words
  BY <1>1, <1>2, Zenon DEF Tables
<1> QED BY <1>5, <1>6, <1>7, Zenon DEF ModuleTables

(* More modules leave the tables of the others alone. *)
LEMMA TablesStep ==
  ASSUME LinkIInv, TablesOK, Grows
  PROVE  /\ TablesOK' /\ Loaded \subseteq Loaded'
         /\ \A i \in Loaded : modules'[i] = modules[i]
<1>1. CASE UNCHANGED modules
  BY <1>1, Zenon DEF TablesOK, Loaded
<1>2. ASSUME NEW m, modules' = Append(modules, m),
             m # NullModule => ModuleTables(m, Loaded')
      PROVE  /\ TablesOK' /\ Loaded \subseteq Loaded'
             /\ \A i \in Loaded : modules'[i] = modules[i]
  <2>1. /\ Loaded \subseteq Loaded' /\ \A i \in Loaded : modules'[i] = modules[i]
        /\ \A i \in Loaded' : i \in Loaded \/ i = Len(modules) + 1
        /\ Len(modules) + 1 \in Loaded' <=> m # NullModule
        /\ modules'[Len(modules) + 1] = m
    BY <1>2, AppendKeeps, LoadedKeeps DEF LinkIInv
  <2>2. ASSUME NEW i \in Loaded PROVE ModuleTables(modules[i], Loaded')
    <3>1. ModuleTables(modules[i], Loaded)
      BY <2>2, Zenon DEF TablesOK
    <3> QED BY <2>1, <3>1, ReachGrows, Zenon DEF ModuleTables
  <2>3. \A i \in Loaded' : ModuleTables(modules'[i], Loaded')
    BY <1>2, <2>1, <2>2, Zenon
  <2> QED BY <2>1, <2>3, Zenon DEF TablesOK
<1>3. CASE modules' = Append(modules, NullModule)
  BY <1>2, <1>3, Zenon
<1>4. ASSUME NEW file \in Files, modules' = Append(modules, loadElfModule(file))
      PROVE  /\ TablesOK' /\ Loaded \subseteq Loaded'
             /\ \A i \in Loaded : modules'[i] = modules[i]
  <2>1. PICK m : m = loadElfModule(file)
    BY Zenon
  <2>2. modules' = Append(modules, m) /\ m # NullModule /\ Listed
    BY <1>4, <2>1, NotNullModule, Zenon DEF LinkIInv
  <2>3. PICK i : i = Len(modules) + 1
    BY Zenon
  <2>4. Loaded \subseteq Loaded' /\ i \in Loaded' /\ i \in Nat
    BY <2>2, <2>3, AppendKeeps, LoadedKeeps, SMTT(30)
  <2>5. PICK loaded : loaded = Loaded'
    BY Zenon
  <2>6. ModuleTables(m, loaded)
    BY <2>1, <2>3, <2>4, <2>5, NewTables, Zenon
  <2> QED BY <1>2, <2>2, <2>5, <2>6, Zenon
<1> QED BY <1>1, <1>3, <1>4, Zenon DEF Grows

(* What a step keeps that registers no hook. *)
LEMMA SteadyStep ==
  ASSUME CallsIInv, LinkIInv, Grows, UNCHANGED <<codeList, hookers>>
  PROVE  /\ TablesOK' /\ HandlersOK' /\ Loaded \subseteq Loaded' /\ Steady
         /\ \A i \in Loaded : modules'[i] = modules[i]
<1>1. TablesOK' /\ Loaded \subseteq Loaded' /\ \A i \in Loaded : modules'[i] = modules[i]
  BY TablesStep, Zenon DEF CallsIInv
<1>2. \A p \in hookers : InReach(p, Loaded')
  BY <1>1, ReachGrows, Zenon DEF CallsIInv, HandlersOK, Reachable
<1> QED BY <1>1, <1>2, Zenon DEF CallsIInv, HandlersOK, Reachable, Steady

(* Emulator.callNative by the host's code. *)
LEMMA SymbolStep ==
  ASSUME CallsIInv, LinkIInv, LinkIInv', Listed', NEW i, NEW name, NEW onStack \in BOOLEAN, callSymbol(i, name, onStack)
  PROVE  CallsIInv'
<1>1. /\ Hosting /\ i \in Loaded /\ name \in DOMAIN modules[i].syms
      /\ callNative(Marked, modules[i].syms[name], onStack, 0)
      /\ Disturb(levels, onStack /\ ~LevelFree(levels))
      /\ UNCHANGED <<modules, codeList, hookers, inits>>
  BY Zenon DEF callSymbol
<1>2. /\ RestOK(Marked, stack, Loaded, hookers, Len(codeList))
      /\ ~disturbed => RestWays(Marked, stack)
      /\ Len(Marked) = Depth
      /\ \A d \in 1 .. Depth : Marked[d].for = levels[d].for
  BY <1>1, MarkedRests, Zenon
<1>3. TablesOK' /\ HandlersOK' /\ Steady
  BY <1>1, SteadyStep, Zenon DEF Grows
<1>4. Loaded' = Loaded /\ Marked \in Seq(LevelSet)
  BY <1>1, <1>2, Zenon DEF Loaded, RestOK
<1>5. /\ failed \subseteq failed' /\ failed' \subseteq failed \cup ({0} \ {0})
      /\ \A d \in 1 .. Len(Marked) : d \in 1 .. Depth' /\ levels'[d] = Marked[d]
  BY <1>1, <1>4, CalledLevels, Zenon
<1>6. ConstructorsCalled'
  <2>1. \A d \in 1 .. Depth : \E e \in 1 .. Depth' : levels'[e].for = levels[d].for
    BY <1>2, <1>5, Zenon
  <2> QED BY <1>1, <1>4, <1>5, <2>1, StillCalled, Zenon DEF CallsIInv
<1>7. Linked(modules[i].syms[name], Loaded')
  BY <1>1, <1>4, Zenon DEF CallsIInv, TablesOK, ModuleTables
<1>8. inits' \in Seq(Nat) /\ Len(inits') = Len(modules') /\ failed' \subseteq DOMAIN modules'
  BY <1>1, <1>5, Zenon DEF CallsIInv, StateOK
<1>9. disturbed' \in BOOLEAN /\ (~disturbed' => levels = << >> \/ (~disturbed /\ (onStack => LevelFree(levels))))
  BY <1>1, Zenon DEF Disturb
<1>10. ~disturbed' => RestWays(Marked, stack) /\ (onStack => LevelFree(Marked))
  <2>1. CASE levels = << >>
    <3>1. Len(Marked) = 0 /\ LevelFree(Marked)
      BY <1>2, <2>1, CallsAssumption DEF Depth, LevelFree
    <3> QED BY <3>1 DEF RestWays
  <2>2. CASE levels # << >>
    BY <1>2, <1>9, <2>2, Zenon DEF LevelFree, Depth
  <2> QED BY <2>1, <2>2, Zenon
<1> QED BY <1>1, <1>2, <1>3, <1>6, <1>7, <1>8, <1>9, <1>10, CallStep, Zenon

(* loadLibrary goes back to the host's code at once. *)
LEMMA NoConstructorsStep ==
  ASSUME CallsIInv, LinkIInv, LinkIInv', Listed', Hosting, NoConstructors, Grows, UNCHANGED <<codeList, hookers>>,
         ConstructorsCalled', Disturb(levels, FALSE),
         inits' \in Seq(Nat), Len(inits') = Len(modules'), DOMAIN modules \subseteq DOMAIN modules'
  PROVE  CallsIInv'
<1>1. /\ levels' = Marked /\ pc' = pc /\ lr' = lr /\ r0' = r0 /\ stack' = stack
      /\ throwing' = throwing /\ failed' = failed
  BY Zenon DEF NoConstructors, regs
<1>2. /\ RestOK(Marked, stack, Loaded, hookers, Len(codeList))
      /\ ~disturbed => RestWays(Marked, stack)
      /\ Len(Marked) = Depth
  BY MarkedRests, Zenon
<1>3. TablesOK' /\ HandlersOK' /\ Steady /\ Loaded \subseteq Loaded'
  BY SteadyStep, Zenon
<1>4. RestOK(levels', stack', Loaded', hookers', Len(codeList'))
  BY <1>1, <1>2, <1>3, RestGrows, Zenon
<1>5. disturbed' \in BOOLEAN /\ (~disturbed' => levels = << >> \/ ~disturbed)
  BY Zenon DEF Disturb
<1>6. ~disturbed' => RestWays(levels', stack')
  <2>1. CASE levels = << >>
    <3>1. Len(levels') = 0
      BY <1>1, <1>2, <2>1, Zenon DEF Depth
    <3> QED BY <3>1 DEF RestWays
  <2>2. CASE levels # << >>
    BY <1>1, <1>2, <1>5, <2>2, Zenon
  <2> QED BY <2>1, <2>2, Zenon
<1>7. levels' # << >> => levels # << >>
  BY <1>1, Zenon DEF Marked
<1>8. StateOK'
  <2>1. levels' \in Seq(LevelSet)
    BY <1>4, Zenon DEF RestOK
  <2>2. InReach(pc', Loaded')
    BY <1>1, <1>3, ReachGrows, Zenon DEF CallsIInv, StateOK, Reachable
  <2>3. failed' \subseteq DOMAIN modules' /\ throwing' \in BOOLEAN
    BY <1>1, Zenon DEF CallsIInv, StateOK
  <2>4. /\ lr' \in PlaceSet /\ stack' \in Seq(PlaceSet)
        /\ \A j \in 1 .. Len(stack') : stack'[j].kind \in {"args", "back", "stop"}
        /\ r0' \in {"guest", "sym", "jni", "hook"}
        /\ levels' # << >> => lr'.kind \in {"back", "stop"}
    BY <1>1, <1>7, Zenon DEF CallsIInv, StateOK
  <2> QED BY <1>5, <2>1, <2>2, <2>3, <2>4, Zenon DEF StateOK, Reachable
<1>9. \A d \in 1 .. Len(levels') - 1 : ~IsBack(lr', d)
  BY <1>1, <1>2, Zenon DEF CallsIInv, StackOK
<1>10. Len(levels') > 0 /\ IsBack(lr', Len(levels')) =>
         Len(stack') > levels'[Len(levels')].sp /\ levels'[Len(levels')].body # 0
  <2> SUFFICES ASSUME Depth > 0, IsBack(lr, Depth)
               PROVE  Len(stack) > Marked[Depth].sp /\ Marked[Depth].body # 0
    BY <1>1, <1>2, Zenon
  <2>1. levels # << >> /\ InnerOK
    BY TopFacts DEF Depth
  <2>2. Top.java
    BY <2>1, Zenon DEF Hosting
  <2>3. Top.insn \in hookers /\ Top.it # 0
    BY <2>1, <2>2, SMTT(30) DEF InnerOK, LevelOK
  <2>4. Cur(Depth) = Top.insn /\ Alive(Cur(Depth))
    BY <2>1, <2>3, Zenon DEF InnerOK, Cur, Alive
  <2>5. Len(stack) > Top.sp /\ Top.body # 0
    BY <2>1, <2>4, Zenon DEF InnerOK, TopStackOK, GoesBack
  <2>6. Marked[Depth] = [Top EXCEPT !.made = TRUE]
    BY <2>1, SMTT(30) DEF Marked, SetTop, CallsIInv, StateOK, Depth
  <2>7. Marked[Depth].sp = Top.sp /\ Marked[Depth].body = Top.body
    BY <2>1, <2>6, Zenon DEF InnerOK, LevelSet
  <2> QED BY <2>5, <2>7, Zenon
<1> QED BY <1>3, <1>4, <1>6, <1>8, <1>9, <1>10, RestStep, Zenon

(* The modules that were loaded before keep their constructors counted. *)
LEMMA CalledBefore ==
  ASSUME CallsIInv, LinkIInv, NEW m, NEW n \in Nat, modules' = Append(modules, m), inits' = Append(inits, n),
         failed \subseteq failed',
         \A d \in 1 .. Depth : \E e \in 1 .. Depth' : levels'[e].for = levels[d].for
  PROVE  /\ inits' \in Seq(Nat) /\ Len(inits') = Len(modules')
         /\ inits'[Len(modules) + 1] = n /\ DOMAIN modules \subseteq DOMAIN modules'
         /\ DOMAIN modules' = DOMAIN modules \cup {Len(modules) + 1}
         /\ Loaded' \subseteq Loaded \cup {Len(modules) + 1}
         /\ Len(modules) + 1 \in Loaded' <=> m # NullModule
         /\ \A i \in Loaded : /\ inits'[i] <= Constructors[modules'[i].file]
                              /\ \/ inits'[i] = Constructors[modules'[i].file]
                                 \/ i \in failed'
                                 \/ \E d \in 1 .. Depth' : levels'[d].for = i
<1>1. Listed /\ inits \in Seq(Nat) /\ Len(inits) = Len(modules)
  BY Zenon DEF CallsIInv, LinkIInv, StateOK
<1>2. /\ Len(modules) \in Nat /\ DOMAIN modules = 1 .. Len(modules)
      /\ DOMAIN modules' = 1 .. Len(modules) + 1 /\ Listed'
      /\ \A j \in 1 .. Len(modules) : modules'[j] = modules[j]
      /\ \A j \in 1 .. Len(modules) : j \in Loaded' <=> j \in Loaded
      /\ Loaded \subseteq 1 .. Len(modules) /\ Loaded' \subseteq 1 .. Len(modules) + 1
      /\ Len(modules) + 1 \in Loaded' <=> m # NullModule
  BY <1>1, AppendKeeps, LoadedKeeps, Zenon
<1>3. /\ inits' \in Seq(Nat) /\ Len(inits') = Len(modules) + 1 /\ inits'[Len(modules) + 1] = n
      /\ \A j \in 1 .. Len(modules) : inits'[j] = inits[j]
  BY <1>1, <1>2, SMTT(30)
<1>4. Len(modules') = Len(modules) + 1
  BY <1>2 DEF Listed
<1>5. ASSUME NEW i \in Loaded
      PROVE  /\ inits'[i] <= Constructors[modules'[i].file]
             /\ \/ inits'[i] = Constructors[modules'[i].file]
                \/ i \in failed'
                \/ \E d \in 1 .. Depth' : levels'[d].for = i
  <2>1. modules'[i] = modules[i] /\ inits'[i] = inits[i]
    BY <1>2, <1>3, <1>5, Zenon
  <2>2. /\ inits[i] <= Constructors[modules[i].file]
        /\ \/ inits[i] = Constructors[modules[i].file]
           \/ i \in failed
           \/ \E d \in 1 .. Depth : levels[d].for = i
    BY <1>5, Zenon DEF CallsIInv, ConstructorsCalled
  <2> QED BY <2>1, <2>2, Zenon
<1>6. /\ DOMAIN modules' = DOMAIN modules \cup {Len(modules) + 1}
      /\ DOMAIN modules \subseteq DOMAIN modules'
  BY <1>2
<1>7. Loaded' \subseteq Loaded \cup {Len(modules) + 1}
  BY <1>2
<1>8. Len(inits') = Len(modules')
  BY <1>3, <1>4, Zenon
<1> QED BY <1>2, <1>3, <1>5, <1>6, <1>7, <1>8, Zenon

(* Modules.loadModule and Emulator.callModuleInit. *)
LEMMA LibraryStep ==
  ASSUME CallsIInv, LinkIInv, LinkIInv', Listed', NEW file \in Files, loadLibrary(file)
  PROVE  CallsIInv'
<1>1. Hosting /\ Disturb(levels, FALSE) /\ UNCHANGED <<codeList, hookers>>
  BY Zenon DEF loadLibrary
<1>2. Grows
  BY Zenon DEF loadLibrary, LoadShared, Grows
<1>3. /\ RestOK(Marked, stack, Loaded, hookers, Len(codeList))
      /\ ~disturbed => RestWays(Marked, stack)
      /\ Len(Marked) = Depth /\ \A d \in 1 .. Depth : Marked[d].for = levels[d].for
  BY <1>1, MarkedRests, Zenon
<1>4. NoConstructors => /\ failed \subseteq failed'
                        /\ \A d \in 1 .. Depth : \E e \in 1 .. Depth' : levels'[e].for = levels[d].for
  BY <1>3, Zenon DEF NoConstructors, Depth
<1>5. CASE NoConstructors /\ UNCHANGED <<modules, inits>>
  <2>1. ConstructorsCalled'
    BY <1>4, <1>5, StillCalled, Zenon DEF CallsIInv, Loaded
  <2>2. inits' \in Seq(Nat) /\ Len(inits') = Len(modules') /\ DOMAIN modules \subseteq DOMAIN modules'
    BY <1>5, Zenon DEF CallsIInv, StateOK
  <2> QED BY <1>1, <1>2, <1>5, <2>1, <2>2, NoConstructorsStep, Zenon
<1>6. CASE NoConstructors /\ modules' = Append(modules, NullModule) /\ inits' = Append(inits, 0)
  <2>1. PICK m : m = NullModule
    BY Zenon
  <2>2. /\ inits' \in Seq(Nat) /\ Len(inits') = Len(modules') /\ DOMAIN modules \subseteq DOMAIN modules'
        /\ Loaded' \subseteq Loaded \cup {Len(modules) + 1}
        /\ Len(modules) + 1 \notin Loaded'
        /\ \A i \in Loaded : /\ inits'[i] <= Constructors[modules'[i].file]
                             /\ \/ inits'[i] = Constructors[modules'[i].file]
                                \/ i \in failed'
                                \/ \E d \in 1 .. Depth' : levels'[d].for = i
    BY <1>4, <1>6, <2>1, CalledBefore, Zenon
  <2>3. ConstructorsCalled'
    BY <2>2, Zenon DEF ConstructorsCalled
  <2> QED BY <1>1, <1>2, <1>6, <2>2, <2>3, NoConstructorsStep, Zenon
<1>7. CASE LoadShared(file)
  <2>1. PICK m : m = loadElfModule(file)
    BY Zenon
  <2>2. modules' = Append(modules, m) /\ m # NullModule /\ m.file = file
    BY <1>7, <2>1, NotNullModule, Zenon DEF LoadShared, loadElfModule
  <2>3. PICK k : k = Len(modules) + 1
    BY Zenon
  <2>4. modules'[k] = m /\ k \in Nat /\ k # 0
    <3>1. Listed
      BY Zenon DEF CallsIInv, LinkIInv
    <3> QED BY <2>2, <2>3, <3>1, AppendKeeps
  <2>5. Constructors[file] \in Nat
    BY CallsAssumption, Zenon
  <2>6. CASE Constructors[file] = 0
    <3>1. inits' = Append(inits, 0) /\ NoConstructors
      BY <1>7, <2>6, Zenon DEF LoadShared
    <3>2. /\ inits' \in Seq(Nat) /\ Len(inits') = Len(modules') /\ DOMAIN modules \subseteq DOMAIN modules'
          /\ Loaded' \subseteq Loaded \cup {k} /\ inits'[k] = 0
          /\ \A i \in Loaded : /\ inits'[i] <= Constructors[modules'[i].file]
                               /\ \/ inits'[i] = Constructors[modules'[i].file]
                                  \/ i \in failed'
                                  \/ \E d \in 1 .. Depth' : levels'[d].for = i
      BY <1>4, <2>2, <2>3, <3>1, CalledBefore, Zenon
    <3>3. ConstructorsCalled'
      <4>1. inits'[k] = Constructors[modules'[k].file] /\ inits'[k] <= Constructors[modules'[k].file]
        BY <2>2, <2>4, <2>6, <3>2, SMTT(30)
      <4> QED BY <3>2, <4>1, Zenon DEF ConstructorsCalled
    <3> QED BY <1>1, <1>2, <3>1, <3>2, <3>3, NoConstructorsStep, Zenon
  <2>7. CASE Constructors[file] # 0
    <3>1. /\ inits' = Append(inits, 1)
          /\ callNative(Marked, Function(k, "init"), FALSE, k)
      BY <1>7, <2>3, <2>7, Zenon DEF LoadShared
    <3>2. /\ failed \subseteq failed' /\ failed' \subseteq failed \cup {k}
          /\ \A d \in 1 .. Len(Marked) : d \in 1 .. Depth' /\ levels'[d] = Marked[d]
          /\ (\E e \in 1 .. Depth' : levels'[e].for = k) \/ k \in failed'
      <4>1. Marked \in Seq(LevelSet)
        BY <1>3, Zenon DEF RestOK
      <4> QED BY <2>4, <3>1, <4>1, CalledLevels, Zenon
    <3>3. \A d \in 1 .. Depth : \E e \in 1 .. Depth' : levels'[e].for = levels[d].for
      BY <1>3, <3>2, Zenon
    <3>4. /\ inits' \in Seq(Nat) /\ Len(inits') = Len(modules') /\ DOMAIN modules \subseteq DOMAIN modules'
          /\ DOMAIN modules' = DOMAIN modules \cup {k}
          /\ Loaded' \subseteq Loaded \cup {k} /\ k \in Loaded' /\ inits'[k] = 1
          /\ \A i \in Loaded : /\ inits'[i] <= Constructors[modules'[i].file]
                               /\ \/ inits'[i] = Constructors[modules'[i].file]
                                  \/ i \in failed'
                                  \/ \E d \in 1 .. Depth' : levels'[d].for = i
      BY <2>2, <2>3, <3>1, <3>2, <3>3, CalledBefore, Zenon
    <3>5. ConstructorsCalled'
      <4>1. inits'[k] <= Constructors[modules'[k].file]
        BY <2>2, <2>4, <2>5, <2>7, <3>4, SMTT(30)
      <4> QED BY <3>2, <3>4, <4>1, Zenon DEF ConstructorsCalled
    <3>6. TablesOK' /\ HandlersOK' /\ Steady
      BY <1>1, <1>2, SteadyStep, Zenon
    <3>7. Linked(Function(k, "init"), Loaded')
      BY <2>4, <3>4, Zenon DEF Linked, LinkedKinds, InReach, PlaceSet, PlaceKinds, Function, Place
    <3>8. failed' \subseteq DOMAIN modules'
      BY <3>2, <3>4, Zenon DEF CallsIInv, StateOK
    <3>9. disturbed' \in BOOLEAN /\ (~disturbed' => levels = << >> \/ ~disturbed)
      BY <1>1, Zenon DEF Disturb
    <3>10. ~disturbed' => RestWays(Marked, stack)
      <4>1. CASE levels = << >>
        <5>1. Len(Marked) = 0
          BY <1>3, <4>1, Zenon DEF Depth
        <5> QED BY <5>1 DEF RestWays
      <4>2. CASE levels # << >>
        BY <1>3, <3>9, <4>2, Zenon
      <4> QED BY <4>1, <4>2, Zenon
    <3> QED BY <1>3, <2>4, <3>1, <3>4, <3>5, <3>6, <3>7, <3>8, <3>9, <3>10, CallStep, ZenonT(30)
  <2> QED BY <2>6, <2>7, Zenon
<1> QED BY <1>5, <1>6, <1>7, Zenon DEF loadLibrary

(* A hook is registered for a function that the linker has found. *)
LEMMA HookStep ==
  ASSUME CallsIInv, LinkIInv, LinkIInv', Listed', NEW name, addSymbolHook(name)
  PROVE  CallsIInv'
<1>1. /\ levels = << >> /\ lookupSymbol(name) \notin {SYMBOL_UNDEF, Null}
      /\ hookers' = hookers \cup {lookupSymbol(name)} /\ codeList' = Append(codeList, "hooker")
      /\ UNCHANGED <<modules, levels, regs, throwing, inits, failed, disturbed>>
  BY Zenon DEF addSymbolHook
<1>2. PICK p : p = lookupSymbol(name)
  BY Zenon
<1>3. Loaded' = Loaded
  BY <1>1, Zenon DEF Loaded
<1>4. InReach(p, Loaded) /\ p.kind \in {"function", "stub"}
  <2>1. Listed /\ p # SYMBOL_UNDEF /\ p # Null
    BY <1>1, <1>2, Zenon DEF CallsIInv, LinkIInv
  <2>2. PICK j \in 1 .. Len(modules) : IsFirst(j, name) /\ p = modules[j].syms[name]
    BY <1>2, <2>1, LookupFirst, Zenon
  <2>3. j \in Loaded /\ name \in DOMAIN modules[j].syms
    BY <2>2, Zenon DEF IsFirst
  <2>4. Linked(p, Loaded)
    BY <2>2, <2>3, Zenon DEF CallsIInv, TablesOK, ModuleTables
  <2>5. p.kind \in {"stub", "function", "null"}
    BY <2>2, LookupKind, Zenon DEF CallsIInv
  <2> QED BY <2>1, <2>4, <2>5, Zenon DEF Linked, InReach
<1>5. HandlersOK'
  <2>1. /\ codeList \in Seq({"sym", "jni", "hooker"}) /\ Len(codeList) >= 2
        /\ codeList[1] = "sym" /\ codeList[2] = "jni"
        /\ \A k \in 3 .. Len(codeList) : codeList[k] = "hooker"
        /\ \A q \in hookers : InReach(q, Loaded) /\ q.kind \in {"function", "stub"}
    BY Zenon DEF CallsIInv, HandlersOK, Reachable
  <2>2. /\ codeList' \in Seq({"sym", "jni", "hooker"}) /\ Len(codeList') = Len(codeList) + 1
        /\ codeList'[Len(codeList) + 1] = "hooker"
        /\ \A k \in 1 .. Len(codeList) : codeList'[k] = codeList[k]
    BY <1>1, <2>1
  <2>3. \A k \in 3 .. Len(codeList') : codeList'[k] = "hooker"
    BY <2>1, <2>2
  <2>4. \A q \in hookers' : InReach(q, Loaded') /\ q.kind \in {"function", "stub"}
    BY <1>1, <1>2, <1>3, <1>4, <2>1, SMTT(30)
  <2> QED BY <2>1, <2>2, <2>3, <2>4 DEF HandlersOK, Reachable
<1>6. StateOK' /\ TablesOK' /\ ConstructorsCalled'
  BY <1>1, <1>3, SMTT(30) DEF CallsIInv, StateOK, TablesOK, ConstructorsCalled, regs, Reachable, Depth
<1>7. Len(levels') = 0 /\ levels' \in Seq(LevelSet) /\ 0 <= MaxLevel
  BY <1>1, CallsAssumption, SMTT(30)
<1>8. RestOK(levels', stack', Loaded', hookers', Len(codeList')) /\ RestWays(levels', stack')
  BY <1>7, SMTT(30) DEF RestOK, RestWays
<1> QED BY <1>5, <1>6, <1>7, <1>8, RestStep

-----------------------------------------------------------------------------
(* Native calls: the end of a level *)

(* Outside all levels everything is settled; the level below goes on with the
   registers and the stack as they are. *)
LEMMA LeaveStep ==
  ASSUME CallsIInv, LinkIInv, LinkIInv', Listed', Depth > 0, levels' = Below,
         IF Below = << >> THEN Settled ELSE UNCHANGED regs,
         Disturb(Below, Len(stack) > Top.sp),
         UNCHANGED <<modules, codeList, hookers, inits>>,
         throwing' \in BOOLEAN, failed \subseteq failed', failed' \subseteq DOMAIN modules,
         \/ Top.for = 0 \/ Top.for \in failed'
         \/ inits[Top.for] = Constructors[modules[Top.for].file]
  PROVE  CallsIInv'
<1>1. /\ RestOK(Below, stack, Loaded, hookers, Len(codeList))
      /\ ~disturbed /\ Len(stack) <= Top.sp => RestWays(Below, stack)
      /\ Len(Below) = Depth - 1
      /\ \A d \in 1 .. Depth - 1 : Below[d] = levels[d]
  BY BelowRests
<1>2. levels # << >> /\ InnerOK
  BY TopFacts, SMTT(30) DEF Depth
<1>3. TablesOK' /\ HandlersOK' /\ Steady /\ Loaded' = Loaded
  BY SteadyStep, SMTT(30) DEF Grows, Loaded
<1>4. Depth \in Nat \ {0} /\ Len(stack) \in Nat /\ Top.sp \in Nat /\ Top = levels[Depth] /\ Below \in Seq(LevelSet)
  BY <1>1, <1>2, SMTT(30) DEF InnerOK, RestOK
<1>5. ConstructorsCalled'
  <2>1. 0 \notin Loaded
    BY SMTT(30) DEF Loaded, CallsIInv, LinkIInv, Listed
  <2>2. Depth' = Depth - 1
    BY <1>1 DEF Depth
  <2>3. ASSUME NEW d \in 1 .. Depth, d # Depth PROVE \E e \in 1 .. Depth' : levels'[e].for = levels[d].for
    <3>1. d \in 1 .. Depth' /\ levels'[d] = levels[d]
      BY <1>1, <1>4, <2>2, <2>3, SMTT(30)
    <3> QED BY <3>1, SMTT(30)
  <2>4. \A d \in 1 .. Depth : \/ \E e \in 1 .. Depth' : levels'[e].for = levels[d].for
                              \/ levels[d].for \notin Loaded
                              \/ levels[d].for \in failed'
                              \/ inits[levels[d].for] = Constructors[modules[levels[d].for].file]
    BY <1>4, <2>1, <2>3
  <2> QED BY <1>3, <2>4, StillCalled, SMTT(30) DEF CallsIInv
<1>6. disturbed' \in BOOLEAN /\ (~disturbed' => Below = << >> \/ (~disturbed /\ Len(stack) <= Top.sp))
  <2>1. disturbed' = (Below # << >> /\ (disturbed \/ Len(stack) > Top.sp))
    BY Zenon DEF Disturb
  <2>2. ~(Len(stack) > Top.sp) => Len(stack) <= Top.sp
    BY <1>4, SMTT(30)
  <2> QED BY <2>1, <2>2, Zenon
<1>7. inits' \in Seq(Nat) /\ Len(inits') = Len(modules') /\ failed' \subseteq DOMAIN modules'
  BY SMTT(30) DEF CallsIInv, StateOK
<1>8. CASE Below = << >>
  <2>1. pc' = Null /\ lr' = Null /\ r0' = "guest" /\ stack' = << >>
    BY <1>8 DEF Settled
  <2>2. Len(levels') = 0 /\ levels' \in Seq(LevelSet) /\ 0 <= MaxLevel
    BY <1>8, CallsAssumption, SMTT(30)
  <2>3. RestOK(levels', stack', Loaded', hookers', Len(codeList')) /\ RestWays(levels', stack')
    BY <2>2, SMTT(30) DEF RestOK, RestWays
  <2>4. InReach(pc', Loaded') /\ lr' \in PlaceSet /\ stack' \in Seq(PlaceSet) /\ Len(stack') = 0
    BY <2>1, OwnPlaces, SMTT(30) DEF InReach
  <2>5. StateOK'
    BY <1>6, <1>7, <1>8, <2>1, <2>2, <2>4, SMTT(20) DEF StateOK, Reachable
  <2> QED BY <1>3, <1>5, <2>2, <2>3, <2>5, RestStep, SMTT(30)
<1>9. CASE Below # << >>
  <2>1. pc' = pc /\ lr' = lr /\ r0' = r0 /\ stack' = stack
    BY <1>9, SMTT(30) DEF regs
  <2>2. RestOK(levels', stack', Loaded', hookers', Len(codeList'))
    BY <1>1, <1>3, <2>1, SMTT(30)
  <2>3. ~disturbed' => RestWays(levels', stack')
    BY <1>1, <1>6, <1>9, <2>1, SMTT(20)
  <2>4. StateOK'
    BY <1>2, <1>3, <1>4, <1>6, <1>7, <2>1, SMTT(20) DEF CallsIInv, StateOK, Reachable
  <2>5. \A d \in 1 .. Len(levels') : ~IsBack(lr', d)
    BY <1>1, <2>1, SMTT(30) DEF CallsIInv, StackOK
  <2>6. Len(levels') \in Nat
    BY <1>4
  <2> QED BY <1>3, <1>5, <2>2, <2>3, <2>4, <2>5, <2>6, RestStep, SMTT(20)
<1> QED BY <1>8, <1>9, SMTT(30)

(* A level is left by an exception. *)
LEMMA ThrowsStep ==
  ASSUME CallsIInv, LinkIInv, LinkIInv', Listed', levels # << >>, LevelThrows
  PROVE  CallsIInv'
<1>1. InnerOK
  BY TopFacts, Zenon
<1>2. Top.for # 0 => Top.for \in DOMAIN modules
  BY <1>1, Zenon DEF InnerOK, LevelOK, Loaded
<1>3. failed' = failed \cup ({Top.for} \ {0}) /\ throwing' \in BOOLEAN
  BY Zenon DEF LevelThrows
<1>4. failed' \subseteq DOMAIN modules /\ failed \subseteq failed' /\ (Top.for = 0 \/ Top.for \in failed')
  BY <1>2, <1>3, Zenon DEF CallsIInv, StateOK
<1>5. /\ levels' = Below /\ (IF Below = << >> THEN Settled ELSE UNCHANGED regs)
      /\ Disturb(Below, Len(stack) > Top.sp) /\ UNCHANGED <<modules, codeList, hookers, inits>>
  BY Zenon DEF LevelThrows
<1> QED BY <1>1, <1>3, <1>4, <1>5, LeaveStep, Zenon DEF InnerOK

(* A level returns: the next constructor is called in its place, or the level
   below goes on. *)
LEMMA ReturnsStep ==
  ASSUME CallsIInv, LinkIInv, LinkIInv', Listed', levels # << >>, LevelReturns
  PROVE  CallsIInv'
<1>1. InnerOK
  BY TopFacts, Zenon
<1>2. Disturb(Below, Len(stack) > Top.sp) /\ UNCHANGED <<modules, codeList, hookers>>
  BY Zenon DEF LevelReturns
<1>3. PICK i : i = Top.for
  BY Zenon
<1>4. i \in Nat /\ (i # 0 => i \in Loaded) /\ Depth > 0 /\ Depth \in Nat /\ Top = levels[Depth]
  BY <1>1, <1>3, Zenon DEF InnerOK, LevelOK, LevelSet
<1>5. i # 0 => /\ i \in DOMAIN modules /\ inits[i] \in Nat /\ i \in 1 .. Len(inits)
               /\ Constructors[modules[i].file] \in Nat
               /\ inits[i] <= Constructors[modules[i].file]
  <2> SUFFICES ASSUME i # 0
               PROVE  /\ i \in DOMAIN modules /\ inits[i] \in Nat /\ i \in 1 .. Len(inits)
                      /\ Constructors[modules[i].file] \in Nat
                      /\ inits[i] <= Constructors[modules[i].file]
    BY Zenon
  <2>1. i \in Loaded /\ i \in DOMAIN modules
    BY <1>4, Zenon DEF Loaded
  <2>2. i \in 1 .. Len(inits) /\ inits \in Seq(Nat)
    BY <2>1, SMTT(30) DEF CallsIInv, StateOK, LinkIInv, Listed
  <2>3. modules[i].file \in Files
    BY <2>1, Zenon DEF CallsIInv, LinkIInv, ModuleOK
  <2> QED BY <2>1, <2>2, <2>3, CallsAssumption, SMTT(30) DEF CallsIInv, ConstructorsCalled
<1>6. CASE ~MoreConstructors(i)
  <2>1. /\ levels' = Below /\ UNCHANGED <<throwing, inits, failed>>
        /\ IF Below = << >> THEN Settled ELSE UNCHANGED regs
    BY <1>3, <1>6, Zenon DEF LevelReturns
  <2>2. i = 0 \/ inits[i] = Constructors[modules[i].file]
    BY <1>4, <1>5, <1>6 DEF MoreConstructors
  <2>3. throwing' \in BOOLEAN /\ failed \subseteq failed' /\ failed' \subseteq DOMAIN modules
    BY <2>1, Zenon DEF CallsIInv, StateOK
  <2> QED BY <1>2, <1>3, <1>4, <2>1, <2>2, <2>3, LeaveStep, Zenon
<1>7. CASE MoreConstructors(i)
  <2>1. /\ callNative(Below, Function(i, "init"), FALSE, i)
        /\ inits' = [inits EXCEPT ![i] = @ + 1]
    BY <1>3, <1>7, Zenon DEF LevelReturns
  <2>2. i # 0 /\ i \in Loaded /\ inits[i] < Constructors[modules[i].file]
    BY <1>4, <1>7 DEF MoreConstructors
  <2>3. /\ RestOK(Below, stack, Loaded, hookers, Len(codeList))
        /\ ~disturbed /\ Len(stack) <= Top.sp => RestWays(Below, stack)
        /\ Len(Below) = Depth - 1
        /\ \A d \in 1 .. Depth - 1 : Below[d] = levels[d]
    BY <1>4, BelowRests, Zenon
  <2>4. Below \in Seq(LevelSet) /\ Len(stack) \in Nat /\ Top.sp \in Nat
    BY <1>1, <2>3, Zenon DEF RestOK, InnerOK
  <2>5. /\ failed \subseteq failed' /\ failed' \subseteq failed \cup {i}
        /\ \A d \in 1 .. Len(Below) : d \in 1 .. Depth' /\ levels'[d] = Below[d]
        /\ (\E e \in 1 .. Depth' : levels'[e].for = i) \/ i \in failed'
    BY <2>1, <2>2, <2>4, CalledLevels, Zenon
  <2>6. TablesOK' /\ HandlersOK' /\ Steady /\ Loaded' = Loaded
    BY <1>2, SteadyStep, Zenon DEF Grows, Loaded
  <2>7. /\ inits' \in Seq(Nat) /\ Len(inits') = Len(inits) /\ inits'[i] = inits[i] + 1
        /\ \A j \in Loaded : j # i => inits'[j] = inits[j]
    <3>1. inits \in Seq(Nat) /\ i \in 1 .. Len(inits) /\ inits[i] \in Nat
      BY <1>5, <2>2, SMTT(30) DEF CallsIInv, StateOK
    <3>2. \A j \in Loaded : j \in 1 .. Len(inits)
      BY SMTT(30) DEF CallsIInv, StateOK, LinkIInv, Listed, Loaded
    <3> QED BY <2>1, <3>1, <3>2, SMTT(30)
  <2>8. ConstructorsCalled'
    <3> SUFFICES ASSUME NEW j \in Loaded
                 PROVE  /\ inits'[j] <= Constructors[modules[j].file]
                        /\ \/ inits'[j] = Constructors[modules[j].file]
                           \/ j \in failed'
                           \/ \E d \in 1 .. Depth' : levels'[d].for = j
      BY <1>2, <2>6, SMTT(30) DEF ConstructorsCalled
    <3>1. CASE j = i
      BY <1>5, <2>2, <2>5, <2>7, <3>1, SMTT(30)
    <3>2. CASE j # i
      <4>1. /\ inits[j] <= Constructors[modules[j].file]
            /\ \/ inits[j] = Constructors[modules[j].file]
               \/ j \in failed
               \/ \E d \in 1 .. Depth : levels[d].for = j
        BY SMTT(30) DEF CallsIInv, ConstructorsCalled
      <4>2. ASSUME NEW d \in 1 .. Depth, levels[d].for = j PROVE \E e \in 1 .. Depth' : levels'[e].for = j
        <5>1. d # Depth
          BY <1>3, <1>4, <3>2, <4>2, SMTT(30)
        <5>2. d \in 1 .. Len(Below) /\ Below[d] = levels[d]
          BY <1>4, <2>3, <5>1, SMTT(30)
        <5> QED BY <2>5, <4>2, <5>2, SMTT(30)
      <4> QED BY <2>5, <2>7, <3>2, <4>1, <4>2, SMTT(30)
    <3> QED BY <3>1, <3>2, SMTT(30)
  <2>9. Linked(Function(i, "init"), Loaded')
    BY <1>4, <2>2, <2>6, SMTT(30) DEF Linked, LinkedKinds, InReach, PlaceSet, PlaceKinds, Function, Place
  <2>10. failed' \subseteq DOMAIN modules' /\ Len(inits') = Len(modules')
    BY <1>2, <1>5, <2>2, <2>5, <2>7, SMTT(30) DEF CallsIInv, StateOK
  <2>11. disturbed' \in BOOLEAN /\ (~disturbed' => Below = << >> \/ (~disturbed /\ Len(stack) <= Top.sp))
    <3>1. disturbed' = (Below # << >> /\ (disturbed \/ Len(stack) > Top.sp))
      BY <1>2, Zenon DEF Disturb
    <3>2. ~(Len(stack) > Top.sp) => Len(stack) <= Top.sp
      BY <2>4
    <3> QED BY <3>1, <3>2, Zenon
  <2>12. ~disturbed' => RestWays(Below, stack)
    <3>1. CASE Below = << >>
      BY <3>1 DEF RestWays
    <3>2. CASE Below # << >>
      BY <2>3, <2>11, <3>2
    <3> QED BY <3>1, <3>2
  <2> QED
    BY <1>4, <2>1, <2>2, <2>3, <2>6, <2>7, <2>8, <2>9, <2>10, <2>11, <2>12, CallStep, ZenonT(30)
<1> QED BY <1>6, <1>7, Zenon

-----------------------------------------------------------------------------
(* Every step of GuestCalls keeps the invariant. *)
LEMMA CallsStep ==
  ASSUME CallsIInv, LinkIInv, LinkIInv', Listed', [CallsNext]_callsVars
  PROVE  CallsIInv'
<1>1. ASSUME NEW i \in 1 .. MaxModules, NEW name \in HostNames, NEW onStack \in BOOLEAN,
             callSymbol(i, name, onStack)
      PROVE  CallsIInv'
  BY <1>1, SymbolStep, Zenon
<1>2. ASSUME NEW file \in Files, loadLibrary(file) PROVE CallsIInv'
  BY <1>2, LibraryStep, Zenon
<1>3. ASSUME NEW name \in HostNames, addSymbolHook(name) PROVE CallsIInv'
  BY <1>3, HookStep, Zenon
<1>4. CASE Traced
  BY <1>4, TracedStep, Zenon
<1>5. CASE SymCall \/ JniCall
  BY <1>5, StubHookStep, Zenon
<1>6. CASE HookerCall
  BY <1>6, HookerStep, SMTT(30)
<1>7. CASE CallbackReplaces
  BY <1>7, ReplacesStep, Zenon
<1>8. CASE CallbackObserves
  BY <1>8, ObservesStep, Zenon
<1>9. CASE CallbackThrows
  BY <1>9, ThrowsStep, Zenon DEF CallbackThrows
<1>10. CASE Jump
  BY <1>10, JumpStep, Zenon
<1>11. CASE Quit \/ Halt
  BY <1>11, ReturnsStep, SMTT(30) DEF Quit, Halt, Executes, Ready, Running
<1>12. CASE EnterFunction
  BY <1>12, FunctionStep, Zenon
<1>13. CASE EnterStub
  BY <1>13, EnterStubStep, Zenon
<1>14. CASE LeaveStub
  BY <1>14, PopStep, Zenon DEF LeaveStub, Executes
<1>15. CASE RunsWild
  BY <1>15, ThrowsStep, Zenon DEF RunsWild, Ready, Running
<1>16. CASE GuestReturns
  BY <1>16, PopStep, Zenon DEF GuestReturns, Executes, IsBack
<1>17. CASE GuestCalls
  BY <1>17, CallPlaceStep, Zenon
<1>18. CASE UNCHANGED callsVars
  <2>1. /\ UNCHANGED <<modules, codeList, hookers, levels, pc, lr, r0, stack>>
        /\ UNCHANGED <<throwing, inits, failed, disturbed>>
    BY <1>18, Zenon DEF callsVars, regs
  <2>2. TablesOK' /\ HandlersOK' /\ StateOK' /\ ConstructorsCalled'
    BY <2>1, Zenon DEF CallsIInv, TablesOK, HandlersOK, StateOK, ConstructorsCalled, Reachable, Loaded, Depth
  <2>3. LevelsOK'
    BY <2>1, Zenon DEF CallsIInv, LevelsOK, LevelOK, Depth, Loaded, Done
  <2>4. TurnOK'
    BY <2>1, Zenon DEF CallsIInv, TurnOK, Acts, Top, Depth
  <2>5. StackOK'
    BY <2>1, Zenon DEF CallsIInv, StackOK, GoesBack, Cur, Ceiling, Top, Depth
  <2>6. WaysOK'
    <3>1. ASSUME NEW d, KnowsWay(d) PROVE KnowsWay(d)'
      BY <2>1, <3>1, Zenon DEF KnowsWay, Cur, Ceiling, Depth
    <3> QED BY <2>1, <3>1, Zenon DEF CallsIInv, WaysOK, Depth
  <2>7. Listed'
    BY Zenon
  <2> QED BY <2>2, <2>3, <2>4, <2>5, <2>6, <2>7, Zenon DEF CallsIInv
<1> QED
  BY <1>1, <1>2, <1>3, <1>4, <1>5, <1>6, <1>7, <1>8, <1>9, <1>10, <1>11, <1>12, <1>13, <1>14,
     <1>15, <1>16, <1>17, <1>18, ZenonT(30) DEF CallsNext

(* What is true of the registers, the stack and the levels after every step,
   whatever the callbacks of the hooks do (Emulator.callNative, Hooker.hook). *)
THEOREM CallsInvariant == CallsSpec => []CallsIInv
<1>1. CallsInit => CallsIInv
  <2> SUFFICES ASSUME CallsInit PROVE CallsIInv
    BY Zenon
  <2>1. /\ modules = << >> /\ codeList = <<"sym", "jni">> /\ hookers = {}
        /\ levels = << >> /\ pc = Null /\ lr = Null /\ r0 = "guest" /\ stack = << >>
        /\ throwing = FALSE /\ inits = << >> /\ failed = {} /\ disturbed = FALSE
    BY Zenon DEF CallsInit, CodeHandlers
  <2>2. Loaded = {} /\ Depth = 0 /\ Len(stack) = 0 /\ DOMAIN modules = {} /\ Len(modules) = 0
    BY <2>1 DEF Loaded, Depth
  <2>3. Listed /\ TablesOK /\ ConstructorsCalled
    <3>1. << >> \in Seq({})
      OBVIOUS
    <3> QED BY <2>1, <2>2, <3>1, Zenon DEF Listed, TablesOK, ConstructorsCalled
  <2>4. HandlersOK
    BY <2>1 DEF HandlersOK
  <2>5. InReach(pc, Loaded) /\ lr \in PlaceSet
    BY <2>1, OwnPlaces, Zenon DEF InReach
  <2>6. StateOK
    <3>1. << >> \in Seq(LevelSet) /\ << >> \in Seq(PlaceSet) /\ << >> \in Seq(Nat) /\ Len(<< >>) = 0
      OBVIOUS
    <3>2. levels \in Seq(LevelSet) /\ stack \in Seq(PlaceSet) /\ inits \in Seq(Nat) /\ Len(inits) = Len(modules)
      BY <2>1, <3>1, Zenon
    <3>3. ~(levels # << >>) /\ failed \subseteq DOMAIN modules /\ 1 .. Len(stack) = {}
      BY <2>1, <2>2
    <3> QED BY <2>1, <2>5, <3>2, <3>3, Zenon DEF StateOK, Reachable
  <2>7. LevelsOK /\ TurnOK /\ StackOK /\ WaysOK
    <3>1. Depth <= MaxLevel /\ ~(Depth > 0) /\ 1 .. Depth = {} /\ 1 .. Depth - 1 = {}
      BY <2>2, CallsAssumption
    <3> QED BY <3>1, Zenon DEF LevelsOK, TurnOK, StackOK, WaysOK
  <2> QED BY <2>3, <2>4, <2>6, <2>7, Zenon DEF CallsIInv
<1>2. CallsIInv /\ LinkIInv /\ LinkIInv' /\ [CallsNext]_callsVars => CallsIInv'
  <2>1. LinkIInv' => Listed'
    BY Zenon DEF LinkIInv, Listed, Listed
  <2> QED BY <2>1, CallsStep, Zenon
<1> QED BY <1>1, <1>2, LinkInductive, PTL DEF CallsSpec

(* The levels have their types, the stack never falls below the part of a level,
   and a call that a hook has answered is not answered again. *)
THEOREM CallsSafe == CallsSpec => []CallsInv
<1>1. CallsIInv => CallsInv
  <2> SUFFICES ASSUME CallsIInv PROVE CallsInv
    BY Zenon
  <2>1. levels \in Seq(LevelSet) /\ Depth \in Nat /\ Depth <= MaxLevel /\ MaxLevel \in Nat
    BY CallsAssumption, SMTT(30) DEF CallsIInv, StateOK, Depth, LevelsOK
  <2>2. ASSUME NEW d \in 1 .. Depth PROVE levels[d].it \in 0 .. Done /\ levels[d].sp <= Len(stack)
    <3>1. levels[d] \in LevelSet /\ LevelOK(d)
      BY <2>1, SMTT(30) DEF CallsIInv, LevelsOK, Depth
    <3>2. levels[d].it \in Nat /\ Done \in Nat
      BY <3>1, SMTT(30) DEF LevelSet, Done, CallsIInv, HandlersOK
    <3> QED BY <3>1, <3>2, SMTT(30) DEF LevelOK
  <2>3. \A d \in 1 .. Depth - 1 : levels[d].java
    BY Zenon DEF CallsIInv, LevelsOK
  <2>4. Len(inits) = Len(modules) /\ failed \subseteq DOMAIN modules /\ {throwing, disturbed} \subseteq BOOLEAN
    BY Zenon DEF CallsIInv, StateOK
  <2>5. AnsweredOnce
    <3> SUFFICES ASSUME Depth > 0, Top.java PROVE ~Top.jump
      BY Zenon DEF AnsweredOnce
    <3>1. Depth \in 1 .. Depth
      BY <2>1
    <3> QED BY <3>1, Zenon DEF CallsIInv, LevelsOK, LevelOK, Top
  <2>6. Depth \in 0 .. MaxLevel
    BY <2>1
  <2> QED BY <2>2, <2>3, <2>4, <2>5, <2>6, Zenon DEF CallsInv, CallsTypeOK
<1> QED BY <1>1, CallsInvariant, PTL

(* A function goes back to the level that called it until a callback that only
   observes has made a call, or a call inside has left the stack moved. *)
THEOREM CallsReturn == CallsSpec => []ReturnsToCaller
<1>1. CallsIInv => ReturnsToCaller
  <2> SUFFICES ASSUME CallsIInv, Running, Top.it = 0, ~disturbed
               PROVE  (pc.kind \in {"back", "stop"} => pc.i = Depth) /\ pc # Args
    BY Zenon DEF ReturnsToCaller
  <2>1. levels # << >> /\ InnerOK
    BY TopFacts, Zenon DEF Running
  <2>2. KnowsWay(Depth) /\ Cur(Depth) = pc
    BY <2>1, Zenon DEF InnerOK, Cur
  <2>3. Args.kind = "args"
    BY Zenon DEF Args, Place
  <2> QED BY <2>2, <2>3, Zenon DEF KnowsWay
<1> QED BY <1>1, CallsInvariant, PTL

(* loadLibrary that returns a module has called all its constructors, once
   each, however libraries are loaded inside. *)
THEOREM CallsConstructors == CallsSpec => []ConstructorsCalled
<1>1. CallsIInv => ConstructorsCalled
  BY Zenon DEF CallsIInv
<1> QED BY <1>1, CallsInvariant, PTL

-----------------------------------------------------------------------------
(* Native calls: the functions of JNI *)

(* JHandler has its turn at every number it knows. *)
LEMMA JniTurn ==
  ASSUME CallsIInv, NEW k \in {1, 2}, NEW insn, insn.kind = "mov", insn.i \in JniIds, NEW at
  PROVE  NextActing(k, insn, at) \in {1, 2} /\ NextActing(k, insn, at) >= k /\ NextActing(k, insn, at) # Done
<1> DEFINE j == NextActing(k, insn, at)
<1>1. HandlersOK /\ Len(codeList) \in Nat /\ Len(codeList) >= 2 /\ codeList[2] = "jni" /\ Done = Len(codeList) + 1
  BY SMTT(30) DEF CallsIInv, HandlersOK, Done
<1>2. k \in 1 .. Done
  BY <1>1
<1>3. j \in k .. Done /\ \A i \in k .. j - 1 : ~Acts(codeList[i], insn, at)
  BY <1>1, <1>2, NextActs, Zenon
<1>4. Acts(codeList[2], insn, at)
  BY <1>1, ActsMeans, Zenon
<1> HIDE DEF j
<1>5. ~(j > 2)
  BY <1>1, <1>3, <1>4, SMTT(30)
<1>6. j \in {1, 2} /\ j >= k /\ j # Done
  BY <1>1, <1>3, <1>5
<1> QED BY <1>6, Zenon DEF j

(* Who writes R0 at the stub of a JNI function. *)
LEMMA StubJni ==
  ASSUME SymIds \cap JniIds \subseteq Unimplemented, JniIInv, SymCall \/ JniCall
  PROVE  JniOK'
<1> USE DEF JniIInv
<1> DEFINE j == NextActing(Top.it + 1, Top.insn, pc)
<1>1. levels # << >> /\ ~Top.java /\ Top.it \in DOMAIN codeList
  BY Zenon DEF SymCall, JniCall, HookIs, Running
<1>2. InnerOK /\ HandlersOK /\ DOMAIN codeList = 1 .. Len(codeList)
  BY <1>1, TopFacts, SMTT(30) DEF CallsIInv, HandlersOK
<1>3. Top.it \in 1 .. Len(codeList) /\ Acts(codeList[Top.it], Top.insn, pc)
  BY <1>1, <1>2, Zenon DEF CallsIInv, TurnOK, InnerOK
<1>4. PICK new : /\ levels' = SetTop(new)
                 /\ new = Passed \/ new = [Passed EXCEPT !.quit = TRUE]
                 /\ \/ SymCall /\ r0' = "sym"
                    \/ JniCall /\ r0' = "jni"
                    \/ r0' = r0 /\ new = [Passed EXCEPT !.quit = TRUE]
  BY Zenon DEF SymCall, JniCall, Caught
<1>5. UNCHANGED unchangedAround
  BY Zenon DEF SymCall, JniCall, unchangedInHook, unchangedAround
<1>6. Passed = [Top EXCEPT !.it = j]
  BY Zenon DEF Passed
<1>7. j \in Top.it + 1 .. Done
  <2>1. Top.it + 1 \in 1 .. Done
    BY <1>2, <1>3, SMTT(30) DEF InnerOK
  <2> QED BY <1>2, <2>1, NextActs, Zenon
<1> HIDE DEF j
<1>8. /\ new \in LevelSet /\ new.it = j /\ new.insn = Top.insn /\ j # 0 /\ j \in Nat
      /\ new = [Passed EXCEPT !.quit = TRUE] => new.quit
  <2>1. Top \in LevelSet
    BY <1>2, Zenon DEF InnerOK
  <2>2. j \in Nat /\ j # 0
    BY <1>2, <1>3, <1>7, SMTT(30) DEF InnerOK
  <2>3. CASE new = Passed
    BY <1>6, <2>1, <2>2, <2>3, Zenon DEF LevelSet
  <2>4. CASE new = [Passed EXCEPT !.quit = TRUE]
    BY <1>6, <2>1, <2>2, <2>4, Zenon DEF LevelSet
  <2> QED BY <1>4, <2>3, <2>4, Zenon
<1>9. Installed(new)
  BY <1>1, <1>4, <1>5, <1>8, NewTop, Zenon
<1>10. Cur(Depth)' = Top.insn /\ Cur(Depth) = Top.insn /\ Top' = new /\ Depth > 0
  BY <1>2, <1>3, <1>8, <1>9, SMTT(30) DEF Installed, Cur, InnerOK
<1>11. CASE SymCall
  <2>1. Top.it = 1 /\ codeList[1] = "sym"
    BY <1>1, <1>2, <1>11, StubHandlers, Zenon DEF SymCall, HookIs
  <2>2. Top.insn.kind = "mov" /\ Top.insn.i \in SymIds
    BY <1>3, <2>1, ActsMeans, Zenon
  <2>3. ASSUME Top.insn.i \in JniIds
        PROVE  j = 2 /\ (r0' = "guest" \/ (r0' = "sym" /\ Top.insn.i \in Unimplemented))
    <3>1. j = 2
      BY <2>1, <2>2, <2>3, JniTurn DEF j
    <3>2. r0 = "guest"
      BY <1>10, <2>1, <2>2, <2>3, Zenon DEF JniOK
    <3>3. r0' = "sym" \/ r0' = r0
      BY <1>11, Zenon DEF SymCall, Caught
    <3> QED BY <2>2, <2>3, <3>1, <3>2, <3>3, Zenon
  <2> QED BY <1>8, <1>9, <1>10, <2>2, <2>3, SMTT(30) DEF JniOK, Installed
<1>12. CASE JniCall
  <2>1. Top.it = 2
    BY <1>1, <1>2, <1>12, StubHandlers, Zenon DEF JniCall, HookIs
  <2>2. Top.insn.kind = "mov"
    BY <1>2, <1>3, <2>1, ActsMeans, Zenon DEF HandlersOK
  <2>3. j > 2
    BY <1>7, <1>8, <2>1
  <2>4. r0' = "jni" \/ new.quit
    <3>1. r0' = "jni" \/ levels' = SetTop([Passed EXCEPT !.quit = TRUE])
      BY <1>12, Zenon DEF JniCall, Caught
    <3>2. codeList[2] = "jni"
      BY <1>2, Zenon DEF HandlersOK
    <3>3. ~SymCall
      BY <2>1, <3>2, Zenon DEF SymCall, HookIs
    <3> QED BY <1>4, <1>8, <3>3, Zenon
  <2> QED BY <1>8, <1>9, <1>10, <2>2, <2>3, <2>4, SMTT(20) DEF JniOK, Installed
<1> QED BY <1>11, <1>12, Zenon

LEMMA TracedJni ==
  ASSUME JniIInv, Traced
  PROVE  JniOK'
<1> USE DEF JniIInv
<1> DEFINE j == NextActing(1, pc, pc)
<1> DEFINE new == [Top EXCEPT !.insn = pc, !.it = j]
<1>1. /\ levels # << >> /\ Top.it = 0 /\ levels' = SetTop(new) /\ r0' = r0
      /\ UNCHANGED unchangedAround
  BY Zenon DEF Traced, Running, unchangedAround, regs
<1>2. InnerOK
  BY <1>1, TopFacts, Zenon
<1>3. j \in 1 .. Done
  <2>1. 1 \in 1 .. Done /\ HandlersOK
    BY <1>2, SMTT(30) DEF InnerOK, CallsIInv
  <2> QED BY <2>1, NextActs, Zenon
<1>4. pc.kind = "mov" /\ pc.i \in JniIds => j \in {1, 2}
  BY JniTurn, Zenon
<1> HIDE DEF j
<1>5. new \in LevelSet /\ new.it = j /\ new.insn = pc /\ j # 0
  <2>1. Top \in LevelSet
    BY <1>2, Zenon DEF InnerOK
  <2>2. j \in Nat /\ j # 0 /\ pc \in PlaceSet
    BY <1>2, <1>3, SMTT(30) DEF InnerOK
  <2> QED BY <2>1, <2>2, Zenon DEF LevelSet
<1> HIDE DEF new
<1>6. Installed(new)
  BY <1>1, <1>5, NewTop, Zenon
<1>7. Cur(Depth)' = pc /\ Cur(Depth) = pc /\ Top' = new /\ Depth > 0
  BY <1>1, <1>2, <1>5, <1>6, Zenon DEF Installed, Cur, InnerOK
<1> QED BY <1>1, <1>4, <1>5, <1>6, <1>7 DEF JniOK, Installed

(* A level at a hooked function, before, in or after the callback. *)
LEMMA HookedJni ==
  ASSUME JniIInv, CallsIInv', HookerCall \/ CallbackReplaces \/ CallbackObserves
  PROVE  JniOK'
<1> USE DEF JniIInv
<1>1. levels # << >> /\ UNCHANGED unchangedAround
  BY Zenon DEF HookerCall, CallbackReplaces, CallbackObserves, HookIs, Running, InCallback, unchangedInHook,
         unchangedAround
<1>2. InnerOK /\ HandlersOK
  BY <1>1, TopFacts, Zenon DEF CallsIInv
<1>3. CASE HookerCall
  <2>1. levels' = SetTop([Top EXCEPT !.lr = lr, !.java = TRUE, !.made = FALSE])
    BY <1>3, Zenon DEF HookerCall
  <2>2. [Top EXCEPT !.lr = lr, !.java = TRUE, !.made = FALSE] \in LevelSet /\ Top \in LevelSet
    BY <1>2, Zenon DEF InnerOK, CallsIInv, StateOK, LevelSet
  <2>3. Installed([Top EXCEPT !.lr = lr, !.java = TRUE, !.made = FALSE])
    BY <1>1, <2>1, <2>2, NewTop, Zenon
  <2>4. Top'.java /\ Depth' > 0
    BY <1>2, <2>2, <2>3, Zenon DEF Installed, LevelSet, InnerOK
  <2> QED BY <2>4, CallbackJni, Zenon
<1>4. CASE CallbackReplaces \/ CallbackObserves
  <2>1. Top.java
    BY <1>4, Zenon DEF CallbackReplaces, CallbackObserves, InCallback
  <2>2. Top.insn \in hookers /\ Top.it \in 1 .. Len(codeList) /\ Top \in LevelSet
    BY <1>2, <2>1, Zenon DEF InnerOK, LevelOK
  <2>3. PICK j, new : /\ j \in Nat /\ j # 0 /\ levels' = SetTop(new)
                      /\ \/ new = [Top EXCEPT !.java = FALSE, !.jump = TRUE, !.it = j]
                         \/ new = [Top EXCEPT !.it = j, !.java = FALSE]
    <3>1. ASSUME NEW at PROVE NextActing(Top.it + 1, Top.insn, at) \in Nat \ {0}
      <4>1. Top.it + 1 \in 1 .. Done /\ Done \in Nat /\ Top.it \in Nat
        BY <1>2, <2>2, SMTT(30) DEF InnerOK
      <4>2. PICK i : i = NextActing(Top.it + 1, Top.insn, at)
        BY Zenon
      <4>3. i \in Top.it + 1 .. Done
        BY <1>2, <4>1, <4>2, NextActs, Zenon
      <4>4. i \in Nat \ {0}
        BY <4>1, <4>3
      <4> QED BY <4>2, <4>4, Zenon
    <3>2. CASE CallbackReplaces
      BY <3>1, <3>2, Zenon DEF CallbackReplaces
    <3>3. CASE CallbackObserves
      <4>1. [Passed EXCEPT !.java = FALSE] = [Top EXCEPT !.it = NextActing(Top.it + 1, Top.insn, pc), !.java = FALSE]
        BY Zenon DEF Passed
      <4> QED BY <3>1, <3>3, <4>1, Zenon DEF CallbackObserves
    <3> QED BY <1>4, <3>2, <3>3, Zenon
  <2>4. new \in LevelSet /\ new.it = j /\ new.insn = Top.insn
    BY <2>2, <2>3, Zenon DEF LevelSet
  <2>5. Installed(new)
    BY <1>1, <2>3, <2>4, NewTop, Zenon
  <2>6. Cur(Depth)' = Top.insn
    BY <2>3, <2>4, <2>5, Zenon DEF Installed
  <2> QED BY <1>2, <2>2, <2>6, Zenon DEF JniOK, HandlersOK
<1> QED BY <1>3, <1>4, Zenon

LEMMA JniStep ==
  ASSUME SymIds \cap JniIds \subseteq Unimplemented, JniIInv, CallsIInv', [CallsNext]_callsVars
  PROVE  JniOK'
<1>1. CASE \/ \E i \in 1 .. MaxModules, name \in HostNames, onStack \in BOOLEAN : callSymbol(i, name, onStack)
           \/ \E file \in Files : loadLibrary(file)
  BY <1>1, EdgesJni, Zenon
<1>2. CASE CallbackThrows \/ Quit \/ Halt \/ RunsWild
  BY <1>2, EdgesJni, Zenon DEF CallbackThrows, Quit, Halt, RunsWild, Executes, Ready, Running
<1>3. ASSUME NEW name, addSymbolHook(name) PROVE JniOK'
  BY <1>3 DEF addSymbolHook, JniOK, Depth
<1>4. CASE UNCHANGED callsVars
  BY <1>4, Zenon DEF JniIInv, JniOK, callsVars, regs, Cur, Top, Depth
<1>5. CASE Traced
  BY <1>5, TracedJni, Zenon
<1>6. CASE SymCall \/ JniCall
  BY <1>6, StubJni, Zenon
<1>7. CASE HookerCall \/ CallbackReplaces \/ CallbackObserves
  BY <1>7, HookedJni, Zenon
<1>8. CASE Jump \/ EnterFunction \/ EnterStub \/ LeaveStub \/ GuestReturns \/ GuestCalls
  BY <1>8, InsnsJni, Zenon
<1> QED BY <1>1, <1>2, <1>3, <1>4, <1>5, <1>6, <1>7, <1>8, ZenonT(30) DEF CallsNext

(* The numbers SymHooker and JHandler share are those of functions that only
   throw.  Then a JNI function that returns has read what native code passed in
   R0, and native code goes on with its result (SymHooker.hook, JHandler.hook). *)
THEOREM CallsJniAnswered ==
  ASSUME SymIds \cap JniIds \subseteq Unimplemented
  PROVE  CallsSpec => JniAnswered
<1>1. CallsInit => JniOK
  BY DEF CallsInit, JniOK, Depth
<1>2. CallsIInv /\ JniOK /\ CallsIInv' /\ [CallsNext]_callsVars => JniOK'
  BY JniStep, Zenon DEF JniIInv
<1>3. CallsIInv /\ JniOK /\ [CallsNext]_callsVars =>
        [/\ JniCall /\ r0' = "jni" => r0 = "guest"
         /\ LeaveStub /\ Insn.i \in JniIds => r0 = "jni" \/ disturbed]_callsVars
  <2> SUFFICES ASSUME CallsIInv, JniOK
               PROVE  /\ JniCall /\ r0' = "jni" => r0 = "guest"
                      /\ LeaveStub /\ Insn.i \in JniIds => r0 = "jni"
    BY Zenon
  <2>1. ASSUME JniCall, r0' = "jni" PROVE r0 = "guest"
    <3>1. levels # << >> /\ ~Top.java /\ Top.it \in DOMAIN codeList /\ codeList[Top.it] = "jni"
      BY <2>1, Zenon DEF JniCall, HookIs, Running
    <3>2. InnerOK /\ HandlersOK
      BY <3>1, TopFacts, Zenon DEF CallsIInv
    <3>3. Top.it = 2
      BY <3>1, <3>2, StubHandlers, Zenon
    <3>4. Acts(codeList[Top.it], Top.insn, pc) /\ Cur(Depth) = Top.insn /\ Depth > 0
      BY <3>1, <3>2, <3>3, SMTT(30) DEF CallsIInv, TurnOK, InnerOK, Cur
    <3>5. Top.insn.kind = "mov" /\ Top.insn.i \in JniIds
      BY <3>1, <3>4, ActsMeans, Zenon
    <3>6. r0 = "guest" \/ (r0 = "sym" /\ Top.insn.i \in Unimplemented)
      BY <3>3, <3>4, <3>5, Zenon DEF JniOK
    <3>7. Top.insn.i \notin Unimplemented \/ r0' = r0
      BY <2>1, Zenon DEF JniCall, Caught
    <3> QED BY <2>1, <3>6, <3>7, Zenon
  <2>2. ASSUME LeaveStub, Insn.i \in JniIds PROVE r0 = "jni"
    <3>1. Ready /\ ~Top.jump /\ ~Top.quit /\ Insn.kind = "mov"
      BY <2>2, Zenon DEF LeaveStub, Executes
    <3>2. InnerOK /\ Insn = Cur(Depth) /\ HandlersOK
      BY <3>1, InsnFacts, Zenon DEF CallsIInv
    <3>3. Top.it = Done
      <4>1. Top.it = 0 => Insn = pc
        BY Zenon DEF Insn
      <4>2. ~(Top.it = 0 /\ NextActing(1, pc, pc) = Done)
        BY <2>2, <3>1, <4>1, JniTurn, ZenonT(30)
      <4> QED BY <3>1, <4>2, Zenon DEF Ready
    <3>4. Top.it > 2 /\ Depth > 0
      BY <3>2, <3>3, SMTT(30) DEF HandlersOK, Done, InnerOK
    <3> QED BY <2>2, <3>1, <3>2, <3>4, Zenon DEF JniOK
  <2> QED BY <2>1, <2>2, Zenon
<1> QED BY <1>1, <1>2, <1>3, CallsInvariant, PTL DEF CallsSpec, JniAnswered
=============================================================================
