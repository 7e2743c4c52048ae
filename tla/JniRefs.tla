------------------------------ MODULE JniRefs ------------------------------
(***************************************************************************)
(* The references of the emulated JNI (jenv/JniEnv.java and                *)
(* jenv/JReferencTable.java).  Native code names a Java object by a number *)
(* that JniEnv looks up in one of two tables, `locals' and `globals'.      *)
(* Every JNI function is a callback of JHandler.hook; one that throws      *)
(* stops the emulation (uc.emu_stop) and leaves the tables as they are,    *)
(* and the next Emulator.callNative runs native code again.                *)
(*                                                                         *)
(* An object is a model value.  What native code believes is kept in two   *)
(* history variables: `doubled', whether one table has ever held two       *)
(* references to the same object, and `held', the references native code   *)
(* was given and has not deleted, recorded until that happens.             *)
(***************************************************************************)
EXTENDS Integers, FiniteSets

CONSTANTS
    Classes,                  \* the classes registered with JClassLoader
    Arrays,                   \* JObjectArray objects that can be created
    Others,                   \* strings, primitive arrays and plain objects
    Null,                     \* Java's null
    LocalStart, LocalSize,    \* new JReferencTable(1, 2048)
    GlobalStart, GlobalSize,  \* new JReferencTable(4096, 512000)
    MaxLocals, MaxGlobals     \* bounds of the model: entries of each table

Objects == Classes \cup Arrays \cup Others

ASSUME JniAssumption ==
    /\ LocalStart \in Nat \ {0} /\ LocalSize \in Nat
    /\ GlobalStart \in Nat /\ GlobalSize \in Nat
    /\ LocalStart + LocalSize < GlobalStart
    /\ MaxLocals \in Nat /\ MaxGlobals \in Nat
    /\ Null \notin Objects

VARIABLES
    locals,     \* JniEnv.locals.tables: index -> object
    globals,    \* JniEnv.globals.tables: index -> object
    stopped,    \* a JNI function threw, and JHandler.hook stopped the emulation
    held,       \* history: the references native code holds
    doubled     \* history: some object once had two entries in one table

vars == <<locals, globals, stopped, held, doubled>>

LocalIndexes == LocalStart .. (LocalStart + MaxLocals)
GlobalIndexes == GlobalStart .. (GlobalStart + MaxGlobals)

\* The numbers native code may pass as a reference: null, whatever it was
\* ever given, and numbers beside them.
Refs == {0} \cup LocalIndexes \cup GlobalIndexes

Held == [table : {"local", "global"}, ref : LocalIndexes \cup GlobalIndexes,
         obj : Objects]

-----------------------------------------------------------------------------
(* JReferencTable *)

LocalInRange(idx) == LocalStart <= idx /\ idx <= LocalStart + LocalSize

GlobalInRange(idx) == GlobalStart <= idx /\ idx <= GlobalStart + GlobalSize

get(tables, idx) == IF idx \in DOMAIN tables THEN tables[idx] ELSE Null

\* Mutant of FirstFree: the number of entries is taken for a free index.
NextByCount(tables, start, idx) == idx = start + Cardinality(DOMAIN tables)

\* The index at which add() ends its search for a free one.
FirstFree(tables, start, idx) ==
    /\ idx \notin DOMAIN tables
    /\ \A j \in start .. (idx - 1) : j \in DOMAIN tables

put(tables, idx, object) ==
    [j \in DOMAIN tables \cup {idx} |-> IF j = idx THEN object ELSE tables[j]]

drop(tables, key) == [j \in DOMAIN tables \ {key} |-> tables[j]]

\* Mutant of remove: the first key goes, whatever its value.
RemoveAny(tables, object, next) ==
    IF tables = [i \in {} |-> Null] THEN next = tables
    ELSE \E key \in DOMAIN tables : next = drop(tables, key)

\* remove() deletes the first key the HashMap's iterator reaches whose value
\* is the object; the order of the iteration is the map's own.
remove(tables, object, next) ==
    \/ \E key \in DOMAIN tables :
          tables[key] = object /\ next = drop(tables, key)
    \/ (\A key \in DOMAIN tables : tables[key] # object) /\ next = tables

HasTwo(tables) ==
    \E i, j \in DOMAIN tables : i # j /\ tables[i] = tables[j]

-----------------------------------------------------------------------------
(* JniEnv: looking references up *)

\* getReference throws for a number in neither range.
IsReference(idx) == idx = 0 \/ LocalInRange(idx) \/ GlobalInRange(idx)

getReference(idx) ==
    IF idx = 0 THEN Null
    ELSE IF LocalInRange(idx) THEN get(locals, idx) ELSE get(globals, idx)

getLocalReference(idx) ==
    IF idx # 0 /\ LocalInRange(idx) THEN get(locals, idx) ELSE Null

getGlobalReference(idx) ==
    IF idx # 0 /\ GlobalInRange(idx) THEN get(globals, idx) ELSE Null

\* An object no table refers to: a new Java object is one of these.
Unreferenced(o) ==
    /\ \A i \in DOMAIN locals : locals[i] # o
    /\ \A i \in DOMAIN globals : globals[i] # o

\* Only native code that is running calls; an exception stops it.
Throws ==
    ~stopped /\ stopped' = TRUE /\ UNCHANGED <<locals, globals, held, doubled>>

Returns == ~stopped /\ UNCHANGED stopped

Nothing == Returns /\ UNCHANGED <<locals, globals, held, doubled>>

Records(h) == held' = IF doubled' THEN {} ELSE h

addLocalReference(o) ==
    \E idx \in LocalIndexes :
        /\ Cardinality(DOMAIN locals) < MaxLocals
        /\ FirstFree(locals, LocalStart, idx)
        /\ locals' = put(locals, idx, o)
        /\ doubled' = (doubled \/ HasTwo(locals'))
        /\ Records(held \cup {[table |-> "local", ref |-> idx, obj |-> o]})
        /\ UNCHANGED globals

addGlobalReference(o) ==
    \E idx \in GlobalIndexes :
        /\ Cardinality(DOMAIN globals) < MaxGlobals
        /\ FirstFree(globals, GlobalStart, idx)
        /\ globals' = put(globals, idx, o)
        /\ doubled' = (doubled \/ HasTwo(globals'))
        /\ Records(held \cup {[table |-> "global", ref |-> idx, obj |-> o]})
        /\ UNCHANGED locals

Init ==
    /\ locals = [i \in {} |-> Null]
    /\ globals = [i \in {} |-> Null]
    /\ stopped = FALSE
    /\ held = {}
    /\ doubled = FALSE

-----------------------------------------------------------------------------
(* JniEnv: the functions native code calls *)

\* FindClass gives a new local reference each time a class is asked for; an
\* unknown name gives 0 and an array type throws.
FindClass(c) == Returns /\ addLocalReference(c)

FindClassUnknown == Nothing

FindClassArray == Throws

\* NewString, NewBooleanArray, and genJRet for a method or field whose value
\* is an object: a new Java object and a local reference to it.
NewLocalObject(o) == Unreferenced(o) /\ Returns /\ addLocalReference(o)

\* NewObjectV and NewObjectArray: the class must be a jclass.
NewFromClass(clzz, o) ==
    \/ /\ IsReference(clzz) /\ getReference(clzz) \in Classes
       /\ Unreferenced(o)
       /\ Returns
       /\ addLocalReference(o)
    \/ /\ ~IsReference(clzz) \/ getReference(clzz) \notin Classes
       /\ Throws

NewObjectV(clzz, o) == NewFromClass(clzz, o)

NewObjectArray(clzz, o) == NewFromClass(clzz, o)

\* GetObjectArrayElement wraps the element in a new JObject; what is not an
\* object array fails a cast, and null is dereferenced.
GetObjectArrayElement(array, o) ==
    \/ /\ IsReference(array) /\ getReference(array) \in Arrays
       /\ Unreferenced(o)
       /\ Returns
       /\ addLocalReference(o)
    \/ /\ ~IsReference(array) \/ getReference(array) \notin Arrays
       /\ Throws

NewLocalRef(ref) ==
    \/ ~IsReference(ref) /\ Throws
    \/ IsReference(ref) /\ getReference(ref) = Null /\ Nothing
    \/ /\ IsReference(ref) /\ getReference(ref) # Null
       /\ Returns
       /\ addLocalReference(getReference(ref))

NewGlobalRef(ref) ==
    \/ ref = 0 /\ Nothing
    \/ ref # 0 /\ getLocalReference(ref) = Null /\ Throws
    \/ /\ ref # 0 /\ getLocalReference(ref) # Null
       /\ Returns
       /\ addGlobalReference(getLocalReference(ref))

\* The reference is no longer native code's to use once it has deleted it.
deleteLocalRef(ref) ==
    \/ ref = 0 /\ Nothing
    \/ /\ ref # 0
       /\ remove(locals, getLocalReference(ref), locals')
       /\ held' = {h \in held : h.table # "local" \/ h.ref # ref}
       /\ Returns
       /\ UNCHANGED <<globals, doubled>>

deleteGlobalRef(ref) ==
    \/ ref = 0 /\ Nothing
    \/ /\ ref # 0
       /\ remove(globals, getGlobalReference(ref), globals')
       /\ held' = {h \in held : h.table # "global" \/ h.ref # ref}
       /\ Returns
       /\ UNCHANGED <<locals, doubled>>

\* Emulator.callNative: the host calls native code again after a stop.
CallNative == stopped /\ stopped' = FALSE
              /\ UNCHANGED <<locals, globals, held, doubled>>

-----------------------------------------------------------------------------

Next ==
    \/ \E c \in Classes : FindClass(c)
    \/ FindClassUnknown
    \/ FindClassArray
    \/ \E o \in Others : NewLocalObject(o)
    \/ \E ref \in Refs :
          \/ \E o \in Others : NewObjectV(ref, o)
          \/ \E o \in Arrays : NewObjectArray(ref, o)
          \/ \E o \in Others : GetObjectArrayElement(ref, o)
          \/ NewLocalRef(ref)
          \/ NewGlobalRef(ref)
          \/ deleteLocalRef(ref)
          \/ deleteGlobalRef(ref)
    \/ CallNative

Spec == Init /\ [][Next]_vars

-----------------------------------------------------------------------------
(* Properties *)

\* The tables map indexes from their start on to objects, never to null.
TypeOK ==
    /\ DOMAIN locals \subseteq LocalIndexes
    /\ \A i \in DOMAIN locals : locals[i] \in Objects
    /\ DOMAIN globals \subseteq GlobalIndexes
    /\ \A i \in DOMAIN globals : globals[i] \in Objects
    /\ stopped \in BOOLEAN
    /\ held \subseteq Held
    /\ doubled \in BOOLEAN

InTableRange(h) ==
    IF h.table = "local" THEN LocalInRange(h.ref) ELSE GlobalInRange(h.ref)

\* getReference gives native code the object it was given the reference for,
\* for every reference it holds that is inside its table's range, as long as
\* no object has had two references in one table: whatever it deletes,
\* deletes twice or deletes through the wrong function, and however indexes
\* are reused in between.
RefsFaithful ==
    ~doubled =>
        \A h \in held : InTableRange(h) => getReference(h.ref) = h.obj

\* The tables have their types and references resolve faithfully, in every
\* state native code and the host can bring about (JniEnv, JReferencTable).
RefsInv == TypeOK /\ RefsFaithful

\* What the comments of the two functions say, "Deletes the global reference
\* pointed to by globalRef.": after the call the reference names nothing,
\* unless some object has had two references in one table, of which remove()
\* may take the other.
DeletesThatReference ==
    [][\A ref \in Refs : ~doubled =>
          /\ deleteLocalRef(ref) => getLocalReference(ref)' = Null
          /\ deleteGlobalRef(ref) => getGlobalReference(ref)' = Null]_vars

=============================================================================
