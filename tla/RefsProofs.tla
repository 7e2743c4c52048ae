----------------------------- MODULE RefsProofs -----------------------------
(***************************************************************************)
(* Proofs about JniRefs, for every set of objects and every pair of        *)
(* reference tables whose ranges do not overlap, and about ClassMirror,    *)
(* which adds every set of classes and mirrors.                            *)
(***************************************************************************)
EXTENDS ClassMirror, TLAPS

TablesOK ==
    /\ DOMAIN locals \subseteq LocalIndexes /\ locals \in [DOMAIN locals -> Objects]
    /\ DOMAIN globals \subseteq GlobalIndexes /\ globals \in [DOMAIN globals -> Objects]

HistoryOK == stopped \in BOOLEAN /\ doubled \in BOOLEAN /\ held \subseteq Held

\* The references of one table that native code holds, in the table's range,
\* are entries of the table.
HeldIn(name, tables, start, size, hs) ==
    \A h \in hs : h.table = name /\ start <= h.ref /\ h.ref <= start + size =>
        h.ref \in DOMAIN tables /\ tables[h.ref] = h.obj

\* RefsFaithful by table.  It is inductive because remove() can only take the
\* entry that is meant while no object has two of them.
EntriesHeld ==
    ~doubled =>
        /\ ~HasTwo(locals) /\ ~HasTwo(globals)
        /\ HeldIn("local", locals, LocalStart, LocalSize, held)
        /\ HeldIn("global", globals, GlobalStart, GlobalSize, held)

RefsIInv == TablesOK /\ HistoryOK /\ EntriesHeld

-----------------------------------------------------------------------------
\* put at a free index keeps the other entries.
LEMMA PutKeeps ==
    ASSUME NEW tables, tables \in [DOMAIN tables -> Objects], NEW idx, idx \notin DOMAIN tables,
           NEW o \in Objects
    PROVE  /\ DOMAIN put(tables, idx, o) = DOMAIN tables \cup {idx}
           /\ put(tables, idx, o) \in [DOMAIN put(tables, idx, o) -> Objects]
           /\ put(tables, idx, o)[idx] = o
           /\ \A j \in DOMAIN tables : put(tables, idx, o)[j] = tables[j]
BY DEF put

\* drop keeps the other entries.
LEMMA DropKeeps ==
    ASSUME NEW tables, tables \in [DOMAIN tables -> Objects], NEW key
    PROVE  /\ DOMAIN drop(tables, key) = DOMAIN tables \ {key}
           /\ drop(tables, key) \in [DOMAIN drop(tables, key) -> Objects]
           /\ \A j \in DOMAIN tables \ {key} : drop(tables, key)[j] = tables[j]
           /\ ~HasTwo(tables) => ~HasTwo(drop(tables, key))
BY DEF drop, HasTwo

\* The held references of a table after an entry has been put at a free index.
LEMMA PutHeld ==
    ASSUME NEW name, NEW tables, tables \in [DOMAIN tables -> Objects], NEW start, NEW size,
           NEW hs, HeldIn(name, tables, start, size, hs),
           NEW idx, idx \notin DOMAIN tables, NEW o \in Objects
    PROVE  HeldIn(name, put(tables, idx, o), start, size,
                  hs \cup {[table |-> name, ref |-> idx, obj |-> o]})
<1> DEFINE next == put(tables, idx, o)
           new == [table |-> name, ref |-> idx, obj |-> o]
<1>1. /\ DOMAIN next = DOMAIN tables \cup {idx} /\ next[idx] = o
      /\ \A j \in DOMAIN tables : next[j] = tables[j]
    BY DEF put
<1>2. new.ref = idx /\ new.obj = o
    OBVIOUS
<1> HIDE DEF next, new
<1>3. ASSUME NEW h \in hs \cup {new}, h.table = name, start <= h.ref, h.ref <= start + size
      PROVE  h.ref \in DOMAIN next /\ next[h.ref] = h.obj
    <2>1. CASE h \in hs
        BY <1>1, <1>3, <2>1, Zenon DEF HeldIn
    <2>2. CASE h = new
        BY <1>1, <1>2, <2>2, Zenon
    <2> QED
        BY <1>3, <2>1, <2>2
<1> QED
    BY <1>3, Zenon DEF HeldIn, next, new

\* What remove() does to a table in which no object has two entries: the entry
\* of the reference goes, and no other.
LEMMA RemoveOne ==
    ASSUME NEW tables, tables \in [DOMAIN tables -> Objects], ~HasTwo(tables), NEW ref,
           NEW next, remove(tables, get(tables, ref), next)
    PROVE  /\ DOMAIN next = DOMAIN tables \ {ref}
           /\ \A j \in DOMAIN tables \ {ref} : next[j] = tables[j]
<1>1. CASE ref \in DOMAIN tables
    <2>1. get(tables, ref) = tables[ref]
        BY <1>1 DEF get
    <2>2. PICK key \in DOMAIN tables : tables[key] = tables[ref] /\ next = drop(tables, key)
        BY <1>1, <2>1 DEF remove
    <2>3. key = ref
        BY <1>1, <2>2 DEF HasTwo
    <2> QED
        BY <2>2, <2>3, DropKeeps, Zenon
<1>2. CASE ref \notin DOMAIN tables
    <2>1. get(tables, ref) = Null
        BY <1>2 DEF get
    <2>2. next = tables
        BY <2>1, JniAssumption DEF remove
    <2> QED
        BY <1>2, <2>2
<1> QED
    BY <1>1, <1>2

\* remove() leaves a table of objects.
LEMMA RemoveTyped ==
    ASSUME NEW tables, tables \in [DOMAIN tables -> Objects], NEW o, NEW next,
           remove(tables, o, next)
    PROVE  /\ DOMAIN next \subseteq DOMAIN tables /\ next \in [DOMAIN next -> Objects]
           /\ ~HasTwo(tables) => ~HasTwo(next)
           /\ o = Null => next = tables
<1>1. o = Null => next = tables
    <2>1. \A key \in DOMAIN tables : tables[key] # Null
        BY JniAssumption
    <2> QED
        BY <2>1, Zenon DEF remove
<1>2. CASE next = tables
    BY <1>1, <1>2
<1>3. CASE \E key \in DOMAIN tables : next = drop(tables, key)
    <2>1. PICK key \in DOMAIN tables : next = drop(tables, key)
        BY <1>3
    <2>2. /\ DOMAIN next = DOMAIN tables \ {key} /\ next \in [DOMAIN next -> Objects]
          /\ ~HasTwo(tables) => ~HasTwo(next)
        BY <2>1, DropKeeps, Zenon
    <2> QED
        BY <1>1, <2>2, Zenon
<1> QED
    BY <1>2, <1>3 DEF remove

-----------------------------------------------------------------------------
\* A function that throws, or that changes no table.
LEMMA QuietStep ==
    ASSUME RefsIInv, UNCHANGED <<locals, globals, held, doubled>>, stopped' \in BOOLEAN
    PROVE  RefsIInv'
BY DEF RefsIInv, TablesOK, HistoryOK, EntriesHeld, HeldIn, HasTwo

\* A new local reference.
LEMMA AddLocalStep ==
    ASSUME RefsIInv, NEW o \in Objects, addLocalReference(o), stopped' = stopped
    PROVE  RefsIInv'
<1>1. PICK idx \in LocalIndexes :
        /\ FirstFree(locals, LocalStart, idx)
        /\ locals' = put(locals, idx, o)
        /\ doubled' = (doubled \/ HasTwo(locals'))
        /\ Records(held \cup {[table |-> "local", ref |-> idx, obj |-> o]})
        /\ UNCHANGED globals
    BY DEF addLocalReference
<1> DEFINE new == [table |-> "local", ref |-> idx, obj |-> o]
<1>2. idx \notin DOMAIN locals /\ locals \in [DOMAIN locals -> Objects]
    BY <1>1 DEF FirstFree, RefsIInv, TablesOK
<1>3. /\ DOMAIN locals' = DOMAIN locals \cup {idx}
      /\ locals' \in [DOMAIN locals' -> Objects]
    BY <1>1, <1>2 DEF put
<1>4. TablesOK'
    BY <1>1, <1>3 DEF RefsIInv, TablesOK, LocalIndexes, GlobalIndexes
<1>5. new \in Held
    BY DEF Held
<1>6. doubled' \in BOOLEAN
    BY <1>1, Zenon DEF RefsIInv, HistoryOK
<1>7. held' = (IF doubled' THEN {} ELSE held \cup {new})
    BY <1>1 DEF Records
<1>8. HistoryOK'
    BY <1>5, <1>6, <1>7, Zenon DEF RefsIInv, HistoryOK, Held, LocalIndexes, GlobalIndexes
<1>9. ASSUME ~doubled'
      PROVE  /\ ~HasTwo(locals)' /\ ~HasTwo(globals)'
             /\ HeldIn("local", locals, LocalStart, LocalSize, held)'
             /\ HeldIn("global", globals, GlobalStart, GlobalSize, held)'
    <2>1. ~doubled /\ ~HasTwo(locals)'
        BY <1>1, <1>9, Zenon DEF HasTwo
    <2>2. /\ ~HasTwo(globals)
          /\ HeldIn("local", locals, LocalStart, LocalSize, held)
          /\ HeldIn("global", globals, GlobalStart, GlobalSize, held)
        BY <2>1, Zenon DEF RefsIInv, EntriesHeld
    <2>3. held' = held \cup {new}
        BY <1>7, <1>9, Zenon
    <2>4. HeldIn("local", put(locals, idx, o), LocalStart, LocalSize, held \cup {new})
        BY <1>2, <2>2, PutHeld, Zenon
    <2>5. new.table = "local"
        OBVIOUS
    <2> HIDE DEF new
    <2>6. HeldIn("local", locals, LocalStart, LocalSize, held)'
        BY <1>1, <2>3, <2>4, Zenon DEF HeldIn
    <2>7. HeldIn("global", globals, GlobalStart, GlobalSize, held \cup {new})
        BY <2>2, <2>5 DEF HeldIn
    <2>8. HeldIn("global", globals, GlobalStart, GlobalSize, held)' /\ ~HasTwo(globals)'
        BY <1>1, <2>2, <2>3, <2>7, Zenon DEF HeldIn, HasTwo
    <2> QED
        BY <2>1, <2>6, <2>8
<1> QED
    BY <1>4, <1>8, <1>9 DEF RefsIInv, EntriesHeld

\* A new global reference.
LEMMA AddGlobalStep ==
    ASSUME RefsIInv, NEW o \in Objects, addGlobalReference(o), stopped' = stopped
    PROVE  RefsIInv'
<1>1. PICK idx \in GlobalIndexes :
        /\ FirstFree(globals, GlobalStart, idx)
        /\ globals' = put(globals, idx, o)
        /\ doubled' = (doubled \/ HasTwo(globals'))
        /\ Records(held \cup {[table |-> "global", ref |-> idx, obj |-> o]})
        /\ UNCHANGED locals
    BY DEF addGlobalReference
<1> DEFINE new == [table |-> "global", ref |-> idx, obj |-> o]
<1>2. idx \notin DOMAIN globals /\ globals \in [DOMAIN globals -> Objects]
    BY <1>1 DEF FirstFree, RefsIInv, TablesOK
<1>3. /\ DOMAIN globals' = DOMAIN globals \cup {idx}
      /\ globals' \in [DOMAIN globals' -> Objects]
    BY <1>1, <1>2 DEF put
<1>4. TablesOK'
    BY <1>1, <1>3 DEF RefsIInv, TablesOK, GlobalIndexes, LocalIndexes
<1>5. new \in Held
    BY DEF Held
<1>6. doubled' \in BOOLEAN
    BY <1>1, Zenon DEF RefsIInv, HistoryOK
<1>7. held' = (IF doubled' THEN {} ELSE held \cup {new})
    BY <1>1 DEF Records
<1>8. HistoryOK'
    BY <1>5, <1>6, <1>7, Zenon DEF RefsIInv, HistoryOK, Held, GlobalIndexes, LocalIndexes
<1>9. ASSUME ~doubled'
      PROVE  /\ ~HasTwo(globals)' /\ ~HasTwo(locals)'
             /\ HeldIn("global", globals, GlobalStart, GlobalSize, held)'
             /\ HeldIn("local", locals, LocalStart, LocalSize, held)'
    <2>1. ~doubled /\ ~HasTwo(globals)'
        BY <1>1, <1>9, Zenon DEF HasTwo
    <2>2. /\ ~HasTwo(locals)
          /\ HeldIn("global", globals, GlobalStart, GlobalSize, held)
          /\ HeldIn("local", locals, LocalStart, LocalSize, held)
        BY <2>1, Zenon DEF RefsIInv, EntriesHeld
    <2>3. held' = held \cup {new}
        BY <1>7, <1>9, Zenon
    <2>4. HeldIn("global", put(globals, idx, o), GlobalStart, GlobalSize, held \cup {new})
        BY <1>2, <2>2, PutHeld, Zenon
    <2>5. new.table = "global"
        OBVIOUS
    <2> HIDE DEF new
    <2>6. HeldIn("global", globals, GlobalStart, GlobalSize, held)'
        BY <1>1, <2>3, <2>4, Zenon DEF HeldIn
    <2>7. HeldIn("local", locals, LocalStart, LocalSize, held \cup {new})
        BY <2>2, <2>5 DEF HeldIn
    <2>8. HeldIn("local", locals, LocalStart, LocalSize, held)' /\ ~HasTwo(locals)'
        BY <1>1, <2>2, <2>3, <2>7, Zenon DEF HeldIn, HasTwo
    <2> QED
        BY <2>1, <2>6, <2>8
<1> QED
    BY <1>4, <1>8, <1>9 DEF RefsIInv, EntriesHeld

\* deleteLocalRef takes the entry that is meant, and none if there is none.
LEMMA DeleteLocalStep ==
    ASSUME RefsIInv, NEW ref, ref # 0, deleteLocalRef(ref)
    PROVE  /\ RefsIInv'
           /\ ~doubled => getLocalReference(ref)' = Null
<1>1. /\ remove(locals, getLocalReference(ref), locals')
      /\ held' = {h \in held : h.table # "local" \/ h.ref # ref}
      /\ UNCHANGED <<globals, doubled, stopped>>
    BY DEF deleteLocalRef, Returns
<1>2. locals \in [DOMAIN locals -> Objects] /\ DOMAIN locals \subseteq LocalIndexes
    BY DEF RefsIInv, TablesOK
<1>3. /\ DOMAIN locals' \subseteq DOMAIN locals /\ locals' \in [DOMAIN locals' -> Objects]
      /\ ~HasTwo(locals) => ~HasTwo(locals')
      /\ getLocalReference(ref) = Null => locals' = locals
    BY <1>1, <1>2, RemoveTyped, Zenon
<1>4. TablesOK' /\ HistoryOK'
    BY <1>1, <1>2, <1>3, Zenon DEF RefsIInv, TablesOK, HistoryOK, LocalIndexes, GlobalIndexes, Held
<1>5. ASSUME ~doubled
      PROVE  /\ ~HasTwo(locals)' /\ ~HasTwo(globals)' /\ getLocalReference(ref)' = Null
             /\ HeldIn("local", locals, LocalStart, LocalSize, held)'
             /\ HeldIn("global", globals, GlobalStart, GlobalSize, held)'
    <2>1. /\ ~HasTwo(locals) /\ ~HasTwo(globals)
          /\ HeldIn("local", locals, LocalStart, LocalSize, held)
          /\ HeldIn("global", globals, GlobalStart, GlobalSize, held)
        BY <1>5, Zenon DEF RefsIInv, EntriesHeld
    <2>2. ~HasTwo(locals)' /\ ~HasTwo(globals)'
        BY <1>1, <1>3, <2>1, Zenon DEF HasTwo
    <2>3. HeldIn("global", globals, GlobalStart, GlobalSize, held)'
        BY <1>1, <2>1, Zenon DEF HeldIn
    <2>4. CASE LocalInRange(ref)
        <3>1. getLocalReference(ref) = get(locals, ref)
            BY <2>4, Zenon DEF getLocalReference
        <3>2. /\ DOMAIN locals' = DOMAIN locals \ {ref}
              /\ \A j \in DOMAIN locals \ {ref} : locals'[j] = locals[j]
            <4>1. remove(locals, get(locals, ref), locals')
                BY <1>1, <3>1, Zenon
            <4> QED
                BY <1>2, <2>1, <4>1, RemoveOne, Zenon
        <3>3. \A h \in held' : h \in held /\ (h.table # "local" \/ h.ref # ref)
            BY <1>1, Zenon
        <3>4. HeldIn("local", locals, LocalStart, LocalSize, held)'
            <4> SUFFICES ASSUME NEW h \in held', h.table = "local",
                                LocalStart <= h.ref, h.ref <= LocalStart + LocalSize
                         PROVE  h.ref \in DOMAIN locals' /\ locals'[h.ref] = h.obj
                BY Zenon DEF HeldIn
            <4>1. h \in held /\ h.ref # ref
                BY <3>3, Zenon
            <4>2. h.ref \in DOMAIN locals /\ locals[h.ref] = h.obj
                BY <2>1, <4>1, Zenon DEF HeldIn
            <4> QED
                BY <3>2, <4>1, <4>2, Zenon
        <3>5. getLocalReference(ref)' = Null
            BY <3>2, Zenon DEF getLocalReference, get
        <3> QED
            BY <2>2, <2>3, <3>4, <3>5
    <2>5. CASE ~LocalInRange(ref)
        <3>1. getLocalReference(ref) = Null /\ getLocalReference(ref)' = Null
            BY <2>5 DEF getLocalReference, LocalInRange
        <3>2. locals' = locals
            BY <1>3, <3>1, Zenon
        <3>3. HeldIn("local", locals, LocalStart, LocalSize, held)'
            BY <1>1, <2>1, <3>2, Zenon DEF HeldIn
        <3> QED
            BY <2>2, <2>3, <3>1, <3>3
    <2> QED
        BY <2>4, <2>5
<1> QED
    BY <1>1, <1>4, <1>5, Zenon DEF RefsIInv, EntriesHeld

\* The same for deleteGlobalRef.
LEMMA DeleteGlobalStep ==
    ASSUME RefsIInv, NEW ref, ref # 0, deleteGlobalRef(ref)
    PROVE  /\ RefsIInv'
           /\ ~doubled => getGlobalReference(ref)' = Null
<1>1. /\ remove(globals, getGlobalReference(ref), globals')
      /\ held' = {h \in held : h.table # "global" \/ h.ref # ref}
      /\ UNCHANGED <<locals, doubled, stopped>>
    BY DEF deleteGlobalRef, Returns
<1>2. globals \in [DOMAIN globals -> Objects] /\ DOMAIN globals \subseteq GlobalIndexes
    BY DEF RefsIInv, TablesOK
<1>3. /\ DOMAIN globals' \subseteq DOMAIN globals /\ globals' \in [DOMAIN globals' -> Objects]
      /\ ~HasTwo(globals) => ~HasTwo(globals')
      /\ getGlobalReference(ref) = Null => globals' = globals
    BY <1>1, <1>2, RemoveTyped, Zenon
<1>4. TablesOK' /\ HistoryOK'
    BY <1>1, <1>2, <1>3, Zenon DEF RefsIInv, TablesOK, HistoryOK, GlobalIndexes, LocalIndexes, Held
<1>5. ASSUME ~doubled
      PROVE  /\ ~HasTwo(globals)' /\ ~HasTwo(locals)' /\ getGlobalReference(ref)' = Null
             /\ HeldIn("global", globals, GlobalStart, GlobalSize, held)'
             /\ HeldIn("local", locals, LocalStart, LocalSize, held)'
    <2>1. /\ ~HasTwo(globals) /\ ~HasTwo(locals)
          /\ HeldIn("global", globals, GlobalStart, GlobalSize, held)
          /\ HeldIn("local", locals, LocalStart, LocalSize, held)
        BY <1>5, Zenon DEF RefsIInv, EntriesHeld
    <2>2. ~HasTwo(globals)' /\ ~HasTwo(locals)'
        BY <1>1, <1>3, <2>1, Zenon DEF HasTwo
    <2>3. HeldIn("local", locals, LocalStart, LocalSize, held)'
        BY <1>1, <2>1, Zenon DEF HeldIn
    <2>4. CASE GlobalInRange(ref)
        <3>1. getGlobalReference(ref) = get(globals, ref)
            BY <2>4, Zenon DEF getGlobalReference
        <3>2. /\ DOMAIN globals' = DOMAIN globals \ {ref}
              /\ \A j \in DOMAIN globals \ {ref} : globals'[j] = globals[j]
            <4>1. remove(globals, get(globals, ref), globals')
                BY <1>1, <3>1, Zenon
            <4> QED
                BY <1>2, <2>1, <4>1, RemoveOne, Zenon
        <3>3. \A h \in held' : h \in held /\ (h.table # "global" \/ h.ref # ref)
            BY <1>1, Zenon
        <3>4. HeldIn("global", globals, GlobalStart, GlobalSize, held)'
            <4> SUFFICES ASSUME NEW h \in held', h.table = "global",
                                GlobalStart <= h.ref, h.ref <= GlobalStart + GlobalSize
                         PROVE  h.ref \in DOMAIN globals' /\ globals'[h.ref] = h.obj
                BY Zenon DEF HeldIn
            <4>1. h \in held /\ h.ref # ref
                BY <3>3, Zenon
            <4>2. h.ref \in DOMAIN globals /\ globals[h.ref] = h.obj
                BY <2>1, <4>1, Zenon DEF HeldIn
            <4> QED
                BY <3>2, <4>1, <4>2, Zenon
        <3>5. getGlobalReference(ref)' = Null
            BY <3>2, Zenon DEF getGlobalReference, get
        <3> QED
            BY <2>2, <2>3, <3>4, <3>5
    <2>5. CASE ~GlobalInRange(ref)
        <3>1. getGlobalReference(ref) = Null /\ getGlobalReference(ref)' = Null
            BY <2>5 DEF getGlobalReference, GlobalInRange
        <3>2. globals' = globals
            BY <1>3, <3>1, Zenon
        <3>3. HeldIn("global", globals, GlobalStart, GlobalSize, held)'
            BY <1>1, <2>1, <3>2, Zenon DEF HeldIn
        <3> QED
            BY <2>2, <2>3, <3>1, <3>3
    <2> QED
        BY <2>4, <2>5
<1> QED
    BY <1>1, <1>4, <1>5, Zenon DEF RefsIInv, EntriesHeld

-----------------------------------------------------------------------------
\* Every step of native code and of the host preserves the invariant.
LEMMA RefsStep ==
    ASSUME RefsIInv, [Next]_vars
    PROVE  RefsIInv'
<1>1. \A ref : getReference(ref) # Null => getReference(ref) \in Objects
    BY DEF getReference, get, RefsIInv, TablesOK
<1>2. \A ref : getLocalReference(ref) # Null => getLocalReference(ref) \in Objects
    BY DEF getLocalReference, get, RefsIInv, TablesOK
<1>3. Throws \/ Nothing \/ CallNative \/ UNCHANGED vars => RefsIInv'
    <2>1. Throws \/ Nothing \/ CallNative \/ UNCHANGED vars =>
            UNCHANGED <<locals, globals, held, doubled>> /\ stopped' \in BOOLEAN
        BY Zenon DEF Throws, Nothing, Returns, CallNative, vars, RefsIInv, HistoryOK
    <2> QED
        BY <2>1, QuietStep
<1>4. \A o \in Objects : Returns /\ addLocalReference(o) => RefsIInv'
    BY AddLocalStep DEF Returns
<1>5. \A o \in Objects : Returns /\ addGlobalReference(o) => RefsIInv'
    BY AddGlobalStep DEF Returns
<1>6. CASE \E c \in Classes : FindClass(c)
    BY <1>4, <1>6, Zenon DEF FindClass, Objects
<1>7. CASE FindClassUnknown \/ FindClassArray \/ CallNative \/ UNCHANGED vars
    BY <1>3, <1>7, Zenon DEF FindClassUnknown, FindClassArray
<1>8. CASE \E o \in Others : NewLocalObject(o)
    BY <1>4, <1>8, Zenon DEF NewLocalObject, Objects
<1>9. ASSUME NEW ref \in Refs,
             \/ \E o \in Others : NewObjectV(ref, o)
             \/ \E o \in Arrays : NewObjectArray(ref, o)
             \/ \E o \in Others : GetObjectArrayElement(ref, o)
      PROVE  RefsIInv'
    <2>1. Throws \/ \E o \in Objects : Returns /\ addLocalReference(o)
        BY <1>9, Zenon DEF NewObjectV, NewObjectArray, NewFromClass, GetObjectArrayElement, Objects
    <2> QED
        BY <1>3, <1>4, <2>1
<1>10. ASSUME NEW ref \in Refs, NewLocalRef(ref)
       PROVE  RefsIInv'
    BY <1>1, <1>3, <1>4, <1>10, Zenon DEF NewLocalRef
<1>11. ASSUME NEW ref \in Refs, NewGlobalRef(ref)
       PROVE  RefsIInv'
    BY <1>2, <1>3, <1>5, <1>11, Zenon DEF NewGlobalRef
<1>12. ASSUME NEW ref \in Refs, deleteLocalRef(ref)
       PROVE  RefsIInv'
    <2>1. CASE ref = 0
        BY <1>3, <1>12, <2>1, Zenon DEF deleteLocalRef
    <2>2. CASE ref # 0
        BY <1>12, <2>2, DeleteLocalStep, Zenon
    <2> QED
        BY <2>1, <2>2
<1>13. ASSUME NEW ref \in Refs, deleteGlobalRef(ref)
       PROVE  RefsIInv'
    <2>1. CASE ref = 0
        BY <1>3, <1>13, <2>1, Zenon DEF deleteGlobalRef
    <2>2. CASE ref # 0
        BY <1>13, <2>2, DeleteGlobalStep, Zenon
    <2> QED
        BY <2>1, <2>2
<1> QED
    BY <1>6, <1>7, <1>8, <1>9, <1>10, <1>11, <1>12, <1>13, Zenon DEF Next

\* The invariant holds in every state.
LEMMA RefsInductive == Spec => []RefsIInv
<1>1. Init => RefsIInv
    <2> SUFFICES ASSUME Init
                 PROVE  RefsIInv
        OBVIOUS
    <2>1. DOMAIN locals = {} /\ DOMAIN globals = {} /\ held = {}
        BY DEF Init
    <2>2. TablesOK
        BY <2>1 DEF Init, TablesOK
    <2>3. HistoryOK
        BY <2>1, Zenon DEF Init, HistoryOK
    <2>4. EntriesHeld
        BY <2>1, Zenon DEF EntriesHeld, HasTwo, HeldIn
    <2> QED
        BY <2>2, <2>3, <2>4 DEF RefsIInv
<1>2. RefsIInv /\ [Next]_vars => RefsIInv'
    BY RefsStep
<1> QED
    BY <1>1, <1>2, PTL DEF Spec

\* A reference native code was given resolves to the object it was given for,
\* for tables of every size and whatever is deleted, twice or through the
\* wrong function (JniEnv.getReference, JReferencTable).
THEOREM RefsSafe == Spec => []RefsInv
<1>1. RefsIInv => RefsInv
    <2> SUFFICES ASSUME RefsIInv
                 PROVE  RefsInv
        OBVIOUS
    <2>1. TypeOK
        BY Zenon DEF RefsIInv, TablesOK, HistoryOK, TypeOK
    <2>2. ASSUME ~doubled, NEW h \in held, InTableRange(h)
          PROVE  getReference(h.ref) = h.obj
        <3>1. h \in Held
            BY DEF RefsIInv, HistoryOK
        <3>2. /\ HeldIn("local", locals, LocalStart, LocalSize, held)
              /\ HeldIn("global", globals, GlobalStart, GlobalSize, held)
            BY <2>2, Zenon DEF RefsIInv, EntriesHeld
        <3>3. CASE h.table = "local"
            <4>1. LocalInRange(h.ref)
                BY <2>2, <3>3 DEF InTableRange
            <4>2. h.ref # 0
                BY <4>1, JniAssumption DEF LocalInRange
            <4>3. h.ref \in DOMAIN locals /\ locals[h.ref] = h.obj
                BY <3>2, <3>3, <4>1, Zenon DEF HeldIn, LocalInRange
            <4> QED
                BY <4>1, <4>2, <4>3, Zenon DEF getReference, get
        <3>4. CASE h.table = "global"
            <4>1. GlobalInRange(h.ref)
                BY <2>2, <3>4 DEF InTableRange
            <4>2. h.ref \in Int
                BY <3>1, JniAssumption DEF Held, LocalIndexes, GlobalIndexes
            <4>3. h.ref # 0 /\ ~LocalInRange(h.ref)
                BY <4>1, <4>2, JniAssumption DEF GlobalInRange, LocalInRange
            <4>4. h.ref \in DOMAIN globals /\ globals[h.ref] = h.obj
                BY <3>2, <3>4, <4>1, Zenon DEF HeldIn, GlobalInRange
            <4> QED
                BY <4>3, <4>4, Zenon DEF getReference, get
        <3> QED
            BY <3>1, <3>3, <3>4 DEF Held
    <2> QED
        BY <2>1, <2>2, Zenon DEF RefsInv, RefsFaithful
<1> QED
    BY <1>1, RefsInductive, PTL

\* A deleted reference names nothing, as the comments of JniEnv's two delete
\* functions say, while no object has had two references in one table.
THEOREM RefsDeletesThatReference == Spec => DeletesThatReference
<1> DEFINE Deletes == \A ref \in Refs : ~doubled =>
              /\ deleteLocalRef(ref) => getLocalReference(ref)' = Null
              /\ deleteGlobalRef(ref) => getGlobalReference(ref)' = Null
<1>1. RefsIInv /\ [Next]_vars => [Deletes]_vars
    <2> SUFFICES ASSUME RefsIInv, NEW ref \in Refs, ~doubled
                 PROVE  /\ deleteLocalRef(ref) => getLocalReference(ref)' = Null
                        /\ deleteGlobalRef(ref) => getGlobalReference(ref)' = Null
        OBVIOUS
    <2>1. CASE ref = 0
        BY <2>1 DEF getLocalReference, getGlobalReference
    <2>2. CASE ref # 0
        BY <2>2, DeleteLocalStep, DeleteGlobalStep, Zenon
    <2> QED
        BY <2>1, <2>2
<1> QED
    BY <1>1, RefsInductive, PTL DEF Spec, DeletesThatReference

-----------------------------------------------------------------------------
(* The classes and their mirrors *)

\* c is in use, or a name finds it: what a step may make native code use.
Usable(c) == InUse(c) \/ \E k \in Klasses : classes2[k] = c

-----------------------------------------------------------------------------
(* The reference tables *)

\* A reference that getReference resolves is an entry of a table.
LEMMA ResolvedIsReferenced ==
    ASSUME NEW ref
    PROVE  /\ getReference(ref) # Null => getReference(ref) \in Referenced
           /\ getLocalReference(ref) # Null => getLocalReference(ref) \in Referenced
<1>1. get(locals, ref) # Null => get(locals, ref) \in Referenced
    BY DEF get, Referenced
<1>2. get(globals, ref) # Null => get(globals, ref) \in Referenced
    BY DEF get, Referenced
<1> QED
    BY <1>1, <1>2 DEF getReference, getLocalReference

\* add() brings one object into a table.
LEMMA AddReferences ==
    ASSUME NEW o, addLocalReference(o) \/ addGlobalReference(o)
    PROVE  Referenced' \subseteq Referenced \cup {o}
<1>1. ASSUME NEW tables, NEW idx
      PROVE  \A i \in DOMAIN put(tables, idx, o) :
                 \/ put(tables, idx, o)[i] = o
                 \/ i \in DOMAIN tables /\ put(tables, idx, o)[i] = tables[i]
    BY DEF put
<1>2. CASE addLocalReference(o)
    <2>1. PICK idx : locals' = put(locals, idx, o) /\ globals' = globals
        BY <1>2 DEF addLocalReference
    <2>2. \A i \in DOMAIN locals' : locals'[i] = o \/ (i \in DOMAIN locals /\ locals'[i] = locals[i])
        BY <1>1, <2>1
    <2> QED
        BY <2>1, <2>2 DEF Referenced
<1>3. CASE addGlobalReference(o)
    <2>1. PICK idx : globals' = put(globals, idx, o) /\ locals' = locals
        BY <1>3 DEF addGlobalReference
    <2>2. \A i \in DOMAIN globals' : globals'[i] = o \/ (i \in DOMAIN globals /\ globals'[i] = globals[i])
        BY <1>1, <2>1
    <2> QED
        BY <2>1, <2>2 DEF Referenced
<1> QED
    BY <1>2, <1>3

\* remove() brings none.
LEMMA RemoveReferences ==
    ASSUME NEW tables, NEW o, NEW next, remove(tables, o, next)
    PROVE  {next[i] : i \in DOMAIN next} \subseteq {tables[i] : i \in DOMAIN tables}
<1>1. ASSUME NEW key PROVE {drop(tables, key)[i] : i \in DOMAIN drop(tables, key)}
                              \subseteq {tables[i] : i \in DOMAIN tables}
    BY DEF drop
<1> QED
    BY <1>1, Zenon DEF remove

\* A function that throws or only reads changes no table.
LEMMA NothingReferenced ==
    ASSUME Nothing \/ Throws
    PROVE  Referenced' = Referenced
BY DEF Nothing, Throws, Referenced

-----------------------------------------------------------------------------
(* Steps of native code *)

\* A step that leaves the classes alone keeps the invariant if what it brings
\* into use, through a reference, an object or a member, was usable before.
LEMMA NativeStep ==
    ASSUME MirrorInv, UNCHANGED <<mirrors, classes2, again>>,
           \A c \in Classes : c \in Referenced' => Usable(c),
           jclass' \in [Arrays \cup Others -> Classes \cup {Null}],
           \A o \in Arrays \cup Others, c \in Classes : jclass'[o] = c => Usable(c),
           ids' \subseteq Ids, natives' \subseteq Ids,
           \A m \in ids' \cup natives' : Usable(m.mirror)
    PROVE  MirrorInv'
<1>1. ASSUME NEW c \in Classes, InUse(c)'
      PROVE  Usable(c)
    BY <1>1, Zenon DEF InUse
<1>2. ASSUME NEW c \in Classes, Usable(c)
      PROVE  mirrors[c] # NoKlass /\ (mirrors[c] \notin Replaced => classes2[mirrors[c]] = c)
    <2>1. CASE InUse(c)
        BY <2>1 DEF MirrorInv, MirrorTypeOK, OneMirror
    <2>2. CASE \E k \in Klasses : classes2[k] = c
        <3>1. PICK k \in Klasses : classes2[k] = c
            BY <2>2
        <3>2. c # Null
            BY JniAssumption DEF Objects
        <3>3. mirrors[c] = k
            BY <3>1, <3>2 DEF MirrorInv, MirrorTypeOK
        <3> QED
            BY <3>1, <3>3, MirrorAssumption
    <2> QED
        BY <1>2, <2>1, <2>2 DEF Usable
<1>3. \A c \in Classes : InUse(c)' => mirrors'[c] # NoKlass
    BY <1>1, <1>2
<1>4. OneMirror'
    <2>1. Replaced' = Replaced
        BY DEF Replaced
    <2> QED
        BY <1>1, <1>2, <2>1 DEF OneMirror
<1>5. MirrorTypeOK'
    BY <1>3 DEF MirrorInv, MirrorTypeOK
<1> QED
    BY <1>4, <1>5 DEF MirrorInv

\* What is in use before a step is usable in it.
LEMMA UsableNow ==
    ASSUME MirrorInv
    PROVE  /\ \A c \in Referenced : Usable(c)
           /\ \A o \in Arrays \cup Others : Usable(jclass[o])
           /\ \A m \in ids \cup natives : Usable(m.mirror)
           /\ \A k \in Klasses : Usable(classes2[k])
BY DEF Usable, InUse

\* A step that changes nothing of the mirrors needs its references usable.
LEMMA KeepsStep ==
    ASSUME MirrorInv, Keeps, \A c \in Classes : c \in Referenced' => Usable(c)
    PROVE  MirrorInv'
<1>1. UNCHANGED <<mirrors, classes2, again>> /\ jclass' = jclass /\ ids' = ids /\ natives' = natives
    BY DEF Keeps, mirrorVars
<1>2. /\ jclass' \in [Arrays \cup Others -> Classes \cup {Null}]
      /\ ids' \subseteq Ids /\ natives' \subseteq Ids
    BY <1>1 DEF MirrorInv, MirrorTypeOK
<1>3. /\ \A o \in Arrays \cup Others, c \in Classes : jclass'[o] = c => Usable(c)
      /\ \A m \in ids' \cup natives' : Usable(m.mirror)
    BY <1>1, UsableNow
<1> QED
    BY <1>1, <1>2, <1>3, NativeStep

\* A function that throws or only reads keeps the invariant.
LEMMA QuietFunction ==
    ASSUME MirrorInv, Keeps, Nothing \/ Throws
    PROVE  MirrorInv'
BY KeepsStep, NothingReferenced, UsableNow, Zenon

\* A new object is an object of a usable class, or of none.
LEMMA MadeStep ==
    ASSUME MirrorInv, NEW o \in Arrays \cup Others, addLocalReference(o),
           NEW c \in Classes \cup {Null}, Made(o, c), c # Null => Usable(c)
    PROVE  MirrorInv'
<1>1. UNCHANGED <<mirrors, classes2, again>> /\ ids' = ids /\ natives' = natives
      /\ jclass' = [jclass EXCEPT ![o] = c]
    BY DEF Made
<1>2. /\ jclass \in [Arrays \cup Others -> Classes \cup {Null}]
      /\ ids' \subseteq Ids /\ natives' \subseteq Ids
    BY <1>1 DEF MirrorInv, MirrorTypeOK
<1>3. jclass' \in [Arrays \cup Others -> Classes \cup {Null}]
    BY <1>1, <1>2
<1>4. ASSUME NEW p \in Arrays \cup Others, NEW d \in Classes, jclass'[p] = d
      PROVE  Usable(d)
    <2>1. d # Null
        BY JniAssumption DEF Objects
    <2>2. CASE p = o
        BY <1>1, <1>2, <1>4, <2>1, <2>2
    <2>3. CASE p # o
        <3>1. jclass[p] = d
            BY <1>1, <1>2, <1>4, <2>3
        <3> QED
            BY <3>1, UsableNow
    <2> QED
        BY <2>2, <2>3
<1>5. \A d \in Classes : d \in Referenced' => Usable(d)
    BY AddReferences, UsableNow, MirrorAssumption
<1>6. \A m \in ids' \cup natives' : Usable(m.mirror)
    BY <1>1, UsableNow
<1> QED
    BY <1>1, <1>2, <1>3, <1>4, <1>5, <1>6, NativeStep

\* The mirror and the class a reference leads to are usable.
LEMMA ClassesUsable ==
    ASSUME MirrorInv, NEW ref
    PROVE  /\ MirrorAt(ref) \in Classes \cup {Null}
           /\ MirrorAt(ref) # Null => Usable(MirrorAt(ref)) /\ mirrors[MirrorAt(ref)] \in Klasses
<1>1. CASE MirrorAt(ref) = Null
    BY <1>1
<1>2. CASE MirrorAt(ref) # Null
    <2>1. MirrorAt(ref) = getReference(ref) /\ MirrorAt(ref) \in Classes
        BY <1>2 DEF MirrorAt
    <2>2. InUse(MirrorAt(ref))
        BY <1>2, <2>1, ResolvedIsReferenced DEF InUse
    <2>3. mirrors[MirrorAt(ref)] \in Klasses
        BY <2>1, <2>2 DEF MirrorInv, MirrorTypeOK
    <2> QED
        BY <2>1, <2>2, <2>3 DEF Usable
<1> QED
    BY <1>1, <1>2

\* Adding a class makes a mirror nobody uses.  If the name had one before, the
\* class is refused, or it is in a package and the host has added it again.
LEMMA AddClassStep ==
    ASSUME MirrorInv, NEW k \in Klasses, addClass(k),
           UNCHANGED <<locals, globals, jclass, natives, ids>>,
           again \subseteq again', again' \subseteq Klasses,
           classes2[k] # Null /\ classes2'[k] # classes2[k] => k \in Replaced'
    PROVE  MirrorInv'
<1>1. \A c \in Classes : InUse(c)' <=> InUse(c)
    BY DEF InUse, Referenced
<1>2. CASE UNCHANGED <<mirrors, classes2>>
    <2>1. MirrorTypeOK'
        BY <1>1, <1>2 DEF MirrorInv, MirrorTypeOK
    <2>2. OneMirror'
        BY <1>1, <1>2 DEF MirrorInv, OneMirror, Replaced
    <2> QED
        BY <2>1, <2>2 DEF MirrorInv
<1>3. ASSUME NEW c \in Classes, mirrors[c] = NoKlass,
             mirrors' = [mirrors EXCEPT ![c] = k], classes2' = [classes2 EXCEPT ![k] = c]
      PROVE  MirrorInv'
    <2>1. /\ mirrors \in [Classes -> Klasses \cup {NoKlass}]
          /\ classes2 \in [Klasses -> Classes \cup {Null}]
          /\ ~InUse(c)
          /\ \A d \in Classes : InUse(d) => mirrors[d] # NoKlass
          /\ \A j \in Klasses : classes2[j] # Null => mirrors[classes2[j]] = j
          /\ \A d \in Classes : InUse(d) /\ mirrors[d] \notin Replaced => classes2[mirrors[d]] = d
        BY <1>3 DEF MirrorInv, MirrorTypeOK, OneMirror
    <2>2. c # Null /\ NoKlass \notin Klasses /\ Null \notin Classes
        BY JniAssumption, MirrorAssumption DEF Objects
    <2>3. ASSUME NEW d \in Classes, InUse(d)
          PROVE  d # c /\ mirrors'[d] = mirrors[d] /\ mirrors[d] \in Klasses
        BY <1>3, <2>1, <2>3
    <2>4. OneMirror'
        <3>1. ASSUME NEW d \in Classes, InUse(d), mirrors[d] \notin Replaced'
              PROVE  classes2'[mirrors[d]] = d
            <4>1. classes2[mirrors[d]] = d
                BY <2>1, <3>1 DEF Replaced
            <4>2. mirrors[d] # k
                BY <1>3, <2>1, <2>2, <2>3, <3>1, <4>1
            <4> QED
                BY <1>3, <2>1, <2>3, <3>1, <4>1, <4>2
        <3> QED
            BY <1>1, <2>3, <3>1 DEF OneMirror
    <2>5. ASSUME NEW j \in Klasses, classes2'[j] # Null
          PROVE  mirrors'[classes2'[j]] = j
        <3>1. CASE j = k
            BY <1>3, <2>1, <3>1
        <3>2. CASE j # k
            <4>1. classes2'[j] = classes2[j] /\ classes2[j] \in Classes /\ mirrors[classes2[j]] = j
                BY <1>3, <2>1, <2>5, <3>2
            <4> QED
                BY <1>3, <2>1, <2>2, <4>1
        <3> QED
            BY <3>1, <3>2
    <2>6. /\ mirrors' \in [Classes -> Klasses \cup {NoKlass}]
          /\ classes2' \in [Klasses -> Classes \cup {Null}]
        BY <1>3, <2>1
    <2>7. \A d \in Classes : InUse(d)' => mirrors'[d] # NoKlass
        BY <1>1, <2>2, <2>3
    <2>8. MirrorTypeOK'
        BY <2>5, <2>6, <2>7 DEF MirrorInv, MirrorTypeOK, Ids
    <2> QED
        BY <2>4, <2>8 DEF MirrorInv
<1> QED
    BY <1>2, <1>3 DEF addClass

-----------------------------------------------------------------------------
(* The actions *)

\* The host's steps.
LEMMA HostSteps ==
    ASSUME MirrorInv, NEW k \in Klasses, loadClass(k) \/ newInstance(k)
    PROVE  MirrorInv'
<1>1. UNCHANGED <<locals, globals, jclass, natives, ids>> /\ addClass(k)
    BY DEF loadClass, newInstance, vars
<1>2. /\ again \subseteq again' /\ again' \subseteq Klasses
      /\ classes2[k] # Null /\ classes2'[k] # classes2[k] => k \in Replaced'
    BY DEF loadClass, newInstance, addClass, IsRegistered, Replaced, MirrorInv, MirrorTypeOK
<1> QED
    BY <1>1, <1>2, AddClassStep

\* FindClass gives the mirror the name finds.
LEMMA FindClassStep ==
    ASSUME MirrorInv, NEW k \in Klasses, FindClassNamed(k)
    PROVE  MirrorInv'
<1>1. CASE FindClassUnknown /\ Keeps
    BY <1>1, QuietFunction DEF FindClassUnknown
<1>2. CASE FindClass(classes2[k]) /\ Keeps
    <2>1. Referenced' \subseteq Referenced \cup {classes2[k]}
        BY <1>2, AddReferences DEF FindClass
    <2>2. \A c \in Classes : c \in Referenced' => Usable(c)
        BY <2>1, UsableNow
    <2> QED
        BY <1>2, <2>2, KeepsStep
<1> QED
    BY <1>1, <1>2 DEF FindClassNamed

\* Making and deleting references brings no other object into the tables.
LEMMA ReferencesStep ==
    ASSUME MirrorInv, NEW ref, References(ref)
    PROVE  MirrorInv'
<1>1. Referenced' \subseteq Referenced
    <2>1. CASE NewLocalRef(ref)
        BY <2>1, AddReferences, ResolvedIsReferenced, NothingReferenced DEF NewLocalRef
    <2>2. CASE NewGlobalRef(ref)
        BY <2>2, AddReferences, ResolvedIsReferenced, NothingReferenced DEF NewGlobalRef
    <2>3. CASE deleteLocalRef(ref)
        <3>1. CASE Nothing
            BY <3>1, NothingReferenced
        <3>2. CASE remove(locals, getLocalReference(ref), locals') /\ UNCHANGED globals
            BY <3>2, RemoveReferences DEF Referenced
        <3> QED
            BY <2>3, <3>1, <3>2 DEF deleteLocalRef
    <2>4. CASE deleteGlobalRef(ref)
        <3>1. CASE Nothing
            BY <3>1, NothingReferenced
        <3>2. CASE remove(globals, getGlobalReference(ref), globals') /\ UNCHANGED locals
            BY <3>2, RemoveReferences DEF Referenced
        <3> QED
            BY <2>4, <3>1, <3>2 DEF deleteGlobalRef
    <2> QED
        BY <2>1, <2>2, <2>3, <2>4 DEF References
<1>2. Keeps
    BY DEF References
<1> QED
    BY <1>1, <1>2, KeepsStep, UsableNow

\* A function that makes an object gives it the class of its argument.
LEMMA NewObjectSteps ==
    ASSUME MirrorInv, NEW ref, NEW id,
           \/ \E o \in Others : NewString(o) \/ GetElement(ref, o) \/ NewObjectByConstructor(ref, id, o)
           \/ \E o \in Arrays : NewArray(ref, o)
    PROVE  MirrorInv'
<1>1. ASSUME NEW o \in Others, NewString(o)
      PROVE  MirrorInv'
    BY <1>1, MadeStep DEF NewString, NewLocalObject
<1>2. ASSUME NEW o \in Others, GetElement(ref, o)
      PROVE  MirrorInv'
    <2>1. CASE Throws /\ Keeps
        BY <2>1, QuietFunction
    <2>2. CASE /\ IsReference(ref) /\ getReference(ref) \in Arrays
               /\ GetObjectArrayElement(ref, o) /\ Made(o, ClassAt(ref))
        <3>1. ClassAt(ref) = jclass[getReference(ref)]
            BY <2>2, JniAssumption, MirrorAssumption DEF ClassAt, Objects
        <3>2. ClassAt(ref) \in Classes \cup {Null} /\ Usable(ClassAt(ref))
            BY <2>2, <3>1, UsableNow DEF MirrorInv, MirrorTypeOK
        <3>3. addLocalReference(o)
            BY <2>2 DEF GetObjectArrayElement
        <3> QED
            BY <2>2, <3>2, <3>3, MadeStep, SMTT(30)
    <2> QED
        BY <1>2, <2>1, <2>2 DEF GetElement
<1>3. ASSUME NEW o \in Arrays \cup Others, MirrorAt(ref) # Null, NewFromClass(ref, o),
             Made(o, MirrorAt(ref))
      PROVE  MirrorInv'
    <2>1. IsReference(ref) /\ getReference(ref) \in Classes
        BY <1>3 DEF MirrorAt
    <2>2. addLocalReference(o)
        BY <1>3, <2>1 DEF NewFromClass
    <2> QED
        BY <1>3, <2>2, ClassesUsable, MadeStep
<1>4. ASSUME NEW o \in Others, NewObjectByConstructor(ref, id, o)
      PROVE  MirrorInv'
    BY <1>3, <1>4, QuietFunction DEF NewObjectByConstructor, NewObjectV
<1>5. ASSUME NEW o \in Arrays, NewArray(ref, o)
      PROVE  MirrorInv'
    BY <1>3, <1>5, QuietFunction DEF NewArray, NewObjectArray
<1> QED
    BY <1>1, <1>2, <1>4, <1>5

\* Using a member gives at most an object without a class.
LEMMA UsesStep ==
    ASSUME MirrorInv, NEW found, NEW o \in Others, Uses(found, o) \/ Looks(found)
    PROVE  MirrorInv'
BY QuietFunction, NewObjectSteps DEF Uses, Looks

\* An ID and a native method are members of a mirror native code refers to.
LEMMA MemberSteps ==
    ASSUME MirrorInv, NEW ref, NEW name \in Names, GetMemberID(ref, name) \/ RegisterNatives(ref, name)
    PROVE  MirrorInv'
<1>1. ASSUME NEW c \in Classes, Usable(c),
             UNCHANGED <<mirrors, classes2, jclass, again>>, Nothing \/ Throws,
             ids' \subseteq ids \cup {[mirror |-> c, name |-> name]},
             natives' \subseteq natives \cup {[mirror |-> c, name |-> name]}
      PROVE  MirrorInv'
    <2>1. [mirror |-> c, name |-> name] \in Ids /\ [mirror |-> c, name |-> name].mirror = c
        BY DEF Ids
    <2>2. /\ ids' \subseteq Ids /\ natives' \subseteq Ids
          /\ jclass' \in [Arrays \cup Others -> Classes \cup {Null}]
        BY <1>1, <2>1 DEF MirrorInv, MirrorTypeOK
    <2>3. \A m \in ids' \cup natives' : Usable(m.mirror)
        BY <1>1, <2>1, UsableNow, SMTT(30)
    <2>4. /\ \A d \in Classes : d \in Referenced' => Usable(d)
          /\ \A p \in Arrays \cup Others, d \in Classes : jclass'[p] = d => Usable(d)
        BY <1>1, NothingReferenced, UsableNow
    <2> QED
        BY <1>1, <2>2, <2>3, <2>4, NativeStep
<1>2. CASE GetMemberID(ref, name)
    <2>1. CASE (Nothing \/ Throws) /\ Keeps
        BY <2>1, QuietFunction, SMTT(30)
    <2>2. CASE /\ MirrorAt(ref) # Null /\ Nothing
               /\ ids' = ids \cup {[mirror |-> MirrorAt(ref), name |-> name]}
               /\ UNCHANGED <<mirrors, classes2, jclass, natives, again>>
        BY <1>1, <2>2, ClassesUsable
    <2> QED
        BY <1>2, <2>1, <2>2 DEF GetMemberID
<1>3. CASE RegisterNatives(ref, name)
    <2> DEFINE c == getLocalReference(ref)
    <2>1. CASE Throws /\ Keeps
        BY <2>1, QuietFunction
    <2>2. CASE /\ c \in Classes /\ (Nothing \/ Throws)
               /\ natives' \subseteq natives \cup {[mirror |-> c, name |-> name]}
               /\ UNCHANGED <<mirrors, classes2, jclass, ids, again>>
        <3>1. c # Null
            BY <2>2, JniAssumption DEF Objects
        <3>2. Usable(c)
            BY <3>1, ResolvedIsReferenced, UsableNow
        <3> QED
            BY <1>1, <2>2, <3>2
    <2> QED
        BY <1>3, <2>1, <2>2 DEF RegisterNatives
<1> QED
    BY <1>2, <1>3

-----------------------------------------------------------------------------
\* The invariant holds at the start and every step keeps it.
THEOREM MirrorInductive ==
    /\ MirrorInit => MirrorInv
    /\ MirrorInv /\ [MirrorNext]_allVars => MirrorInv'
<1>1. MirrorInit => MirrorInv
    <2> SUFFICES ASSUME MirrorInit PROVE MirrorInv
        OBVIOUS
    <2>1. \A c \in Classes : ~InUse(c)
        BY JniAssumption DEF MirrorInit, Init, InUse, Referenced, Objects
    <2>2. MirrorTypeOK
        BY <2>1 DEF MirrorInit, MirrorTypeOK
    <2> QED
        BY <2>1, <2>2 DEF MirrorInv, OneMirror
<1>2. ASSUME MirrorInv, [MirrorNext]_allVars PROVE MirrorInv'
    <2>1. CASE UNCHANGED allVars
        <3>1. Keeps /\ Referenced' = Referenced
            BY <2>1 DEF allVars, vars, Keeps, Referenced
        <3> QED
            BY <1>2, <3>1, KeepsStep, UsableNow
    <2>2. CASE \E k \in Klasses : loadClass(k) \/ newInstance(k) \/ FindClassNamed(k)
        BY <1>2, <2>2, HostSteps, FindClassStep
    <2>3. CASE FindClassArray /\ Keeps
        BY <1>2, <2>3, QuietFunction DEF FindClassArray
    <2>4. CASE CallNative /\ Keeps
        <3>1. Referenced' = Referenced
            BY <2>4 DEF CallNative, Referenced
        <3> QED
            BY <1>2, <2>4, <3>1, KeepsStep, UsableNow
    <2>5. CASE \E o \in Others : NewString(o)
        BY <1>2, <2>5, NewObjectSteps
    <2>6. ASSUME NEW ref \in Refs, References(ref) PROVE MirrorInv'
        BY <1>2, <2>6, ReferencesStep
    <2>7. ASSUME NEW ref \in Refs,
                 \/ \E o \in Arrays : NewArray(ref, o)
                 \/ \E o \in Others : GetElement(ref, o)
          PROVE  MirrorInv'
        BY <1>2, <2>7, NewObjectSteps
    <2>8. ASSUME NEW ref \in Refs, NEW name \in Names,
                 GetMemberID(ref, name) \/ RegisterNatives(ref, name)
          PROVE  MirrorInv'
        BY <1>2, <2>8, MemberSteps
    <2>9. ASSUME NEW ref \in Refs, NEW id \in ids,
                 SetObjectField(ref, id) \/ SetStaticObjectField(ref, id) \/ toReflectedMethod(ref, id)
          PROVE  MirrorInv'
        BY <1>2, <2>9, QuietFunction
           DEF SetObjectField, SetStaticObjectField, toReflectedMethod, Looks
    <2>10. ASSUME NEW ref \in Refs, NEW id \in ids, NEW o \in Others,
                  \/ NewObjectByConstructor(ref, id, o)
                  \/ CallObjectMethodV(ref, id, o) \/ CallStaticObjectMethodV(ref, id, o)
                  \/ GetObjectField(ref, id, o) \/ GetStaticObjectField(ref, id, o)
           PROVE  MirrorInv'
        <3>1. CASE NewObjectByConstructor(ref, id, o)
            BY <1>2, <3>1, NewObjectSteps
        <3>2. CASE \E found : Uses(found, o)
            BY <1>2, <3>2, UsesStep
        <3> QED
            BY <2>10, <3>1, <3>2
               DEF CallObjectMethodV, CallStaticObjectMethodV, GetObjectField, GetStaticObjectField
    <2> QED
        BY <1>2, <2>1, <2>2, <2>3, <2>4, <2>5, <2>6, <2>7, <2>8, <2>9, <2>10 DEF MirrorNext
<1> QED
    BY <1>1, <1>2

\* For all classes, however often the host adds them and whatever native code
\* does with references: one class has one mirror in use, unless the host has
\* added it twice (JClassLoader.addClass, Jvm.newInstance, JniEnv.FindClass).
THEOREM MirrorSafe == MirrorSpec => []MirrorInv
<1>1. MirrorInit => MirrorInv
    BY MirrorInductive
<1>2. MirrorInv /\ [MirrorNext]_allVars => MirrorInv'
    BY MirrorInductive
<1> QED
    BY <1>1, <1>2, PTL DEF MirrorSpec

\* The functions that know classes use the tables as JniRefs says.
LEMMA MirrorRefines ==
    ASSUME MirrorInv, [MirrorNext]_allVars
    PROVE  [Next]_vars
<1>1. Nothing \/ Throws => Next
    BY DEF Next, FindClassUnknown, FindClassArray
<1>2. ASSUME NEW o \in Others, NewString(o) PROVE Next
    BY <1>2 DEF NewString, Next
<1>3. CASE UNCHANGED allVars
    BY <1>3 DEF allVars
<1>4. CASE \E k \in Klasses : loadClass(k) \/ newInstance(k)
    BY <1>4 DEF loadClass, newInstance
<1>5. ASSUME NEW k \in Klasses, FindClassNamed(k) PROVE Next
    <2>1. classes2[k] \in Classes \cup {Null}
        BY DEF MirrorInv, MirrorTypeOK
    <2> QED
        BY <1>5, <2>1 DEF FindClassNamed, Next
<1>6. CASE (FindClassArray \/ CallNative) /\ Keeps
    BY <1>6 DEF Next
<1>7. ASSUME NEW ref \in Refs, References(ref) PROVE Next
    BY <1>7 DEF References, Next
<1>8. ASSUME NEW ref \in Refs, NEW o \in Arrays, NewArray(ref, o) PROVE Next
    <2>1. NewObjectArray(ref, o) \/ Throws
        BY <1>8 DEF NewArray
    <2> QED
        BY <1>1, <2>1 DEF Next
<1>9. ASSUME NEW ref \in Refs, NEW o \in Others, GetElement(ref, o) PROVE Next
    <2>1. GetObjectArrayElement(ref, o) \/ Throws
        BY <1>9, SMTT(30) DEF GetElement
    <2> QED
        BY <1>1, <2>1 DEF Next
<1>10. ASSUME NEW ref \in Refs, NEW name \in Names,
              GetMemberID(ref, name) \/ RegisterNatives(ref, name)
       PROVE  Next
    BY <1>1, <1>10 DEF GetMemberID, RegisterNatives
<1>11. ASSUME NEW ref \in Refs, NEW id \in ids,
              SetObjectField(ref, id) \/ SetStaticObjectField(ref, id) \/ toReflectedMethod(ref, id)
       PROVE  Next
    BY <1>1, <1>11 DEF SetObjectField, SetStaticObjectField, toReflectedMethod, Looks
<1>12. ASSUME NEW ref \in Refs, NEW id \in ids, NEW o \in Others, NewObjectByConstructor(ref, id, o)
       PROVE  Next
    <2>1. NewObjectV(ref, o) \/ Throws
        BY <1>12 DEF NewObjectByConstructor
    <2> QED
        BY <1>1, <2>1 DEF Next
<1>13. ASSUME NEW ref \in Refs, NEW id \in ids, NEW o \in Others,
              \/ CallObjectMethodV(ref, id, o) \/ CallStaticObjectMethodV(ref, id, o)
              \/ GetObjectField(ref, id, o) \/ GetStaticObjectField(ref, id, o)
       PROVE  Next
    BY <1>1, <1>2, <1>13
       DEF CallObjectMethodV, CallStaticObjectMethodV, GetObjectField, GetStaticObjectField, Uses
<1> QED
    BY <1>2, <1>3, <1>4, <1>5, <1>6, <1>7, <1>8, <1>9, <1>10, <1>11, <1>12, <1>13 DEF MirrorNext

\* ClassMirror implements JniRefs, so that what is proved of the tables holds
\* with members, IDs and the host's classes around them as well.
THEOREM MirrorImplementsRefs == MirrorSpec => Spec /\ []RefsInv
<1>1. MirrorInit => Init
    BY DEF MirrorInit
<1>2. MirrorInv /\ [MirrorNext]_allVars => [Next]_vars
    BY MirrorRefines
<1>3. MirrorSpec => Spec
    BY <1>1, <1>2, MirrorSafe, PTL DEF MirrorSpec, Spec
<1> QED
    BY <1>3, RefsSafe, PTL
=============================================================================
