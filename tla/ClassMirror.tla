---------------------------- MODULE ClassMirror ----------------------------
(***************************************************************************)
(* The classes of the emulated JVM: jenv/JClassLoader.java, jenv/Jvm.java  *)
(* and jenv/mirror/, with the functions of jenv/JniEnv.java on members,    *)
(* composed with the reference tables of JniRefs.                          *)
(*                                                                         *)
(* A mirror (JClass) is one of the objects Classes of JniRefs.  The number *)
(* of a member, its ID, is the index of its JObject: a static counter that *)
(* only grows, so an ID is the mirror and the name it was made for.  A     *)
(* name stands for name and signature.                                     *)
(*                                                                         *)
(* The host adds classes between native calls or in a callback; native     *)
(* code runs in between.  Values of fields and results of methods are the  *)
(* host's own: none, a primitive value, or a new object.                   *)
(***************************************************************************)
EXTENDS JniRefs

CONSTANTS
    Klasses,      \* the Java classes of the host
    Packaged,     \* those that are in a package
    Members,      \* Members[k][name]: "method", "constructor" or "field"
    MaxIds        \* bound on the IDs native code keeps

NoKlass == "none"
DefaultInit == "<init>()V"

ASSUME MirrorAssumption ==
    /\ Packaged \subseteq Klasses /\ NoKlass \notin Klasses /\ MaxIds \in Nat
    /\ Classes \cap (Arrays \cup Others) = {}

VARIABLES
    mirrors,      \* the Java class of each JClass made, or NoKlass
    classes2,     \* JClassLoader.classes2: the mirror of a name, or Null
    jclass,       \* JObject.jClass of arrays and other objects, or Null
    natives,      \* the methods of mirrors that have a native address
    ids,          \* the IDs native code was given
    again         \* history: the classes the host has added twice

mirrorVars == <<mirrors, classes2, jclass, natives, ids, again>>
allVars == <<vars, mirrorVars>>

MirrorInit ==
    /\ Init
    /\ mirrors = [c \in Classes |-> NoKlass]
    /\ classes2 = [k \in Klasses |-> Null]
    /\ jclass = [o \in Arrays \cup Others |-> Null]
    /\ natives = {} /\ ids = {} /\ again = {}

-----------------------------------------------------------------------------
(* JClass *)

\* register() and addDefaultConstructor: the members of the class itself, not
\* of its superclass, and a constructor without arguments in any case.
register(k) ==
    [name \in DOMAIN Members[k] \cup {DefaultInit} |->
        IF name \in DOMAIN Members[k] THEN Members[k][name] ELSE "default"]

Kind(id) == register(mirrors[id.mirror])[id.name]

\* findMethod, findField and findConstructor by number.
Finds(c, id, kinds) == id \in ids /\ id.mirror = c /\ Kind(id) \in kinds

\* The mirror a reference names, or the class of the object it names.
MirrorAt(ref) == IF IsReference(ref) /\ getReference(ref) \in Classes THEN getReference(ref) ELSE Null

ClassAt(ref) ==
    IF ~IsReference(ref) \/ getReference(ref) = Null THEN Null
    ELSE IF getReference(ref) \in Classes THEN getReference(ref) ELSE jclass[getReference(ref)]

-----------------------------------------------------------------------------
(* The host *)

\* Mutant of IsRegistered: the table is not asked.
NeverRegistered(k) == FALSE

\* A name with dots is looked for among names with slashes: only a class
\* without a package is known to be registered.
IsRegistered(k) == k \notin Packaged /\ classes2[k] # Null

\* Jvm.addClass: the mirror is made before JClassLoader looks whether it has
\* one, and one that is not registered is dropped.
addClass(k) ==
    \/ IsRegistered(k) /\ UNCHANGED <<mirrors, classes2>>
    \/ /\ ~IsRegistered(k)
       /\ \E c \in Classes :
             /\ mirrors[c] = NoKlass
             /\ mirrors' = [mirrors EXCEPT ![c] = k]
             /\ classes2' = [classes2 EXCEPT ![k] = c]

\* Emulator.loadClass.
loadClass(k) ==
    /\ addClass(k)
    /\ again' = IF classes2[k] # Null THEN again \cup {k} ELSE again
    /\ UNCHANGED <<vars, jclass, natives, ids>>

\* Mutant of newInstance: it does not ask for the class first.
NewInstanceAdds(k) == addClass(k) /\ UNCHANGED <<vars, jclass, natives, ids, again>>

\* Jvm.newInstance: the object stays the host's.
newInstance(k) ==
    /\ classes2[k] = Null /\ addClass(k)
    /\ UNCHANGED <<vars, jclass, natives, ids, again>>

-----------------------------------------------------------------------------
(* Native code: functions of JniRefs *)

Keeps == UNCHANGED mirrorVars

\* A new object of class c.
Made(o, c) ==
    jclass' = [jclass EXCEPT ![o] = c] /\ UNCHANGED <<mirrors, classes2, natives, ids, again>>

FindClassNamed(k) ==
    /\ IF classes2[k] = Null THEN FindClassUnknown ELSE FindClass(classes2[k])
    /\ Keeps

\* NewString sets no class, NewBooleanArray one nobody registers.
NewString(o) == NewLocalObject(o) /\ Made(o, Null)

\* The constructor must be one of the class; the default constructor has no
\* java.lang.reflect.Constructor, whose name is asked for.
NewObjectByConstructor(ref, id, o) ==
    \/ /\ MirrorAt(ref) # Null /\ Finds(MirrorAt(ref), id, {"constructor"})
       /\ NewObjectV(ref, o) /\ Made(o, MirrorAt(ref))
    \/ Throws /\ Keeps

\* A negative length throws, and so does an index out of bounds.
NewArray(ref, o) ==
    \/ MirrorAt(ref) # Null /\ NewObjectArray(ref, o) /\ Made(o, MirrorAt(ref))
    \/ Throws /\ Keeps

GetElement(ref, o) ==
    \/ /\ IsReference(ref) /\ getReference(ref) \in Arrays
       /\ GetObjectArrayElement(ref, o) /\ Made(o, ClassAt(ref))
    \/ Throws /\ Keeps

References(ref) ==
    (NewLocalRef(ref) \/ NewGlobalRef(ref) \/ deleteLocalRef(ref) \/ deleteGlobalRef(ref)) /\ Keeps

-----------------------------------------------------------------------------
(* Native code: members *)

\* GetMethodID, GetStaticMethodID, GetFieldID, GetStaticFieldID: what is no
\* class fails a cast or is null; an unknown name gives 0.
GetMemberID(ref, name) ==
    LET c == MirrorAt(ref)
    IN  \/ c = Null /\ Throws /\ Keeps
        \/ c # Null /\ name \notin DOMAIN register(mirrors[c]) /\ Nothing /\ Keeps
        \/ /\ c # Null /\ name \in DOMAIN register(mirrors[c])
           /\ Cardinality(ids) < MaxIds
           /\ ids' = ids \cup {[mirror |-> c, name |-> name]}
           /\ Nothing /\ UNCHANGED <<mirrors, classes2, jclass, natives, again>>

\* genJRet: a result that is an object is wrapped in one without a class.
Uses(found, o) ==
    \/ found /\ Nothing /\ Keeps
    \/ found /\ NewString(o)
    \/ Throws /\ Keeps

\* Writing a field or describing a method makes no reference.
Looks(found) == ((found /\ Nothing) \/ Throws) /\ Keeps

CallObjectMethodV(ref, id, o) == Uses(ClassAt(ref) # Null /\ Finds(ClassAt(ref), id, {"method"}), o)

CallStaticObjectMethodV(ref, id, o) ==
    Uses(MirrorAt(ref) # Null /\ Finds(MirrorAt(ref), id, {"method"}), o)

GetObjectField(ref, id, o) == Uses(ClassAt(ref) # Null /\ Finds(ClassAt(ref), id, {"field"}), o)

GetStaticObjectField(ref, id, o) ==
    Uses(MirrorAt(ref) # Null /\ Finds(MirrorAt(ref), id, {"field"}), o)

SetObjectField(ref, id) == Looks(ClassAt(ref) # Null /\ Finds(ClassAt(ref), id, {"field"}))

SetStaticObjectField(ref, id) ==
    Looks(MirrorAt(ref) # Null /\ Finds(MirrorAt(ref), id, {"field"}))

\* A default constructor is found and has no name.
toReflectedMethod(ref, id) ==
    Looks(MirrorAt(ref) # Null /\ Finds(MirrorAt(ref), id, {"method", "constructor"}))

\* Only a local reference is a class here.  registerNative reports a name the
\* class does not have and goes on; an entry that cannot be read throws, and
\* those before it stay.
RegisterNatives(ref, name) ==
    LET c == getLocalReference(ref)
    IN  \/ c \notin Classes /\ Throws /\ Keeps
        \/ /\ c \in Classes
           /\ natives' = IF name \in DOMAIN register(mirrors[c]) /\ register(mirrors[c])[name] = "method"
                           THEN natives \cup {[mirror |-> c, name |-> name]} ELSE natives
           /\ Nothing \/ Throws
           /\ UNCHANGED <<mirrors, classes2, jclass, ids, again>>

-----------------------------------------------------------------------------
Names == UNION {DOMAIN register(k) : k \in Klasses}

MirrorNext ==
    \/ \E k \in Klasses : loadClass(k) \/ newInstance(k) \/ FindClassNamed(k)
    \/ FindClassArray /\ Keeps
    \/ \E o \in Others : NewString(o)
    \/ \E ref \in Refs :
          \/ References(ref)
          \/ \E o \in Arrays : NewArray(ref, o)
          \/ \E o \in Others : GetElement(ref, o)
          \/ \E name \in Names : GetMemberID(ref, name) \/ RegisterNatives(ref, name)
          \/ \E id \in ids : SetObjectField(ref, id) \/ SetStaticObjectField(ref, id)
                               \/ toReflectedMethod(ref, id)
          \/ \E id \in ids, o \in Others :
                \/ NewObjectByConstructor(ref, id, o)
                \/ CallObjectMethodV(ref, id, o)
                \/ CallStaticObjectMethodV(ref, id, o)
                \/ GetObjectField(ref, id, o)
                \/ GetStaticObjectField(ref, id, o)
    \/ CallNative /\ Keeps

MirrorSpec == MirrorInit /\ [][MirrorNext]_allVars

-----------------------------------------------------------------------------
(* Properties *)

Ids == [mirror : Classes, name : Names]

Referenced ==
    {locals[i] : i \in DOMAIN locals} \cup {globals[i] : i \in DOMAIN globals}

\* The mirrors native code can still work with: through an ID, a reference, an
\* object of the class, or a native method it has registered.
InUse(c) ==
    \/ \E m \in ids \cup natives : m.mirror = c
    \/ \E o \in Arrays \cup Others : jclass[o] = c
    \/ c \in Referenced

\* Every mirror in use, and every one a name finds, was made from a class.
MirrorTypeOK ==
    /\ mirrors \in [Classes -> Klasses \cup {NoKlass}]
    /\ classes2 \in [Klasses -> Classes \cup {Null}]
    /\ jclass \in [Arrays \cup Others -> Classes \cup {Null}]
    /\ natives \subseteq Ids /\ ids \subseteq Ids /\ again \subseteq Klasses
    /\ \A c \in Classes : InUse(c) => mirrors[c] # NoKlass
    /\ \A k \in Klasses : classes2[k] # Null => mirrors[classes2[k]] = k

\* The classes in a package that the host has added again.
Replaced == again \cap Packaged

\* An ID goes on working, with the class FindClass gives and with every object
\* of that class, and native methods stay registered, because one class has
\* one mirror in use, until the host itself adds a class again that is in a
\* package (JClassLoader.addClass looks under the wrong name).  A class without
\* a package may be added as often as the host likes.
OneMirror ==
    \A c \in Classes : InUse(c) /\ mirrors[c] \notin Replaced => classes2[mirrors[c]] = c

\* Mirrors and what refers to them have their types, and agree (JClassLoader,
\* JClass.findMethod, JniEnv.GetMethodIDInternal).
MirrorInv == MirrorTypeOK /\ OneMirror
=============================================================================
