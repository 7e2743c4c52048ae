---------------------------- MODULE GuestProofs ----------------------------
(***************************************************************************)
(* Proofs about GuestFiles and GuestProcess, for every set of paths, of    *)
(* byte counts and of descriptors that native code passes; and about       *)
(* GuestMemory, for every page size, every bound of the two areas and of   *)
(* an image's size, all protections and all images.                        *)
(*                                                                         *)
(* The memory manager only remembers the next free address of each area,   *)
(* so what has to be kept is that nothing is mapped from there on; the     *)
(* rest is the rounding of addresses and sizes to whole pages, and that a  *)
(* module's segments stay in the space reserved for it.                    *)
(***************************************************************************)
EXTENDS GuestProcess, GuestMemory, FiniteSetTheorems, TLAPS

-----------------------------------------------------------------------------
(* Numbers *)

(* Every set of numbers that is not empty has a least element. *)
LEMMA LeastNumber ==
  ASSUME NEW T, T \subseteq Nat, T # {}
  PROVE  \E m \in T : \A n \in T : m <= n
<1> DEFINE R == {ss \in Nat \X Nat : ss[1] < ss[2]}
<1>1. IsWellFoundedOn(R, Nat)
  BY NatLessThanWellFounded DEF OpToRel
<1> HIDE DEF R
<1>2. PICK m \in T : \A n \in T : ~(<<n, m>> \in R)
  BY <1>1, WFMin, Zenon
<1>3. SUFFICES ASSUME NEW n \in T PROVE m <= n
  OBVIOUS
<1>4. n < m => <<n, m>> \in R
  BY DEF R
<1> QED
  BY <1>2, <1>4

-----------------------------------------------------------------------------
Stream == [at : Nat \cup {-1}, unlinked : Nat \cup {Missing}]

Entry == [name : Names \cup Std, stream : Stream]

(* The table of descriptors and the files of the host.  A stream that is open
   has a position, so that NoStream is told from every open one. *)
TableOK ==
  /\ DOMAIN files \subseteq 0 .. MaxFd /\ files \in [DOMAIN files -> Entry]
  /\ \A fd \in DOMAIN files : files[fd].stream # NoStream => files[fd].stream.at \in Nat
  /\ host \in [Names \cup Std -> Nat \cup {Missing}]
  /\ StreamsBacked

ReturnOK == running \in BOOLEAN /\ ret \in Int

-----------------------------------------------------------------------------
(* nextFd finds a descriptor, and one that is not in use: among one more
   numbers than there are descriptors, one is free. *)
LEMMA NextFdFree ==
  ASSUME IsFiniteSet(DOMAIN files)
  PROVE  nextFd \in Nat /\ nextFd >= 3 /\ nextFd \notin DOMAIN files
<1> DEFINE D == DOMAIN files
           c == Cardinality(D)
           T == {n \in 3 .. 3 + c : n \notin D}
<1>1. c \in Nat
  BY FS_CardinalityType
<1> HIDE DEF c
<1>2. T # {}
  <2> SUFFICES ASSUME 3 .. 3 + c \subseteq D PROVE FALSE
    OBVIOUS
  <2>1. 3 \in Int /\ 3 + c \in Int
    BY <1>1
  <2>2. Cardinality(3 .. 3 + c) = IF 3 > 3 + c THEN 0 ELSE (3 + c) - 3 + 1
    BY <2>1, FS_Interval, Zenon
  <2>3. Cardinality(3 .. 3 + c) = c + 1
    BY <2>2, <1>1
  <2>4. Cardinality(3 .. 3 + c) <= c
    BY FS_Subset, Zenon DEF c
  <2> QED
    BY <2>3, <2>4, <1>1
<1>3. T \subseteq Nat
  BY <1>1
<1>4. PICK m \in T : \A n \in T : m <= n
  BY <1>2, <1>3, LeastNumber, Zenon
<1>5. m \in 3 .. 3 + c /\ m \notin D /\ \A other \in 3 .. m - 1 : other \in D
  BY <1>1, <1>4
<1>6. \E fd \in 3 .. 3 + c : fd \notin D /\ \A other \in 3 .. fd - 1 : other \in D
  BY <1>5
<1>7. nextFd \in 3 .. 3 + c /\ nextFd \notin D
  BY <1>6 DEF nextFd, c
<1> QED
  BY <1>1, <1>7

-----------------------------------------------------------------------------
(* Entry f is what has become of entry e: the same file, further on in the
   same stream. *)
Continues(e, f) ==
  /\ f \in Entry /\ f.name = e.name
  /\ f.stream # NoStream => f.stream.at \in Nat
  /\ e.stream # NoStream =>
       /\ f.stream.at >= e.stream.at
       /\ e.stream.unlinked # Missing => f.stream.unlinked = e.stream.unlinked

(* What every step does to the descriptors that stay open. *)
TableStep == \A fd \in DOMAIN files \cap DOMAIN files' : Continues(files[fd], files'[fd])

(* An entry that stays as it is continues. *)
LEMMA SameContinues ==
  ASSUME NEW e \in Entry, e.stream # NoStream => e.stream.at \in Nat
  PROVE  Continues(e, e)
BY DEF Continues, Entry, Stream

(* The entry of a descriptor that has just been opened. *)
LEMMA FreshEntry ==
  ASSUME NEW name \in Names \cup Std
  PROVE  /\ [name |-> name, stream |-> NoStream] \in Entry
         /\ [name |-> name, stream |-> NoStream].stream = NoStream
BY DEF Entry, Stream, NoStream, Missing

(* The streams on a file that is created again keep the deleted one. *)
LEMMA UnlinkKeeps ==
  ASSUME NEW table, table \in [DOMAIN table -> Entry], NEW name \in Names \cup Std,
         host \in [Names \cup Std -> Nat \cup {Missing}],
         \A fd \in DOMAIN table : table[fd].stream # NoStream => table[fd].stream.at \in Nat
  PROVE  /\ Unlink(table, name) \in [DOMAIN table -> Entry]
         /\ DOMAIN Unlink(table, name) = DOMAIN table
         /\ \A fd \in DOMAIN table : Continues(table[fd], Unlink(table, name)[fd])
         /\ \A fd \in DOMAIN table :
              Unlink(table, name)[fd] = table[fd] \/ Unlink(table, name)[fd].stream.unlinked # Missing
<1> DEFINE u == Unlink(table, name)
<1>1. DOMAIN u = DOMAIN table
  BY DEF Unlink
<1>2. ASSUME NEW fd \in DOMAIN table
      PROVE  Continues(table[fd], u[fd]) /\ (u[fd] = table[fd] \/ u[fd].stream.unlinked # Missing)
  <2> DEFINE e == table[fd]
  <2>1. e \in Entry
    OBVIOUS
  <2>2. CASE /\ e.name = name /\ e.stream # NoStream
             /\ e.stream.unlinked = Missing /\ host[name] # Missing
    <3>1. u[fd] = [e EXCEPT !.stream.unlinked = host[name]]
      BY <2>2 DEF Unlink
    <3>2. host[name] \in Nat \cup {Missing} /\ e.stream.at \in Nat
      BY <2>2
    <3>3. /\ u[fd] \in Entry /\ u[fd].name = e.name /\ u[fd].stream.at = e.stream.at
          /\ u[fd].stream.unlinked = host[name]
      BY <2>1, <3>1, <3>2 DEF Entry, Stream
    <3> QED
      BY <2>2, <3>2, <3>3 DEF Continues
  <2>3. CASE ~(/\ e.name = name /\ e.stream # NoStream
               /\ e.stream.unlinked = Missing /\ host[name] # Missing)
    <3>1. u[fd] = e
      BY <2>3 DEF Unlink
    <3> QED
      BY <2>1, <3>1, SameContinues
  <2> QED
    BY <2>2, <2>3
<1>3. u = [fd \in DOMAIN table |-> u[fd]]
  BY DEF Unlink
<1>4. u \in [DOMAIN table -> Entry]
  BY <1>2, <1>3 DEF Continues
<1> QED
  BY <1>1, <1>2, <1>4

(* What the handlers return. *)
LEMMA ReturnStep ==
  ASSUME ReturnOK, NEW value \in Int, Returns(value) \/ Throws
  PROVE  ReturnOK'
BY Zenon DEF ReturnOK, Returns, Throws

(* A table whose entries continue, or are fresh, is a table again if no file
   disappears from the host. *)
LEMMA TableNext ==
  ASSUME TableOK, DOMAIN files' \subseteq 0 .. MaxFd, files' \in [DOMAIN files' -> Entry],
         TableStep,
         \A fd \in DOMAIN files' \ DOMAIN files : files'[fd].stream = NoStream,
         host' \in [Names \cup Std -> Nat \cup {Missing}],
         \A name \in Names \cup Std : host[name] # Missing => host'[name] # Missing,
         \A fd \in DOMAIN files \cap DOMAIN files' :
           \/ files'[fd] = files[fd]
           \/ files'[fd].stream.unlinked # Missing
           \/ host'[files[fd].name] # Missing
  PROVE  TableOK'
<1>1. ASSUME NEW fd \in DOMAIN files', files'[fd].stream # NoStream
      PROVE  /\ files'[fd].stream.at \in Nat
             /\ files'[fd].stream.unlinked # Missing \/ host'[files'[fd].name] # Missing
  <2>1. fd \in DOMAIN files
    BY <1>1
  <2>2. Continues(files[fd], files'[fd]) /\ files[fd] \in Entry
    BY <2>1 DEF TableStep, TableOK
  <2>3. files[fd].name \in Names \cup Std /\ files'[fd].name = files[fd].name
    BY <2>2 DEF Continues, Entry
  <2>4. CASE files'[fd] = files[fd]
    BY <1>1, <2>1, <2>3, <2>4 DEF TableOK, StreamsBacked
  <2>5. CASE files'[fd].stream.unlinked # Missing \/ host'[files[fd].name] # Missing
    BY <1>1, <2>2, <2>3, <2>5 DEF Continues
  <2> QED
    BY <2>1, <2>4, <2>5
<1> QED
  BY <1>1 DEF TableOK, StreamsBacked, NoStream, Missing

(* openat takes a descriptor that is not in use and moves no other one. *)
LEMMA OpenatStep ==
  ASSUME TableOK, ReturnOK, NEW name \in Names, NEW creat \in BOOLEAN, openat(name, creat)
  PROVE  TableOK' /\ ReturnOK' /\ TableStep /\ DOMAIN files \subseteq DOMAIN files'
<1> DEFINE fresh == [name |-> name, stream |-> NoStream]
           table == [d \in DOMAIN files \cup {nextFd} |-> IF d = nextFd THEN fresh ELSE files[d]]
<1>1. nextFd \in Nat /\ nextFd >= 3 /\ nextFd \notin DOMAIN files
  <2>1. IsFiniteSet(0 .. MaxFd)
    BY FS_Interval, FilesAssumption
  <2>2. IsFiniteSet(DOMAIN files)
    BY <2>1, FS_Subset, Zenon DEF TableOK
  <2> QED
    BY <2>2, NextFdFree
<1>2. PICK fd : fd = nextFd
  OBVIOUS
<1>3. /\ fd <= MaxFd
      /\ files' = table \/ files' = Unlink(table, name)
      /\ host' = host \/ host' = [host EXCEPT ![name] = 0]
      /\ Returns(fd) \/ Throws
  BY <1>2 DEF openat
<1>4. fresh \in Entry /\ fresh.stream = NoStream
  BY FreshEntry
<1> HIDE DEF fresh
<1>5. /\ DOMAIN table = DOMAIN files \cup {fd} /\ table[fd] = fresh
      /\ \A d \in DOMAIN files : table[d] = files[d]
  BY <1>1, <1>2
<1>6. table \in [DOMAIN table -> Entry]
  BY <1>2, <1>4 DEF TableOK
<1>7. \A d \in DOMAIN table : table[d].stream # NoStream => table[d].stream.at \in Nat
  BY <1>4, <1>5 DEF TableOK
<1> HIDE DEF table
<1>8. /\ host' \in [Names \cup Std -> Nat \cup {Missing}]
      /\ \A n \in Names \cup Std : host[n] # Missing => host'[n] # Missing
  BY <1>3 DEF TableOK, Missing
<1>9. /\ DOMAIN files' = DOMAIN table /\ files' \in [DOMAIN table -> Entry]
      /\ \A d \in DOMAIN table :
           /\ Continues(table[d], files'[d])
           /\ files'[d] = table[d] \/ files'[d].stream.unlinked # Missing
  <2>1. CASE files' = table
    BY <2>1, <1>6, <1>7, SameContinues
  <2>2. CASE files' = Unlink(table, name)
    BY <2>2, <1>6, <1>7, UnlinkKeeps DEF TableOK
  <2> QED
    BY <1>3, <2>1, <2>2
<1>10. TableStep
  BY <1>5, <1>9 DEF TableStep
<1>11. files'[fd].stream = NoStream
  <2>1. CASE files' = table
    BY <2>1, <1>4, <1>5
  <2>2. CASE files' = Unlink(table, name)
    BY <2>2, <1>4, <1>5 DEF Unlink
  <2> QED
    BY <1>3, <2>1, <2>2
<1>12. DOMAIN files' \subseteq 0 .. MaxFd
  BY <1>1, <1>2, <1>3, <1>5, <1>9, FilesAssumption DEF TableOK
<1>13. TableOK'
  <2>1. \A d \in DOMAIN files' \ DOMAIN files : files'[d].stream = NoStream
    BY <1>5, <1>9, <1>11
  <2>2. \A d \in DOMAIN files \cap DOMAIN files' :
          files'[d] = files[d] \/ files'[d].stream.unlinked # Missing
    BY <1>5, <1>9
  <2>3. files' \in [DOMAIN files' -> Entry]
    BY <1>9
  <2> QED
    BY <1>8, <1>10, <1>12, <2>1, <2>2, <2>3, TableNext
<1>14. ReturnOK'
  BY <1>1, <1>2, <1>3, ReturnStep
<1> QED
  BY <1>5, <1>9, <1>10, <1>13, <1>14

(* close forgets one descriptor. *)
LEMMA CloseStep ==
  ASSUME TableOK, ReturnOK, NEW fd, close(fd)
  PROVE  TableOK' /\ ReturnOK' /\ TableStep /\ DOMAIN files \ {fd} \subseteq DOMAIN files'
<1>1. /\ DOMAIN files' = DOMAIN files \ {fd} /\ host' = host
      /\ files' = [d \in DOMAIN files \ {fd} |-> files[d]]
  BY DEF close
<1>2. files' \in [DOMAIN files' -> Entry] /\ \A d \in DOMAIN files' : files'[d] = files[d]
  BY <1>1 DEF TableOK
<1>3. TableStep
  BY <1>1, <1>2, SameContinues DEF TableStep, TableOK
<1>4. TableOK'
  BY <1>1, <1>2, <1>3, TableNext DEF TableOK
<1>5. ReturnOK'
  BY ReturnStep DEF close
<1> QED
  BY <1>1, <1>3, <1>4, <1>5

(* writev changes the host's file only. *)
LEMMA WritevStep ==
  ASSUME TableOK, ReturnOK, NEW fd, NEW count \in Counts, NEW mapped, writev(fd, count, mapped)
  PROVE  TableOK' /\ ReturnOK' /\ TableStep /\ files' = files
<1>1. files' = files /\ (Returns(0) \/ Returns(-1))
  BY DEF writev
<1>2. /\ host' \in [Names \cup Std -> Nat \cup {Missing}]
      /\ \A n \in Names \cup Std : host[n] # Missing => host'[n] # Missing
  <2>1. count \in Nat
    BY FilesAssumption
  <2>2. CASE host' = host
    BY <2>2 DEF TableOK
  <2>3. CASE \E n, size : n \in Names \cup Std /\ size \in Nat /\ host' = [host EXCEPT ![n] = size]
    BY <2>3 DEF TableOK, Missing
  <2>4. fd \in DOMAIN files => files[fd].name \in Names \cup Std
    BY DEF TableOK, Entry
  <2> QED
    BY <2>1, <2>2, <2>3, <2>4 DEF writev
<1>3. TableStep
  BY <1>1, SameContinues DEF TableStep, TableOK
<1>4. TableOK'
  BY <1>1, <1>2, <1>3, TableNext DEF TableOK
<1>5. ReturnOK'
  BY <1>1, ReturnStep, SMTT(30)
<1> QED
  BY <1>1, <1>3, <1>4, <1>5

(* read opens the stream of its descriptor or moves it on, and nothing else. *)
LEMMA ReadStep ==
  ASSUME TableOK, ReturnOK, NEW fd, NEW count \in Counts, NEW mapped, read(fd, count, mapped)
  PROVE  TableOK' /\ ReturnOK' /\ TableStep /\ DOMAIN files' = DOMAIN files
<1>1. host' = host
  BY DEF read
<1>2. CASE files' = files /\ (Throws \/ Returns(-1) \/ Returns(0))
  <2>1. TableStep
    BY <1>2, SameContinues DEF TableStep, TableOK
  <2>2. TableOK'
    BY <1>1, <1>2, <2>1, TableNext DEF TableOK
  <2>3. ReturnOK'
    BY <1>2, ReturnStep
  <2> QED
    BY <1>2, <2>1, <2>2, <2>3
<1>3. CASE /\ fd \in DOMAIN files /\ ReadFile(fd, count, mapped)
           /\ ~(files[fd].stream = NoStream /\ host[files[fd].name] = Missing)
  <2> DEFINE e     == files[fd]
             first == e.stream = NoStream
             at    == IF first THEN 0 ELSE e.stream.at
             size  == IF e.stream.unlinked # Missing THEN e.stream.unlinked ELSE host[e.name]
             n     == BytesRead(at, size, count)
             now   == IF n > 0 THEN at + n ELSE at
  <2>1. e \in Entry /\ e.name \in Names \cup Std /\ e.stream \in Stream
    BY <1>3 DEF TableOK, Entry
  <2>2. at \in Nat /\ (~first => at = e.stream.at)
    BY <1>3 DEF TableOK
  <2>3. /\ ~(first /\ host[e.name] = Missing)
        /\ files' = [files EXCEPT ![fd].stream = [at |-> now, unlinked |-> e.stream.unlinked]]
        /\ Throws \/ Returns(n)
    BY <1>3 DEF ReadFile
  <2>4. size \in Nat
    <3>1. host[e.name] \in Nat \cup {Missing} /\ e.stream.unlinked \in Nat \cup {Missing}
      BY <2>1 DEF TableOK, Stream
    <3>2. e.stream.unlinked # Missing \/ host[e.name] # Missing
      BY <1>3, <2>3 DEF TableOK, StreamsBacked
    <3> QED
      BY <3>1, <3>2
  <2> HIDE DEF at, size
  <2>5. n \in Int
    BY <2>2, <2>4, FilesAssumption DEF BytesRead
  <2> HIDE DEF n
  <2>6. now \in Nat /\ now >= at
    BY <2>2, <2>5
  <2> HIDE DEF now
  <2> DEFINE f == [e EXCEPT !.stream = [at |-> now, unlinked |-> e.stream.unlinked]]
  <2>7. f \in Entry /\ f.name = e.name /\ f.stream.at = now /\ f.stream.unlinked = e.stream.unlinked
    BY <2>1, <2>6 DEF Entry, Stream
  <2>8. files' = [files EXCEPT ![fd] = f]
    BY <2>3
  <2> HIDE DEF f
  <2>9. Continues(e, f)
    BY <2>2, <2>6, <2>7 DEF Continues
  <2> HIDE DEF e
  <2>10. /\ DOMAIN files' = DOMAIN files /\ files'[fd] = f
         /\ \A d \in DOMAIN files : d # fd => files'[d] = files[d]
    BY <1>3, <2>8
  <2>11. files' \in [DOMAIN files' -> Entry]
    BY <2>7, <2>8, <2>10, Zenon DEF TableOK
  <2>12. TableStep
    BY <2>9, <2>10, SameContinues DEF TableStep, TableOK, e
  <2>13. f.stream.unlinked # Missing \/ host'[e.name] # Missing
    BY <1>1, <1>3, <2>3, <2>7, SMTT(30) DEF TableOK, StreamsBacked, e
  <2>14. TableOK'
    BY <1>1, <2>10, <2>11, <2>12, <2>13, TableNext DEF TableOK, e
  <2>15. ReturnOK'
    BY <2>3, <2>5, ReturnStep
  <2> QED
    BY <2>10, <2>12, <2>14, <2>15
<1> QED
  BY <1>2, <1>3 DEF read, ReadFile

-----------------------------------------------------------------------------
(* The first three descriptors. *)
LEMMA FilesInitOK ==
  ASSUME FilesInit
  PROVE  TableOK /\ ReturnOK
<1>1. DOMAIN files = 0 .. 2 /\ 0 .. 2 \subseteq 0 .. MaxFd
  BY FilesAssumption DEF FilesInit
<1>2. ASSUME NEW fd \in 0 .. 2
      PROVE  files[fd] \in Entry /\ files[fd].stream = NoStream
  <2>1. \E name \in Std : files[fd] = [name |-> name, stream |-> NoStream]
    <3>1. CASE fd = 0
      BY <3>1 DEF FilesInit, Std
    <3>2. CASE fd = 1
      BY <3>2 DEF FilesInit, Std
    <3>3. CASE fd = 2
      BY <3>3 DEF FilesInit, Std
    <3> QED
      BY <3>1, <3>2, <3>3, SMTT(30)
  <2> QED
    BY <2>1, FreshEntry
<1>3. files = [fd \in DOMAIN files |-> files[fd]]
  BY DEF FilesInit
<1>4. files \in [DOMAIN files -> Entry]
  BY <1>1, <1>2, <1>3
<1>5. host \in [Names \cup Std -> Nat \cup {Missing}]
  BY DEF FilesInit
<1>6. TableOK
  BY <1>1, <1>2, <1>4, <1>5 DEF TableOK, StreamsBacked
<1> QED
  BY <1>6 DEF FilesInit, ReturnOK

(* Every system call keeps the table; a descriptor is lost by its close only. *)
LEMMA FilesNextStep ==
  ASSUME TableOK, ReturnOK, FilesNext
  PROVE  /\ TableOK' /\ ReturnOK' /\ TableStep
         /\ \A fd \in DOMAIN files : fd \in DOMAIN files' \/ (fd \notin DOMAIN files' /\ close(fd))
<1>1. CASE \E name \in Names, creat \in BOOLEAN : openat(name, creat)
  BY <1>1, OpenatStep
<1>2. CASE \E fd \in Descriptors : close(fd)
  BY <1>2, CloseStep
<1>3. CASE \E fd \in Descriptors, count \in Counts, mapped \in BOOLEAN : read(fd, count, mapped)
  BY <1>3, ReadStep
<1>4. CASE \E fd \in Descriptors, count \in Counts, mapped \in BOOLEAN : writev(fd, count, mapped)
  BY <1>4, WritevStep
<1> QED
  BY <1>1, <1>2, <1>3, <1>4 DEF FilesNext

(* A step that leaves the table alone. *)
LEMMA TableSame ==
  ASSUME TableOK, UNCHANGED fileVars
  PROVE  TableOK' /\ TableStep /\ DOMAIN files' = DOMAIN files
<1>1. TableStep /\ DOMAIN files' = DOMAIN files
  BY SameContinues DEF TableStep, TableOK, fileVars
<1> QED
  BY <1>1 DEF TableOK, StreamsBacked, fileVars

(* The invariant of the descriptors and their streams. *)
LEMMA FilesInductive == FilesSpec => [](TableOK /\ ReturnOK)
<1>1. FilesInit => TableOK /\ ReturnOK
  BY FilesInitOK
<1>2. TableOK /\ ReturnOK /\ [FilesNext \/ NextCall]_filesVars => (TableOK /\ ReturnOK)'
  <2> SUFFICES ASSUME TableOK, ReturnOK, [FilesNext \/ NextCall]_filesVars
               PROVE  TableOK' /\ ReturnOK'
    OBVIOUS
  <2>1. CASE FilesNext
    BY <2>1, FilesNextStep
  <2>2. CASE NextCall \/ UNCHANGED filesVars
    <3>1. UNCHANGED fileVars /\ ReturnOK'
      BY <2>2, Zenon DEF NextCall, filesVars, fileVars, ReturnOK
    <3> QED
      BY <3>1, TableSame
  <2> QED
    BY <2>1, <2>2
<1> QED
  BY <1>1, <1>2, PTL DEF FilesSpec

(* The invariant says what FilesInv says. *)
LEMMA TableIsTyped ==
  ASSUME TableOK, ReturnOK
  PROVE  FilesInv
BY DEF TableOK, ReturnOK, FilesInv, FilesTypeOK, Entry, Stream

(* Descriptors, streams and files keep their types and no open stream is left
   without a file, whatever is opened, created, read, written or closed
   (VirtualFileSystem, VirtualFile). *)
THEOREM FilesSafe == FilesSpec => []FilesInv
<1>1. TableOK /\ ReturnOK => FilesInv
  BY TableIsTyped
<1> QED
  BY <1>1, FilesInductive, PTL

(* A descriptor stands for one file until its own close
   (VirtualFileSystem.nextFd, openat, close). *)
THEOREM FilesDescriptorsKept == FilesSpec => DescriptorsKept
<1> DEFINE Kept == \A fd \in DOMAIN files :
                     \/ fd \in DOMAIN files' /\ files'[fd].name = files[fd].name
                     \/ fd \notin DOMAIN files' /\ close(fd)
<1>1. TableOK /\ ReturnOK /\ [FilesNext \/ NextCall]_filesVars => [Kept]_filesVars
  <2> SUFFICES ASSUME TableOK, ReturnOK, FilesNext \/ NextCall
               PROVE  Kept
    OBVIOUS
  <2>1. CASE FilesNext
    BY <2>1, FilesNextStep DEF TableStep, Continues
  <2>2. CASE NextCall
    BY <2>2 DEF NextCall
  <2> QED
    BY <2>1, <2>2
<1> QED
  BY <1>1, FilesInductive, PTL DEF FilesSpec, DescriptorsKept

(* A stream never goes back and never changes from a deleted file to the new
   one (VirtualFile.read, VirtualFile.create). *)
THEOREM FilesStreamsAdvance == FilesSpec => StreamsAdvance
<1> DEFINE Advance == \A fd \in DOMAIN files \cap DOMAIN files' :
                        files[fd].stream # NoStream =>
                          /\ files'[fd].stream.at >= files[fd].stream.at
                          /\ files[fd].stream.unlinked # Missing =>
                               files'[fd].stream.unlinked = files[fd].stream.unlinked
<1>1. TableOK /\ ReturnOK /\ [FilesNext \/ NextCall]_filesVars => [Advance]_filesVars
  <2> SUFFICES ASSUME TableOK, ReturnOK, FilesNext \/ NextCall
               PROVE  Advance
    OBVIOUS
  <2>1. TableStep
    <3>1. CASE FilesNext
      BY <3>1, FilesNextStep
    <3>2. CASE NextCall
      BY <3>2, TableSame DEF NextCall, fileVars
    <3> QED
      BY <3>1, <3>2
  <2> QED
    BY <2>1 DEF TableStep, Continues
<1> QED
  BY <1>1, FilesInductive, PTL DEF FilesSpec, StreamsAdvance

-----------------------------------------------------------------------------
Socket == [domain : Domains, bound : BOOLEAN]

SocketsOK ==
  /\ IsFiniteSet(DOMAIN sockets) /\ DOMAIN sockets \subseteq Nat
  /\ sockets \in [DOMAIN sockets -> Socket]

CallsOK ==
  /\ calls \in 1 .. MaxCalls /\ call \in 1 .. calls /\ fork \in 0 .. calls
  /\ forked \in Nat /\ resumed \in Nat
  /\ ForkBalanced

ProcIInv == TableOK /\ ReturnOK /\ SocketsOK /\ CallsOK

(* A new socket has a number of its own; the others stay. *)
LEMMA SocketStep ==
  ASSUME SocketsOK, NEW domain \in Domains, socket(domain)
  PROVE  SocketsOK' /\ \E id \in Int : Returns(id)
<1> DEFINE new == SocketBase + Cardinality(DOMAIN sockets) + 1
<1>1. new \in Nat
  BY FS_CardinalityType DEF SocketsOK, SocketBase
<1>2. PICK id \in Nat : id = new
  BY <1>1
<1> DEFINE entry == [domain |-> domain, bound |-> FALSE]
<1>3. /\ sockets' = [s \in DOMAIN sockets \cup {id} |-> IF s = id THEN entry ELSE sockets[s]]
      /\ Returns(id)
  BY <1>2, Zenon DEF socket
<1>4. entry \in Socket
  BY DEF Socket
<1> HIDE DEF entry
<1>5. IsFiniteSet(DOMAIN sockets \cup {id})
  BY FS_AddElement DEF SocketsOK
<1>6. DOMAIN sockets' = DOMAIN sockets \cup {id} /\ sockets' \in [DOMAIN sockets' -> Socket]
  BY <1>3, <1>4 DEF SocketsOK
<1> QED
  BY <1>3, <1>5, <1>6 DEF SocketsOK

(* bind marks a socket or throws. *)
LEMMA BindStep ==
  ASSUME SocketsOK, NEW id, NEW mapped, bind(id, mapped)
  PROVE  SocketsOK' /\ (Returns(0) \/ Throws)
<1>1. CASE id \in DOMAIN sockets /\ sockets' = [sockets EXCEPT ![id].bound = TRUE] /\ Returns(0)
  <2> DEFINE s == [sockets[id] EXCEPT !.bound = TRUE]
  <2>1. s \in Socket
    BY <1>1, Zenon DEF SocketsOK, Socket
  <2>2. sockets' = [sockets EXCEPT ![id] = s]
    BY <1>1, Zenon
  <2> HIDE DEF s
  <2>3. DOMAIN sockets' = DOMAIN sockets /\ sockets' \in [DOMAIN sockets -> Socket]
    BY <2>1, <2>2, Zenon DEF SocketsOK
  <2> QED
    BY <1>1, <2>3 DEF SocketsOK
<1>2. CASE Throws /\ sockets' = sockets
  BY <1>2 DEF SocketsOK
<1> QED
  BY <1>1, <1>2, Zenon DEF bind

(* vfork and exit_group change who waits; a native call takes a new number. *)
LEMMA CallStep ==
  ASSUME CallsOK, vfork \/ exitgroup \/ Stop \/ callNative
  PROVE  CallsOK'
<1>1. CASE vfork
  BY <1>1 DEF vfork, saveState, CallsOK, ForkBalanced, NoFork, forkVars
<1>2. CASE exitgroup
  BY <1>2 DEF exitgroup, loadState, CallsOK, ForkBalanced, NoFork, forkVars
<1>3. CASE Stop
  BY <1>3 DEF Stop, CallsOK, ForkBalanced, forkVars
<1>4. CASE callNative
  BY <1>4, ProcessAssumption DEF callNative, CallsOK, ForkBalanced, forkVars
<1> QED
  BY <1>1, <1>2, <1>3, <1>4

(* A fork is held until the one exit_group that returns to its parent, and
   descriptors, streams and sockets keep their types, across exceptions, also in
   the middle of these calls, and native calls (Handler.vfork, Handler.exitgroup,
   Handler.socket, Handler.bind). *)
THEOREM ProcessSafe == ProcSpec => []ProcInv
<1>1. ProcInit => ProcIInv
  <2> SUFFICES ASSUME ProcInit
               PROVE  ProcIInv
    OBVIOUS
  <2>1. TableOK /\ ReturnOK
    BY FilesInitOK DEF ProcInit
  <2>2. SocketsOK
    <3>1. sockets = << >> /\ DOMAIN sockets = {}
      BY DEF ProcInit
    <3> QED
      BY <3>1, FS_EmptySet DEF SocketsOK
  <2>3. CallsOK
    BY ProcessAssumption DEF ProcInit, CallsOK, ForkBalanced, NoFork
  <2> QED
    BY <2>1, <2>2, <2>3 DEF ProcIInv
<1>2. ProcIInv /\ [ProcNext]_procVars => ProcIInv'
  <2> SUFFICES ASSUME TableOK, ReturnOK, SocketsOK, CallsOK, [ProcNext]_procVars
               PROVE  TableOK' /\ ReturnOK' /\ SocketsOK' /\ CallsOK'
    BY DEF ProcIInv
  <2>1. UNCHANGED fileVars => TableOK'
    BY TableSame
  <2>2. UNCHANGED sockets => SocketsOK'
    BY DEF SocketsOK
  <2>3. UNCHANGED <<call, calls, forkVars>> => CallsOK'
    BY DEF CallsOK, ForkBalanced, forkVars
  <2>4. CASE FilesNext /\ UNCHANGED <<sockets, call, calls, forkVars>>
    BY <2>2, <2>3, <2>4, FilesNextStep, SMTT(30)
  <2>5. CASE \E domain \in Domains : socket(domain)
    BY <2>1, <2>3, <2>5, SocketStep, ReturnStep DEF socket
  <2>6. CASE \E id \in SocketBase .. SocketBase + MaxSockets, mapped \in BOOLEAN : bind(id, mapped)
    BY <2>1, <2>3, <2>6, BindStep, ReturnStep DEF bind
  <2>7. CASE vfork \/ exitgroup
    <3>1. UNCHANGED <<fileVars, sockets>>
      BY <2>7 DEF vfork, exitgroup
    <3>2. ReturnOK'
      BY <2>7, ReturnStep DEF vfork, exitgroup, MainPid
    <3> QED
      BY <2>1, <2>2, <2>7, <3>1, <3>2, CallStep
  <2>8. CASE Stop \/ callNative
    <3>1. UNCHANGED <<fileVars, sockets>> /\ ReturnOK'
      BY <2>8, Zenon DEF Stop, callNative, ReturnOK
    <3> QED
      BY <2>1, <2>2, <2>8, <3>1, CallStep
  <2>9. CASE UNCHANGED procVars
    BY <2>1, <2>2, <2>3, <2>9 DEF procVars, fileVars, forkVars, ReturnOK
  <2> QED
    BY <2>4, <2>5, <2>6, <2>7, <2>8, <2>9 DEF ProcNext
<1>3. ProcIInv => ProcInv
  <2> SUFFICES ASSUME ProcIInv
               PROVE  ProcInv
    OBVIOUS
  <2>1. FilesTypeOK
    BY TableIsTyped DEF ProcIInv, FilesInv
  <2>2. \A id \in DOMAIN sockets : id \in Nat /\ sockets[id].bound \in BOOLEAN
    BY DEF ProcIInv, SocketsOK, Socket
  <2> QED
    BY <2>1, <2>2 DEF ProcIInv, CallsOK, ProcInv, ProcTypeOK
<1> QED
  BY <1>1, <1>2, <1>3, PTL DEF ProcSpec

-----------------------------------------------------------------------------
(* GuestMemory *)

(* Multiplying keeps the order. *)
LEMMA TimesOrder ==
  ASSUME NEW m \in Nat, NEW a \in Int, NEW b \in Int, a <= b
  PROVE  m * a <= m * b
  OBVIOUS

(* One more factor adds the other once. *)
LEMMA TimesNext ==
  ASSUME NEW m \in Int, NEW a \in Int
  PROVE  m * (a + 1) = m * a + m /\ m * a \in Int
  OBVIOUS

-----------------------------------------------------------------------------
(* Pages *)

(* A number and the page it is on. *)
LEMMA Quotient ==
  ASSUME NEW a \in Nat
  PROVE  /\ a \div PageSize \in Nat /\ PageSize * (a \div PageSize) \in Nat
         /\ PageSize * (a \div PageSize) <= a
         /\ a < PageSize * (a \div PageSize) + PageSize
         /\ Aligned(a) <=> a = PageSize * (a \div PageSize)
<1> DEFINE q == a \div PageSize
           r == a % PageSize
<1>1. PageSize \in Nat /\ PageSize > 0
  BY MemoryAssumption
<1>2. q \in Int /\ r \in 0 .. PageSize - 1 /\ a = PageSize * q + r
  BY <1>1
<1> HIDE DEF q, r
<1>3. PageSize * q \in Int /\ PageSize * (q + 1) = PageSize * q + PageSize
  BY <1>1, <1>2, TimesNext
<1>4. q >= 0
  <2>1. q + 1 <= 0 => PageSize * (q + 1) <= PageSize * 0
    BY <1>1, <1>2, TimesOrder
  <2> QED BY <2>1, <1>1, <1>2, <1>3
<1>5. PageSize * 0 <= PageSize * q
  BY <1>1, <1>2, <1>4, TimesOrder
<1>6. Aligned(a) <=> a = PageSize * q
  BY <1>2, <1>3 DEF r, Aligned
<1> QED BY <1>1, <1>2, <1>3, <1>4, <1>5, <1>6, SMTT(30) DEF q

(* The page of a number is the one whose bounds it lies between. *)
LEMMA QuotientIs ==
  ASSUME NEW a \in Nat, NEW q \in Int, PageSize * q <= a, a < PageSize * q + PageSize
  PROVE  a \div PageSize = q
<1> DEFINE d == a \div PageSize
<1>1. PageSize \in Nat /\ PageSize > 0
  BY MemoryAssumption
<1>2. d \in Nat /\ PageSize * d \in Nat /\ PageSize * d <= a /\ a < PageSize * d + PageSize
  BY Quotient, Zenon
<1> HIDE DEF d
<1>3. /\ PageSize * (d + 1) = PageSize * d + PageSize
      /\ PageSize * (q + 1) = PageSize * q + PageSize /\ PageSize * q \in Int
  BY <1>1, <1>2, TimesNext
<1>4. ~(d + 1 <= q)
  <2>1. d + 1 <= q => PageSize * (d + 1) <= PageSize * q
    BY <1>1, <1>2, TimesOrder
  <2> QED BY <2>1, <1>1, <1>2, <1>3
<1>5. ~(q + 1 <= d)
  <2>1. q + 1 <= d => PageSize * (q + 1) <= PageSize * d
    BY <1>1, <1>2, TimesOrder
  <2> QED BY <2>1, <1>1, <1>2, <1>3
<1>6. d = q
  BY <1>2, <1>4, <1>5
<1> QED BY <1>6, Zenon DEF d

(* The page of a number does not come before the page of a smaller one. *)
LEMMA QuotientOrder ==
  ASSUME NEW a \in Nat, NEW b \in Nat, a <= b
  PROVE  a \div PageSize <= b \div PageSize
<1> DEFINE d == a \div PageSize
           e == b \div PageSize
<1>1. PageSize \in Nat /\ PageSize > 0
  BY MemoryAssumption
<1>2. /\ d \in Nat /\ PageSize * d \in Nat /\ PageSize * d <= a
      /\ e \in Nat /\ PageSize * e \in Nat /\ b < PageSize * e + PageSize
  BY Quotient, Zenon
<1> HIDE DEF d, e
<1>3. PageSize * (e + 1) = PageSize * e + PageSize
  BY <1>1, <1>2, TimesNext
<1>4. e + 1 <= d => PageSize * (e + 1) <= PageSize * d
  BY <1>1, <1>2, TimesOrder
<1>5. d <= e
  BY <1>1, <1>2, <1>3, <1>4
<1> QED BY <1>5, Zenon DEF d, e

(* Distance from a page boundary. *)
LEMMA QuotientPlus ==
  ASSUME NEW a \in Nat, NEW b \in Nat, Aligned(a)
  PROVE  (a + b) \div PageSize = a \div PageSize + b \div PageSize
<1> DEFINE d == a \div PageSize
           e == b \div PageSize
<1>1. PageSize \in Nat /\ PageSize > 0
  BY MemoryAssumption
<1>2. /\ d \in Nat /\ a = PageSize * d
      /\ e \in Nat /\ PageSize * e \in Nat /\ PageSize * e <= b /\ b < PageSize * e + PageSize
  BY Quotient, Zenon
<1> HIDE DEF d, e
<1>3. PageSize * (d + e) = PageSize * d + PageSize * e
  BY <1>1, <1>2
<1>4. (a + b) \div PageSize = d + e
  <2>1. PageSize * (d + e) <= a + b /\ a + b < PageSize * (d + e) + PageSize
    BY <1>1, <1>2, <1>3
  <2> QED BY <2>1, <1>2, QuotientIs
<1> QED BY <1>4, Zenon DEF d, e

(* A multiple of the page size, and the byte in front of it. *)
LEMMA QuotientTimes ==
  ASSUME NEW k \in Nat
  PROVE  /\ PageSize * k \in Nat /\ k * PageSize = PageSize * k
         /\ (PageSize * k) \div PageSize = k /\ Aligned(PageSize * k)
         /\ k > 0 => PageSize * k > 0 /\ (PageSize * k - 1) \div PageSize = k - 1
<1>1. PageSize \in Nat /\ PageSize > 0
  BY MemoryAssumption
<1>2. PageSize * k \in Nat /\ k * PageSize = PageSize * k
  BY <1>1
<1>3. (PageSize * k) \div PageSize = k
  BY <1>1, <1>2, QuotientIs
<1>4. Aligned(PageSize * k)
  BY <1>2, <1>3, Quotient, Zenon
<1>5. ASSUME k > 0 PROVE PageSize * k > 0 /\ (PageSize * k - 1) \div PageSize = k - 1
  <2>1. PageSize * ((k - 1) + 1) = PageSize * (k - 1) + PageSize /\ PageSize * (k - 1) \in Int
    BY <1>1, TimesNext
  <2>2. PageSize * k = PageSize * (k - 1) + PageSize
    BY <2>1
  <2>3. PageSize * 1 <= PageSize * k
    BY <1>1, <1>5, TimesOrder
  <2>4. PageSize * k > 0 /\ PageSize * k - 1 \in Nat
    BY <1>1, <1>2, <2>3
  <2>5. (PageSize * k - 1) \div PageSize = k - 1
    BY <1>1, <2>1, <2>2, <2>4, QuotientIs
  <2> QED BY <2>4, <2>5, Zenon
<1> QED BY <1>2, <1>3, <1>4, <1>5, Zenon

(* align takes the pages of the range and of the byte behind it. *)
LEMMA AlignedChunk ==
  ASSUME NEW addr \in Nat, NEW size \in Nat
  PROVE  LET chunk == align(addr, size)
         IN  /\ chunk.addr \in Nat /\ chunk.addr <= addr /\ Aligned(chunk.addr)
             /\ chunk.size \in Nat /\ chunk.size > 0 /\ Aligned(chunk.size)
             /\ PagesOf(chunk.addr, chunk.size)
                  = addr \div PageSize .. (addr + size) \div PageSize
<1> DEFINE d == addr \div PageSize
           e == (addr + size) \div PageSize
           chunk == align(addr, size)
<1>1. PageSize \in Nat /\ PageSize > 0
  BY MemoryAssumption
<1>2. d \in Nat /\ e \in Nat /\ PageSize * d <= addr
  BY Quotient
<1>3. d <= e
  BY QuotientOrder
<1>4. chunk.addr = d * PageSize /\ chunk.size = (e + 1) * PageSize - d * PageSize
  BY Zenon DEF align
<1> HIDE DEF d, e, chunk
<1>5. chunk.addr = PageSize * d /\ chunk.addr \in Nat /\ Aligned(chunk.addr)
  BY <1>2, <1>4, QuotientTimes, Zenon
<1>6. chunk.size = PageSize * (e + 1 - d)
  BY <1>1, <1>2, <1>4
<1>7. e + 1 - d \in Nat /\ e + 1 - d > 0
  BY <1>2, <1>3
<1>8. chunk.size \in Nat /\ chunk.size > 0 /\ Aligned(chunk.size)
  BY <1>6, <1>7, QuotientTimes, Zenon
<1>9. chunk.addr + chunk.size = PageSize * (e + 1)
  BY <1>1, <1>2, <1>4, <1>5
<1>10. (chunk.addr + chunk.size - 1) \div PageSize = e
  <2>1. PICK k \in Nat : k = e + 1
    BY <1>2
  <2>2. chunk.addr + chunk.size = PageSize * k
    BY <2>1, <1>9, Zenon
  <2>3. k > 0 /\ k - 1 = e
    BY <2>1, <1>2
  <2>4. (PageSize * k - 1) \div PageSize = k - 1
    BY <2>3, QuotientTimes, Zenon
  <2>5. chunk.addr + chunk.size - 1 = (chunk.addr + chunk.size) - 1
    BY <1>5, <1>8
  <2> QED BY <2>2, <2>3, <2>4, <2>5, Zenon
<1>11. chunk.addr \div PageSize = d
  BY <1>2, <1>5, QuotientTimes, Zenon
<1> QED BY <1>2, <1>5, <1>8, <1>10, <1>11, Zenon DEF PagesOf, d, e, chunk

(* What a reservation takes: whole pages, from pos on. *)
LEMMA ReservedChunk ==
  ASSUME NEW size \in Nat, pos \in Nat, Aligned(pos)
  PROVE  LET chunk == reserve(size)
             k     == size \div PageSize + 1
         IN  /\ k \in Nat /\ chunk.addr = pos /\ chunk.size = PageSize * k
             /\ chunk.size \in Nat /\ chunk.size > size /\ Aligned(chunk.size)
             /\ align(0, size).size = chunk.size
             /\ Aligned(pos + chunk.size)
             /\ (pos + chunk.size) \div PageSize = pos \div PageSize + k
             /\ PagesOf(pos, chunk.size)
                  = pos \div PageSize .. pos \div PageSize + size \div PageSize
<1> DEFINE chunk == reserve(size)
           d == pos \div PageSize
           e == size \div PageSize
           n == align(0, size).size
<1>1. PageSize \in Nat /\ PageSize > 0
  BY MemoryAssumption
<1>2. /\ d \in Nat /\ pos = PageSize * d
      /\ e \in Nat /\ PageSize * e \in Nat /\ size < PageSize * e + PageSize
  BY Quotient, Zenon
<1>3. chunk.addr = pos /\ chunk.size = n
  BY Zenon DEF reserve
<1>4. n = PageSize * (e + 1)
  <2>1. 0 \div PageSize = 0
    BY <1>1, QuotientIs
  <2>2. n = (e + 1) * PageSize - 0 * PageSize
    BY <2>1 DEF align
  <2> QED BY <1>1, <1>2, <2>2
<1> HIDE DEF chunk, d, e, n
<1>5. n = PageSize * e + PageSize /\ n \in Nat
  BY <1>1, <1>2, <1>4, TimesNext
<1>6. n > size
  BY <1>1, <1>2, <1>5, Zenon
<1>7. Aligned(n)
  BY <1>2, <1>4, QuotientTimes
<1>8. pos + n = PageSize * (d + (e + 1)) /\ pos + n = PageSize * ((d + e) + 1)
  BY <1>1, <1>2, <1>4
<1>9. Aligned(pos + n) /\ (pos + n) \div PageSize = d + (e + 1)
  BY <1>2, <1>8, QuotientTimes
<1>10. (pos + n - 1) \div PageSize = d + e
  <2>1. PICK k \in Nat : k = (d + e) + 1
    BY <1>2
  <2>2. pos + n = PageSize * k
    BY <2>1, <1>8, Zenon
  <2>3. k > 0 /\ k - 1 = d + e
    BY <2>1, <1>2
  <2>4. (PageSize * k - 1) \div PageSize = k - 1
    BY <2>3, QuotientTimes, Zenon
  <2>5. pos + n - 1 = (pos + n) - 1
    BY <1>5
  <2> QED BY <2>2, <2>3, <2>4, <2>5, Zenon
<1>11. PagesOf(pos, n) = d .. d + e
  BY <1>2, <1>10, Zenon DEF PagesOf, d
<1> QED BY <1>2, <1>3, <1>4, <1>5, <1>6, <1>7, <1>9, <1>11, SMTT(30) DEF chunk, d, e, n

(* The heap's pages, and those of mappings, in terms of pages. *)
LEMMA Areas ==
  /\ ModulesMin \in Nat /\ ModulesMax \in Nat /\ HeapMin \in Nat /\ HeapMax \in Nat
  /\ MappingMin \in Nat /\ Aligned(ModulesMin)
  /\ HeapMin = PageSize * (HeapMin \div PageSize)
  /\ HeapMax <= MappingMin
  /\ MappingMin = PageSize * (MappingMin \div PageSize)
  /\ HeapPages \subseteq Nat
  /\ \A p \in HeapPages : p >= HeapMin \div PageSize /\ p < MappingMin \div PageSize
<1>1. PageSize \in Nat /\ PageSize > 0
  BY MemoryAssumption
<1>2. /\ ModulesMin \in Nat /\ ModulesMax \in Nat /\ HeapMin \in Nat /\ HeapMax \in Nat
      /\ MappingMin \in Nat /\ HeapMax <= MappingMin /\ HeapMin < HeapMax
  BY MemoryAssumption, Zenon
<1>3. Aligned(ModulesMin) /\ Aligned(HeapMin) /\ Aligned(HeapMax) /\ Aligned(MappingMin)
  BY MemoryAssumption, Zenon DEF Aligned
<1> DEFINE h == HeapMin \div PageSize
           m == MappingMin \div PageSize
           k == HeapMax \div PageSize
<1>4. /\ h \in Nat /\ HeapMin = PageSize * h /\ m \in Nat /\ MappingMin = PageSize * m
      /\ k \in Nat /\ HeapMax = PageSize * k
  BY <1>2, <1>3, Quotient, Zenon
<1>5. k <= m
  BY <1>2, QuotientOrder, Zenon
<1> HIDE DEF h, m, k
<1>6. k > 0
  <2>1. k = 0 => HeapMax = 0
    BY <1>1, <1>4
  <2> QED BY <1>2, <1>4, <2>1
<1>7. (HeapMax - 1) \div PageSize = k - 1
  BY <1>4, <1>6, QuotientTimes, Zenon
<1>8. HeapPages = h .. k - 1
  <2>1. HeapMin + (HeapMax - HeapMin) - 1 = HeapMax - 1
    BY <1>2
  <2> QED BY <1>7, <2>1, Zenon DEF HeapPages, PagesOf, h
<1>9. HeapPages \subseteq Nat /\ \A p \in HeapPages : p >= h /\ p < m
  BY <1>4, <1>5, <1>8
<1> QED BY <1>2, <1>3, <1>4, <1>9, Zenon DEF h, m

-----------------------------------------------------------------------------
(* The memory manager *)

SymbolNames == UNION {DOMAIN image.symbols : image \in Images}

Module == [image : Images, base : Nat, syms : SUBSET SymbolNames]

(* The inductive invariant: MemInv, with the two ends of the part of the address
   space that reserve has handed out.  A library has its base in the area of
   modules, so that its segments end in front of the mappings, which is all that
   munmap takes away. *)
MemIInv ==
  /\ DOMAIN pages \subseteq Nat /\ \A p \in DOMAIN pages : pages[p] \in Prot
  /\ pos \in Nat /\ Aligned(pos) /\ ModulesMin <= pos
  /\ modules \in Seq(Module) /\ \A i \in DOMAIN modules : modules[i].base <= ModulesMax
  /\ NothingAhead
  /\ ModulesMapped

(* What an image has. *)
LEMMA ImageFields ==
  ASSUME NEW image \in Images
  PROVE  /\ DOMAIN image.segments \subseteq Nat
         /\ \A i \in DOMAIN image.segments :
              /\ image.segments[i].va \in Nat /\ image.segments[i].size \in Nat
              /\ SegmentEnd(image, i) \in Nat
              /\ ModulesMax + SegmentEnd(image, i) <= HeapMax
<1>1. /\ image.segments \in Seq(Segment)
      /\ \A i \in DOMAIN image.segments :
            ModulesMax + image.segments[i].va + image.segments[i].size <= HeapMax
  BY MemoryAssumption, Zenon
<1>2. DOMAIN image.segments \subseteq Nat
      /\ \A i \in DOMAIN image.segments : image.segments[i] \in Segment
  BY <1>1, SMTT(30)
<1>3. ASSUME NEW i \in DOMAIN image.segments
      PROVE  /\ image.segments[i].va \in Nat /\ image.segments[i].size \in Nat
             /\ SegmentEnd(image, i) \in Nat
             /\ ModulesMax + SegmentEnd(image, i) <= HeapMax
  <2>1. image.segments[i].va \in Nat /\ image.segments[i].size \in Nat
    BY <1>2, Zenon DEF Segment
  <2>2. ModulesMax + image.segments[i].va + image.segments[i].size <= HeapMax
    BY <1>1, Zenon
  <2> QED BY <2>1, <2>2, Areas DEF SegmentEnd
<1> QED BY <1>2, <1>3, Zenon

(* ModuleSize is a number that no segment ends behind. *)
LEMMA ModuleSizeBounds ==
  ASSUME NEW image \in Images
  PROVE  /\ ModuleSize(image) \in Nat
         /\ \A i \in LoadSegments(image) : SegmentEnd(image, i) <= ModuleSize(image)
<1> DEFINE E == {SegmentEnd(image, i) : i \in LoadSegments(image)} \cup {0}
           B == {n \in Nat : \A e \in E : e <= n}
<1>1. E \subseteq Nat /\ \A e \in E : e <= HeapMax
  BY ImageFields, Areas DEF LoadSegments
<1>2. HeapMax \in B
  BY <1>1, Areas, Zenon
<1>3. PICK m \in B : \A n \in B : m <= n
  BY <1>2, LeastNumber, Zenon
<1>4. m \in E
  <2> SUFFICES ASSUME m \notin E PROVE FALSE
    BY Zenon
  <2>1. m \in Nat /\ m > 0 /\ \A e \in E : e <= m /\ e # m
    BY <1>1, <1>3
  <2>2. m - 1 \in B
    BY <2>1, <1>1
  <2> QED BY <1>3, <2>1, <2>2
<1>5. \A i \in LoadSegments(image) : SegmentEnd(image, i) <= m
  BY <1>3, Zenon
<1>6. /\ ModuleSize(image) \in E
      /\ \A i \in LoadSegments(image) : SegmentEnd(image, i) <= ModuleSize(image)
  BY <1>4, <1>5, Zenon DEF ModuleSize
<1> QED BY <1>1, <1>6, Zenon

(* The pages of a segment of a library that is loaded at pos. *)
LEMMA SegmentAt ==
  ASSUME pos \in Nat, Aligned(pos), NEW image \in Images, NEW i \in LoadSegments(image)
  PROVE  LET d == pos \div PageSize
             a == image.segments[i].va \div PageSize
             b == SegmentEnd(image, i) \div PageSize
             chunk == SegmentChunk(image, i, pos)
         IN  /\ d \in Nat /\ a \in Nat /\ b \in Nat
             /\ SegmentPages(image, i, pos) = d + a .. d + b
             /\ SegmentPages(image, i, 0) = a .. b
             /\ b <= ModuleSize(image) \div PageSize
             /\ chunk.size > 0 /\ Aligned(chunk.addr) /\ Aligned(chunk.size)
             /\ PagesOf(pos + image.segments[i].va, image.segments[i].size)
                  \subseteq SegmentPages(image, i, pos)
<1> DEFINE va == image.segments[i].va
           n == image.segments[i].size
           e == SegmentEnd(image, i)
<1>1. va \in Nat /\ n \in Nat /\ e \in Nat /\ e = va + n
  BY ImageFields, Zenon DEF LoadSegments, SegmentEnd
<1>2. ModuleSize(image) \in Nat /\ e <= ModuleSize(image)
  BY ModuleSizeBounds, Zenon
<1>3. n > 0
  BY <1>1, SMTT(30) DEF LoadSegments
<1>4. SegmentChunk(image, i, pos) = align(pos + va, n) /\ SegmentChunk(image, i, 0) = align(va, n)
  BY <1>1 DEF SegmentChunk
<1> HIDE DEF va, n, e
<1>5. /\ pos \div PageSize \in Nat /\ va \div PageSize \in Nat /\ e \div PageSize \in Nat
  BY <1>1, Quotient, Zenon
<1>6. e \div PageSize <= ModuleSize(image) \div PageSize
  BY <1>1, <1>2, QuotientOrder, Zenon
<1>7. (pos + va) \div PageSize = pos \div PageSize + va \div PageSize
  BY <1>1, QuotientPlus, Zenon
<1>8. (pos + e) \div PageSize = pos \div PageSize + e \div PageSize
  BY <1>1, QuotientPlus, Zenon
<1>9. pos + va + n = pos + e /\ pos + va \in Nat
  BY <1>1
<1>10. LET chunk == SegmentChunk(image, i, pos)
       IN  /\ chunk.size > 0 /\ Aligned(chunk.addr) /\ Aligned(chunk.size)
           /\ PagesOf(chunk.addr, chunk.size)
                = pos \div PageSize + va \div PageSize .. pos \div PageSize + e \div PageSize
  <2>1. LET chunk == align(pos + va, n)
        IN  /\ chunk.size > 0 /\ Aligned(chunk.addr) /\ Aligned(chunk.size)
            /\ PagesOf(chunk.addr, chunk.size)
                 = (pos + va) \div PageSize .. (pos + va + n) \div PageSize
    BY <1>1, <1>9, AlignedChunk, Zenon
  <2> QED BY <2>1, <1>4, <1>7, <1>8, <1>9, Zenon
<1>11. SegmentPages(image, i, 0) = va \div PageSize .. e \div PageSize
  BY <1>1, <1>4, AlignedChunk, Zenon DEF SegmentPages
<1>12. PagesOf(pos + va, n) \subseteq SegmentPages(image, i, pos)
  <2>1. pos + va + n - 1 \in Nat /\ pos + va + n - 1 <= pos + e
    BY <1>1, <1>3
  <2>2. (pos + va + n - 1) \div PageSize <= (pos + e) \div PageSize
    BY <1>1, <2>1, QuotientOrder
  <2>3. (pos + va + n - 1) \div PageSize \in Nat
    BY <2>1, Quotient, Zenon
  <2> DEFINE last1 == (pos + va + n - 1) \div PageSize
             from == (pos + va) \div PageSize
             to == (pos + e) \div PageSize
  <2>4. PagesOf(pos + va, n) = from .. last1
    BY Zenon DEF PagesOf
  <2>5. SegmentPages(image, i, pos) = from .. to
    BY <1>7, <1>8, <1>10, Zenon DEF SegmentPages
  <2>6. from \in Int /\ to \in Int
    BY <1>5, <1>7, <1>8
  <2>7. last1 <= to /\ last1 \in Int
    BY <2>2, <2>3 DEF last1, to
  <2> HIDE DEF last1, from, to
  <2> QED BY <2>4, <2>5, <2>6, <2>7
<1> QED BY <1>5, <1>6, <1>10, <1>11, <1>12, Zenon DEF SegmentPages, va, n, e

(* No page is mapped where a reservation begins, unless it reaches the heap. *)
LEMMA AheadIsFree ==
  ASSUME MemIInv, NEW p \in Nat, p >= pos \div PageSize, p \in DOMAIN pages
  PROVE  p >= HeapMin \div PageSize
<1>1. PageSize \in Nat /\ PageSize > 0
  BY MemoryAssumption
<1> DEFINE d == pos \div PageSize
<1>2. d \in Nat /\ pos = PageSize * d
  BY Quotient, Zenon DEF MemIInv
<1>3. p >= d
  BY Zenon
<1> HIDE DEF d
<1>4. PageSize * d <= PageSize * p
  BY <1>1, <1>2, <1>3, TimesOrder
<1>5. p * PageSize = PageSize * p /\ PageSize * p \in Nat
  BY QuotientTimes, Zenon
<1>6. ~(p * PageSize < pos)
  BY <1>2, <1>4, <1>5
<1>7. p \in HeapPages
  BY <1>6, Zenon DEF MemIInv, NothingAhead
<1> QED BY <1>7, Areas, Zenon

(* Pages that lie from pos to what is reserved may be mapped. *)
LEMMA NothingAheadKeeps ==
  ASSUME MemIInv, NEW k \in Nat, pos' = pos + PageSize * k, NEW T,
         DOMAIN pages' = DOMAIN pages \cup T, T \subseteq Nat,
         \A p \in T : pos \div PageSize <= p /\ p < pos \div PageSize + k
  PROVE  /\ pos' \in Nat /\ Aligned(pos)' /\ (ModulesMin <= pos)'
         /\ NothingAhead'
<1>1. PageSize \in Nat /\ PageSize > 0
  BY MemoryAssumption
<1> DEFINE d == pos \div PageSize
<1>2. d \in Nat /\ pos = PageSize * d /\ pos \in Nat
  BY Quotient, Zenon DEF MemIInv
<1>3. ModulesMin \div PageSize <= d
  BY Areas, QuotientOrder, Zenon DEF MemIInv
<1>4. \A p \in T : d <= p /\ p < d + k
  BY Zenon
<1> HIDE DEF d
<1>5. PageSize * k \in Nat /\ PageSize * (d + k) = pos + PageSize * k
  BY <1>1, <1>2
<1>6. pos' \in Nat /\ pos' >= pos
  BY <1>2, <1>5
<1>7. Aligned(pos)'
  <2>1. PICK n \in Nat : n = d + k
    BY <1>2
  <2>2. pos' = PageSize * n
    BY <2>1, <1>5, Zenon
  <2>3. Aligned(PageSize * n)
    BY QuotientTimes, Zenon
  <2> QED BY <2>2, <2>3, Zenon DEF Aligned
<1>8. (ModulesMin <= pos)'
  BY <1>2, <1>6, Areas DEF MemIInv
<1>9. ASSUME NEW p \in T PROVE p >= ModulesMin \div PageSize /\ p * PageSize < pos'
  <2>1. p \in Nat /\ d <= p /\ p + 1 <= d + k
    BY <1>2, <1>4
  <2>2. PageSize * (p + 1) <= PageSize * (d + k)
    BY <1>1, <1>2, <2>1, TimesOrder, SMTT(30)
  <2>3. PageSize * (p + 1) = PageSize * p + PageSize /\ PageSize * p \in Nat /\ p * PageSize = PageSize * p
    BY <1>1, <2>1, TimesNext, QuotientTimes, SMTT(30)
  <2>4. p * PageSize < pos'
    BY <1>1, <1>2, <1>5, <2>2, <2>3
  <2>5. ModulesMin \div PageSize \in Nat
    BY Areas, Quotient, Zenon
  <2> QED BY <1>2, <1>3, <2>1, <2>4, <2>5, SMTT(30)
<1>10. ASSUME NEW p \in DOMAIN pages \ HeapPages
       PROVE  p >= ModulesMin \div PageSize /\ p * PageSize < pos'
  <2>1. p >= ModulesMin \div PageSize /\ p * PageSize < pos /\ p \in Nat
    BY Zenon DEF MemIInv, NothingAhead
  <2>2. p * PageSize \in Nat
    BY <2>1, QuotientTimes, Zenon
  <2> QED BY <1>2, <1>6, <2>1, <2>2
<1>11. NothingAhead'
  BY <1>9, <1>10, Zenon DEF NothingAhead, HeapPages, PagesOf
<1> QED BY <1>6, <1>7, <1>8, <1>11, Zenon

(* Mapping more pages keeps what modules have. *)
LEMMA ModulesKeep ==
  ASSUME ModulesMapped, DOMAIN pages \subseteq DOMAIN pages', modules' = modules
  PROVE  ModulesMapped'
BY ZenonT(30) DEF ModulesMapped, IsNull, LoadSegments, PagesOf

(* The segments of a library end in front of the mappings. *)
LEMMA ModulesBelow ==
  ASSUME MemIInv, NEW i \in DOMAIN modules, NEW j \in LoadSegments(modules[i].image),
         NEW p \in PagesOf(modules[i].base + modules[i].image.segments[j].va,
                           modules[i].image.segments[j].size)
  PROVE  p < MappingMin \div PageSize
<1>1. modules[i] \in Module /\ modules[i].base <= ModulesMax
  BY DEF MemIInv
<1> DEFINE image == modules[i].image
           base == modules[i].base
           va == image.segments[j].va
           n == image.segments[j].size
<1>2. image \in Images /\ base \in Nat
  BY <1>1, Zenon DEF Module
<1>3. /\ va \in Nat /\ n \in Nat /\ n > 0 /\ ModulesMax + SegmentEnd(image, j) <= HeapMax
      /\ SegmentEnd(image, j) = va + n
  <2>1. n # 0 /\ j \in DOMAIN image.segments
    BY Zenon DEF LoadSegments
  <2> QED BY <2>1, <1>2, ImageFields DEF SegmentEnd
<1>4. p \in (base + va) \div PageSize .. (base + va + n - 1) \div PageSize
  BY Zenon DEF PagesOf
<1> HIDE DEF image, base, va, n
<1>5. base + va + n - 1 \in Nat /\ base + va + n - 1 < MappingMin
  BY <1>1, <1>2, <1>3, Areas DEF base
<1> DEFINE a == base + va + n - 1
           q == a \div PageSize
           m == MappingMin \div PageSize
<1>6. a \in Nat /\ a < MappingMin
  BY <1>5, Zenon
<1> HIDE DEF a
<1>7. q \in Nat /\ PageSize * q \in Nat /\ PageSize * q <= a
  BY <1>6, Quotient, Zenon
<1>8. m \in Nat /\ MappingMin = PageSize * m
  BY Areas, Quotient, Zenon
<1>9. PageSize \in Nat
  BY MemoryAssumption, Zenon
<1> HIDE DEF q, m
<1>10. q < m
  <2>1. m <= q => PageSize * m <= PageSize * q
    BY <1>7, <1>8, <1>9, TimesOrder, SMTT(30)
  <2> QED BY <2>1, <1>6, <1>7, <1>8, Areas, SMTT(30)
<1>11. (base + va) \div PageSize \in Nat
  BY <1>2, <1>3, Quotient
<1>12. p \in (base + va) \div PageSize .. q
  BY <1>4, Zenon DEF q, a
<1>13. p < m
  BY <1>7, <1>8, <1>10, <1>11, <1>12, SMTT(30)
<1> QED BY <1>13, Zenon DEF m

(* mmap2 maps what is reserved. *)
LEMMA MmapStep ==
  ASSUME MemIInv, NEW size \in MmapSizes, NEW prot \in MmapProts, mmap(size, prot)
  PROVE  MemIInv'
<1> DEFINE chunk == reserve(size)
           k == size \div PageSize + 1
           T == PagesOf(pos, chunk.size)
<1>1. size \in Nat /\ prot \in Prot
  BY MemoryAssumption, Zenon
<1>2. pos \in Nat /\ Aligned(pos)
  BY Zenon DEF MemIInv
<1>3. /\ k \in Nat /\ chunk.addr = pos /\ chunk.size = PageSize * k
      /\ align(0, size).size = chunk.size
      /\ T = pos \div PageSize .. pos \div PageSize + size \div PageSize
  BY <1>1, <1>2, ReservedChunk, Zenon
<1>4. pos \div PageSize \in Nat /\ size \div PageSize \in Nat
  BY <1>1, <1>2, Quotient, Zenon
<1>5. pos' = pos + PageSize * k
  BY <1>3, Zenon DEF mmap, Reserves
<1>6. T \subseteq Nat /\ \A p \in T : pos \div PageSize <= p /\ p < pos \div PageSize + k
  BY <1>3, <1>4
<1>7. modules' = modules /\ (pages' = pages \/ pages' = MapPages(pages, chunk, prot))
  BY Zenon DEF mmap
<1> HIDE DEF chunk, k, T
<1>8. CASE pages' = pages
  <2> DEFINE none == {}
  <2>1. DOMAIN pages' = DOMAIN pages \cup none
    BY <1>8, Zenon
  <2>2. /\ pos' \in Nat /\ Aligned(pos)' /\ (ModulesMin <= pos)' /\ NothingAhead'
    <3>1. none \subseteq Nat /\ \A p \in none : pos \div PageSize <= p /\ p < pos \div PageSize + k
      BY Zenon
    <3> HIDE DEF none
    <3> QED BY <2>1, <3>1, <1>3, <1>5, NothingAheadKeeps, Zenon
  <2>3. ModulesMapped'
    BY <1>7, <1>8, ModulesKeep, Zenon DEF MemIInv
  <2> QED BY <1>7, <1>8, <2>2, <2>3, Zenon DEF MemIInv
<1>9. CASE pages' = MapPages(pages, chunk, prot)
  <2>1. PagesOf(chunk.addr, chunk.size) = T
    BY <1>3, Zenon DEF T
  <2>2. /\ DOMAIN pages' = DOMAIN pages \cup T
        /\ \A p \in DOMAIN pages' : pages'[p] = IF p \in DOMAIN pages THEN pages[p] ELSE prot
    BY <1>9, <2>1, Zenon DEF MapPages
  <2>3. /\ pos' \in Nat /\ Aligned(pos)' /\ (ModulesMin <= pos)' /\ NothingAhead'
    BY <2>2, <1>3, <1>5, <1>6, NothingAheadKeeps, Zenon
  <2>4. ModulesMapped'
    BY <1>7, <2>2, ModulesKeep, Zenon DEF MemIInv
  <2>5. DOMAIN pages' \subseteq Nat /\ \A p \in DOMAIN pages' : pages'[p] \in Prot
    BY <1>1, <1>6, <2>2, Zenon DEF MemIInv
  <2> QED BY <1>7, <2>3, <2>4, <2>5, Zenon DEF MemIInv
<1> QED BY <1>7, <1>8, <1>9, Zenon

(* A change of permissions maps nothing and unmaps nothing. *)
LEMMA ProtectStep ==
  ASSUME MemIInv, NEW name, NEW chunk, NEW prot \in MmapProts, NEW value,
         protect(name, chunk, prot, value)
  PROVE  MemIInv'
<1>1. prot \in Prot
  BY MemoryAssumption, Zenon
<1>2. pos' = pos /\ modules' = modules
  BY Zenon DEF protect
<1>3. DOMAIN pages' = DOMAIN pages /\ \A p \in DOMAIN pages : pages'[p] \in Prot
  <2>1. CASE pages' = pages
    BY <2>1, Zenon DEF MemIInv
  <2>2. CASE pages' = [p \in DOMAIN pages |->
                         IF p \in PagesOf(chunk.addr, chunk.size) THEN prot ELSE pages[p]]
    BY <2>2, <1>1, Zenon DEF MemIInv
  <2> QED BY <2>1, <2>2, Zenon DEF protect
<1>4. NothingAhead'
  BY <1>2, <1>3, Zenon DEF MemIInv, NothingAhead
<1>5. ModulesMapped'
  BY <1>2, <1>3, ModulesKeep, Zenon DEF MemIInv
<1>6. Aligned(pos)' /\ DOMAIN pages' \subseteq Nat
  BY <1>2, <1>3, Zenon DEF Aligned, MemIInv
<1> QED BY <1>2, <1>3, <1>4, <1>5, <1>6, Zenon DEF MemIInv

(* munmap takes pages of mappings away only. *)
LEMMA MunmapStep ==
  ASSUME MemIInv, NEW addr \in Addresses, NEW size \in MmapSizes, munmap(addr, size)
  PROVE  MemIInv'
<1>1. addr \in Nat /\ size \in Nat
  BY MemoryAssumption, Zenon
<1>2. pos' = pos /\ modules' = modules
  BY Zenon DEF munmap
<1>3. CASE pages' = pages
  BY <1>2, <1>3, Zenon DEF MemIInv, NothingAhead, ModulesMapped, Aligned, IsNull
<1>4. CASE /\ pages' = [p \in DOMAIN pages \ PagesOf(addr, size) |-> pages[p]]
           /\ addr >= MappingMin
  <2>1. DOMAIN pages' = DOMAIN pages \ PagesOf(addr, size)
        /\ \A p \in DOMAIN pages' : pages'[p] = pages[p]
    BY <1>4, Zenon
  <2>2. DOMAIN pages' \subseteq Nat /\ \A p \in DOMAIN pages' : pages'[p] \in Prot
    BY <2>1, Zenon DEF MemIInv
  <2>3. NothingAhead'
    BY <2>1, <1>2, Zenon DEF MemIInv, NothingAhead
  <2>4. ASSUME NEW p \in PagesOf(addr, size) PROVE p >= MappingMin \div PageSize
    <3>1. MappingMin \div PageSize <= addr \div PageSize
      BY <1>1, <1>4, Areas, QuotientOrder, Zenon
    <3>2. MappingMin \div PageSize \in Nat /\ addr \div PageSize \in Nat
      BY <1>1, Areas, Quotient, Zenon
    <3>3. p \in addr \div PageSize .. (addr + size - 1) \div PageSize
      BY Zenon DEF PagesOf
    <3>4. p \in Int /\ p >= addr \div PageSize
      BY <3>2, <3>3
    <3> QED BY <3>1, <3>2, <3>4
  <2>5. ModulesMapped'
    <3> SUFFICES ASSUME NEW i \in DOMAIN modules, ~IsNull(modules[i]),
                        NEW j \in LoadSegments(modules[i].image),
                        NEW p \in PagesOf(modules[i].base + modules[i].image.segments[j].va,
                                          modules[i].image.segments[j].size)
                 PROVE  p \in DOMAIN pages'
      BY <1>2, Zenon DEF ModulesMapped, IsNull
    <3>1. p \in DOMAIN pages
      BY Zenon DEF ModulesMapped, MemIInv
    <3>2. p < MappingMin \div PageSize
      BY ModulesBelow, Zenon
    <3>3. p \in Nat /\ MappingMin \div PageSize \in Nat
      BY <3>1, Areas, Quotient, Zenon DEF MemIInv
    <3>4. ~(p >= MappingMin \div PageSize)
      BY <3>2, <3>3
    <3> QED BY <3>1, <3>4, <2>1, <2>4, Zenon
  <2>6. Aligned(pos)'
    BY <1>2, Zenon DEF Aligned, MemIInv
  <2> QED BY <1>2, <2>2, <2>3, <2>5, <2>6, Zenon DEF MemIInv
<1> QED BY <1>3, <1>4, Zenon DEF munmap

(* The segments that are mapped, all of the library or its first ones, lie in
   what is reserved for it. *)
LEMMA WrittenPages ==
  ASSUME MemIInv, NEW image \in Images
  PROVE  LET done == writeSegmentsToMemory(image, pos)
             T == DOMAIN done.table \ DOMAIN pages
         IN  /\ DOMAIN done.table = DOMAIN pages \cup T /\ T \subseteq Nat
             /\ \A p \in T : /\ pos \div PageSize <= p
                             /\ p < pos \div PageSize + (ModuleSize(image) \div PageSize + 1)
             /\ \A p \in DOMAIN done.table : done.table[p] \in Prot
             /\ done.ok => \A i \in LoadSegments(image) :
                             SegmentPages(image, i, pos) \subseteq DOMAIN done.table
<1> DEFINE L == LoadSegments(image)
           mapped == {i \in L : \A j \in L : j <= i => ~Refused(image, j, pos)}
           Of(p) == CHOOSE i \in mapped : p \in SegmentPages(image, i, pos)
           U == UNION {SegmentPages(image, i, pos) : i \in mapped}
           done == writeSegmentsToMemory(image, pos)
           T == DOMAIN done.table \ DOMAIN pages
<1>1. /\ done.ok = (mapped = L)
      /\ DOMAIN done.table = DOMAIN pages \cup U
      /\ \A p \in DOMAIN pages \cup U :
           done.table[p] = IF p \in DOMAIN pages THEN pages[p]
                           ELSE get_segment_protection(image.segments[Of(p)].flags)
  BY Zenon DEF writeSegmentsToMemory
<1>2. \A flags : get_segment_protection(flags) \in Prot
  BY Zenon DEF get_segment_protection, Prot
<1>3. pos \in Nat /\ Aligned(pos)
  BY Zenon DEF MemIInv
<1>4. ModuleSize(image) \div PageSize \in Nat /\ pos \div PageSize \in Nat
  BY <1>3, ModuleSizeBounds, Quotient, Zenon
<1>5. ASSUME NEW i \in L, NEW p \in SegmentPages(image, i, pos)
      PROVE  /\ p \in Nat /\ pos \div PageSize <= p
             /\ p < pos \div PageSize + (ModuleSize(image) \div PageSize + 1)
  <2> DEFINE d == pos \div PageSize
             a == image.segments[i].va \div PageSize
             b == SegmentEnd(image, i) \div PageSize
             m == ModuleSize(image) \div PageSize
  <2>1. d \in Nat /\ a \in Nat /\ b \in Nat /\ p \in d + a .. d + b /\ b <= m
    BY <1>3, SegmentAt, Zenon
  <2>2. m \in Nat
    BY <1>4, Zenon
  <2> HIDE DEF d, a, b, m
  <2>3. p \in Nat /\ d <= p /\ p < d + (m + 1)
    BY <2>1, <2>2
  <2> QED BY <2>3, Zenon DEF d, m
<1> HIDE DEF done
<1>6. T \subseteq U
  BY <1>1, Zenon
<1>7. \A p \in U : \E i \in L : p \in SegmentPages(image, i, pos)
  BY Zenon
<1>8. \A p \in DOMAIN done.table : done.table[p] \in Prot
  BY <1>1, <1>2, Zenon DEF MemIInv
<1>9. done.ok => \A i \in L : SegmentPages(image, i, pos) \subseteq DOMAIN done.table
  <2> SUFFICES ASSUME mapped = L, NEW i \in L
               PROVE  SegmentPages(image, i, pos) \subseteq U
    BY <1>1, Zenon
  <2> QED BY Zenon
<1>10. DOMAIN done.table = DOMAIN pages \cup T
  BY <1>1, Zenon
<1> HIDE DEF U, T
<1>11. T \subseteq Nat /\ \A p \in T : /\ pos \div PageSize <= p
                                       /\ p < pos \div PageSize + (ModuleSize(image) \div PageSize + 1)
  BY <1>5, <1>6, <1>7, Zenon
<1> QED BY <1>8, <1>9, <1>10, <1>11, Zenon DEF T, done

(* loadLibrary reserves, maps as many segments as it can and adds the module
   when these are all. *)
LEMMA LoadStep ==
  ASSUME MemIInv, NEW image \in Images, loadLibrary(image)
  PROVE  MemIInv'
<1> DEFINE n == ModuleSize(image)
           k == n \div PageSize + 1
           done == writeSegmentsToMemory(image, pos)
           T == DOMAIN done.table \ DOMAIN pages
<1>1. n \in Nat /\ pos \in Nat /\ Aligned(pos)
  BY ModuleSizeBounds, Zenon DEF MemIInv
<1>2. /\ k \in Nat /\ reserve(n).addr = pos /\ align(0, n).size = PageSize * k
  BY <1>1, ReservedChunk, Zenon
<1>3. pos' = pos + PageSize * k
  BY <1>2, Zenon DEF loadLibrary, Reserves
<1>4. /\ DOMAIN done.table = DOMAIN pages \cup T /\ T \subseteq Nat
      /\ \A p \in T : pos \div PageSize <= p /\ p < pos \div PageSize + k
      /\ \A p \in DOMAIN done.table : done.table[p] \in Prot
      /\ done.ok => \A i \in LoadSegments(image) :
                      SegmentPages(image, i, pos) \subseteq DOMAIN done.table
  BY WrittenPages, Zenon
<1>5. \/ pages' = pages /\ modules' = modules
      \/ pages' = done.table /\ modules' = modules
      \/ /\ done.ok /\ ~OutOfSpace /\ pages' = done.table
         /\ modules' = Append(modules, [image |-> image, base |-> pos,
                                        syms |-> resloveDynSymbols(image)])
  BY <1>2, Zenon DEF loadLibrary
<1> HIDE DEF n, k, done, T
<1>6. CASE pages' = pages /\ modules' = modules
  <2> DEFINE none == {}
  <2>1. DOMAIN pages' = DOMAIN pages \cup none
    BY <1>6, Zenon
  <2>2. /\ pos' \in Nat /\ Aligned(pos)' /\ (ModulesMin <= pos)' /\ NothingAhead'
    <3>1. none \subseteq Nat /\ \A p \in none : pos \div PageSize <= p /\ p < pos \div PageSize + k
      BY Zenon
    <3> HIDE DEF none
    <3> QED BY <2>1, <3>1, <1>2, <1>3, NothingAheadKeeps, Zenon
  <2>3. ModulesMapped'
    BY <1>6, ModulesKeep, Zenon DEF MemIInv
  <2> QED BY <1>6, <2>2, <2>3, Zenon DEF MemIInv
<1>7. CASE pages' = done.table
  <2>1. DOMAIN pages' = DOMAIN pages \cup T
    BY <1>4, <1>7, Zenon
  <2>2. /\ pos' \in Nat /\ Aligned(pos)' /\ (ModulesMin <= pos)' /\ NothingAhead'
    BY <2>1, <1>2, <1>3, <1>4, NothingAheadKeeps, Zenon
  <2>3. DOMAIN pages' \subseteq Nat /\ \A p \in DOMAIN pages' : pages'[p] \in Prot
    BY <2>1, <1>4, <1>7, Zenon DEF MemIInv
  <2>4. CASE modules' = modules
    <3>1. ModulesMapped'
      BY <2>1, <2>4, ModulesKeep, Zenon DEF MemIInv
    <3> QED BY <2>2, <2>3, <2>4, <3>1, Zenon DEF MemIInv
  <2>5. CASE /\ done.ok /\ ~OutOfSpace
             /\ modules' = Append(modules, [image |-> image, base |-> pos,
                                            syms |-> resloveDynSymbols(image)])
    <3> DEFINE new == [image |-> image, base |-> pos, syms |-> resloveDynSymbols(image)]
    <3>1. new \in Module /\ new.image = image /\ new.base = pos
      <4>1. resloveDynSymbols(image) \in SUBSET SymbolNames
        BY Zenon DEF resloveDynSymbols, SymbolNames
      <4> QED BY <4>1, <1>1, Zenon DEF Module
    <3>2. pos <= ModulesMax
      BY <2>5, <1>1, Areas DEF OutOfSpace
    <3>3. modules \in Seq(Module)
      BY Zenon DEF MemIInv
    <3>4. /\ modules' \in Seq(Module)
          /\ \A i \in DOMAIN modules' : IF i \in DOMAIN modules THEN modules'[i] = modules[i]
                                        ELSE modules'[i] = new
      <4> HIDE DEF new
      <4> QED BY <2>5, <3>1, <3>3 DEF new
    <3>5. \A i \in DOMAIN modules' : modules'[i].base <= ModulesMax
      BY <3>1, <3>2, <3>4, Zenon DEF MemIInv
    <3>6. ModulesMapped'
      <4> SUFFICES ASSUME NEW i \in DOMAIN modules', ~IsNull(modules'[i]),
                          NEW j \in LoadSegments(modules'[i].image)
                   PROVE  PagesOf(modules'[i].base + modules'[i].image.segments[j].va,
                                  modules'[i].image.segments[j].size) \subseteq DOMAIN pages'
        BY Zenon DEF ModulesMapped, IsNull, LoadSegments, PagesOf
      <4>1. CASE i \in DOMAIN modules
        <5>1. modules'[i] = modules[i]
          BY <3>4, <4>1, Zenon
        <5>2. PagesOf(modules[i].base + modules[i].image.segments[j].va,
                      modules[i].image.segments[j].size) \subseteq DOMAIN pages
          BY <4>1, <5>1, Zenon DEF MemIInv, ModulesMapped
        <5> QED BY <5>1, <5>2, <2>1, Zenon
      <4>2. CASE i \notin DOMAIN modules
        <5>1. modules'[i].image = image /\ modules'[i].base = pos
          BY <3>1, <3>4, <4>2, Zenon
        <5>2. j \in LoadSegments(image)
          BY <5>1, Zenon
        <5>3. SegmentPages(image, j, pos) \subseteq DOMAIN pages'
          BY <5>2, <1>4, <1>7, <2>5, Zenon
        <5>4. PagesOf(pos + image.segments[j].va, image.segments[j].size)
                \subseteq SegmentPages(image, j, pos)
          BY <5>2, <1>1, SegmentAt, Zenon
        <5>5. PagesOf(pos + image.segments[j].va, image.segments[j].size) \subseteq DOMAIN pages'
          BY <5>3, <5>4, Zenon
        <5> QED BY <5>1, <5>5, Zenon
      <4> QED BY <4>1, <4>2, Zenon
    <3> QED BY <2>2, <2>3, <3>4, <3>5, <3>6, Zenon DEF MemIInv
  <2> QED BY <1>5, <1>7, <2>4, <2>5, <1>6, Zenon
<1> QED BY <1>5, <1>6, <1>7, Zenon

(* A file that is not a shared library gets an entry and no memory. *)
LEMMA LoadNotSharedStep ==
  ASSUME MemIInv, NEW image \in Images, loadNotShared(image)
  PROVE  MemIInv'
<1> DEFINE new == [image |-> image, base |-> 0, syms |-> {}]
<1>1. pages' = pages /\ pos' = pos /\ modules' = Append(modules, new) /\ ~image.shared
  BY Zenon DEF loadNotShared
<1>2. new \in Module /\ new.image = image /\ new.base <= ModulesMax
  BY Areas DEF Module
<1> HIDE DEF new
<1>3. modules \in Seq(Module)
  BY Zenon DEF MemIInv
<1>4. /\ modules' \in Seq(Module)
      /\ \A i \in DOMAIN modules' : IF i \in DOMAIN modules THEN modules'[i] = modules[i]
                                    ELSE modules'[i] = new
  BY <1>1, <1>2, <1>3
<1>5. \A i \in DOMAIN modules' : modules'[i].base <= ModulesMax
  BY <1>2, <1>4, Zenon DEF MemIInv
<1>6. ModulesMapped'
  <2> SUFFICES ASSUME NEW i \in DOMAIN modules', ~IsNull(modules'[i]),
                      NEW j \in LoadSegments(modules'[i].image)
               PROVE  PagesOf(modules'[i].base + modules'[i].image.segments[j].va,
                              modules'[i].image.segments[j].size) \subseteq DOMAIN pages'
    BY Zenon DEF ModulesMapped, IsNull, LoadSegments, PagesOf
  <2>1. i \in DOMAIN modules /\ modules'[i] = modules[i]
    BY <1>1, <1>2, <1>4, Zenon DEF IsNull
  <2> QED BY <2>1, <1>1, Zenon DEF MemIInv, ModulesMapped
<1>7. NothingAhead' /\ Aligned(pos)'
  BY <1>1, Zenon DEF MemIInv, NothingAhead, Aligned
<1> QED BY <1>1, <1>4, <1>5, <1>6, <1>7, Zenon DEF MemIInv

(* MemIInv is inductive. *)
LEMMA MemStep ==
  ASSUME MemIInv, [MemNext]_memVars PROVE MemIInv'
<1>1. CASE \E size \in MmapSizes, prot \in MmapProts : mmap(size, prot)
  BY <1>1, MmapStep, Zenon
<1>2. CASE \/ \E addr \in Addresses, size \in MmapSizes, prot \in MmapProts :
                mmapFixed(addr, size, prot) \/ mprotect(addr, size, prot)
  <2>1. PICK addr \in Addresses, size \in MmapSizes, prot \in MmapProts :
               mmapFixed(addr, size, prot) \/ mprotect(addr, size, prot)
    BY <1>2, Zenon
  <2>2. CASE UNCHANGED <<pages, pos, modules>>
    BY <2>2, Zenon DEF MemIInv, NothingAhead, ModulesMapped, Aligned, IsNull
  <2>3. CASE protect("fixed", align(addr, size), prot, addr)
    BY <2>3, ProtectStep, Zenon
  <2>4. CASE protect("mprotect", align(addr, size), prot, 0)
    BY <2>4, ProtectStep, Zenon
  <2> QED BY <2>1, <2>2, <2>3, <2>4, Zenon DEF mmapFixed, mprotect
<1>3. CASE \E addr \in Addresses, size \in MmapSizes : munmap(addr, size)
  BY <1>3, MunmapStep, Zenon
<1>4. CASE \E image \in Images : Len(modules) < MaxModules /\ loadNotShared(image)
  BY <1>4, LoadNotSharedStep, Zenon
<1>5. CASE \E image \in Images : Len(modules) < MaxModules /\ loadLibrary(image)
  BY <1>5, LoadStep, Zenon
<1>6. CASE UNCHANGED memVars
  BY <1>6, Zenon DEF memVars, MemIInv, NothingAhead, ModulesMapped, Aligned, IsNull
<1> QED BY <1>1, <1>2, <1>3, <1>4, <1>5, <1>6, Zenon DEF MemNext

(* For every layout of the address space, every page size, all sizes, addresses
   and libraries, MemIInv holds throughout. *)
THEOREM MemInvariant == MemSpec => []MemIInv
<1>1. MemInit => MemIInv
  <2> SUFFICES ASSUME MemInit PROVE MemIInv
    BY Zenon
  <2>1. pages = [p \in HeapPages |-> {"r", "w"}] /\ pos = ModulesMin /\ modules = <<>>
    BY Zenon DEF MemInit, HeapPages
  <2>2. DOMAIN pages = HeapPages /\ \A p \in DOMAIN pages : pages[p] = {"r", "w"}
    BY <2>1, Zenon
  <2>3. {"r", "w"} \in Prot
    BY Zenon DEF Prot
  <2>4. DOMAIN pages \subseteq Nat /\ \A p \in DOMAIN pages : pages[p] \in Prot
    BY <2>2, <2>3, Areas, Zenon
  <2>5. pos \in Nat /\ Aligned(pos) /\ ModulesMin <= pos
    BY <2>1, Areas
  <2>6. modules \in Seq(Module) /\ DOMAIN modules = {}
    BY <2>1
  <2>7. NothingAhead
    BY <2>2, Zenon DEF NothingAhead
  <2> QED BY <2>4, <2>5, <2>6, <2>7, Zenon DEF MemIInv, ModulesMapped
<1>2. MemIInv /\ [MemNext]_memVars => MemIInv'
  BY MemStep, Zenon
<1> QED BY <1>1, <1>2, PTL DEF MemSpec

(* Nothing is mapped ahead of what reserve hands out next but the heap, and the
   segments of every library that was loaded stay mapped, whatever mmap2,
   mprotect, munmap and later loads do and wherever a load fails
   (IncrementalAllocator.reserve, Modules.writeSegmentsToMemory). *)
THEOREM MemSafe == MemSpec => []MemInv
<1>1. MemIInv => MemInv
  <2> SUFFICES ASSUME MemIInv PROVE MemInv
    BY Zenon
  <2>1. \A i \in DOMAIN modules : modules[i].image \in Images /\ modules[i].base \in Nat
    <3>1. modules \in Seq(Module)
      BY Zenon DEF MemIInv
    <3>2. \A i \in DOMAIN modules : modules[i] \in Module
      BY <3>1
    <3> QED BY <3>2, Zenon DEF Module
  <2> QED BY <2>1, Zenon DEF MemIInv, MemInv, MemTypeOK
<1> QED BY <1>1, MemInvariant, PTL

(* A reservation that ends in front of the heap is for pages that are not
   mapped. *)
LEMMA ReservedIsFree ==
  ASSUME MemIInv, NEW k \in Nat, pos + PageSize * k <= HeapMin,
         NEW p \in Nat, p >= pos \div PageSize, p < pos \div PageSize + k
  PROVE  p \notin DOMAIN pages
<1>1. PageSize \in Nat /\ PageSize > 0
  BY MemoryAssumption
<1> DEFINE d == pos \div PageSize
           h == HeapMin \div PageSize
<1>2. d \in Nat /\ pos = PageSize * d
  BY Quotient, Zenon DEF MemIInv
<1>3. h \in Nat /\ HeapMin = PageSize * h
  BY Areas, Quotient, Zenon
<1>4. p >= d /\ p < d + k
  BY Zenon
<1>5. p \in DOMAIN pages => p >= h
  BY AheadIsFree, Zenon
<1> HIDE DEF d, h
<1>6. PageSize * (d + k) = pos + PageSize * k /\ PageSize * (d + k) \in Nat
  BY <1>1, <1>2
<1>7. d + k <= h
  <2>1. h + 1 <= d + k => PageSize * (h + 1) <= PageSize * (d + k)
    BY <1>1, <1>2, <1>3, TimesOrder, SMTT(30)
  <2>2. PageSize * (h + 1) = PageSize * h + PageSize
    BY <1>1, <1>3, TimesNext
  <2>3. ~(PageSize * (h + 1) <= PageSize * (d + k))
    BY <2>2, <1>1, <1>3, <1>6, Areas
  <2> QED BY <2>1, <2>3, <1>2, <1>3, SMTT(30)
<1> QED BY <1>2, <1>3, <1>4, <1>5, <1>7, SMTT(30)

(* mmap2 is served for as long as there is room in front of the heap, whatever
   was mapped, loaded or failed before, if no null module keeps errno from being
   found (Handler.mmap2). *)
THEOREM MemMmapServed == MemSpec => MmapServed
<1> DEFINE Served(size) ==
      /\ ~last'.threw
      /\ LET asked == last'.ret \div PageSize .. (last'.ret + size) \div PageSize
         IN  asked \subseteq DOMAIN pages' /\ asked \cap DOMAIN pages = {}
<1>1. ASSUME MemIInv, NEW size \in MmapSizes, NEW prot \in MmapProts,
             mmap(size, prot), pos <= ModulesMax, pos' <= HeapMin, ~LookupThrows("__errno")
      PROVE  Served(size)
  <2> DEFINE chunk == reserve(size)
             k == size \div PageSize + 1
             T == PagesOf(pos, chunk.size)
  <2>1. size \in Nat
    BY MemoryAssumption, Zenon
  <2>2. pos \in Nat /\ Aligned(pos)
    BY <1>1, Zenon DEF MemIInv
  <2>3. /\ k \in Nat /\ chunk.addr = pos /\ chunk.size = PageSize * k
        /\ chunk.size \in Nat /\ chunk.size > size /\ Aligned(chunk.size)
        /\ align(0, size).size = chunk.size
        /\ T = pos \div PageSize .. pos \div PageSize + size \div PageSize
    BY <2>1, <2>2, ReservedChunk, Zenon
  <2>4. pos \div PageSize \in Nat /\ size \div PageSize \in Nat
    BY <2>1, <2>2, Quotient, Zenon
  <2>5. pos + PageSize * k <= HeapMin
    BY <1>1, <2>3, Zenon DEF mmap, Reserves
  <2>6. T \cap DOMAIN pages = {}
    <3> SUFFICES ASSUME NEW p \in T PROVE p \notin DOMAIN pages
      BY Zenon
    <3>1. p \in Nat /\ p >= pos \div PageSize /\ p < pos \div PageSize + k
      BY <2>3, <2>4
    <3> QED BY <3>1, <1>1, <2>3, <2>5, ReservedIsFree, Zenon
  <2>7. CanMap(pages, chunk)
    <3>1. chunk.size > 0
      BY <2>1, <2>3
    <3> QED BY <3>1, <2>2, <2>3, <2>6, Zenon DEF CanMap
  <2>8. ~OutOfSpace
    BY <1>1, <2>2, Areas DEF OutOfSpace
  <2>9. pages' = MapPages(pages, chunk, prot) /\ last' = [call |-> "mmap2", ret |-> chunk.addr, threw |-> FALSE]
    BY <1>1, <2>7, <2>8, Zenon DEF mmap, Ends
  <2>10. last'.ret = pos /\ ~last'.threw
    BY <2>3, <2>9, Zenon
  <2>11. DOMAIN pages' = DOMAIN pages \cup T
    <3>1. PagesOf(chunk.addr, chunk.size) = T
      BY <2>3, Zenon
    <3> QED BY <3>1, <2>9, Zenon DEF MapPages
  <2>12. (pos + size) \div PageSize = pos \div PageSize + size \div PageSize
    BY <2>1, <2>2, QuotientPlus, Zenon
  <2>13. last'.ret \div PageSize .. (last'.ret + size) \div PageSize = T
    BY <2>3, <2>10, <2>12, Zenon
  <2> QED BY <2>6, <2>10, <2>11, <2>13, Zenon
<1>2. MemIInv => [\A size \in MmapSizes, prot \in MmapProts :
                    mmap(size, prot) /\ pos <= ModulesMax /\ pos' <= HeapMin /\ ~LookupThrows("__errno")
                      => Served(size)]_memVars
  BY <1>1, Zenon
<1> QED BY <1>2, MemInvariant, PTL DEF MmapServed

(* A library for which there is room in front of the heap is loaded, whatever was
   mapped, loaded or failed before, unless the pages align gives to two of its
   segments meet (Modules.writeSegmentsToMemory) or a null module keeps a name it
   refers to from being found (Modules.lookupSymbol). *)
THEOREM MemLoadsBySegments == MemSpec => LoadsBySegments
<1>1. ASSUME MemIInv, NEW image \in Images, loadLibrary(image),
             pos <= ModulesMax, pos' <= HeapMin, ~ResolveThrows(image),
             \A i, j \in LoadSegments(image) :
               i # j => SegmentPages(image, i, 0) \cap SegmentPages(image, j, 0) = {}
      PROVE  ~last'.threw
  <2> DEFINE n == ModuleSize(image)
             k == n \div PageSize + 1
             d == pos \div PageSize
             L == LoadSegments(image)
  <2>1. n \in Nat /\ pos \in Nat /\ Aligned(pos)
    BY <1>1, ModuleSizeBounds, Zenon DEF MemIInv
  <2>2. k \in Nat /\ reserve(n).addr = pos /\ align(0, n).size = PageSize * k
    BY <2>1, ReservedChunk, Zenon
  <2>3. pos + PageSize * k <= HeapMin
    BY <1>1, <2>2, Zenon DEF loadLibrary, Reserves
  <2>4. d \in Nat /\ n \div PageSize \in Nat
    BY <2>1, Quotient, Zenon
  <2>5. ASSUME NEW i \in L PROVE CanMap(pages, SegmentChunk(image, i, pos))
    <3> DEFINE a == image.segments[i].va \div PageSize
               b == SegmentEnd(image, i) \div PageSize
               chunk == SegmentChunk(image, i, pos)
    <3>1. /\ a \in Nat /\ b \in Nat /\ SegmentPages(image, i, pos) = d + a .. d + b
          /\ b <= n \div PageSize
          /\ chunk.size > 0 /\ Aligned(chunk.addr) /\ Aligned(chunk.size)
      BY <1>1, <2>1, SegmentAt, Zenon
    <3>2. SegmentPages(image, i, pos) \cap DOMAIN pages = {}
      <4> SUFFICES ASSUME NEW p \in SegmentPages(image, i, pos) PROVE p \notin DOMAIN pages
        BY Zenon
      <4> HIDE DEF a, b, d
      <4>1. p \in Nat /\ p >= d /\ p < d + k
        BY <3>1, <2>4
      <4> QED BY <4>1, <1>1, <2>2, <2>3, ReservedIsFree, Zenon DEF d
    <3> QED BY <3>1, <3>2, Zenon DEF CanMap, SegmentPages
  <2>6. ASSUME NEW i \in L, NEW j \in L, j < i
        PROVE  SegmentPages(image, j, pos) \cap SegmentPages(image, i, pos) = {}
    <3> DEFINE a(x) == image.segments[x].va \div PageSize
               b(x) == SegmentEnd(image, x) \div PageSize
    <3>1. /\ a(i) \in Nat /\ b(i) \in Nat /\ SegmentPages(image, i, pos) = d + a(i) .. d + b(i)
          /\ SegmentPages(image, i, 0) = a(i) .. b(i)
      BY <1>1, <2>1, SegmentAt, Zenon
    <3>2. /\ a(j) \in Nat /\ b(j) \in Nat /\ SegmentPages(image, j, pos) = d + a(j) .. d + b(j)
          /\ SegmentPages(image, j, 0) = a(j) .. b(j)
      BY <1>1, <2>1, SegmentAt, Zenon
    <3>3. i # j
      BY <2>6, ImageFields DEF LoadSegments
    <3>4. SegmentPages(image, j, 0) \cap SegmentPages(image, i, 0) = {}
      BY <3>3, <1>1, Zenon
    <3> SUFFICES ASSUME NEW p \in SegmentPages(image, j, pos), p \in SegmentPages(image, i, pos)
                 PROVE  FALSE
      BY Zenon
    <3> HIDE DEF a, b, d
    <3>5. p - d \in a(i) .. b(i) /\ p - d \in a(j) .. b(j)
      BY <3>1, <3>2, <2>4, SMTT(30)
    <3> QED BY <3>1, <3>2, <3>4, <3>5, Zenon
  <2>7. \A i \in L : ~Refused(image, i, pos)
    BY <2>5, <2>6, Zenon DEF Refused
  <2>8. writeSegmentsToMemory(image, pos).ok
    BY <2>7, Zenon DEF writeSegmentsToMemory
  <2>9. ~OutOfSpace
    BY <1>1, <2>1, Areas DEF OutOfSpace
  <2>10. last' = [call |-> "load", ret |-> reserve(n).addr, threw |-> FALSE]
    BY <1>1, <2>2, <2>8, <2>9, Zenon DEF loadLibrary, Ends
  <2> QED BY <2>10, Zenon
<1>2. MemIInv => [\A image \in Images :
                    /\ loadLibrary(image) /\ pos <= ModulesMax /\ pos' <= HeapMin
                    /\ ~ResolveThrows(image)
                    /\ \A i, j \in LoadSegments(image) :
                         i # j => SegmentPages(image, i, 0) \cap SegmentPages(image, j, 0) = {}
                    => ~last'.threw]_memVars
  BY <1>1, Zenon
<1> QED BY <1>2, MemInvariant, PTL DEF LoadsBySegments
=============================================================================
