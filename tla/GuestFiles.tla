----------------------------- MODULE GuestFiles -----------------------------
(***************************************************************************)
(* The descriptors of native code: vfs/VirtualFileSystem.java and          *)
(* vfs/VirtualFile.java, under the dispatch of                             *)
(* cenv/syscall/SyscallHandler.java.                                       *)
(*                                                                         *)
(* A file is its number of bytes.  A handler that throws stops the         *)
(* emulation: the host is back in control and may start the next call.     *)
(* The calls that only ask (access, stat64, fstat64, fstatat64) change     *)
(* nothing and are left out.                                               *)
(***************************************************************************)
EXTENDS Integers, FiniteSets

CONSTANTS
  Names,        \* the paths native code opens
  Urandom,      \* "/dev/urandom"
  NoDirectory,  \* the paths whose directory does not exist below the root
  Counts,       \* the byte counts of read and writev
  Descriptors,  \* the numbers native code passes as descriptors
  MaxFd         \* bound on the descriptors in use

Std == {"stdin", "stdout", "stderr"}

ASSUME FilesAssumption ==
  /\ Urandom \in Names /\ NoDirectory \subseteq Names /\ Names \cap Std = {}
  /\ Counts \subseteq Nat /\ Descriptors \subseteq Nat
  /\ MaxFd \in Nat /\ MaxFd >= 2

VARIABLES
  files,     \* VirtualFileSystem.files: a name and a stream for each descriptor
  host,      \* the files of the host: the size of each, or Missing
  running,   \* native code is running
  ret        \* what the last system call returned

fileVars == <<files, host>>
filesVars == <<files, host, running, ret>>

Missing == -1
NoStream == [at |-> -1, unlinked |-> Missing]

Returns(value) == running /\ ret' = value /\ UNCHANGED running

Throws == running /\ running' = FALSE /\ UNCHANGED ret

FilesInit ==
  /\ files = [fd \in 0 .. 2 |->
       [name |-> CASE fd = 0 -> "stdin" [] fd = 1 -> "stdout" [] fd = 2 -> "stderr",
        stream |-> NoStream]]
  /\ host \in [Names \cup Std -> {Missing, 1}]
  /\ \A name \in Std \cup NoDirectory : host[name] = Missing
  /\ running = TRUE /\ ret = 0

-----------------------------------------------------------------------------
(* Descriptors *)

(* A variant of nextFd that counts the open descriptors. *)
NextFdByCount == Cardinality(DOMAIN files)

(* nextFd: the lowest number from 3 on that is not in use. *)
nextFd ==
  CHOOSE fd \in 3 .. 3 + Cardinality(DOMAIN files) :
    fd \notin DOMAIN files /\ \A other \in 3 .. fd - 1 : other \in DOMAIN files

(* VirtualFile.create deletes the file; streams on it keep the deleted one. *)
Unlink(table, name) ==
  [fd \in DOMAIN table |->
     IF /\ table[fd].name = name /\ table[fd].stream # NoStream
        /\ table[fd].stream.unlinked = Missing /\ host[name] # Missing
       THEN [table[fd] EXCEPT !.stream.unlinked = host[name]]
       ELSE table[fd]]

(* The descriptor is in the table before create can fail.  O_CREAT is looked
   for in the address of the path, so whether it is set says nothing about
   the flags native code passed. *)
openat(name, creat) ==
  LET fd    == nextFd
      table == [d \in DOMAIN files \cup {fd} |->
                  IF d = fd THEN [name |-> name, stream |-> NoStream] ELSE files[d]]
  IN  /\ fd <= MaxFd
      /\ \/ /\ ~creat \/ name = Urandom
            /\ files' = table /\ UNCHANGED host
            /\ Returns(fd)
         \/ /\ creat /\ name # Urandom /\ name \notin NoDirectory
            /\ files' = Unlink(table, name)
            /\ host' = [host EXCEPT ![name] = 0]
            /\ Returns(fd)
         \/ /\ creat /\ name # Urandom /\ name \in NoDirectory
            /\ files' = table /\ UNCHANGED host
            /\ Throws

close(fd) ==
  /\ files' = [d \in DOMAIN files \ {fd} |-> files[d]]
  /\ Returns(0) /\ UNCHANGED host

(* What FileInputStream.read returns: -1 at the end of the file. *)
BytesRead(at, size, count) ==
  CASE count = 0 -> 0
    [] count > 0 /\ at >= size -> -1
    [] count > 0 /\ at < size -> IF count < size - at THEN count ELSE size - at

(* A variant of ReadFile that adds the -1 of the end to the position. *)
ReadCountsEnd(fd, count, mapped) ==
  LET file == files[fd]
      at   == IF file.stream = NoStream THEN 0 ELSE file.stream.at
      size == IF file.stream.unlinked # Missing THEN file.stream.unlinked ELSE host[file.name]
      n    == BytesRead(at, size, count)
  IN  /\ host[file.name] # Missing
      /\ files' = [files EXCEPT ![fd].stream.at = at + n]
      /\ Returns(n)

(* A variant of ReadFile that opens a file that is not there. *)
ReadMissing(fd, count, mapped) ==
  /\ files' = [files EXCEPT ![fd].stream.at = 0]
  /\ Returns(0)

(* The stream of a descriptor is opened by its first read, and has moved on
   when writing to the guest's buffer fails. *)
ReadFile(fd, count, mapped) ==
  LET file  == files[fd]
      first == file.stream = NoStream
      at    == IF first THEN 0 ELSE file.stream.at
      size  == IF file.stream.unlinked # Missing THEN file.stream.unlinked ELSE host[file.name]
      n     == BytesRead(at, size, count)
      moved == [files EXCEPT ![fd].stream =
                  [at |-> IF n > 0 THEN at + n ELSE at, unlinked |-> file.stream.unlinked]]
  IN  \/ first /\ host[file.name] = Missing /\ Throws /\ UNCHANGED files
      \/ /\ ~(first /\ host[file.name] = Missing)
         /\ files' = moved
         /\ IF n > 0 /\ ~mapped THEN Throws ELSE Returns(n)

read(fd, count, mapped) ==
  /\ \/ fd <= 2 /\ Throws /\ UNCHANGED files
     \/ fd > 2 /\ fd \notin DOMAIN files /\ Returns(-1) /\ UNCHANGED files
     \/ /\ fd > 2 /\ fd \in DOMAIN files /\ files[fd].name = Urandom
        /\ Returns(0) /\ UNCHANGED files
     \/ /\ fd > 2 /\ fd \in DOMAIN files /\ files[fd].name # Urandom
        /\ ReadFile(fd, count, mapped)
  /\ UNCHANGED host

(* writev empties the file, then writes; its own failures are swallowed. *)
writev(fd, count, mapped) ==
  /\ \/ fd \notin DOMAIN files /\ Returns(-1) /\ UNCHANGED host
     \/ /\ fd \in DOMAIN files /\ files[fd].name \in NoDirectory
        /\ Returns(0) /\ UNCHANGED host
     \/ /\ fd \in DOMAIN files /\ files[fd].name \notin NoDirectory
        /\ host' = [host EXCEPT ![files[fd].name] = IF mapped THEN count ELSE 0]
        /\ Returns(0)
  /\ UNCHANGED files

-----------------------------------------------------------------------------
FilesNext ==
  \/ \E name \in Names, creat \in BOOLEAN : openat(name, creat)
  \/ \E fd \in Descriptors : close(fd)
  \/ \E fd \in Descriptors, count \in Counts, mapped \in BOOLEAN : read(fd, count, mapped)
  \/ \E fd \in Descriptors, count \in Counts, mapped \in BOOLEAN : writev(fd, count, mapped)

(* The host starts the next native call; the descriptors are still there. *)
NextCall == ~running /\ running' = TRUE /\ UNCHANGED <<files, host, ret>>

FilesSpec == FilesInit /\ [][FilesNext \/ NextCall]_filesVars

-----------------------------------------------------------------------------
(* Every descriptor has a name and a stream, every file a size. *)
FilesTypeOK ==
  /\ DOMAIN files \subseteq 0 .. MaxFd
  /\ \A fd \in DOMAIN files :
       /\ files[fd].name \in Names \cup Std
       /\ files[fd].stream \in [at : Nat \cup {-1}, unlinked : Nat \cup {Missing}]
  /\ host \in [Names \cup Std -> Nat \cup {Missing}]
  /\ running \in BOOLEAN /\ ret \in Int

(* An open descriptor goes on standing for the file it was opened on, whatever
   is opened, created or closed meanwhile: it ends with its own close
   only. *)
DescriptorsKept ==
  [][\A fd \in DOMAIN files :
       \/ fd \in DOMAIN files' /\ files'[fd].name = files[fd].name
       \/ fd \notin DOMAIN files' /\ close(fd)]_filesVars

(* A stream never goes back and never changes from a deleted file to the new
   one of the same name: two descriptors of one file, and a writer that
   recreates it, do not disturb each other's position. *)
StreamsAdvance ==
  [][\A fd \in DOMAIN files \cap DOMAIN files' :
       files[fd].stream # NoStream =>
         /\ files'[fd].stream.at >= files[fd].stream.at
         /\ files[fd].stream.unlinked # Missing =>
              files'[fd].stream.unlinked = files[fd].stream.unlinked]_filesVars

(* An open stream has a file to read from: one on the host or a deleted one. *)
StreamsBacked ==
  \A fd \in DOMAIN files : files[fd].stream # NoStream =>
    files[fd].stream.unlinked # Missing \/ host[files[fd].name] # Missing

(* Descriptors, streams and files have their types, and no stream is left without
   a file by create, close or a handler that throws. *)
FilesInv == FilesTypeOK /\ StreamsBacked
=============================================================================
