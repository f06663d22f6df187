------------------------------ MODULE CertStore ------------------------------
(***************************************************************************)
(* The certificate store (x509_cert_store.cpp) with main()'s steps around  *)
(* it: a ramdisk with a writable overlay on the certificates' directory,   *)
(* the archive copied from the secure partition of the boot medium to the  *)
(* ramdisk, unpacked and removed, the ramdisk made read-only and handed to *)
(* the overlay engine.                                                     *)
(*                                                                         *)
(* The bytes of the archive are numbered: byte i of a copy is the number   *)
(* of the byte of the partition it holds, or 0.  What is in the archive,   *)
(* and the JSON configuration, which is only read, are left out.           *)
(***************************************************************************)
EXTENDS Naturals, Sequences

CONSTANTS
  Chunk,      \* BUF_SIZE, BUFSIZ
  Modulus,    \* UINT64_MAX + 1
  Capacity,   \* bytes of an archive the ramdisk has room for
  Stores,     \* what a partition can hold
  Tables,     \* /proc/mtd: the names of the partitions, from number 0 on
  Matches,    \* names that contain PART_NAME_MTD_CERT
  FaultSets   \* failures the environment can produce: one of these sets

ASSUME ChunkAssumption  == Chunk \in Nat \ {0} /\ Modulus \in Nat \ {0} /\ Modulus % Chunk = 0
ASSUME CapacityAssumption == Capacity \in Nat
ASSUME StoresAssumption ==   \* a header's type and size, and the bytes behind it
  \A s \in Stores : s \in [cert : BOOLEAN, size : 0 .. Modulus - 1, there : Nat]
ASSUME TablesAssumption ==   \* a table is a sequence of rows
  \A t \in Tables : Len(t) \in Nat /\ DOMAIN t = 1 .. Len(t)

VARIABLES
  pc,        \* where main() or the function it called is
  memory,    \* mem_dect's type
  table,     \* /proc/mtd
  source,    \* number of the MTD partition that is read
  copy,      \* the locals of ExtractCertStore
  archive,   \* tmp.tar.bz2 on the ramdisk
  fds,       \* what the process has open
  ramdisk,   \* what prepare_ramdisk_readable has mounted
  unpacked,  \* history: the certificates were unpacked completely
  faults     \* the failures that can happen

given == <<memory, table, faults>>
vars  == <<pc, given, source, copy, archive, fds, ramdisk, unpacked>>

PCs == {"mountpoint", "directories", "overlay", "config", "open", "create", "copy",
        "unpack", "chown", "remount", "add", "returned", "failed"}

NoStore == [cert |-> FALSE, size |-> 0, there |-> 0]
NoCopy  == [store |-> NoStore, cursor |-> 0, position |-> 0,
            buffer |-> [i \in 1 .. Chunk |-> 0], in |-> TRUE, out |-> TRUE]
Absent  == [exists |-> FALSE, data |-> <<>>]

\* The number where no partition was found: the archive's path stays that of
\* the ramdisk.
Directory == Modulus

TypeOK ==
  /\ pc \in PCs
  /\ memory \in {"eMMC", "NAND"}
  /\ table \in Tables
  /\ source \in Nat
  /\ copy.store \in Stores \cup {NoStore}
  /\ copy.cursor \in 0 .. Modulus - 1
  /\ copy.position \in 0 .. copy.store.there
  /\ copy.buffer \in [1 .. Chunk -> Nat]
  /\ copy.in \in BOOLEAN /\ copy.out \in BOOLEAN
  /\ archive.exists \in BOOLEAN /\ archive.data \in Seq(Nat) /\ Len(archive.data) <= Capacity
  /\ fds \subseteq {"device", "archive"}
  /\ ramdisk \in {"none", "tmpfs", "overlay", "readonly"}
  /\ unpacked \in BOOLEAN
  /\ faults \in FaultSets

Init ==
  /\ pc = "mountpoint"
  /\ memory \in {"eMMC", "NAND"}
  /\ table \in Tables
  /\ source = Directory
  /\ copy = NoCopy
  /\ archive = Absent
  /\ fds = {}
  /\ ramdisk = "none"
  /\ unpacked = FALSE
  /\ faults \in FaultSets

Smaller(a, b) == IF a < b THEN a ELSE b

Goto(p) == pc' = p /\ UNCHANGED given

\* main()'s inner catch: a warning, and on to the overlay engine.  The locals
\* of the function that threw are gone.
Warn ==
  /\ Goto("returned")
  /\ copy' = NoCopy
  /\ source' = Directory

local == <<source, copy>>

-----------------------------------------------------------------------------
(* prepare_ramdisk_readable; an exception skips the overlay engine, too    *)

\* Mutant: the failure is a warning like those that come after it.
PrepareFailsWarned ==
  /\ \/ pc = "mountpoint" /\ faults \cap {"create", "mount"} # {}
     \/ pc = "directories" /\ faults \cap {"create", "stat"} # {}
     \/ pc = "overlay" /\ faults \cap {"create", "stat", "busy", "mount"} # {}
  /\ Goto("returned")
  /\ UNCHANGED <<local, archive, fds, ramdisk, unpacked>>

PrepareFails ==
  /\ \/ pc = "mountpoint" /\ faults \cap {"create", "mount"} # {}
     \/ pc = "directories" /\ faults \cap {"create", "stat"} # {}
     \/ pc = "overlay" /\ faults \cap {"create", "stat", "busy", "mount"} # {}
  /\ Goto("failed")
  /\ UNCHANGED <<local, archive, fds, ramdisk, unpacked>>

MountTmpfs ==
  /\ pc = "mountpoint"
  /\ ramdisk' = "tmpfs"
  /\ Goto("directories")
  /\ UNCHANGED <<local, archive, fds, unpacked>>

\* The results of chmod and chown are not looked at.
MakeDirectories ==
  /\ pc = "directories"
  /\ Goto("overlay")
  /\ UNCHANGED <<local, archive, fds, ramdisk, unpacked>>

MountOverlay ==
  /\ pc = "overlay"
  /\ ramdisk' = "overlay"
  /\ Goto("config")
  /\ UNCHANGED <<local, archive, fds, unpacked>>

-----------------------------------------------------------------------------
(* CertStore::CertStore, and which partition is read                       *)

\* No configuration, none that can be parsed, or one without x509.
ConfigRejected ==
  /\ pc = "config"
  /\ "config" \in faults
  /\ Warn
  /\ UNCHANGED <<archive, fds, ramdisk, unpacked>>

\* ScanForPartition: the number of the first row that contains the name; when
\* there is none, the path of the ramdisk is read instead.
ScanForPartition ==
  LET rows == {i \in DOMAIN table : table[i] \in Matches}
  IN  IF rows = {} THEN Directory
      ELSE (CHOOSE i \in rows : \A j \in rows : i <= j) - 1

ConfigAccepted ==
  /\ pc = "config"
  /\ source' = IF memory = "NAND" THEN ScanForPartition ELSE source
  /\ Goto("open")
  /\ UNCHANGED <<copy, archive, fds, ramdisk, unpacked>>

ScanFails ==
  /\ pc = "config"
  /\ memory = "NAND"
  /\ "proc" \in faults
  /\ Warn
  /\ UNCHANGED <<archive, fds, ramdisk, unpacked>>

OpenFails ==
  /\ pc = "open"
  /\ "device" \in faults
  /\ Warn
  /\ UNCHANGED <<archive, fds, ramdisk, unpacked>>

\* What reading the header gives: nothing, from a directory, from a device
\* that ends before it, and when the read fails.
Headers ==
  IF memory = "NAND" /\ source = Directory THEN {NoStore}
  ELSE Stores \cup (IF "read" \in faults THEN {NoStore} ELSE {})

Accepted(s) == s.cert /\ s.size > 0

ReadHeader ==
  /\ pc = "open"
  /\ \E s \in Headers :
        IF Accepted(s)
        THEN /\ copy' = [copy EXCEPT !.store = s]
             /\ fds' = fds \cup {"device"}
             /\ Goto("create")
             /\ UNCHANGED source
        ELSE Warn /\ UNCHANGED fds
  /\ UNCHANGED <<archive, ramdisk, unpacked>>

CreateFails ==
  /\ pc = "create"
  /\ "create" \in faults
  /\ fds' = fds \ {"device"}
  /\ Warn
  /\ UNCHANGED <<archive, ramdisk, unpacked>>

CreateArchive ==
  /\ pc = "create"
  /\ archive' = [exists |-> TRUE, data |-> <<>>]
  /\ fds' = fds \cup {"archive"}
  /\ Goto("copy")
  /\ UNCHANGED <<local, ramdisk, unpacked>>

-----------------------------------------------------------------------------
(* CertMDTstore::ExtractCertStore: read(2) and write(2)                    *)

Rest == copy.store.size - copy.cursor

\* Mutant: what was asked for is taken for what was read.
AvailableAll(k) == k

\* What one read of k bytes can deliver.
Available(k) == Smaller(k, copy.store.there - copy.position)

Room(k) == Len(archive.data) + k <= Capacity

Positions(n) == [i \in 1 .. n |-> copy.position + i]

CopyChunk ==
  /\ pc = "copy" /\ memory = "NAND"
  /\ LET n == Available(Smaller(Chunk, Rest))
     IN  /\ n > 0
         /\ Room(n)
         /\ archive' = [archive EXCEPT !.data = @ \o Positions(n)]
         /\ copy' = [copy EXCEPT !.cursor = @ + n, !.position = @ + n]
  /\ Goto("copy")
  /\ UNCHANGED <<source, fds, ramdisk, unpacked>>

\* Nothing is closed and the archive stays.  A read that fails is noticed by
\* the write, which gets its -1 as the number of bytes.
CopyThrows ==
  /\ pc = "copy" /\ memory = "NAND"
  /\ LET n == Available(Smaller(Chunk, Rest))
     IN  n > 0 /\ (faults \cap {"read", "write"} # {} \/ ~Room(n))
  /\ Warn
  /\ UNCHANGED <<archive, fds, ramdisk, unpacked>>

\* Mutant: the copy is left open.
CopyEndsOpen ==
  /\ pc = "copy" /\ memory = "NAND"
  /\ Rest = 0
  /\ fds' = fds \ {"device"}
  /\ Goto("unpack")
  /\ UNCHANGED <<local, archive, ramdisk, unpacked>>

\* Where the partition ends before its header's size, read and write go on
\* with 0 bytes for ever: no step is possible.
CopyEnds ==
  /\ pc = "copy" /\ memory = "NAND"
  /\ Rest = 0
  /\ fds' = {}
  /\ Goto("unpack")
  /\ UNCHANGED <<local, archive, ramdisk, unpacked>>

-----------------------------------------------------------------------------
(* CertMMCstore::ExtractCertStore: C++ streams, whose state is not looked  *)
(* at; once a stream has failed, it reads or writes nothing any more       *)

\* read(buffer, k): what is not read keeps the buffer's old bytes.
Read(k, n) ==
  [copy EXCEPT !.buffer = [i \in 1 .. Chunk |-> IF i <= n THEN copy.position + i ELSE @[i]],
               !.position = @ + n,
               !.in = (n = k)]

Reads(k) ==
  IF ~copy.in THEN {0}
  ELSE {Available(k)} \cup (IF "read" \in faults THEN {0} ELSE {})

\* One read of k bytes and the write behind it.
Transfer(k, cursor) ==
  /\ \E n \in Reads(k), ok \in IF "write" \in faults THEN BOOLEAN ELSE {TRUE} :
        LET read    == Read(k, n)
            written == copy.out /\ ok /\ Room(k)
        IN  /\ copy' = [read EXCEPT !.cursor = cursor, !.out = written]
            /\ archive' = IF written
                          THEN [archive EXCEPT !.data = @ \o SubSeq(read.buffer, 1, k)]
                          ELSE archive

\* Mutant: the loop does not count what it has copied.
CopyBlockUncounted ==
  /\ pc = "copy" /\ memory = "eMMC"
  /\ (copy.cursor + Chunk) % Modulus <= copy.store.size
  /\ Transfer(Chunk, copy.cursor)
  /\ Goto("copy")
  /\ UNCHANGED <<source, fds, ramdisk, unpacked>>

CopyBlock ==
  /\ pc = "copy" /\ memory = "eMMC"
  /\ (copy.cursor + Chunk) % Modulus <= copy.store.size
  /\ Transfer(Chunk, (copy.cursor + Chunk) % Modulus)
  /\ Goto("copy")
  /\ UNCHANGED <<source, fds, ramdisk, unpacked>>

\* Mutant: the bytes behind the last whole block are forgotten.
CopyRestForgotten ==
  /\ pc = "copy" /\ memory = "eMMC"
  /\ (copy.cursor + Chunk) % Modulus > copy.store.size
  /\ fds' = {}
  /\ Goto("unpack")
  /\ UNCHANGED <<local, archive, ramdisk, unpacked>>

CopyRest ==
  /\ pc = "copy" /\ memory = "eMMC"
  /\ (copy.cursor + Chunk) % Modulus > copy.store.size
  /\ IF copy.cursor < copy.store.size
     THEN Transfer(Rest, copy.store.size)
     ELSE UNCHANGED <<copy, archive>>
  /\ fds' = {}
  /\ Goto("unpack")
  /\ UNCHANGED <<source, ramdisk, unpacked>>

-----------------------------------------------------------------------------
(* Unpacking, and main()'s steps after it                                  *)

Complete == archive.data = [i \in 1 .. copy.store.size |-> i]

\* system() itself fails; the archive stays.
ShellFails ==
  /\ \/ pc = "unpack"
     \/ pc = "chown"
  /\ "shell" \in faults
  /\ Warn
  /\ UNCHANGED <<archive, fds, ramdisk, unpacked>>

\* The exit status of bunzip2 and tar is not looked at: a shell that ends with
\* 127 makes system() return 127 * 256.
Unpack ==
  /\ pc = "unpack"
  /\ unpacked' \in IF "tar" \in faults THEN {Complete, FALSE} ELSE {Complete}
  /\ archive' = Absent
  /\ copy' = NoCopy
  /\ source' = Directory
  /\ Goto("chown")
  /\ UNCHANGED <<fds, ramdisk>>

\* chown -R adu:adu /adu
Chown ==
  /\ pc = "chown"
  /\ Goto("remount")
  /\ UNCHANGED <<local, archive, fds, ramdisk, unpacked>>

\* Mutant: the result of the remount is not looked at.
RemountFailsIgnored ==
  /\ pc = "remount"
  /\ "mount" \in faults \/ "archive" \in fds
  /\ Goto("add")
  /\ UNCHANGED <<local, archive, fds, ramdisk, unpacked>>

\* The kernel refuses it while a file is open for writing.
RemountFails ==
  /\ pc = "remount"
  /\ "mount" \in faults \/ "archive" \in fds
  /\ Warn
  /\ UNCHANGED <<archive, fds, ramdisk, unpacked>>

Remount ==
  /\ pc = "remount"
  /\ "archive" \notin fds
  /\ ramdisk' = "readonly"
  /\ Goto("add")
  /\ UNCHANGED <<local, archive, fds, unpacked>>

HandOver ==
  /\ pc = "add"
  /\ Goto("returned")
  /\ UNCHANGED <<local, archive, fds, ramdisk, unpacked>>

Extract ==
  \/ ConfigRejected \/ ScanFails \/ ConfigAccepted
  \/ OpenFails \/ ReadHeader \/ CreateFails \/ CreateArchive
  \/ CopyChunk \/ CopyThrows \/ CopyEnds \/ CopyBlock \/ CopyRest
  \/ ShellFails \/ Unpack \/ Chown \/ RemountFails \/ Remount

Next == PrepareFails \/ MountTmpfs \/ MakeDirectories \/ MountOverlay \/ Extract \/ HandOver

Spec == Init /\ [][Next]_vars /\ WF_vars(Next)

=============================================================================
