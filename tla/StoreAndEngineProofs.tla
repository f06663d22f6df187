------------------------ MODULE StoreAndEngineProofs ------------------------
(***************************************************************************)
(* Theorems about the certificate store and the engine it hands the        *)
(* ramdisk to, for every partition, table and set of failures.             *)
(***************************************************************************)
EXTENDS StoreAndEngine, Integers, SequenceTheorems, InductionLemmas, TLAPS

-----------------------------------------------------------------------------
(* What is open, and what is left on the ramdisk                           *)

\* A copy that came to its end closed both files; unpacking removes it.
ClosedInv ==
  /\ pc \in {"unpack", "chown", "remount", "add"} => fds = {}
  /\ pc \in {"chown", "remount", "add"} => ~archive.exists

LEMMA ClosedStep == ClosedInv /\ [InnerTry]_all => ClosedInv'
<1> SUFFICES ASSUME ClosedInv, [InnerTry]_all PROVE ClosedInv'
  OBVIOUS
<1>1. CASE PrepareFails \/ MountTmpfs \/ MakeDirectories \/ MountOverlay \/ HandOver
  BY <1>1 DEF PrepareFails, MountTmpfs, MakeDirectories, MountOverlay, HandOver, Goto, ClosedInv
<1>2. CASE ConfigRejected \/ ScanFails \/ ConfigAccepted \/ OpenFails
  BY <1>2 DEF ConfigRejected, ScanFails, ConfigAccepted, OpenFails, Warn, Goto, ClosedInv
<1>3. CASE ReadHeader \/ CreateFails \/ CreateArchive
  BY <1>3 DEF ReadHeader, CreateFails, CreateArchive, Warn, Goto, ClosedInv
<1>4. CASE CopyChunk \/ CopyThrows \/ CopyEnds \/ CopyBlock \/ CopyRest
  BY <1>4 DEF CopyChunk, CopyThrows, CopyEnds, CopyBlock, CopyRest, Warn, Goto, ClosedInv
<1>5. CASE Unpack
  BY <1>5 DEF Unpack, Absent, Goto, ClosedInv
<1>6. CASE ShellFails \/ Chown \/ RemountFails \/ Remount
  BY <1>6 DEF ShellFails, Chown, RemountFails, Remount, Warn, Goto, ClosedInv
<1>7. CASE EngineStep \/ UNCHANGED all
  BY <1>7 DEF EngineStep, all, vars, ClosedInv
<1> QED
  BY <1>1, <1>2, <1>3, <1>4, <1>5, <1>6, <1>7
     DEF InnerTry, StoreStep, CertOverlay, AddEntry, Extract

\* When the ramdisk is made read-only the archive is gone and nothing is open.
THEOREM RemountIsReady == InnerSpec => []ReadyToRemount
<1>1. InnerInit => ClosedInv
  BY DEF InnerInit, Init, ClosedInv
<1>2. ClosedInv => ReadyToRemount
  BY DEF ClosedInv, ReadyToRemount
<1> QED
  BY <1>1, <1>2, ClosedStep, PTL DEF InnerSpec

-----------------------------------------------------------------------------
(* What the engine is given                                                *)

\* The engine's steps add nothing.
LEMMA EngineAddsNothing == DM!Engine => added' = added
<1>1. ASSUME NEW p, DM!ROStep(p) PROVE added' = added
  BY <1>1 DEF DM!ROStep, DM!ROSkip, DM!RONoSource, DM!ROCreateFails, DM!ROUmountFails,
              DM!ROMount, DM!ROMountFails, DM!ROThrow, DM!ROContinue, DM!ghosts
<1>2. ASSUME NEW e, DM!RamStep(e) PROVE added' = added
  BY <1>2 DEF DM!RamStep, DM!RamSkip, DM!RamFails, DM!RamMountFails, DM!RamMount, DM!RamContinue
<1>3. ASSUME NEW s, DM!PStep(s) PROVE added' = added
  BY <1>3 DEF DM!PStep, DM!PSkip, DM!PUmountFails, DM!PFails, DM!PMount, DM!PContinue, DM!ghosts
<1>4. CASE \/ DM!MountApplication \/ DM!ParseIni \/ DM!ParseFails \/ DM!ROEnd
           \/ DM!RamEndVerdict \/ DM!RamEnd \/ DM!ReadOnlySucceeded \/ DM!ReadOnlyFailed
           \/ DM!PEnd
  BY <1>4 DEF DM!MountApplication, DM!ParseIni, DM!ParseFails, DM!ROEnd, DM!RamEndVerdict,
              DM!RamEnd, DM!RamClear, DM!ReadOnlySucceeded, DM!ReadOnlyFailed, DM!PEnd, DM!ghosts
<1> HIDE DEF DM!Engine
<1> QED
  BY <1>1, <1>2, <1>3, <1>4 DEF DM!Engine

\* The ramdisk is sealed by the remount and nothing else, and handed over next.
SealedInv ==
  /\ pc # "returned" => added = {} /\ additional = <<>>
  /\ pc = "add" => ramdisk = "readonly"
  /\ pc \notin {"add", "returned"} => ramdisk # "readonly"
  /\ pc = "returned" => (Entry \in added <=> ramdisk = "readonly")

LEMMA SealedStep == SealedInv /\ [InnerTry]_all => SealedInv'
<1> SUFFICES ASSUME SealedInv, [InnerTry]_all PROVE SealedInv'
  OBVIOUS
<1> USE DEF SealedInv
<1>0. ASSUME UNCHANGED engine PROVE UNCHANGED <<added, additional>>
  BY <1>0 DEF engine
<1>1. ASSUME UNCHANGED engine, PrepareFails \/ MountTmpfs \/ MakeDirectories \/ MountOverlay
      PROVE  SealedInv'
  BY <1>0, <1>1 DEF PrepareFails, MountTmpfs, MakeDirectories, MountOverlay, Goto
<1>2. ASSUME UNCHANGED engine, ConfigRejected \/ ScanFails \/ ConfigAccepted \/ OpenFails
      PROVE  SealedInv'
  BY <1>0, <1>2 DEF ConfigRejected, ScanFails, ConfigAccepted, OpenFails, Warn, Goto
<1>3. ASSUME UNCHANGED engine, ReadHeader \/ CreateFails \/ CreateArchive
      PROVE  SealedInv'
  BY <1>0, <1>3 DEF ReadHeader, CreateFails, CreateArchive, Warn, Goto
<1>4. ASSUME UNCHANGED engine, CopyChunk \/ CopyThrows \/ CopyEnds \/ CopyBlock \/ CopyRest
      PROVE  SealedInv'
  BY <1>0, <1>4 DEF CopyChunk, CopyThrows, CopyEnds, CopyBlock, CopyRest, Warn, Goto
<1>5. ASSUME UNCHANGED engine, ShellFails \/ Unpack \/ Chown \/ RemountFails \/ Remount
      PROVE  SealedInv'
  BY <1>0, <1>5 DEF ShellFails, Unpack, Chown, RemountFails, Remount, Warn, Goto
<1>6. CASE AddEntry
  <2>1. pc = "add" /\ pc' = "returned" /\ ramdisk' = ramdisk
    BY <1>6 DEF AddEntry, HandOver, Goto
  <2>2. added' = added \cup {Entry}
    BY <1>6, <2>1 DEF AddEntry, DM!AddLowerDir
  <2> QED
    BY <2>1, <2>2
<1>7. CASE EngineStep
  <2>1. pc = "returned" /\ pc' = pc /\ ramdisk' = ramdisk /\ added' = added
    BY <1>7, EngineAddsNothing DEF EngineStep, vars
  <2> QED
    BY <2>1
<1>8. CASE UNCHANGED all
  BY <1>8 DEF all, vars, engine
<1> QED
  BY <1>1, <1>2, <1>3, <1>4, <1>5, <1>6, <1>7, <1>8 DEF InnerTry, StoreStep, CertOverlay, Extract

\* The engine is given the ramdisk if and only if it was made read-only.
THEOREM AddedWhenSealed == InnerSpec => []SealedWhenAdded
<1>1. InnerInit => SealedInv
  BY DEF InnerInit, Init, DM!Init, SealedInv
<1>2. SealedInv => SealedWhenAdded
  BY DEF SealedInv, SealedWhenAdded
<1> QED
  BY <1>1, <1>2, SealedStep, PTL DEF InnerSpec

-----------------------------------------------------------------------------
(* Multiples of the buffer's size                                          *)

LEMMA Quotient ==
  ASSUME NEW c \in Nat \ {0}, NEW x \in Nat, x % c = 0
  PROVE  x \div c \in Nat /\ x = c * (x \div c)
<1>1. x \div c \in Nat
  OBVIOUS
<1>2. x = c * (x \div c)
  OBVIOUS
<1> QED
  BY <1>1, <1>2

LEMMA Multiple == ASSUME NEW c \in Nat \ {0}, NEW p \in Nat PROVE (c * p) % c = 0
OBVIOUS

LEMMA Remainder == ASSUME NEW m \in Nat \ {0}, NEW y \in Nat, y < m PROVE y % m = y
OBVIOUS

LEMMA NextMultiple ==
  ASSUME NEW c \in Nat \ {0}, NEW x \in Nat, NEW m \in Nat, x % c = 0, m % c = 0, x < m
  PROVE  (x + c) % c = 0 /\ x + c <= m
<1> DEFINE p == x \div c
           q == m \div c
<1>1. p \in Nat /\ q \in Nat /\ x = c * p /\ m = c * q
  BY Quotient
<1> HIDE DEF p, q
<1>2. x + c = c * (p + 1) /\ p + 1 \in Nat
  BY <1>1
<1>3. p + 1 <= q
  BY <1>1
<1>4. c * (p + 1) <= c * q
  BY <1>1, <1>2, <1>3
<1>5. (c * (p + 1)) % c = 0
  BY <1>2, Multiple
<1> QED
  BY <1>1, <1>2, <1>4, <1>5

\* One more buffer, modulo the width of the counter.
LEMMA NextCursor ==
  ASSUME NEW c \in Nat \ {0}, NEW x \in Nat, NEW m \in Nat, x % c = 0, m % c = 0, x < m
  PROVE  LET y == (x + c) % m
         IN  y \in Nat /\ y < m /\ y % c = 0 /\ y + c <= m /\ (x + c < m => y = x + c)
<1> DEFINE y == (x + c) % m
<1>1. (x + c) % c = 0 /\ x + c <= m
  BY NextMultiple
<1>2. CASE x + c < m
  <2>1. y = x + c
    <3>1. x + c \in Nat /\ m \in Nat \ {0}
      BY <1>2
    <3> QED
      BY <1>2, <3>1, Remainder
  <2>2. x + c + c <= m
    <3>1. (x + c) \in Nat /\ (x + c) % c = 0 /\ x + c < m
      BY <1>1, <1>2
    <3> HIDE DEF y
    <3> QED
      BY <3>1, NextMultiple
  <2> QED
    BY <1>1, <1>2, <2>1, <2>2
<1>3. CASE x + c = m
  <2>1. m % m = 0 /\ 0 % c = 0
    BY <1>3
  <2>2. y = 0
    BY <1>3, <2>1
  <2> QED
    BY <1>3, <2>1, <2>2
<1> QED
  BY <1>1, <1>2, <1>3

-----------------------------------------------------------------------------
(* The copy of the archive                                                 *)

\* The first n bytes of the partition's archive.
Prefix(n) == [i \in 1 .. n |-> i]

LEMMA PrefixType == ASSUME NEW n \in Nat PROVE Prefix(n) \in Seq(Nat) /\ Len(Prefix(n)) = n
BY DEF Prefix

\* The next k bytes behind them.
LEMMA PrefixGrows ==
  ASSUME NEW n \in Nat, NEW k \in Nat, NEW t \in Seq(Nat), Len(t) = k,
         \A i \in 1 .. k : t[i] = n + i
  PROVE  Prefix(n) \o t = Prefix(n + k)
<1>1. /\ Prefix(n) \in Seq(Nat) /\ Len(Prefix(n)) = n
      /\ Prefix(n + k) \in Seq(Nat) /\ Len(Prefix(n + k)) = n + k
  BY PrefixType
<1>2. /\ Prefix(n) \o t \in Seq(Nat) /\ Len(Prefix(n) \o t) = Len(Prefix(n)) + Len(t)
      /\ \A i \in 1 .. Len(Prefix(n)) + Len(t) :
           (Prefix(n) \o t)[i] = IF i <= Len(Prefix(n)) THEN Prefix(n)[i] ELSE t[i - Len(Prefix(n))]
  <2>1. Prefix(n) \in Seq(Nat) /\ t \in Seq(Nat)
    BY <1>1
  <2> QED
    BY <2>1, ConcatProperties
<1>3. /\ Len(Prefix(n) \o t) = n + k
      /\ \A i \in 1 .. n + k : (Prefix(n) \o t)[i] = IF i <= n THEN Prefix(n)[i] ELSE t[i - n]
  BY <1>1, <1>2
<1>4. \A i \in 1 .. n + k : (Prefix(n) \o t)[i] = Prefix(n + k)[i]
  <2> SUFFICES ASSUME NEW i \in 1 .. n + k PROVE (Prefix(n) \o t)[i] = Prefix(n + k)[i]
    OBVIOUS
  <2>1. Prefix(n + k)[i] = i
    BY DEF Prefix
  <2>2. CASE i <= n
    <3>1. Prefix(n)[i] = i
      BY <2>2 DEF Prefix
    <3> QED
      BY <1>3, <2>1, <2>2, <3>1
  <2>3. CASE ~(i <= n)
    <3>1. i - n \in 1 .. k /\ n + (i - n) = i
      BY <2>3
    <3>2. t[i - n] = i
      BY <3>1
    <3> QED
      BY <1>3, <2>1, <2>3, <3>2
  <2> QED
    BY <2>2, <2>3
<1>5. Prefix(n) \o t \in Seq(Nat)
  BY <1>2
<1> QED
  <2> DEFINE a == Prefix(n) \o t
             b == Prefix(n + k)
  <2>1. a \in Seq(Nat) /\ b \in Seq(Nat) /\ Len(a) = n + k /\ Len(b) = n + k
        /\ \A i \in 1 .. n + k : a[i] = b[i]
    BY <1>1, <1>3, <1>4, <1>5
  <2> HIDE DEF a, b
  <2>2. a = b
    BY <2>1, SeqEqual
  <2> QED
    BY <2>2 DEF a, b

Copies == [store : [cert : BOOLEAN, size : 0 .. Modulus - 1, there : Nat], cursor : Nat,
           position : Nat, buffer : [1 .. Chunk -> Nat], in : BOOLEAN, out : BOOLEAN]

\* Nothing fails on the eMMC, the partition is as long as its header says and
\* the ramdisk has room.
Good == /\ faults \cap {"read", "write"} = {}
        /\ copy.store.there >= copy.store.size
        /\ copy.store.size <= Capacity

CopyType ==
  /\ copy \in Copies /\ copy.position <= copy.store.there
  /\ archive \in [exists : BOOLEAN, data : Seq(Nat)]

\* What one read delivers.
LEMMA ReadsProperties ==
  ASSUME CopyType, NEW k \in Nat, NEW n \in Reads(k)
  PROVE  n \in Nat /\ n <= k /\ copy.position + n <= copy.store.there
<1>1. copy.position \in Nat /\ copy.store.there \in Nat /\ copy.position <= copy.store.there
  BY DEF CopyType, Copies
<1>2. n = 0 \/ n = Available(k)
  BY DEF Reads
<1>3. copy.store.there - copy.position \in Nat
  BY <1>1
<1>4. Available(k) \in Nat /\ Available(k) <= k /\ copy.position + Available(k) <= copy.store.there
  BY <1>1, <1>3 DEF Available, Smaller
<1> QED
  BY <1>1, <1>2, <1>4

\* What a read leaves in the locals.
LEMMA ReadProperties ==
  ASSUME copy \in Copies, NEW k \in Nat, NEW n \in Nat
  PROVE  /\ Read(k, n) \in Copies
         /\ Read(k, n).store = copy.store
         /\ Read(k, n).position = copy.position + n
         /\ Read(k, n).in = (n = k)
         /\ Read(k, n).buffer \in [1 .. Chunk -> Nat]
         /\ \A i \in 1 .. Chunk :
              Read(k, n).buffer[i] = IF i <= n THEN copy.position + i ELSE copy.buffer[i]
<1> DEFINE b == [i \in 1 .. Chunk |-> IF i <= n THEN copy.position + i ELSE copy.buffer[i]]
<1>1. copy.position \in Nat /\ copy.buffer \in [1 .. Chunk -> Nat]
  BY DEF Copies
<1>2. b \in [1 .. Chunk -> Nat]
  <2> SUFFICES ASSUME NEW i \in 1 .. Chunk
               PROVE  (IF i <= n THEN copy.position + i ELSE copy.buffer[i]) \in Nat
    OBVIOUS
  <2>1. i \in Nat /\ copy.buffer[i] \in Nat
    BY <1>1, ChunkAssumption
  <2> QED
    BY <1>1, <2>1
<1>3. Read(k, n) = [copy EXCEPT !.buffer = b, !.position = copy.position + n, !.in = (n = k)]
  BY DEF Read
<1>4. \A i \in 1 .. Chunk : b[i] = IF i <= n THEN copy.position + i ELSE copy.buffer[i]
  OBVIOUS
<1>5. copy.position + n \in Nat
  BY <1>1
<1> HIDE DEF b
<1>6. Read(k, n).buffer = b
  BY <1>3 DEF Copies
<1> QED
  BY <1>2, <1>3, <1>4, <1>5, <1>6 DEF Copies

\* The bytes a write takes from the buffer.
LEMMA WriteProperties ==
  ASSUME NEW b \in [1 .. Chunk -> Nat], NEW k \in Nat, k <= Chunk
  PROVE  /\ SubSeq(b, 1, k) \in Seq(Nat)
         /\ Len(SubSeq(b, 1, k)) = k
         /\ \A i \in 1 .. k : SubSeq(b, 1, k)[i] = b[i]
<1>1. Chunk \in Nat
  BY ChunkAssumption
<1>2. b \in Seq(Nat) /\ Len(b) = Chunk
  BY <1>1
<1>3. CASE k = 0
  BY <1>2, <1>3
<1>4. CASE k > 0
  BY <1>1, <1>2, <1>4
<1> QED
  BY <1>3, <1>4

\* A read and the write behind it.
LEMMA TransferProperties ==
  ASSUME CopyType, NEW k \in Nat, k <= Chunk, NEW c \in Nat, Transfer(k, c)
  PROVE  CopyType' /\ copy'.cursor = c /\ copy'.store = copy.store
<1>1. PICK n \in Reads(k), ok \in BOOLEAN :
        /\ copy' = [Read(k, n) EXCEPT !.cursor = c, !.out = copy.out /\ ok /\ Room(k)]
        /\ archive' = IF copy.out /\ ok /\ Room(k)
                      THEN [archive EXCEPT !.data = archive.data \o SubSeq(Read(k, n).buffer, 1, k)]
                      ELSE archive
  BY DEF Transfer
<1>2. n \in Nat /\ n <= k /\ copy.position + n <= copy.store.there
  BY ReadsProperties
<1>3. /\ Read(k, n) \in Copies /\ Read(k, n).store = copy.store
      /\ Read(k, n).position = copy.position + n
      /\ Read(k, n).buffer \in [1 .. Chunk -> Nat]
  BY <1>2, ReadProperties DEF CopyType
<1>4. (copy.out /\ ok /\ Room(k)) \in BOOLEAN
  BY DEF CopyType, Copies
<1>5. copy' \in Copies /\ copy'.cursor = c /\ copy'.store = copy.store
      /\ copy'.position = copy.position + n
  BY <1>1, <1>3, <1>4 DEF Copies
<1>6. archive' \in [exists : BOOLEAN, data : Seq(Nat)]
  <2> DEFINE t == SubSeq(Read(k, n).buffer, 1, k)
  <2>1. t \in Seq(Nat)
    BY <1>3, WriteProperties
  <2>2. archive' = archive \/ archive' = [archive EXCEPT !.data = archive.data \o t]
    BY <1>1
  <2> HIDE DEF t
  <2>3. archive.data \o t \in Seq(Nat)
    BY <2>1 DEF CopyType
  <2> QED
    BY <2>2, <2>3 DEF CopyType
<1> QED
  BY <1>2, <1>5, <1>6 DEF CopyType

\* When nothing fails, the bytes that were asked for are read and written.
LEMMA TransferExact ==
  ASSUME CopyType, NEW k \in Nat, k <= Chunk, NEW c \in Nat, Transfer(k, c), Good,
         copy.in, copy.out, copy.position + k <= copy.store.size,
         archive.data = Prefix(copy.position)
  PROVE  /\ copy'.position = copy.position + k /\ copy'.in /\ copy'.out
         /\ archive'.data = Prefix(copy.position + k)
<1> DEFINE p == copy.position
<1>0. /\ p \in Nat /\ copy.store.there \in Nat /\ copy.store.size \in Nat
      /\ p + k <= copy.store.there /\ p + k <= Capacity
  BY CapacityAssumption DEF CopyType, Copies, Good
<1>1. PICK n \in Reads(k), ok \in IF "write" \in faults THEN BOOLEAN ELSE {TRUE} :
        /\ copy' = [Read(k, n) EXCEPT !.cursor = c, !.out = copy.out /\ ok /\ Room(k)]
        /\ archive' = IF copy.out /\ ok /\ Room(k)
                      THEN [archive EXCEPT !.data = archive.data \o SubSeq(Read(k, n).buffer, 1, k)]
                      ELSE archive
  BY DEF Transfer
<1>2. ok = TRUE /\ n = Available(k)
  BY DEF Good, Reads
<1>3. Available(k) = k
  BY <1>0 DEF Available, Smaller
<1>4. Len(archive.data) = p
  BY <1>0, PrefixType
<1>5. Room(k)
  BY <1>0, <1>4 DEF Room
<1>6. /\ Read(k, k) \in Copies
      /\ Read(k, k).position = p + k
      /\ Read(k, k).in = TRUE
      /\ Read(k, k).buffer \in [1 .. Chunk -> Nat]
      /\ \A i \in 1 .. Chunk :
           Read(k, k).buffer[i] = IF i <= k THEN p + i ELSE copy.buffer[i]
  BY ReadProperties DEF CopyType
<1> DEFINE t == SubSeq(Read(k, k).buffer, 1, k)
<1>7. copy' = [Read(k, k) EXCEPT !.cursor = c, !.out = TRUE]
  BY <1>1, <1>2, <1>3, <1>5
<1>8. archive' = [archive EXCEPT !.data = archive.data \o t]
  BY <1>1, <1>2, <1>3, <1>5
<1>9. copy'.position = p + k /\ copy'.in /\ copy'.out
  BY <1>6, <1>7 DEF Copies
<1>10. t \in Seq(Nat) /\ Len(t) = k /\ \A i \in 1 .. k : t[i] = Read(k, k).buffer[i]
  BY <1>6, WriteProperties
<1>11. \A i \in 1 .. k : t[i] = p + i
  <2> SUFFICES ASSUME NEW i \in 1 .. k PROVE t[i] = p + i
    OBVIOUS
  <2>1. i \in 1 .. Chunk /\ i <= k
    BY ChunkAssumption
  <2> HIDE DEF t, p
  <2> QED
    BY <1>6, <1>10, <2>1
<1> HIDE DEF t, p
<1>12. Prefix(p) \o t = Prefix(p + k)
  BY <1>0, <1>10, <1>11, PrefixGrows
<1>13. archive'.data = archive.data \o t
  BY <1>8 DEF CopyType
<1> QED
  BY <1>9, <1>12, <1>13 DEF p

Early == {"mountpoint", "directories", "overlay", "config", "open"}

\* On NAND as much is copied as was read, and nothing else.
NandCopy ==
  /\ copy.cursor = copy.position /\ copy.cursor <= copy.store.size
  /\ archive.data = Prefix(copy.cursor)

\* On eMMC the loop counts whole buffers; as long as nothing fails, and the
\* counter cannot wrap, it counts what is in the archive.
EmmcCopy ==
  /\ copy.cursor % Chunk = 0 /\ copy.cursor < Modulus
  /\ Good /\ copy.store.size + Chunk < Modulus =>
       /\ copy.cursor <= copy.store.size
       /\ copy.position = copy.cursor
       /\ copy.in /\ copy.out
       /\ archive.data = Prefix(copy.cursor)

ArchiveInv ==
  /\ CopyType
  /\ memory \in {"eMMC", "NAND"}
  /\ pc \in Early => copy = NoCopy
  /\ pc = "create" => copy.cursor = 0 /\ copy.position = 0 /\ copy.in /\ copy.out
  /\ pc = "copy" => IF memory = "NAND" THEN NandCopy ELSE EmmcCopy
  /\ pc = "unpack" => ((memory = "NAND" \/ Good) => archive.data = Prefix(copy.store.size))


LEMMA NoCopyType == NoCopy \in Copies /\ NoCopy.position <= NoCopy.store.there
<1>1. 0 \in 0 .. Modulus - 1
  BY ChunkAssumption
<1> QED
  BY <1>1 DEF NoCopy, NoStore, Copies

\* The block loop's last block ends within the archive, and what is left is
\* less than a buffer; near the counter's end the loop is never left.
LEMMA Blocks ==
  ASSUME CopyType, EmmcCopy
  PROVE  LET y == (copy.cursor + Chunk) % Modulus
         IN  /\ y \in Nat /\ y < Modulus /\ y % Chunk = 0
             /\ copy.store.size + Chunk < Modulus /\ Good => y = copy.cursor + Chunk
             /\ y > copy.store.size => copy.store.size + Chunk < Modulus
             /\ y > copy.store.size => y <= copy.cursor + Chunk
<1> DEFINE x == copy.cursor
           y == (x + Chunk) % Modulus
           z == copy.store.size
<1>1. x \in Nat /\ z \in Nat
  BY DEF CopyType, Copies
<1>2. Chunk \in Nat \ {0} /\ Modulus \in Nat /\ Modulus % Chunk = 0
  BY ChunkAssumption
<1>3. x % Chunk = 0 /\ x < Modulus
  BY DEF EmmcCopy
<1>4. /\ y \in Nat /\ y < Modulus /\ y % Chunk = 0 /\ y + Chunk <= Modulus
      /\ x + Chunk < Modulus => y = x + Chunk
  <2> HIDE DEF x
  <2> QED
    BY <1>1, <1>2, <1>3, NextCursor
<1>5. x + Chunk <= Modulus
  <2> HIDE DEF x, y
  <2> QED
    BY <1>1, <1>2, <1>3, NextMultiple
<1>6. z + Chunk < Modulus /\ Good => x <= z
  BY DEF EmmcCopy
<1>7. x + Chunk = Modulus => y = 0
  <2>1. Modulus % Modulus = 0
    BY ChunkAssumption
  <2> QED
    BY <2>1
<1> HIDE DEF x, y, z
<1>8. z + Chunk < Modulus /\ Good => y = x + Chunk
  BY <1>1, <1>2, <1>4, <1>6
<1>9. y > z => z + Chunk < Modulus
  BY <1>1, <1>2, <1>4
<1>10. y > z => y <= x + Chunk
  BY <1>1, <1>2, <1>4, <1>5, <1>7
<1> QED
  BY <1>4, <1>8, <1>9, <1>10 DEF x, y, z

\* NAND: one read and its write.
LEMMA ChunkStep == ArchiveInv /\ CopyChunk => ArchiveInv'
<1> SUFFICES ASSUME ArchiveInv, CopyChunk PROVE ArchiveInv'
  OBVIOUS
<1> DEFINE n == Available(Smaller(Chunk, Rest))
           t == Positions(n)
<1>1. pc = "copy" /\ memory = "NAND" /\ pc' = "copy" /\ memory' = memory
  BY DEF CopyChunk, Goto, given
<1>2. /\ archive' = [archive EXCEPT !.data = archive.data \o t]
      /\ copy' = [copy EXCEPT !.cursor = copy.cursor + n, !.position = copy.position + n]
  BY DEF CopyChunk
<1>3. CopyType /\ NandCopy
  BY <1>1 DEF ArchiveInv
<1>4. /\ copy.cursor \in Nat /\ copy.position \in Nat /\ copy.store.there \in Nat
      /\ copy.store.size \in Nat /\ copy.position <= copy.store.there
      /\ copy.cursor = copy.position /\ copy.cursor <= copy.store.size
  BY <1>3 DEF CopyType, Copies, NandCopy
<1>5. n \in Nat /\ copy.cursor + n <= copy.store.size /\ copy.position + n <= copy.store.there
  BY <1>4, ChunkAssumption DEF Available, Smaller, Rest
<1>6. t \in Seq(Nat) /\ Len(t) = n /\ \A i \in 1 .. n : t[i] = copy.position + i
  <2> HIDE DEF n
  <2>1. \A i \in 1 .. n : copy.position + i \in Nat
    BY <1>4, <1>5
  <2> QED
    BY <1>5, <2>1 DEF Positions
<1> HIDE DEF n, t
<1>7. copy' \in Copies /\ copy'.cursor = copy.cursor + n /\ copy'.position = copy.position + n
      /\ copy'.store = copy.store
  <2>1. copy.cursor + n \in Nat /\ copy.position + n \in Nat
    BY <1>4, <1>5
  <2> QED
    BY <1>2, <1>3, <2>1 DEF CopyType, Copies
<1>8. Prefix(copy.cursor) \o t = Prefix(copy.cursor + n)
  <2>1. Prefix(copy.position) \o t = Prefix(copy.position + n)
    BY <1>4, <1>5, <1>6, PrefixGrows
  <2> QED
    BY <1>4, <2>1
<1>9. archive'.data = archive.data \o t /\ archive' \in [exists : BOOLEAN, data : Seq(Nat)]
  <2>1. archive.data \o t \in Seq(Nat)
    BY <1>3, <1>6 DEF CopyType
  <2> QED
    BY <1>2, <1>3, <2>1 DEF CopyType
<1>10. CopyType'
  BY <1>5, <1>7, <1>9 DEF CopyType
<1>11. NandCopy'
  BY <1>3, <1>4, <1>5, <1>7, <1>8, <1>9 DEF NandCopy
<1> QED
  BY <1>1, <1>10, <1>11 DEF ArchiveInv, Early

\* eMMC: one whole block.
LEMMA BlockStep == ArchiveInv /\ CopyBlock => ArchiveInv'
<1> SUFFICES ASSUME ArchiveInv, CopyBlock PROVE ArchiveInv'
  OBVIOUS
<1> DEFINE y == (copy.cursor + Chunk) % Modulus
<1>1. /\ pc = "copy" /\ memory = "eMMC" /\ pc' = "copy" /\ memory' = memory /\ faults' = faults
      /\ y <= copy.store.size /\ Transfer(Chunk, y)
  BY DEF CopyBlock, Goto, given
<1>2. CopyType /\ EmmcCopy
  BY <1>1 DEF ArchiveInv
<1>3. /\ y \in Nat /\ y < Modulus /\ y % Chunk = 0
      /\ copy.store.size + Chunk < Modulus /\ Good => y = copy.cursor + Chunk
  BY <1>2, Blocks
<1>4. Chunk \in Nat /\ Chunk <= Chunk
  BY ChunkAssumption
<1> HIDE DEF y
<1>5. CopyType' /\ copy'.cursor = y /\ copy'.store = copy.store
  BY <1>1, <1>2, <1>3, <1>4, TransferProperties
<1>6. ASSUME Good', copy'.store.size + Chunk < Modulus
      PROVE  /\ copy'.cursor <= copy'.store.size /\ copy'.position = copy'.cursor
             /\ copy'.in /\ copy'.out /\ archive'.data = Prefix(copy'.cursor)
  <2>1. Good /\ copy.store.size + Chunk < Modulus
    BY <1>1, <1>5, <1>6 DEF Good
  <2>2. y = copy.cursor + Chunk /\ copy.position = copy.cursor /\ copy.in /\ copy.out
        /\ archive.data = Prefix(copy.position)
    BY <1>2, <1>3, <2>1 DEF EmmcCopy
  <2>3. copy.position + Chunk <= copy.store.size
    BY <1>1, <2>2
  <2> QED
    BY <1>1, <1>2, <1>3, <1>4, <1>5, <2>1, <2>2, <2>3, TransferExact
<1>7. EmmcCopy'
  BY <1>3, <1>5, <1>6 DEF EmmcCopy
<1> QED
  BY <1>1, <1>5, <1>7 DEF ArchiveInv, Early

\* eMMC: what is left.
LEMMA RestStep == ArchiveInv /\ CopyRest => ArchiveInv'
<1> SUFFICES ASSUME ArchiveInv, CopyRest PROVE ArchiveInv'
  OBVIOUS
<1>1. /\ pc = "copy" /\ memory = "eMMC" /\ pc' = "unpack" /\ memory' = memory /\ faults' = faults
      /\ (copy.cursor + Chunk) % Modulus > copy.store.size
  BY DEF CopyRest, Goto, given
<1>2. CopyType /\ EmmcCopy
  BY <1>1 DEF ArchiveInv
<1>3. /\ copy.cursor \in Nat /\ copy.store.size \in Nat
      /\ copy.store.size + Chunk < Modulus
      /\ copy.store.size < copy.cursor + Chunk
  <2> DEFINE y == (copy.cursor + Chunk) % Modulus
  <2>1. copy.cursor \in Nat /\ copy.store.size \in Nat /\ Chunk \in Nat
    BY <1>2, ChunkAssumption DEF CopyType, Copies
  <2>2. y \in Nat /\ y > copy.store.size /\ copy.store.size + Chunk < Modulus
        /\ y <= copy.cursor + Chunk
    BY <1>1, <1>2, Blocks
  <2> HIDE DEF y
  <2> QED
    BY <2>1, <2>2
<1>4. Good => /\ copy.cursor <= copy.store.size /\ copy.position = copy.cursor
              /\ copy.in /\ copy.out /\ archive.data = Prefix(copy.cursor)
  BY <1>2, <1>3 DEF EmmcCopy
<1>5. CASE copy.cursor < copy.store.size
  <2>1. Rest \in Nat /\ Rest <= Chunk /\ copy.cursor + Rest = copy.store.size
    BY <1>3, <1>5, ChunkAssumption DEF Rest
  <2>2. Transfer(Rest, copy.store.size)
    BY <1>5 DEF CopyRest
  <2>3. CopyType' /\ copy'.store = copy.store
    BY <1>2, <1>3, <2>1, <2>2, TransferProperties
  <2>4. Good' => archive'.data = Prefix(copy'.store.size)
    <3> SUFFICES ASSUME Good' PROVE archive'.data = Prefix(copy.store.size)
      BY <2>3
    <3>1. Good
      BY <1>1, <2>3 DEF Good
    <3>2. copy.position + Rest = copy.store.size
      BY <1>4, <2>1, <3>1
    <3>3. copy.position + Rest <= copy.store.size /\ archive.data = Prefix(copy.position)
      BY <1>3, <1>4, <3>1, <3>2
    <3> QED
      BY <1>2, <1>3, <1>4, <2>1, <2>2, <3>1, <3>2, <3>3, TransferExact
  <2> QED
    BY <1>1, <2>3, <2>4 DEF ArchiveInv, Early
<1>6. CASE ~(copy.cursor < copy.store.size)
  <2>1. copy' = copy /\ archive' = archive
    BY <1>6 DEF CopyRest
  <2>2. Good => copy.cursor = copy.store.size
    BY <1>3, <1>4, <1>6
  <2>3. Good' => Good
    BY <1>1, <2>1 DEF Good
  <2>4. CopyType'
    BY <1>2, <2>1 DEF CopyType
  <2> QED
    BY <1>1, <1>4, <2>1, <2>2, <2>3, <2>4 DEF ArchiveInv, Early
<1> QED
  BY <1>5, <1>6

LEMMA HeaderStep == ArchiveInv /\ ReadHeader => ArchiveInv'
<1> SUFFICES ASSUME ArchiveInv, ReadHeader PROVE ArchiveInv'
  OBVIOUS
<1>1. pc = "open" /\ copy = NoCopy /\ memory' = memory /\ archive' = archive
  BY DEF ReadHeader, Goto, Warn, given, ArchiveInv, Early
<1>2. PICK s \in Headers :
        \/ /\ copy' = [copy EXCEPT !.store = s]
           /\ pc' = "create"
        \/ copy' = NoCopy /\ pc' = "returned"
  BY DEF ReadHeader, Goto, Warn
<1>3. s \in [cert : BOOLEAN, size : 0 .. Modulus - 1, there : Nat]
  <2>1. NoStore \in [cert : BOOLEAN, size : 0 .. Modulus - 1, there : Nat]
    BY NoCopyType DEF NoCopy, Copies
  <2> QED
    BY <2>1, StoresAssumption DEF Headers
<1>4. CASE copy' = [copy EXCEPT !.store = s] /\ pc' = "create"
  <2>1. copy' \in Copies /\ copy'.cursor = 0 /\ copy'.position = 0 /\ copy'.in /\ copy'.out
        /\ copy'.store.there \in Nat
    BY <1>1, <1>3, <1>4, NoCopyType DEF NoCopy, Copies
  <2>2. CopyType'
    BY <1>1, <2>1 DEF ArchiveInv, CopyType
  <2> QED
    BY <1>1, <1>4, <2>1, <2>2 DEF ArchiveInv, Early
<1>5. CASE copy' = NoCopy /\ pc' = "returned"
  BY <1>1, <1>5 DEF ArchiveInv, CopyType, Early
<1> QED
  BY <1>2, <1>4, <1>5

LEMMA CreateStep == ArchiveInv /\ CreateArchive => ArchiveInv'
<1> SUFFICES ASSUME ArchiveInv, CreateArchive PROVE ArchiveInv'
  OBVIOUS
<1>1. /\ pc = "create" /\ pc' = "copy" /\ memory' = memory /\ copy' = copy
      /\ archive' = [exists |-> TRUE, data |-> <<>>]
  BY DEF CreateArchive, Goto, given, local
<1>2. copy.cursor = 0 /\ copy.position = 0 /\ copy.in /\ copy.out /\ copy.store.size \in Nat
  BY <1>1 DEF ArchiveInv, CopyType, Copies
<1>3. Prefix(0) = <<>>
  <2>1. Prefix(0) \in Seq(Nat) /\ Len(Prefix(0)) = 0
    BY PrefixType
  <2> QED
    BY <2>1, EmptySeq
<1>4. CopyType'
  <2>1. archive' \in [exists : BOOLEAN, data : Seq(Nat)]
    BY <1>1
  <2> QED
    BY <1>1, <2>1 DEF ArchiveInv, CopyType
<1>5. NandCopy'
  BY <1>1, <1>2, <1>3 DEF NandCopy
<1>6. EmmcCopy'
  <2>1. 0 % Chunk = 0 /\ 0 < Modulus
    BY ChunkAssumption
  <2> QED
    BY <1>1, <1>2, <1>3, <2>1 DEF EmmcCopy
<1> QED
  BY <1>1, <1>4, <1>5, <1>6 DEF ArchiveInv, Early

LEMMA ArchiveStep == ArchiveInv /\ [InnerTry]_all => ArchiveInv'
<1> SUFFICES ASSUME ArchiveInv, [InnerTry]_all PROVE ArchiveInv'
  OBVIOUS
<1>0. CopyType /\ memory \in {"eMMC", "NAND"}
  BY DEF ArchiveInv
<1>1. ASSUME pc' \in PCs \ {"create", "copy", "unpack"}, memory' = memory,
             archive' = archive \/ archive' = Absent,
             copy' = NoCopy \/ (copy' = copy /\ (pc' \in Early => pc \in Early))
      PROVE  ArchiveInv'
  <2>1. CopyType'
    <3>1. Absent \in [exists : BOOLEAN, data : Seq(Nat)]
      BY DEF Absent
    <3> QED
      BY <1>0, <1>1, <3>1, NoCopyType DEF CopyType
  <2>2. pc' \in Early => copy' = NoCopy
    BY <1>1 DEF ArchiveInv
  <2> QED
    BY <1>0, <1>1, <2>1, <2>2 DEF ArchiveInv
<1>2. CASE PrepareFails \/ MountTmpfs \/ MakeDirectories \/ MountOverlay \/ HandOver
  BY <1>1, <1>2 DEF PrepareFails, MountTmpfs, MakeDirectories, MountOverlay, HandOver,
                    Goto, given, local, PCs, Early
<1>3. CASE ConfigRejected \/ ScanFails \/ ConfigAccepted \/ OpenFails \/ CreateFails
  BY <1>1, <1>3 DEF ConfigRejected, ScanFails, ConfigAccepted, OpenFails, CreateFails,
                    Warn, Goto, given, local, PCs, Early
<1>4. CASE CopyThrows \/ ShellFails \/ RemountFails
  BY <1>1, <1>4 DEF CopyThrows, ShellFails, RemountFails, Warn, Goto, given, local, PCs, Early
<1>5. CASE Unpack \/ Chown \/ Remount
  BY <1>1, <1>5 DEF Unpack, Chown, Remount, Goto, given, local, PCs, Early
<1>6. CASE CopyEnds
  <2>1. /\ pc = "copy" /\ memory = "NAND" /\ Rest = 0 /\ pc' = "unpack"
        /\ memory' = memory /\ copy' = copy /\ archive' = archive
    BY <1>6 DEF CopyEnds, Goto, given, local
  <2>2. copy.cursor \in Nat /\ copy.store.size \in Nat
    BY <1>0 DEF CopyType, Copies
  <2>3. copy.cursor = copy.store.size
    BY <2>1, <2>2 DEF Rest
  <2>4. archive.data = Prefix(copy.store.size)
    BY <2>1, <2>3 DEF ArchiveInv, NandCopy
  <2> QED
    BY <1>0, <2>1, <2>4 DEF ArchiveInv, CopyType, Early
<1>7. CASE EngineStep \/ UNCHANGED all
  <2>1. UNCHANGED vars
    BY <1>7 DEF EngineStep, all
  <2>2. UNCHANGED <<pc, memory, copy, archive, faults>>
    BY <2>1 DEF vars, given
  <2> QED
    BY <2>2 DEF ArchiveInv, CopyType, NandCopy, EmmcCopy, Good, Early
<1> QED
  BY <1>2, <1>3, <1>4, <1>5, <1>6, <1>7, ChunkStep, BlockStep, RestStep, HeaderStep, CreateStep
     DEF InnerTry, StoreStep, CertOverlay, AddEntry, Extract

LEMMA ArchiveAlways == InnerSpec => []ArchiveInv
<1>1. InnerInit => ArchiveInv
  <2> SUFFICES ASSUME Init PROVE ArchiveInv
    BY DEF InnerInit
  <2>1. Absent \in [exists : BOOLEAN, data : Seq(Nat)]
    BY DEF Absent
  <2> QED
    BY <2>1, NoCopyType DEF Init, ArchiveInv, CopyType, Early
<1> QED
  BY <1>1, ArchiveStep, PTL DEF InnerSpec

\* What is unpacked is the archive of the secure partition, for every size of
\* the buffer, the counter, the archive and the partition.
THEOREM ArchiveIsExact == InnerSpec => []ArchiveExact
<1>2. ArchiveInv => ArchiveExact
  <2> SUFFICES ASSUME ArchiveInv, pc = "unpack" PROVE ArchiveExact
    BY DEF ArchiveExact
  <2>1. memory = "NAND" \/ Good => Complete
    BY DEF ArchiveInv, Complete, Prefix
  <2>2. /\ copy.store.there \in Nat /\ copy.store.size \in Nat /\ Capacity \in Nat
        /\ memory \in {"eMMC", "NAND"}
    BY CapacityAssumption DEF ArchiveInv, CopyType, Copies
  <2> QED
    BY <2>1, <2>2 DEF ArchiveExact, Good
<1> QED
  BY <1>2, ArchiveAlways, PTL

-----------------------------------------------------------------------------
(* The types, with the bounds in them                                      *)

\* What CopyType leaves open of the store's variables.
StoreType ==
  /\ pc \in PCs
  /\ table \in Tables
  /\ source \in Nat
  /\ copy.store \in Stores \cup {NoStore}
  /\ copy.cursor < Modulus
  /\ Len(archive.data) <= Capacity
  /\ fds \subseteq {"device", "archive"}
  /\ ramdisk \in {"none", "tmpfs", "overlay", "readonly"}
  /\ unpacked \in BOOLEAN
  /\ faults \in FaultSets

\* ScanForPartition finds the least row with the name, or the directory.
LEMMA ScanFindsRow == table \in Tables => ScanForPartition \in Nat
<1> SUFFICES ASSUME table \in Tables PROVE ScanForPartition \in Nat
  OBVIOUS
<1> DEFINE rows == {i \in DOMAIN table : table[i] \in Matches}
<1>1. rows \in SUBSET Nat /\ \A i \in rows : i >= 1
  BY TablesAssumption
<1>2. ScanForPartition = IF rows = {} THEN Directory
                         ELSE (CHOOSE i \in rows : \A j \in rows : i <= j) - 1
  BY DEF ScanForPartition
<1> HIDE DEF rows
<1>3. Directory \in Nat
  BY ChunkAssumption DEF Directory
<1>4. ASSUME rows # {} PROVE (CHOOSE i \in rows : \A j \in rows : i <= j) \in rows
  BY <1>1, <1>4, LeastNumber
<1>5. ASSUME rows # {} PROVE (CHOOSE i \in rows : \A j \in rows : i <= j) - 1 \in Nat
  <2> DEFINE least == CHOOSE i \in rows : \A j \in rows : i <= j
  <2>1. least \in rows
    BY <1>4, <1>5
  <2> HIDE DEF least
  <2>2. least - 1 \in Nat
    BY <1>1, <2>1
  <2> QED
    BY <2>2 DEF least
<1> QED
  BY <1>2, <1>3, <1>5

\* Without a copy: the exceptions, and what comes before and after.
LEMMA NothingCopied ==
  /\ Directory \in Nat /\ NoCopy.store = NoStore /\ NoCopy.cursor < Modulus
  /\ Len(Absent.data) <= Capacity
  BY ChunkAssumption, CapacityAssumption DEF Directory, NoCopy, Absent

LEMMA ChunkKeepsType == ArchiveInv /\ ArchiveInv' /\ StoreType /\ CopyChunk => StoreType'
<1> SUFFICES ASSUME ArchiveInv, ArchiveInv', StoreType, CopyChunk PROVE StoreType'
  OBVIOUS
<1> DEFINE n == Available(Smaller(Chunk, Rest))
           t == Positions(n)
<1>1. /\ pc' = "copy" /\ memory = "NAND" /\ memory' = memory
      /\ UNCHANGED <<table, source, fds, ramdisk, unpacked, faults>>
      /\ Room(n) /\ n > 0
      /\ archive' = [archive EXCEPT !.data = archive.data \o t]
      /\ copy' = [copy EXCEPT !.cursor = copy.cursor + n, !.position = copy.position + n]
      /\ pc = "copy"
  BY DEF CopyChunk, Goto, given
<1>2. copy.position \in Nat /\ copy.cursor \in Nat /\ copy.store.size \in Nat
      /\ copy.store.there \in Nat /\ copy.position <= copy.store.there
      /\ copy.cursor <= copy.store.size
  BY <1>1 DEF ArchiveInv, CopyType, Copies, NandCopy
<1>3. n \in Nat
  BY <1>2, ChunkAssumption DEF Available, Smaller, Rest
<1> HIDE DEF n
<1>4. t \in Seq(Nat) /\ Len(t) = n
  <2>1. \A i \in 1 .. n : copy.position + i \in Nat
    BY <1>2, <1>3
  <2> QED
    BY <1>3, <2>1 DEF Positions
<1> HIDE DEF t
<1>5. copy'.store = copy.store /\ archive'.data = archive.data \o t /\ archive.data \in Seq(Nat)
  BY <1>1 DEF ArchiveInv, CopyType, Copies
<1>6. Len(archive'.data) <= Capacity
  BY <1>1, <1>4, <1>5, ConcatProperties DEF Room
<1>7. copy'.cursor < Modulus
  <2>1. copy'.cursor <= copy'.store.size /\ copy' \in Copies
    BY <1>1 DEF ArchiveInv, NandCopy, CopyType
  <2> QED
    BY <2>1, ChunkAssumption DEF Copies
<1> QED
  BY <1>1, <1>5, <1>6, <1>7 DEF StoreType, PCs

\* A write only happens when the ramdisk has room for it.
LEMMA TransferRoom ==
  ASSUME CopyType, NEW k \in Nat, k <= Chunk, NEW c \in Nat, Transfer(k, c),
         Len(archive.data) <= Capacity
  PROVE  Len(archive'.data) <= Capacity
<1>1. PICK n \in Reads(k), ok \in BOOLEAN :
        archive' = IF copy.out /\ ok /\ Room(k)
                   THEN [archive EXCEPT !.data = archive.data \o SubSeq(Read(k, n).buffer, 1, k)]
                   ELSE archive
  BY DEF Transfer
<1>2. Read(k, n).buffer \in [1 .. Chunk -> Nat]
  BY ReadsProperties, ReadProperties DEF CopyType
<1> DEFINE t == SubSeq(Read(k, n).buffer, 1, k)
<1>3. t \in Seq(Nat) /\ Len(t) = k
  BY <1>2, WriteProperties
<1> HIDE DEF t
<1>4. archive.data \in Seq(Nat) /\ archive \in [exists : BOOLEAN, data : Seq(Nat)]
  BY DEF CopyType
<1>5. CASE Room(k) /\ archive' = [archive EXCEPT !.data = archive.data \o t]
  <2>1. archive'.data = archive.data \o t /\ Len(archive.data \o t) = Len(archive.data) + k
    BY <1>3, <1>4, <1>5, ConcatProperties
  <2> QED
    BY <1>5, <2>1 DEF Room
<1>6. CASE archive' = archive
  BY <1>6
<1> QED
  BY <1>1, <1>5, <1>6 DEF t

LEMMA BlocksKeepType ==
  ArchiveInv /\ ArchiveInv' /\ StoreType /\ (CopyBlock \/ CopyRest) => StoreType'
<1> SUFFICES ASSUME ArchiveInv, ArchiveInv', StoreType, CopyBlock \/ CopyRest PROVE StoreType'
  OBVIOUS
<1>1. /\ pc = "copy" /\ memory = "eMMC" /\ pc' \in PCs
      /\ UNCHANGED <<memory, table, source, ramdisk, unpacked, faults>>
      /\ fds' = fds \/ fds' = {}
  BY DEF CopyBlock, CopyRest, Goto, given, PCs
<1>2. CopyType /\ Chunk \in Nat /\ Modulus \in Nat /\ Len(archive.data) <= Capacity
      /\ copy.cursor \in Nat /\ copy.store.size \in Nat /\ copy.store.size < Modulus
  <2>1. CopyType /\ copy \in Copies /\ Chunk \in Nat /\ Modulus \in Nat
    BY ChunkAssumption DEF ArchiveInv, CopyType
  <2>2. copy.cursor \in Nat /\ copy.store.size \in 0 .. Modulus - 1
    BY <2>1 DEF Copies
  <2> QED
    BY <2>1, <2>2 DEF StoreType
<1>3. /\ copy'.store = copy.store /\ Len(archive'.data) <= Capacity
      /\ copy'.cursor < Modulus
  <2>1. CASE CopyBlock
    <3> DEFINE y == (copy.cursor + Chunk) % Modulus
    <3>1. Transfer(Chunk, y) /\ y \in Nat /\ y < Modulus
      BY <1>1, <2>1, Blocks DEF CopyBlock, ArchiveInv
    <3> HIDE DEF y
    <3> QED
      BY <1>2, <3>1, TransferProperties, TransferRoom
  <2>2. CASE CopyRest /\ copy.cursor < copy.store.size
    <3>1. Rest \in Nat /\ Rest <= Chunk
      <4> DEFINE y == (copy.cursor + Chunk) % Modulus
      <4>1. y > copy.store.size /\ y \in Nat /\ y <= copy.cursor + Chunk
        BY <1>1, <2>2, Blocks DEF CopyRest, ArchiveInv
      <4> HIDE DEF y
      <4> QED
        BY <1>2, <2>2, <4>1 DEF Rest
    <3>2. Transfer(Rest, copy.store.size)
      BY <2>2 DEF CopyRest
    <3> QED
      BY <1>2, <3>1, <3>2, TransferProperties, TransferRoom
  <2>3. CASE CopyRest /\ ~(copy.cursor < copy.store.size)
    <3>1. copy' = copy /\ archive' = archive
      BY <2>3 DEF CopyRest
    <3> QED
      BY <1>2, <3>1 DEF StoreType
  <2> QED
    BY <2>1, <2>2, <2>3
<1> QED
  BY <1>1, <1>3 DEF StoreType

LEMMA HeaderKeepsType == ArchiveInv /\ StoreType /\ ReadHeader => StoreType'
<1> SUFFICES ASSUME ArchiveInv, StoreType, ReadHeader PROVE StoreType'
  OBVIOUS
<1>1. /\ UNCHANGED <<table, faults, archive, ramdisk, unpacked>> /\ copy = NoCopy
      /\ pc' \in PCs /\ fds' \subseteq {"device", "archive"}
      /\ source' = source \/ source' = Directory
  BY DEF ReadHeader, Goto, Warn, given, ArchiveInv, Early, PCs, StoreType
<1>2. PICK s \in Headers : copy' = [copy EXCEPT !.store = s] \/ copy' = NoCopy
  BY DEF ReadHeader, Warn
<1>3. s \in Stores \cup {NoStore}
  BY DEF Headers
<1>4. copy'.store \in Stores \cup {NoStore} /\ copy'.cursor = copy.cursor
  BY <1>1, <1>2, <1>3, NothingCopied DEF NoCopy
<1> QED
  BY <1>1, <1>4, NothingCopied DEF StoreType

LEMMA StoreTypeStep == ArchiveInv /\ StoreType /\ [InnerTry]_all => StoreType'
<1> SUFFICES ASSUME ArchiveInv, StoreType, [InnerTry]_all PROVE StoreType'
  OBVIOUS
<1>0. ArchiveInv'
  BY ArchiveStep
<1>1. CASE PrepareFails \/ MountTmpfs \/ MakeDirectories \/ MountOverlay \/ HandOver
  BY <1>1 DEF PrepareFails, MountTmpfs, MakeDirectories, MountOverlay, HandOver, Goto, given,
              local, PCs, StoreType
<1>2. CASE ConfigAccepted
  BY <1>2, ScanFindsRow DEF ConfigAccepted, Goto, given, PCs, StoreType
<1>3. CASE ConfigRejected \/ ScanFails \/ OpenFails \/ CreateFails \/ CopyThrows \/ ShellFails
           \/ RemountFails
  BY <1>3, NothingCopied DEF ConfigRejected, ScanFails, OpenFails, CreateFails, CopyThrows,
              ShellFails, RemountFails, Warn, Goto, given, PCs, StoreType
<1>4. CASE CreateArchive \/ CopyEnds
  <2>1. /\ UNCHANGED <<table, source, copy, ramdisk, unpacked, faults>> /\ pc' \in PCs
        /\ fds' \subseteq fds \cup {"archive"}
        /\ archive' = archive \/ archive'.data = <<>>
    BY <1>4 DEF CreateArchive, CopyEnds, Goto, given, local, PCs
  <2> QED
    BY <2>1, CapacityAssumption DEF StoreType
<1>5. CASE Unpack
  BY <1>5, NothingCopied DEF Unpack, Goto, given, PCs, StoreType, Complete
<1>6. CASE Chown \/ Remount
  BY <1>6 DEF Chown, Remount, Goto, given, local, PCs, StoreType
<1>7. CASE EngineStep \/ UNCHANGED all
  BY <1>7 DEF EngineStep, all, vars, given, StoreType
<1> QED
  BY <1>0, <1>1, <1>2, <1>3, <1>4, <1>5, <1>6, <1>7, ChunkKeepsType, BlocksKeepType,
     HeaderKeepsType
     DEF InnerTry, StoreStep, CertOverlay, AddEntry, Extract

\* The store's variables keep their types and bounds: the counter its width,
\* the archive the ramdisk's room, the reads the partition's end.
THEOREM TypeCorrect == InnerSpec => []TypeOK
<1>1. InnerInit => StoreType
  BY NothingCopied DEF InnerInit, Init, StoreType, PCs
<1>2. ArchiveInv /\ StoreType => TypeOK
  <2> SUFFICES ASSUME ArchiveInv, StoreType PROVE TypeOK
    OBVIOUS
  <2>1. copy \in Copies /\ copy.position <= copy.store.there /\ memory \in {"eMMC", "NAND"}
        /\ archive \in [exists : BOOLEAN, data : Seq(Nat)]
    BY DEF ArchiveInv, CopyType
  <2>2. copy.cursor \in 0 .. Modulus - 1 /\ copy.position \in 0 .. copy.store.there
    BY <2>1, ChunkAssumption DEF StoreType, Copies
  <2> QED
    BY <2>1, <2>2 DEF TypeOK, StoreType, Copies
<1> QED
  BY <1>1, <1>2, StoreTypeStep, ArchiveAlways, PTL DEF InnerSpec

-----------------------------------------------------------------------------
(* The certificates' overlay                                               *)

Shown  == mounts[Adu] = <<Cert>>
Before == pc \in {"mountpoint", "directories", "overlay", "failed"}
Parsed == engine_pc \notin {"constructed", "parse"}

\* The overlay is there from its mount on, until the engine finds that the
\* application claims the directory; the engine does not run before.
ShownInv ==
  /\ DOMAIN mounts = Paths
  /\ \A i \in DOMAIN overlay_persistent : "merge" \in DOMAIN overlay_persistent[i]
  /\ engine_pc = "parse" => image \in Images
  /\ pc # "returned" => engine_pc = "constructed"
  /\ Before => ~unpacked /\ mounts[Adu] = <<>>
  /\ ~Before => Shown \/ (Parsed /\ Claimed)

LEMMA CertIsOverlay == Shown => DM!Overlaid(Adu) /\ mounts[Adu] # <<>>
BY DEF Shown, Cert, DM!Overlaid, DM!IsOverlay

\* What the invariant needs of a step of the engine.
Keeps ==
  /\ DOMAIN mounts' = Paths
  /\ \A i \in DOMAIN overlay_persistent' : "merge" \in DOMAIN overlay_persistent'[i]
  /\ engine_pc' = "parse" => image' \in Images
  /\ Shown => Shown' \/ (Parsed' /\ Claimed')
  /\ Parsed /\ Claimed => Parsed' /\ Claimed'

\* The tables of the application's configuration stay as they are.
SameTables == UNCHANGED <<overlay_application, overlay_persistent>>

LEMMA ParseKeeps == ShownInv /\ (DM!MountApplication \/ DM!ParseIni \/ DM!ParseFails) => Keeps
<1> SUFFICES ASSUME ShownInv, DM!MountApplication \/ DM!ParseIni \/ DM!ParseFails PROVE Keeps
  OBVIOUS
<1>1. mounts' = mounts /\ ~Parsed /\ Shown' = Shown
  BY DEF DM!MountApplication, DM!ParseIni, DM!ParseFails, Parsed, Shown
<1>2. engine_pc' = "parse" => image' \in Images
  BY DEF DM!MountApplication, DM!ParseIni, DM!ParseFails
<1>3. \A i \in DOMAIN overlay_persistent' : "merge" \in DOMAIN overlay_persistent'[i]
  <2>1. CASE DM!MountApplication
    BY <2>1 DEF DM!MountApplication, ShownInv
  <2>2. CASE DM!ParseIni
    <3>1. image \in DM!Image
      BY <2>2, ImagesAssumption DEF DM!ParseIni, ShownInv
    <3>2. overlay_persistent' \in Seq(DM!Sections)
      BY <2>2, <3>1 DEF DM!ParseIni, DM!Image, DM!Ini
    <3> QED
      <4> SUFFICES ASSUME NEW i \in DOMAIN overlay_persistent'
                   PROVE  "merge" \in DOMAIN overlay_persistent'[i]
        OBVIOUS
      <4>1. overlay_persistent'[i] \in DM!Sections
        BY <3>2
      <4> QED
        BY <4>1 DEF DM!Sections
  <2>3. CASE DM!ParseFails
    BY <2>3 DEF DM!ParseFails
  <2> QED
    BY <2>1, <2>2, <2>3
<1> QED
  BY <1>1, <1>2, <1>3 DEF Keeps, ShownInv

LEMMA ROKeeps == ASSUME ShownInv, NEW p, DM!ROStep(p) PROVE Keeps
<1>1. engine_pc = "readonly" /\ engine_pc' \in {"readonly", "ramdisk"} /\ DM!config' = DM!config
  BY DEF DM!ROStep, DM!ROSkip, DM!RONoSource, DM!ROCreateFails, DM!ROUmountFails,
         DM!ROMount, DM!ROMountFails, DM!ROThrow, DM!ROContinue, DM!ROAt
<1>2. SameTables /\ Claimed' = Claimed /\ Parsed /\ Parsed'
  BY <1>1 DEF DM!config, SameTables, Claimed, DM!InApplication, Parsed
<1>3. \/ mounts' = mounts
      \/ ~DM!Overlaid(p) /\ \E s : mounts' = [mounts EXCEPT ![p] = s]
  BY DEF DM!ROStep, DM!ROSkip, DM!RONoSource, DM!ROCreateFails, DM!ROUmountFails,
         DM!ROMount, DM!ROMountFails, DM!ROThrow, DM!Umounted
<1>4. DOMAIN mounts' = Paths /\ (Shown => Shown')
  BY <1>3, CertIsOverlay, AduAssumption DEF ShownInv, Shown
<1> QED
  BY <1>1, <1>2, <1>4 DEF Keeps, ShownInv, SameTables

LEMMA RamKeeps == ASSUME ShownInv, NEW e, DM!RamStep(e) PROVE Keeps
<1>1. engine_pc = "ramdisk" /\ engine_pc' = engine_pc /\ DM!config' = DM!config
  BY DEF DM!RamStep, DM!RamSkip, DM!RamFails, DM!RamMountFails, DM!RamMount, DM!RamContinue, DM!RamAt
<1>2. SameTables /\ Claimed' = Claimed /\ Parsed /\ Parsed'
  BY <1>1 DEF DM!config, SameTables, Claimed, DM!InApplication, Parsed
<1>3. \/ mounts' = mounts
      \/ ~DM!Overlaid(e.merge) /\ \E s : mounts' = [mounts EXCEPT ![e.merge] = s]
  BY DEF DM!RamStep, DM!RamSkip, DM!RamFails, DM!RamMountFails, DM!RamMount, DM!Umounted
<1>4. DOMAIN mounts' = Paths /\ (Shown => Shown')
  BY <1>3, CertIsOverlay, AduAssumption DEF ShownInv, Shown
<1> QED
  BY <1>1, <1>2, <1>4 DEF Keeps, ShownInv, SameTables

\* A section takes the overlay away only where the application claims its
\* directory, and leaves the claim.
LEMMA PKeeps == ASSUME ShownInv, NEW s, DM!PStep(s) PROVE Keeps
<1>1. /\ engine_pc = "persistent" /\ engine_pc' = engine_pc
      /\ overlay_application' = overlay_application
  BY DEF DM!PStep, DM!PSkip, DM!PUmountFails, DM!PFails, DM!PMount, DM!PPrepare, DM!PContinue, DM!PAt
<1>2. next \in DOMAIN overlay_persistent /\ s = overlay_persistent[next]
  BY DEF DM!PStep, DM!PSkip, DM!PUmountFails, DM!PFails, DM!PMount, DM!PPrepare, DM!PAt
<1>3. \/ overlay_persistent' = overlay_persistent
      \/ \E l : overlay_persistent' = [overlay_persistent EXCEPT ![next].lower = l]
  BY DEF DM!PStep, DM!PSkip, DM!PUmountFails, DM!PFails, DM!PMount, DM!PPrepare
<1>4. /\ DOMAIN overlay_persistent' = DOMAIN overlay_persistent
      /\ \A i \in DOMAIN overlay_persistent :
           /\ "merge" \in DOMAIN overlay_persistent'[i]
           /\ overlay_persistent'[i].merge = overlay_persistent[i].merge
  BY <1>2, <1>3 DEF ShownInv
<1>5. Claimed' = Claimed /\ Parsed /\ Parsed'
  BY <1>1, <1>4 DEF Claimed, DM!InApplication, Parsed
<1>6. \/ mounts' = mounts
      \/ /\ ~DM!Overlaid(s.merge) \/ DM!InApplication(s.merge)
         /\ \E t : mounts' = [mounts EXCEPT ![s.merge] = t]
  BY DEF DM!PStep, DM!PSkip, DM!PUmountFails, DM!PFails, DM!PMount, DM!PPrepare, DM!Replaceable
<1>7. DOMAIN mounts' = Paths
  BY <1>6 DEF ShownInv
<1>8. Shown => Shown' \/ Claimed
  <2>1. CASE mounts' = mounts
    BY <2>1 DEF Shown
  <2>2. CASE /\ ~DM!Overlaid(s.merge) \/ DM!InApplication(s.merge)
             /\ \E t : mounts' = [mounts EXCEPT ![s.merge] = t]
    <3>1. CASE s.merge = Adu
      BY <2>2, <3>1, <1>2, CertIsOverlay DEF Claimed
    <3>2. CASE s.merge # Adu
      BY <2>2, <3>2, AduAssumption DEF Shown, ShownInv
    <3> QED
      BY <3>1, <3>2
  <2> QED
    BY <1>6, <2>1, <2>2
<1> QED
  BY <1>1, <1>4, <1>5, <1>7, <1>8 DEF Keeps

LEMMA LoopEndKeeps ==
  ShownInv /\ (\/ DM!ROEnd \/ DM!RamEndVerdict \/ DM!RamEnd
               \/ DM!ReadOnlySucceeded \/ DM!ReadOnlyFailed \/ DM!PEnd) => Keeps
<1> SUFFICES ASSUME ShownInv,
                    \/ DM!ROEnd \/ DM!RamEndVerdict \/ DM!RamEnd
                    \/ DM!ReadOnlySucceeded \/ DM!ReadOnlyFailed \/ DM!PEnd
             PROVE  Keeps
  OBVIOUS
<1>1. mounts' = mounts /\ Parsed /\ Parsed' /\ DM!config' = DM!config
  BY DEF DM!ROEnd, DM!RamEndVerdict, DM!RamEnd, DM!RamClear, DM!ReadOnlySucceeded,
         DM!ReadOnlyFailed, DM!PEnd, Parsed
<1>2. SameTables /\ Claimed' = Claimed /\ Shown' = Shown
  BY <1>1 DEF DM!config, SameTables, Claimed, DM!InApplication, Shown
<1>3. engine_pc' # "parse"
  BY <1>1 DEF Parsed
<1> QED
  BY <1>1, <1>2, <1>3 DEF Keeps, ShownInv, SameTables

LEMMA EngineKeeps == ShownInv /\ DM!Engine => Keeps
<1> SUFFICES ASSUME ShownInv, DM!Engine PROVE Keeps
  OBVIOUS
<1> HIDE DEF ShownInv, Keeps
<1> QED
  BY ParseKeeps, ROKeeps, RamKeeps, PKeeps, LoopEndKeeps DEF DM!Engine

\* The steps of the store but the mount of its overlay.
LEMMA StoreKeeps ==
  StoreStep => /\ pc # "returned"
               /\ Before' = Before
               /\ Before => unpacked' = unpacked
               /\ UNCHANGED <<mounts, overlay_application, overlay_persistent, image, engine_pc>>
<1> SUFFICES ASSUME StoreStep
             PROVE  /\ pc # "returned" /\ Before' = Before /\ (Before => unpacked' = unpacked)
  BY DEF StoreStep, engine, table_of_mounts
<1>1. CASE PrepareFails \/ MountTmpfs \/ MakeDirectories
  BY <1>1 DEF PrepareFails, MountTmpfs, MakeDirectories, Goto, Before
<1>2. CASE ConfigRejected \/ ScanFails \/ ConfigAccepted \/ OpenFails
  BY <1>2 DEF ConfigRejected, ScanFails, ConfigAccepted, OpenFails, Warn, Goto, Before
<1>3. CASE ReadHeader \/ CreateFails \/ CreateArchive
  BY <1>3 DEF ReadHeader, CreateFails, CreateArchive, Warn, Goto, Before
<1>4. CASE CopyChunk \/ CopyThrows \/ CopyEnds \/ CopyBlock \/ CopyRest
  BY <1>4 DEF CopyChunk, CopyThrows, CopyEnds, CopyBlock, CopyRest, Warn, Goto, Before
<1>5. CASE ShellFails \/ Chown \/ RemountFails \/ Remount
  BY <1>5 DEF ShellFails, Chown, RemountFails, Remount, Warn, Goto, Before
<1>6. CASE Unpack
  BY <1>6 DEF Unpack, Goto, Before
<1> QED
  BY <1>1, <1>2, <1>3, <1>4, <1>5, <1>6 DEF StoreStep, Extract

LEMMA ShownStep == ShownInv /\ [InnerTry]_all => ShownInv'
<1> SUFFICES ASSUME ShownInv, [InnerTry]_all PROVE ShownInv'
  OBVIOUS
<1>1. CASE StoreStep
  BY <1>1, StoreKeeps DEF ShownInv, Shown, Parsed, Claimed, DM!InApplication
<1>2. CASE CertOverlay
  <2>1. pc = "overlay" /\ pc' = "config" /\ UNCHANGED <<overlay_persistent, image, engine_pc>>
    BY <1>2 DEF CertOverlay, MountOverlay, Goto, engine
  <2>2. Before /\ ~Before'
    BY <2>1 DEF Before
  <2>3. mounts' = [mounts EXCEPT ![Adu] = Append(mounts[Adu], Cert)]
    BY <1>2 DEF CertOverlay, DM!Mounted, Cert
  <2>4. DOMAIN mounts' = Paths /\ mounts'[Adu] = Append(<<>>, Cert)
    BY <2>2, <2>3, AduAssumption DEF ShownInv
  <2>5. Shown'
    BY <2>4 DEF Shown, Cert
  <2> QED
    BY <2>1, <2>2, <2>4, <2>5 DEF ShownInv
<1>3. CASE AddEntry
  <2>1. /\ pc = "add" /\ pc' = "returned"
        /\ UNCHANGED <<mounts, overlay_application, overlay_persistent, image, engine_pc>>
    BY <1>3 DEF AddEntry, HandOver, Goto, DM!AddLowerDir, DM!config
  <2> QED
    BY <2>1 DEF ShownInv, Before, Shown, Parsed, Claimed, DM!InApplication
<1>4. CASE EngineStep
  <2>1. pc = "returned" /\ pc' = pc /\ Keeps
    BY <1>4, EngineKeeps DEF EngineStep, vars
  <2> QED
    BY <2>1 DEF ShownInv, Keeps, Before
<1>5. CASE UNCHANGED all
  BY <1>5 DEF all, vars, engine, table_of_mounts, ShownInv, Before, Shown, Parsed, Claimed,
              DM!InApplication
<1> QED
  BY <1>1, <1>2, <1>3, <1>4, <1>5 DEF InnerTry

\* Certificates that were unpacked are shown when main() ends, unless the
\* application claims their directory.
THEOREM CertificatesStay == InnerSpec => []CertificatesShown
<1>1. InnerInit => ShownInv
  BY AduAssumption DEF InnerInit, Init, DM!Init, NoMounts, ShownInv, Before
<1>2. ShownInv => CertificatesShown
  <2> SUFFICES ASSUME ShownInv, unpacked, ~Claimed
               PROVE  mounts[Adu] # <<>> /\ DM!Top(mounts[Adu]).kind = "cert"
    BY DEF CertificatesShown
  <2>1. Shown
    BY DEF ShownInv
  <2> QED
    BY <2>1 DEF Shown, Cert, DM!Top
<1> QED
  BY <1>1, <1>2, ShownStep, PTL DEF InnerSpec

-----------------------------------------------------------------------------
(* The steps of main() the store and the engine implement                  *)

Preparing  == {"mountpoint", "directories", "overlay"}
Extracting == {"config", "open", "create", "copy", "unpack", "chown", "remount"}

PhaseInv ==
  /\ pc \in PCs
  /\ pc = "mountpoint" => ramdisk = "none"
  /\ pc \in {"directories", "overlay"} => ramdisk = "tmpfs"
  /\ pc \in Extracting => ramdisk = "overlay"
  /\ pc = "add" => ramdisk = "readonly"
  /\ pc = "returned" => ramdisk \in {"overlay", "readonly"}
  /\ pc = "failed" => ramdisk \in {"none", "tmpfs"}
  /\ pc # "returned" => engine_pc = "constructed"

LEMMA StoreStepPhase ==
  ASSUME PhaseInv, StoreStep
  PROVE  /\ \/ pc \in Preparing /\ pc' = "failed" /\ ramdisk' = ramdisk
            \/ pc = "mountpoint" /\ pc' = "directories" /\ ramdisk' = "tmpfs"
            \/ pc = "directories" /\ pc' = "overlay" /\ ramdisk' = ramdisk
            \/ pc \in Extracting /\ pc' \in Extracting \cup {"returned"} /\ ramdisk' = ramdisk
            \/ pc = "remount" /\ pc' = "add" /\ ramdisk' = "readonly"
         /\ engine_pc' = engine_pc /\ memory' = memory
<1>1. engine_pc' = engine_pc
  BY DEF StoreStep, engine
<1>2. CASE PrepareFails \/ MountTmpfs \/ MakeDirectories
  BY <1>1, <1>2 DEF PrepareFails, MountTmpfs, MakeDirectories, Goto, Preparing, PCs, given
<1>3. CASE ConfigRejected \/ ScanFails \/ ConfigAccepted \/ OpenFails
  BY <1>1, <1>3 DEF ConfigRejected, ScanFails, ConfigAccepted, OpenFails, Warn, Goto, Extracting,
                    PCs, given
<1>4. CASE ReadHeader \/ CreateFails \/ CreateArchive
  BY <1>1, <1>4 DEF ReadHeader, CreateFails, CreateArchive, Warn, Goto, Extracting, PCs, given
<1>5. CASE CopyChunk \/ CopyThrows \/ CopyEnds
  BY <1>1, <1>5 DEF CopyChunk, CopyThrows, CopyEnds, Warn, Goto, Extracting, PCs, given
<1>6. CASE CopyBlock \/ CopyRest
  BY <1>1, <1>6 DEF CopyBlock, CopyRest, Goto, Extracting, PCs, given
<1>7. CASE Unpack
  BY <1>1, <1>7 DEF Unpack, Goto, Extracting, PCs, given
<1>8. CASE ShellFails \/ Chown
  BY <1>1, <1>8 DEF ShellFails, Chown, Warn, Goto, Extracting, PCs, given
<1>9. CASE RemountFails \/ Remount
  BY <1>1, <1>9 DEF RemountFails, Remount, Warn, Goto, Extracting, PCs, given
<1> QED
  BY <1>2, <1>3, <1>4, <1>5, <1>6, <1>7, <1>8, <1>9 DEF StoreStep, Extract

LEMMA CertOverlayPhase ==
  CertOverlay => /\ pc = "overlay" /\ pc' = "config" /\ ramdisk' = "overlay"
                 /\ engine_pc' = engine_pc /\ memory' = memory
BY DEF CertOverlay, MountOverlay, Goto, engine, given

LEMMA AddEntryPhase ==
  AddEntry => /\ pc = "add" /\ pc' = "returned" /\ ramdisk' = ramdisk
              /\ engine_pc' = engine_pc /\ memory' = memory
BY DEF AddEntry, HandOver, Goto, DM!AddLowerDir, given

LEMMA EngineStepPhase ==
  EngineStep => /\ pc = "returned" /\ pc' = pc /\ ramdisk' = ramdisk /\ memory' = memory
                /\ engine_pc # "done"
<1> SUFFICES ASSUME EngineStep PROVE engine_pc # "done"
  BY DEF EngineStep, vars, given
<1>1. ASSUME NEW p, DM!ROStep(p) PROVE engine_pc # "done"
  BY <1>1 DEF DM!ROStep, DM!ROSkip, DM!RONoSource, DM!ROCreateFails, DM!ROUmountFails,
              DM!ROMount, DM!ROMountFails, DM!ROThrow, DM!ROAt
<1>2. ASSUME NEW e, DM!RamStep(e) PROVE engine_pc # "done"
  BY <1>2 DEF DM!RamStep, DM!RamSkip, DM!RamFails, DM!RamMountFails, DM!RamMount, DM!RamAt
<1>3. ASSUME NEW s, DM!PStep(s) PROVE engine_pc # "done"
  BY <1>3 DEF DM!PStep, DM!PSkip, DM!PUmountFails, DM!PFails, DM!PMount, DM!PPrepare, DM!PAt
<1>4. CASE \/ DM!MountApplication \/ DM!ParseIni \/ DM!ParseFails \/ DM!ROEnd
           \/ DM!RamEndVerdict \/ DM!RamEnd \/ DM!ReadOnlySucceeded \/ DM!ReadOnlyFailed
           \/ DM!PEnd
  BY <1>4 DEF DM!MountApplication, DM!ParseIni, DM!ParseFails, DM!ROEnd, DM!RamEndVerdict,
              DM!RamEnd, DM!RamClear, DM!ReadOnlySucceeded, DM!ReadOnlyFailed, DM!PEnd
<1>5. DM!Engine
  BY DEF EngineStep
<1> QED
  BY <1>1, <1>2, <1>3, <1>4, <1>5 DEF DM!Engine

LEMMA PhaseStep == PhaseInv /\ [InnerTry]_all => PhaseInv'
<1> SUFFICES ASSUME PhaseInv, [InnerTry]_all PROVE PhaseInv'
  OBVIOUS
<1>1. CASE StoreStep
  BY <1>1, StoreStepPhase DEF PhaseInv, PCs, Preparing, Extracting
<1>2. CASE CertOverlay
  BY <1>2, CertOverlayPhase DEF PhaseInv, PCs, Extracting
<1>3. CASE AddEntry
  BY <1>3, AddEntryPhase DEF PhaseInv, PCs, Extracting
<1>4. CASE EngineStep
  BY <1>4, EngineStepPhase DEF PhaseInv, PCs, Extracting
<1>5. CASE UNCHANGED all
  BY <1>5 DEF all, vars, engine, PhaseInv, PCs, Extracting
<1> QED
  BY <1>1, <1>2, <1>3, <1>4, <1>5 DEF InnerTry

\* A copy that spins does nothing else: no read delivers anything, or the
\* loop's bound, taken modulo the counter's width, is never reached.
LEMMA SpinsForEver == ASSUME ArchiveInv, Spins, StoreStep PROVE Spins'
<1>1. pc = "copy" /\ CopyType /\ memory \in {"eMMC", "NAND"}
  BY DEF Spins, ArchiveInv
<1>2. CopyChunk \/ CopyThrows \/ CopyEnds \/ CopyBlock \/ CopyRest
  BY <1>1 DEF StoreStep, PrepareFails, MountTmpfs, MakeDirectories, Extract, ConfigRejected,
              ScanFails, ConfigAccepted, OpenFails, ReadHeader, CreateFails, CreateArchive,
              ShellFails, Unpack, Chown, RemountFails, Remount
<1>3. CASE memory = "NAND"
  <2>1. copy.position = copy.store.there /\ Rest \in Nat /\ Rest > 0 /\ Chunk \in Nat /\ Chunk > 0
        /\ copy.store.there \in Nat
    BY <1>1, <1>3, ChunkAssumption DEF Spins, ArchiveInv, NandCopy, CopyType, Copies, Rest
  <2>2. Available(Smaller(Chunk, Rest)) = 0
    BY <2>1 DEF Available, Smaller
  <2> QED
    BY <1>2, <1>3, <2>1, <2>2 DEF CopyChunk, CopyThrows, CopyEnds, CopyBlock, CopyRest
<1>4. CASE memory = "eMMC"
  <2>1. /\ copy.cursor \in Nat /\ copy.cursor % Chunk = 0 /\ copy.cursor < Modulus
        /\ copy.store.size \in Nat /\ copy.store.size >= Modulus - Chunk
        /\ Chunk \in Nat \ {0} /\ Modulus \in Nat /\ Modulus % Chunk = 0
    BY <1>1, <1>4, ChunkAssumption DEF Spins, ArchiveInv, EmmcCopy, CopyType, Copies
  <2> DEFINE y == (copy.cursor + Chunk) % Modulus
  <2>2. y \in Nat /\ y + Chunk <= Modulus
    BY <2>1, NextCursor
  <2> HIDE DEF y
  <2>3. ~(y > copy.store.size)
    BY <2>1, <2>2
  <2>4. CopyBlock
    BY <1>2, <1>4, <2>3 DEF CopyChunk, CopyThrows, CopyEnds, CopyRest, y
  <2>5. PICK n \in Reads(Chunk) : copy'.store = Read(Chunk, n).store
    BY <1>1, <2>4, ReadsProperties, ReadProperties, ChunkAssumption
       DEF CopyBlock, Transfer, CopyType, Copies
  <2>6. n \in Nat /\ copy \in Copies
    BY <1>1, <2>1, ReadsProperties DEF CopyType
  <2>7. copy'.store = copy.store
    BY <2>1, <2>5, <2>6, ReadProperties
  <2>8. pc' = "copy" /\ memory' = "eMMC"
    BY <1>4, <2>4 DEF CopyBlock, Goto, given
  <2> QED
    BY <2>1, <2>7, <2>8 DEF Spins
<1> QED
  BY <1>1, <1>3, <1>4

\* Where main() is, and what it sees of the ramdisk.
Mapping ==
  /\ pc \in Preparing => BootPC = "ramdisk" /\ BootRamdisk = "none"
  /\ pc \in Extracting \cup {"add"} =>
       BootPC = (IF Spins THEN "spins" ELSE "extract") /\ BootRamdisk = "overlay"
  /\ pc = "returned" => /\ BootPC = (IF engine_pc = "done" THEN "remove_sys" ELSE "engine")
                        /\ BootRamdisk = ramdisk
  /\ pc = "failed" => BootPC = "remove_sys" /\ BootRamdisk = ramdisk

LEMMA PhaseMapped == PhaseInv => Mapping
<1> SUFFICES ASSUME PhaseInv PROVE Mapping
  OBVIOUS
<1>1. Spins => pc = "copy"
  BY DEF Spins
<1>2. CASE pc \in Preparing
  <2>1. BootPC = "ramdisk"
    BY <1>1, <1>2 DEF PhaseInv, BootPC, Preparing
  <2> QED
    BY <1>2, <2>1 DEF BootRamdisk, Mapping, Preparing, Extracting
<1>3. CASE pc \in Extracting \cup {"add"}
  <2>1. BootPC = IF Spins THEN "spins" ELSE "extract"
    BY <1>1, <1>3 DEF PhaseInv, BootPC, Extracting
  <2> QED
    BY <1>3, <2>1 DEF BootRamdisk, Mapping, Preparing, Extracting
<1>4. CASE pc = "returned"
  <2>1. BootPC = IF engine_pc = "done" THEN "remove_sys" ELSE "engine"
    BY <1>1, <1>4 DEF BootPC
  <2> QED
    BY <1>4, <2>1 DEF BootRamdisk, Mapping, Preparing, Extracting
<1>5. CASE pc = "failed"
  <2>1. BootPC = "remove_sys"
    BY <1>1, <1>5 DEF BootPC, PhaseInv
  <2> QED
    BY <1>5, <2>1 DEF BootRamdisk, Mapping, Preparing, Extracting
<1> QED
  BY <1>2, <1>3, <1>4, <1>5 DEF PhaseInv, PCs, Preparing, Extracting

MainSteps ==
  \/ Main!PrepareRamdisk \/ Main!PrepareRamdiskFails \/ Main!Extract \/ Main!ExtractSpins
  \/ Main!RunEngine

\* Main's variables that are not constant under the mapping.
Mapped == <<BootPC, BootRamdisk, memory, pc = "failed", engine_pc = "done">>

LEMMA MappedUnchanged == UNCHANGED Mapped => UNCHANGED Main!vars
BY DEF Mapped, Main!vars, Main!stage1, Main!stage2

LEMMA MainStep ==
  PhaseInv /\ Mapping /\ Mapping' /\ ArchiveInv /\ [InnerTry]_all => [MainSteps]_(Main!vars)
<1> SUFFICES ASSUME PhaseInv, Mapping, Mapping', ArchiveInv, [InnerTry]_all
             PROVE  MainSteps \/ UNCHANGED Main!vars
  OBVIOUS
<1> USE DEF Main!locals, Main!stage1, Main!stage2, Main!Goto
<1>1. CASE StoreStep
  <2> USE <1>1, StoreStepPhase
  <2>1. CASE pc \in Preparing /\ pc' = "failed"
    <3>1. BootPC = "ramdisk" /\ BootRamdisk = "none" /\ engine_pc = "constructed"
      BY <2>1 DEF Mapping, PhaseInv, Preparing
    <3>2. BootPC' = "remove_sys" /\ BootRamdisk' \in {"none", "tmpfs"}
      BY <2>1 DEF Mapping, PhaseInv, Preparing, Extracting
    <3> QED
      BY <2>1, <3>1, <3>2 DEF MainSteps, Main!PrepareRamdiskFails
  <2>2. CASE pc \in Preparing /\ pc' \in Preparing
    <3>1. UNCHANGED Mapped
      BY <2>2 DEF Mapping, Preparing, Mapped
    <3> QED
      BY <3>1, MappedUnchanged
  <2>3. CASE pc \in Extracting /\ pc' = "returned"
    <3>1. ~Spins
      BY <2>3, SpinsForEver DEF Spins
    <3>2. BootPC = "extract" /\ BootRamdisk = "overlay" /\ engine_pc = "constructed"
      BY <2>3, <3>1 DEF Mapping, PhaseInv, Extracting
    <3>3. BootPC' = "engine" /\ BootRamdisk' = "overlay" /\ engine_pc' = "constructed"
      BY <2>3, <3>2 DEF Mapping, PhaseInv, Extracting
    <3> QED
      BY <2>3, <3>2, <3>3 DEF MainSteps, Main!Extract, Extracting
  <2>4. CASE pc \in Extracting /\ pc' \in Extracting \cup {"add"}
    <3>1. engine_pc' = engine_pc /\ memory' = memory /\ pc # "failed" /\ pc' # "failed"
      BY <2>4 DEF Extracting
    <3>2. BootRamdisk = "overlay" /\ BootRamdisk' = "overlay"
      BY <2>4 DEF Mapping
    <3>3. /\ BootPC = IF Spins THEN "spins" ELSE "extract"
          /\ BootPC' = IF Spins' THEN "spins" ELSE "extract"
      BY <2>4 DEF Mapping
    <3>4. Spins => Spins'
      BY SpinsForEver
    <3>5. CASE (Spins /\ Spins') \/ (~Spins /\ ~Spins')
      <4>1. UNCHANGED Mapped
        BY <3>1, <3>2, <3>3, <3>5 DEF Mapped
      <4> QED
        BY <4>1, MappedUnchanged
    <3>6. CASE ~Spins /\ Spins'
      BY <3>1, <3>2, <3>3, <3>6 DEF MainSteps, Main!ExtractSpins
    <3> QED
      BY <3>4, <3>5, <3>6
  <2> QED
    BY <2>1, <2>2, <2>3, <2>4 DEF Preparing, Extracting
<1>2. CASE CertOverlay
  <2> USE <1>2, CertOverlayPhase
  <2>1. BootPC = "ramdisk" /\ BootRamdisk = "none"
    BY DEF Mapping, Preparing
  <2>2. BootPC' = "extract" /\ BootRamdisk' = "overlay"
    BY DEF Mapping, Extracting, Spins
  <2> QED
    BY <2>1, <2>2 DEF MainSteps, Main!PrepareRamdisk
<1>3. CASE AddEntry
  <2> USE <1>3, AddEntryPhase
  <2>1. BootPC = "extract" /\ BootRamdisk = "overlay"
    BY DEF Mapping, Spins
  <2>2. ramdisk = "readonly" /\ engine_pc = "constructed"
    BY DEF PhaseInv
  <2>3. BootPC' = "engine" /\ BootRamdisk' = "readonly"
    BY <2>2 DEF Mapping
  <2> QED
    BY <2>1, <2>2, <2>3 DEF MainSteps, Main!Extract
<1>4. CASE EngineStep
  <2> USE <1>4, EngineStepPhase
  <2>1. BootPC = "engine" /\ BootRamdisk' = BootRamdisk /\ engine_pc # "done"
    BY DEF Mapping
  <2>2. CASE engine_pc' = "done"
    <3>1. BootPC' = "remove_sys"
      BY <2>2 DEF Mapping
    <3> QED
      BY <2>1, <2>2, <3>1 DEF MainSteps, Main!RunEngine
  <2>3. CASE engine_pc' # "done"
    <3>1. BootPC' = "engine"
      BY <2>3 DEF Mapping
    <3>2. UNCHANGED Mapped
      BY <2>1, <2>3, <3>1 DEF Mapped
    <3> QED
      BY <3>2, MappedUnchanged
  <2> QED
    BY <2>2, <2>3
<1>5. CASE UNCHANGED all
  <2>1. UNCHANGED Mapped
    BY <1>5 DEF all, vars, engine, given, Mapped, BootPC, BootRamdisk, Spins, Rest
  <2> QED
    BY <2>1, MappedUnchanged
<1> QED
  BY <1>1, <1>2, <1>3, <1>4, <1>5 DEF InnerTry

\* Everything the store and the engine do together is a step of main() as
\* module Boot has it, or none that Boot can see.
THEOREM StepsOfMain == InnerSpec => BootSteps
<1>1. InnerInit => PhaseInv
  BY DEF InnerInit, Init, DM!Init, PhaseInv, PCs, Extracting
<1>2. InnerSpec => []PhaseInv
  BY <1>1, PhaseStep, PTL DEF InnerSpec
<1>3. InnerSpec => []ArchiveInv
  BY ArchiveAlways
<1>4. InnerSpec => [][MainSteps]_(Main!vars)
  BY <1>2, <1>3, PhaseMapped, MainStep, PTL DEF InnerSpec
<1> QED
  BY <1>4, PTL DEF BootSteps, MainSteps

-----------------------------------------------------------------------------
(* No step leaves the store where it was, but a copy that spins            *)

\* How far the store is.
Position ==
  CASE pc = "mountpoint" -> 11 [] pc = "directories" -> 10 [] pc = "overlay" -> 9
    [] pc = "config" -> 8 [] pc = "open" -> 7 [] pc = "create" -> 6 [] pc = "copy" -> 5
    [] pc = "unpack" -> 4 [] pc = "chown" -> 3 [] pc = "remount" -> 2 [] pc = "add" -> 1
    [] OTHER -> 0

Descends ==
  \/ Position' < Position
  \/ pc = "copy" /\ pc' = pc /\ 0 <= Rest' /\ Rest' < Rest

\* The copy never gets beyond the archive, whatever the streams did.
CopyBound == pc = "copy" => copy.cursor <= copy.store.size

\* One block more, and the counter's new value is within the archive.
LEMMA BlockCounts ==
  ASSUME ArchiveInv, CopyBlock
  PROVE  LET y == (copy.cursor + Chunk) % Modulus
         IN  /\ y \in Nat /\ y <= copy.store.size
             /\ copy'.cursor = y /\ copy'.store = copy.store
<1> DEFINE y == (copy.cursor + Chunk) % Modulus
<1>1. pc = "copy" /\ memory = "eMMC" /\ y <= copy.store.size /\ Transfer(Chunk, y)
  BY DEF CopyBlock
<1>2. CopyType /\ EmmcCopy
  BY <1>1 DEF ArchiveInv
<1>3. y \in Nat /\ y < Modulus
  BY <1>2, Blocks
<1>4. Chunk \in Nat /\ Chunk <= Chunk
  BY ChunkAssumption
<1> HIDE DEF y
<1>5. copy'.cursor = y /\ copy'.store = copy.store
  BY <1>1, <1>2, <1>3, <1>4, TransferProperties
<1> QED
  BY <1>1, <1>3, <1>5 DEF y

LEMMA CopyBoundStep == ArchiveInv /\ ArchiveInv' /\ CopyBound /\ [InnerTry]_all => CopyBound'
<1> SUFFICES ASSUME ArchiveInv, ArchiveInv', CopyBound, [InnerTry]_all, pc' = "copy"
             PROVE  copy'.cursor <= copy'.store.size
  BY DEF CopyBound
<1>1. CASE CreateArchive
  BY <1>1 DEF CreateArchive, local, ArchiveInv, CopyType, Copies
<1>2. CASE CopyChunk
  BY <1>2 DEF CopyChunk, Goto, given, ArchiveInv, NandCopy
<1>3. CASE CopyBlock
  BY <1>3, BlockCounts
<1>4. CASE UNCHANGED vars
  BY <1>4 DEF vars, local, CopyBound
<1>5. CASE StoreStep /\ ~CreateArchive /\ ~CopyChunk /\ ~CopyBlock
  BY <1>5 DEF StoreStep, PrepareFails, MountTmpfs, MakeDirectories, Extract, ConfigRejected,
              ScanFails, ConfigAccepted, OpenFails, ReadHeader, CreateFails, CopyThrows, CopyEnds,
              CopyRest, ShellFails, Unpack, Chown, RemountFails, Remount, Warn, Goto
<1>6. CASE CertOverlay \/ AddEntry
  BY <1>6 DEF CertOverlay, AddEntry, MountOverlay, HandOver, Goto
<1> QED
  BY <1>4, <1>1, <1>2, <1>3, <1>5, <1>6 DEF InnerTry, EngineStep, all

LEMMA StoreDescends ==
  ASSUME ArchiveInv, CopyBound, StoreStep \/ CertOverlay \/ AddEntry, ~Spins
  PROVE  Descends
<1>1. CASE CopyChunk
  <2> DEFINE n == Available(Smaller(Chunk, Rest))
  <2>1. /\ pc = "copy" /\ memory = "NAND" /\ pc' = pc /\ n > 0
        /\ copy' = [copy EXCEPT !.cursor = copy.cursor + n, !.position = copy.position + n]
    BY <1>1 DEF CopyChunk, Goto
  <2>2. CopyType /\ NandCopy
    BY <2>1 DEF ArchiveInv
  <2>3. /\ copy.cursor \in Nat /\ copy.store.size \in Nat /\ copy.cursor <= copy.store.size
        /\ copy.position \in Nat /\ copy.store.there \in Nat /\ copy.position <= copy.store.there
    BY <2>2 DEF CopyType, Copies, NandCopy
  <2>4. n \in Nat /\ n <= Rest
    BY <2>3, ChunkAssumption DEF Available, Smaller, Rest
  <2> HIDE DEF n
  <2>5. copy'.cursor = copy.cursor + n /\ copy'.store = copy.store
    BY <2>1, <2>2 DEF CopyType, Copies
  <2>6. Rest' = Rest - n
    BY <2>3, <2>4, <2>5 DEF Rest
  <2> QED
    BY <2>1, <2>3, <2>4, <2>6 DEF Descends, Rest
<1>2. CASE CopyBlock
  <2> DEFINE y == (copy.cursor + Chunk) % Modulus
  <2>1. pc = "copy" /\ memory = "eMMC" /\ pc' = pc
    BY <1>2 DEF CopyBlock, Goto
  <2>2. CopyType /\ EmmcCopy /\ copy.cursor <= copy.store.size
    BY <2>1 DEF ArchiveInv, CopyBound
  <2>3. /\ copy.cursor \in Nat /\ copy.store.size \in Nat /\ copy.cursor % Chunk = 0
        /\ copy.cursor < Modulus /\ copy.store.size < Modulus - Chunk
        /\ Chunk \in Nat \ {0} /\ Modulus \in Nat /\ Modulus % Chunk = 0
    BY <2>1, <2>2, ChunkAssumption DEF CopyType, Copies, EmmcCopy, Spins
  <2>4. copy.cursor + Chunk < Modulus
    BY <2>2, <2>3
  <2>5. y = copy.cursor + Chunk
    BY <2>3, <2>4, NextCursor
  <2>6. y <= copy.store.size /\ copy'.cursor = y /\ copy'.store = copy.store
    BY <1>2, BlockCounts
  <2> HIDE DEF y
  <2> QED
    BY <2>1, <2>3, <2>5, <2>6 DEF Descends, Rest
<1>3. CASE \/ CertOverlay \/ AddEntry
           \/ StoreStep /\ ~Extract
  BY <1>3 DEF CertOverlay, AddEntry, StoreStep, PrepareFails, MountTmpfs, MakeDirectories,
              MountOverlay, HandOver, Goto, Descends, Position
<1>4. CASE \/ ConfigRejected \/ ScanFails \/ ConfigAccepted \/ OpenFails \/ ReadHeader
           \/ CreateFails \/ CreateArchive
  <2>1. \/ pc = "config" /\ pc' \in {"open", "returned"}
        \/ pc = "open" /\ pc' \in {"create", "returned"}
        \/ pc = "create" /\ pc' \in {"copy", "returned"}
    BY <1>4 DEF ConfigRejected, ScanFails, ConfigAccepted, OpenFails, ReadHeader, CreateFails,
                CreateArchive, Warn, Goto
  <2> QED
    BY <2>1 DEF Descends, Position
<1>5. CASE \/ CopyThrows \/ CopyEnds \/ CopyRest
  BY <1>5 DEF CopyThrows, CopyEnds, CopyRest, Warn, Goto, Descends, Position
<1>6. CASE \/ ShellFails \/ Unpack \/ Chown \/ RemountFails \/ Remount
  <2>1. \/ pc = "unpack" /\ pc' \in {"chown", "returned"}
        \/ pc = "chown" /\ pc' \in {"remount", "returned"}
        \/ pc = "remount" /\ pc' \in {"add", "returned"}
    BY <1>6 DEF ShellFails, Unpack, Chown, RemountFails, Remount, Warn, Goto
  <2> QED
    BY <2>1 DEF Descends, Position
<1> QED
  BY <1>1, <1>2, <1>3, <1>4, <1>5, <1>6 DEF StoreStep, Extract

\* Each step of the store goes to a later position or copies a part of what is
\* left of the archive, unless the copy is one that spins: for every size of
\* the buffer, the counter and the archive there is no other endless loop.
THEOREM OnlySpinsEndless ==
  InnerSpec => [][(StoreStep \/ CertOverlay \/ AddEntry) /\ ~Spins => Descends]_all
<1>1. InnerInit => CopyBound
  BY DEF InnerInit, Init, CopyBound
<1> QED
  BY <1>1, CopyBoundStep, StoreDescends, ArchiveAlways, PTL DEF InnerSpec

=============================================================================
