--------------------------- MODULE StoreAndEngine ---------------------------
(***************************************************************************)
(* The inner try of main() (main.cpp): the certificate store and then the  *)
(* overlay engine, which share the kernel's mounts.  The store mounts an   *)
(* overlay on the directory of the certificates and hands the engine an    *)
(* entry for the same directory; an application image may claim it, too.   *)
(***************************************************************************)
EXTENDS CertStore, FiniteSets

CONSTANTS Paths, Etc, UsrBin, MaxOverlays, Images, InitialDirs,
          Adu          \* TARGET_ADU_DIR_PATH

VARIABLES engine_pc, image, overlay_application, overlay_persistent, additional,
          next, successful, failed, error, mount_count, mounts, dirs, tmp_app,
          added, handled

ASSUME AduAssumption == Adu \in Paths

\* What prepare_readonly_overlay_from_ramdisk returns.
Entry == [merge |-> Adu, lower |-> <<"ram", Adu>>]

NoMounts == [p \in Paths |-> <<>>]

DM == INSTANCE DynamicMounting
        WITH pc <- engine_pc, Entries <- {Entry}, InitialMounts <- {NoMounts}

ASSUME ImagesAssumption ==   \* what the parser gives
  \A im \in Images : im \in DM!Image

table_of_mounts == <<mounts, dirs>>
engine == <<engine_pc, image, overlay_application, overlay_persistent, additional, next,
            successful, failed, error, mount_count, tmp_app, added, handled>>
all == <<vars, engine, table_of_mounts>>

StoreStep ==
  /\ PrepareFails \/ MountTmpfs \/ MakeDirectories \/ Extract
  /\ UNCHANGED <<engine, table_of_mounts>>

\* The writable overlay on the certificates' directory; its upper directory on
\* the ramdisk is what the entry names.
Cert == [kind |-> "cert", lower |-> <<DM!SysDir(Adu)>>, upper |-> {Entry.lower}]

CertOverlay ==
  /\ MountOverlay
  /\ mounts' = [mounts EXCEPT ![Adu] = DM!Mounted(@, Cert)]
  /\ dirs' = dirs \cup {Entry.lower}
  /\ UNCHANGED engine

\* add_lower_dir_readonly_memory
AddEntry == HandOver /\ DM!AddLowerDir(Entry)

EngineStep ==
  /\ pc = "returned"
  /\ DM!Engine
  /\ UNCHANGED vars

InnerTry == StoreStep \/ CertOverlay \/ AddEntry \/ EngineStep

InnerInit == Init /\ DM!Init

\* A sequential program whose system calls return.
InnerSpec == InnerInit /\ [][InnerTry]_all /\ WF_all(InnerTry)

-----------------------------------------------------------------------------
(* Correctness                                                             *)

\* What is unpacked is the archive of the secure partition: on NAND always, on
\* eMMC when no read or write failed, the partition is as long as its header
\* says and the ramdisk has room for it.
ArchiveExact ==
  pc = "unpack" =>
    \/ Complete
    \/ /\ memory = "eMMC"
       /\ \/ faults \cap {"read", "write"} # {}
          \/ copy.store.there < copy.store.size
          \/ copy.store.size > Capacity

\* When the ramdisk is made read-only the archive is gone and nothing is open:
\* an open file makes the kernel refuse the remount, and what is left there
\* takes up the ramdisk's room for good.
ReadyToRemount == pc = "remount" => ~archive.exists /\ fds = {}

\* The engine is given the ramdisk if and only if it was made read-only, on
\* every way through the store's exceptions.
SealedWhenAdded ==
  pc = "returned" => (Entry \in added <=> ramdisk = "readonly")

\* The application claims the directory of the certificates: it lists it and
\* has a persistent section for it.
Claimed ==
  /\ DM!InApplication(Adu)
  /\ \E i \in DOMAIN overlay_persistent : overlay_persistent[i].merge = Adu

\* Certificates that were unpacked are shown when main() ends, whatever fails
\* in the engine and whatever else it mounts: the overlay the store mounted is
\* still the one on top, unless the application claims the directory.
CertificatesShown ==
  unpacked /\ engine_pc = "done" /\ ~Claimed =>
    mounts[Adu] # <<>> /\ DM!Top(mounts[Adu]).kind = "cert"

\* The loop that copies the archive never ends: an MTD partition that ends
\* before its header's size, or a size within BUFSIZ of UINT64_MAX.
Spins ==
  /\ pc = "copy"
  /\ IF memory = "NAND" THEN Rest > 0 /\ copy.position = copy.store.there
     ELSE copy.store.size >= Modulus - Chunk

\* The inner try comes to its end, unless the archive's copy never does.
InnerTryEnds == <>(engine_pc = "done" \/ pc = "failed") \/ <>[]Spins

\* How far main() is, as module Boot names it.
BootPC ==
  CASE pc \in {"mountpoint", "directories", "overlay"} -> "ramdisk"
    [] Spins -> "spins"
    [] pc = "failed" \/ engine_pc = "done" -> "remove_sys"
    [] pc = "returned" /\ engine_pc # "done" -> "engine"
    [] OTHER -> "extract"

\* What of the ramdisk module Boot tells apart at each of its steps.
BootRamdisk ==
  CASE BootPC = "ramdisk" -> "none"
    [] BootPC \in {"extract", "spins"} -> "overlay"
    [] OTHER -> ramdisk

Main == INSTANCE Boot
  WITH CertStore <- TRUE, Faults <- {"ramdisk", "extract", "short"},
       pc <- BootPC, ramdisk <- BootRamdisk, mem <- memory, source <- "",
       kernel <- [t \in {"ramdisk"} |-> IF BootRamdisk = "none" THEN 0 ELSE 1],
       error_during_mount_persistent <- (pc = "failed"), engine <- (engine_pc = "done"),
       prep1 <- <<>>, paths1 <- <<>>, at1 <- 1, status1 <- "ok",
       prep2 <- <<>>, paths2 <- <<>>, at2 <- 1, status2 <- "ok", exit <- ""

\* Module Boot is right about its steps with the ramdisk, the extraction and
\* the engine: whatever fails, these are all that happens between the boot
\* configuration and the umount of /sys.
BootSteps ==
  [][Main!PrepareRamdisk \/ Main!PrepareRamdiskFails \/ Main!Extract \/ Main!ExtractSpins
     \/ Main!RunEngine]_(Main!vars)

=============================================================================
