-------------------------------- MODULE Boot --------------------------------
(***************************************************************************)
(* main() of the preinit program (main.cpp): two PreInit objects on one    *)
(* kernel, the detector, the boot configuration, the certificate store and *)
(* the overlay engine, in the order and with the catch blocks of the code. *)
(* What the configuration step, the certificate store and the engine do    *)
(* inside is in BootConf, CertStore and DynamicMounting; module            *)
(* StoreAndEngine shows that their steps here are right.                   *)
(***************************************************************************)
EXTENDS Naturals, Sequences

CONSTANTS CertStore,   \* BUILD_X509_CERTIFICATE_STORE_MOUNT
          Faults       \* failures the environment can produce

ASSUME CertStoreAssumption == CertStore \in BOOLEAN

VARIABLES
  pc,                                \* where main() is
  prep1, paths1, at1, status1,       \* init_stage1
  prep2, paths2, at2, status2,       \* init_stage2
  kernel,                            \* the kernel's mounts
  mem,                               \* mem_dect
  source,                            \* persistent.source_dir
  ramdisk,                           \* the certificate store's ramdisk
  engine,                            \* whether application_image() ran
  error_during_mount_persistent,     \* the saved exception
  exit                               \* history: where main() was left

stage1 == <<prep1, paths1, at1, status1>>
stage2 == <<prep2, paths2, at2, status2>>
vars == <<pc, stage1, stage2, kernel, mem, source, ramdisk, engine,
          error_during_mount_persistent, exit>>

Targets == {"proc", "sys", "persistent", "ramdisk"}

Stage1 == INSTANCE PreInit WITH mount_prep <- prep1, mounted_paths <- paths1,
                                at <- at1, status <- status1
Stage2 == INSTANCE PreInit WITH mount_prep <- prep2, mounted_paths <- paths2,
                                at <- at2, status <- status2
INSTANCE MemDetect

PCs == {"add_proc", "add_sys", "prepare", "stage1", "detect", "path", "stage2",
        "system_conf", "fw_env_conf", "ramdisk", "extract", "spins",
        "engine", "remove_sys", "remove_proc", "end"}
NoVolume == [medium |-> "none", label |-> ""]
Exits == {"", "prepare", "detect", "remove_sys", "remove_proc", "normal"}

TypeOK ==
  /\ pc \in PCs
  /\ Stage1!TypeOK
  /\ Stage2!TypeOK
  /\ mem = Throws \/ \E b \in BdInfos, c \in CmdLines : mem = Detect(b, c)
  /\ source \in Volumes \cup {NoVolume}
  /\ ramdisk \in {"none", "tmpfs", "overlay", "readonly"}
  /\ engine \in BOOLEAN
  /\ error_during_mount_persistent \in BOOLEAN
  /\ exit \in Exits

Init ==
  /\ pc = "add_proc"
  /\ Stage1!Empty
  /\ Stage2!Empty
  /\ kernel = [t \in Targets |-> 0]
  /\ mem = Throws
  /\ source = NoVolume
  /\ ramdisk = "none"
  /\ engine = FALSE
  /\ error_during_mount_persistent = FALSE
  /\ exit = ""

Goto(p) == pc' = p /\ UNCHANGED exit

\* An exception reaches the catch block around all of main().
Leave(e) == pc' = "end" /\ exit' = e

locals == <<mem, source, ramdisk, engine, error_during_mount_persistent>>

AddProc ==
  /\ pc = "add_proc"
  /\ Stage1!Add("proc")
  /\ Goto("add_sys")
  /\ UNCHANGED <<stage2, locals>>

AddSys ==
  /\ pc = "add_sys"
  /\ Stage1!Add("sys")
  /\ Goto("prepare")
  /\ UNCHANGED <<stage2, locals>>

PrepareStage1 ==
  /\ pc = "prepare"
  /\ Stage1!Prepare
  /\ Goto("stage1")
  /\ UNCHANGED <<stage2, locals>>

Stage1Step ==
  /\ pc = "stage1"
  /\ Stage1!PrepareStep
  /\ Goto("stage1")
  /\ UNCHANGED <<stage2, locals>>

Stage1Ok ==
  /\ pc = "stage1"
  /\ status1 = "ok"
  /\ Goto("detect")
  /\ UNCHANGED <<stage1, stage2, kernel, locals>>

\* Mutant: main() goes on without /proc and /sys.
Stage1FailedIgnored ==
  /\ pc = "stage1"
  /\ status1 = "failed"
  /\ Goto("detect")
  /\ UNCHANGED <<stage1, stage2, kernel, locals>>

Stage1Failed ==
  /\ pc = "stage1"
  /\ status1 = "failed"
  /\ Leave("prepare")
  /\ UNCHANGED <<stage1, stage2, kernel, locals>>

\* The detector's constructor; it is not inside an inner try.
DetectMemory ==
  /\ pc = "detect"
  /\ \E b \in BdInfos, c \in CmdLines : mem' = Detect(b, c)
  /\ IF mem'.ok THEN Goto("path") ELSE Leave("detect")
  /\ UNCHANGED <<stage1, stage2, kernel, source, ramdisk, engine, error_during_mount_persistent>>

\* getPathToPersistentMemoryDevice throws: the persistent memory stays away.
PathFails ==
  /\ pc = "path"
  /\ "path" \in Faults
  /\ Goto("system_conf")
  /\ UNCHANGED <<stage1, stage2, kernel, locals>>

PathFound ==
  /\ pc = "path"
  /\ \E v \in Volumes : IsPersistentMemory(mem, v) /\ source' = v
  /\ Stage2!Add("persistent")
  /\ Goto("stage2")
  /\ UNCHANGED <<stage1, mem, ramdisk, engine, error_during_mount_persistent>>

Stage2Step ==
  /\ pc = "stage2"
  /\ Stage2!Prepare \/ Stage2!PrepareStep
  /\ Goto("stage2")
  /\ UNCHANGED <<stage1, locals>>

\* Mutant: the end of init_stage2's scope removes what it mounted.
Stage2EndsRemoving ==
  /\ pc = "stage2"
  /\ status2 \in {"ok", "failed"}
  /\ kernel' = [kernel EXCEPT !["persistent"] = 0]
  /\ Goto("system_conf")
  /\ UNCHANGED <<stage1, stage2, locals>>

\* Mutant: the inner catch is missing; the one around main() ends the program.
Stage2EndsUncaught ==
  /\ pc = "stage2"
  /\ \/ status2 = "ok" /\ Goto("system_conf")
     \/ status2 = "failed" /\ Leave("detect")
  /\ UNCHANGED <<stage1, stage2, kernel, locals>>

\* The inner catch; init_stage2 goes out of scope without any umount.
Stage2Ends ==
  /\ pc = "stage2"
  /\ status2 \in {"ok", "failed"}
  /\ Goto("system_conf")
  /\ UNCHANGED <<stage1, stage2, kernel, locals>>

\* Both configuration steps return whatever fails in them: their catch blocks
\* build an exception and do not throw it.
SystemConf ==
  /\ pc = "system_conf"
  /\ Goto("fw_env_conf")
  /\ UNCHANGED <<stage1, stage2, kernel, locals>>

FwEnvConf ==
  /\ pc = "fw_env_conf"
  /\ Goto(IF CertStore THEN "ramdisk" ELSE "engine")
  /\ UNCHANGED <<stage1, stage2, kernel, locals>>

\* prepare_ramdisk_readable: a tmpfs and on it the upper directory of an
\* overlay on /adu.  It is outside the inner try: an exception skips the rest,
\* the overlay engine too, and leaves what it has mounted.
PrepareRamdisk ==
  /\ pc = "ramdisk"
  /\ kernel' = [kernel EXCEPT !["ramdisk"] = 1]
  /\ ramdisk' = "overlay"
  /\ Goto("extract")
  /\ UNCHANGED <<stage1, stage2, mem, source, engine, error_during_mount_persistent>>

PrepareRamdiskFails ==
  /\ pc = "ramdisk"
  /\ "ramdisk" \in Faults
  /\ \/ UNCHANGED <<kernel, ramdisk>>
     \/ kernel' = [kernel EXCEPT !["ramdisk"] = 1] /\ ramdisk' = "tmpfs"
  /\ error_during_mount_persistent' = TRUE
  /\ Goto("remove_sys")
  /\ UNCHANGED <<stage1, stage2, mem, source, engine>>

\* Extraction, chown and the read-only remount; exceptions are warnings.
Extract ==
  /\ pc = "extract"
  /\ \/ ramdisk' = "readonly"
     \/ "extract" \in Faults /\ UNCHANGED ramdisk
  /\ Goto("engine")
  /\ UNCHANGED <<stage1, stage2, kernel, mem, source, engine, error_during_mount_persistent>>

\* An archive on an MTD partition that ends before its header's size: the loop
\* that copies it does not end, and neither does main().
ExtractSpins ==
  /\ pc = "extract"
  /\ "short" \in Faults
  /\ Goto("spins")
  /\ UNCHANGED <<stage1, stage2, kernel, locals>>

\* application_image() returns whatever fails in it.
RunEngine ==
  /\ pc = "engine"
  /\ engine' = TRUE
  /\ Goto("remove_sys")
  /\ UNCHANGED <<stage1, stage2, kernel, mem, source, ramdisk, error_during_mount_persistent>>

RemoveSys ==
  /\ pc = "remove_sys"
  /\ \/ Stage1!RemoveOk("sys") /\ Goto("remove_proc")
     \/ Stage1!RemoveFails("sys") /\ Leave("remove_sys")
  /\ UNCHANGED <<stage2, locals>>

\* Mutant: the umount of /proc is forgotten.
RemoveProcForgotten ==
  /\ pc = "remove_proc"
  /\ Leave("normal")
  /\ UNCHANGED <<stage1, stage2, kernel, locals>>

\* The saved exception is thrown again and reported; main() returns 0.
RemoveProc ==
  /\ pc = "remove_proc"
  /\ \/ Stage1!RemoveOk("proc") /\ Leave("normal")
     \/ Stage1!RemoveFails("proc") /\ Leave("remove_proc")
  /\ UNCHANGED <<stage2, locals>>

Next ==
  \/ AddProc \/ AddSys \/ PrepareStage1 \/ Stage1Step \/ Stage1Ok \/ Stage1Failed
  \/ DetectMemory \/ PathFails \/ PathFound \/ Stage2Step \/ Stage2Ends
  \/ SystemConf \/ FwEnvConf
  \/ PrepareRamdisk \/ PrepareRamdiskFails \/ Extract \/ ExtractSpins \/ RunEngine
  \/ RemoveSys \/ RemoveProc

\* A sequential program whose system calls return.
Spec == Init /\ [][Next]_vars /\ WF_vars(Next)

-----------------------------------------------------------------------------
(* Correctness                                                             *)

\* Both PreInit objects keep their ledger right on the shared kernel, through
\* mounts, a rollback and single removals.
LedgersSound == Stage1!LedgerSound /\ Stage2!LedgerSound

\* Whatever reads /proc or /sys (the detector, the mount table, the UBI
\* volumes) runs while both are mounted.
ProcAndSysMounted ==
  pc \in {"detect", "path", "stage2", "system_conf", "fw_env_conf", "ramdisk",
          "extract", "engine"} =>
    kernel["proc"] = 1 /\ kernel["sys"] = 1

\* When main() ran to its end, or left because a mount failed and every umount
\* of the rollback worked, neither /proc nor /sys is left mounted.
NothingLeftBehind ==
  (exit = "normal" \/ (exit = "prepare" /\ at1 \notin DOMAIN paths1)) =>
     kernel["proc"] = 0 /\ kernel["sys"] = 0

\* The persistent memory, once mounted, is there for the engine and stays for
\* the system that is started afterwards, on every way through main().
PersistentStays == status2 = "ok" => kernel["persistent"] = 1

\* Once the memory is detected the overlay engine runs, whatever becomes of the
\* persistent memory, of both configuration files and of the certificates: only
\* a ramdisk that cannot be prepared, whose exception is kept for the end, and
\* an archive whose copy never ends keep the application away.
EngineReached ==
  pc = "path" ~> engine \/ error_during_mount_persistent \/ pc = "spins"

\* main() ends, whatever fails in either list of mounts, its rollback or a
\* removal, unless the copy of the certificates' archive does not.
Termination == <>(pc = "end") \/ <>(pc = "spins")

\* What the documentation says of the program's last step: /proc and /sys are
\* unmounted for the init system.
ProcSysUnmounted == pc = "end" => kernel["proc"] = 0 /\ kernel["sys"] = 0

=============================================================================
