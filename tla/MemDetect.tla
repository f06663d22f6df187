----------------------------- MODULE MemDetect -----------------------------
(***************************************************************************)
(* PersistentMemDetector (persistent_mem_detector.cpp).  Its constructor:  *)
(* which memory the board was booted from, from /sys/bdinfo/boot_dev and,  *)
(* when that does not settle it, from /proc/cmdline.  And                  *)
(* getPathToPersistentMemoryDevice: the partition or UBI volume "data".    *)
(***************************************************************************)
EXTENDS Naturals

\* What the first line of boot_dev says, and what the patterns find in the
\* kernel's command line.
BdInfos  == {"absent", "empty", "nand", "mmc1", "mmc2", "mmc3", "unknown"}
CmdLines == {"unreadable", "mmcblk0", "mmcblk1", "ubiblock0", "ubiblock1",
             "mmcblk0 and ubiblock0", "neither"}

Detected(type, device) == [ok |-> TRUE, type |-> type, device |-> device]
Throws == [ok |-> FALSE, type |-> "None", device |-> ""]

FromBdInfo(b) ==
  CASE b = "mmc1" -> Detected("eMMC", "mmcblk0")
    [] b = "mmc2" -> Detected("eMMC", "mmcblk1")
    [] b = "mmc3" -> Detected("eMMC", "mmcblk2")
    [] OTHER -> Throws

\* The eMMC pattern is tried before the NAND pattern, also when boot_dev said
\* NAND.
FromCmdLine(c) ==
  CASE c \in {"mmcblk0", "mmcblk0 and ubiblock0"} -> Detected("eMMC", "mmcblk0")
    [] c = "mmcblk1" -> Detected("eMMC", "mmcblk1")
    [] c \in {"ubiblock0", "ubiblock1"} -> Detected("NAND", c)
    [] OTHER -> Throws

\* A NAND in boot_dev only sends the search on to the command line.
Detect(b, c) ==
  IF b \in {"absent", "empty", "nand"} THEN FromCmdLine(c) ELSE FromBdInfo(b)

\* Partitions and UBI volumes, with the medium they are on and their label or
\* name.
Media   == {"mmcblk0", "mmcblk1", "ubi0", "ubi1"}
Volumes == [medium : Media, label : {"data", "other"}]

\* The number of the boot device is that of the UBI device.
UbiOf == [ubiblock0 |-> "ubi0", ubiblock1 |-> "ubi1"]

\* What the search can return: blkid looks for the label on every block device;
\* on NAND only the volumes of the booted UBI device are looked at.  The walk
\* through /sys is not modelled: which of these volumes it comes to first is
\* the environment's choice.
IsPersistentMemory(m, v) ==
  /\ v.label = "data"
  /\ IF m.type = "eMMC" THEN v.medium \in {"mmcblk0", "mmcblk1"}
     ELSE v.medium = UbiOf[m.device]

=============================================================================
