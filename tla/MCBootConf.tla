----------------------------- MODULE MCBootConf -----------------------------
(***************************************************************************)
(* A board with two MMC devices and one whose U-Boot environment moves     *)
(* between the MTD devices 1 and 10.  Both files are in one directory.     *)
(***************************************************************************)
EXTENDS BootConf

MCDevices == {"mmcblk0", "mmcblk1", "mtd1", "mtd10"}
MCPrefix == {<<"mtd1", "mtd10">>}

MMC == [type : {"eMMC"}, device : {"mmcblk0", "mmcblk1"}]
MTD == [type : {"NAND"}, device : {"mtd1", "mtd10", NoDevice}]
MCBooted == MMC \cup MTD

Template(L) == [lines |-> L, state |-> "whole"]
Line(d, p) == [device |-> d, part |-> p]

\* Partitions of a device, and the device as a whole, which is not replaced.
MCTemplates ==
  [eMMC |-> {Template({Line("mmcblk0", TRUE)}), Template({Line("mmcblk0", FALSE)})},
   NAND |-> {Template({Line("mtd1", FALSE)}), Template({})}]

MCDirs == {"conf"}
MCDirOf == [f \in Files |-> "conf"]

AllFaults == {"power", "unordered", "readonly", "copy", "nospace", "rename"}
MCFaultSets ==
  {{}, {"power"}, {"nospace"}, {"power", "unordered"},
   AllFaults \ {"nospace", "unordered"}, AllFaults \ {"nospace"}, AllFaults}

=============================================================================
