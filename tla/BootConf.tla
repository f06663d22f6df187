------------------------------ MODULE BootConf ------------------------------
(***************************************************************************)
(* create_link_to_system_conf and create_link_to_fw_env_conf               *)
(* (create_link.cpp): RAUC's and U-Boot's configuration on the persistent  *)
(* memory, copied from the firmware when it is absent and rewritten when   *)
(* it does not name the device the board was booted from.  The files       *)
(* outlive a boot, and the power can fail between any two system calls.    *)
(*                                                                         *)
(* A file is the set of its lines that name a device; two lines with the   *)
(* same device and the same form are one.  What has been written is there  *)
(* after a power failure, unless the file system brings names to the disk  *)
(* before data: then a file that was not synchronised can be empty.        *)
(***************************************************************************)
EXTENDS Naturals

CONSTANTS
  Devices,     \* names of devices
  IsPrefix,    \* pairs <<d, e>>: the name of e is longer than d's and starts with it
  Booted,      \* what can be found out at boot: records of type and device
  Dirs, DirOf, \* the directories of the files, and which file is in which
  Templates,   \* per type of memory: contents of the firmware's template files
  FaultSets,   \* failures the environment can produce: one of these sets
  MaxBoots     \* bound: boots that are looked at

Files == {"system", "fw_env"}

\* A line names a device as a whole or one of its partitions.
Lines    == [device : Devices, part : BOOLEAN]
Contents == [lines : SUBSET Lines, state : {"absent", "torn", "whole"}]
Absent   == [lines |-> {}, state |-> "absent"]
Empty    == [lines |-> {}, state |-> "torn"]
NoDevice == "not found"

ASSUME DirAssumption  == DirOf \in [Files -> Dirs]
ASSUME BootAssumption ==     \* only an MTD device can be missing
  Booted \subseteq [type : {"eMMC"}, device : Devices]
                 \cup [type : {"NAND"}, device : Devices \cup {NoDevice}]
ASSUME TemplateAssumption ==
  Templates \in [{"eMMC", "NAND"} -> SUBSET [lines : SUBSET Lines, state : {"whole"}]]
ASSUME BoundAssumption == MaxBoots \in Nat \ {0}

VARIABLES
  pc,        \* where the function that runs is
  file,      \* the file it works on
  boot,      \* mem_dect, with findMTDDeviceByName's answer on NAND
  template,  \* the firmware's template of each file
  dirs,      \* existing directories
  conf,      \* the configuration files
  tmp,       \* the ".tmp" files beside them
  unsynced,  \* files that were written since the last sync
  updated,   \* what updateMCCBootDevConf or updateMTDBootDevConf returned
  boots,     \* boots that began
  ended,     \* history: boots in which both functions came to their end
  faults     \* the failures that can happen

vars == <<pc, file, boot, template, dirs, conf, tmp, unsynced, updated, boots, ended, faults>>

PCs == {"mkdir", "copy", "copying", "check", "open", "write", "rename", "sync", "done"}

TypeOK ==
  /\ pc \in PCs
  /\ file \in Files
  /\ boot \in Booted
  /\ template \in [Files -> Templates[boot.type]]
  /\ dirs \subseteq Dirs
  /\ conf \in [Files -> Contents]
  /\ tmp \in [Files -> Contents]
  /\ unsynced \subseteq Files
  /\ updated \in [Files -> {"not called", "true", "false"}]
  /\ boots \in 1..MaxBoots
  /\ ended \in 0..boots
  /\ faults \in FaultSets

\* A file that a write has not filled: some of the lines are there.
Torn(c) == [lines : SUBSET c.lines, state : {"torn"}]

\* The program starts with the first file, system.conf.
Start ==
  /\ pc' = "copy"
  /\ file' = "system"
  /\ boot' \in {b \in Booted : b.type = boot.type}
  /\ template' \in [Files -> Templates[boot.type]]
  /\ updated' = [f \in Files |-> "not called"]

Init ==
  /\ pc = "copy"
  /\ file = "system"
  /\ boot \in Booted
  /\ template \in [Files -> Templates[boot.type]]
  /\ dirs \in SUBSET Dirs
  /\ conf = [f \in Files |-> Absent]
  /\ tmp = [f \in Files |-> Absent]
  /\ unsynced = {}
  /\ updated = [f \in Files |-> "not called"]
  /\ boots = 1
  /\ ended = 0
  /\ faults \in FaultSets

given == <<boot, template, boots, faults>>
same  == <<given, unsynced>>

\* What the file holds now is not on the disk yet.
Unsynced == unsynced' = unsynced \cup {file}

Goto(p) == pc' = p /\ UNCHANGED <<file, ended>>

\* The function that works on the file returns, also out of its catch block,
\* which throws nothing.
Return ==
  IF file = "system"
  THEN pc' = "mkdir" /\ file' = "fw_env" /\ UNCHANGED ended
  ELSE pc' = "done" /\ ended' = ended + 1 /\ UNCHANGED file

\* Mutant: the directory is taken for granted.
MakeDirectoryForgotten ==
  /\ pc = "mkdir"
  /\ Goto("copy")
  /\ UNCHANGED <<dirs, conf, tmp, updated, same>>

\* Only create_link_to_fw_env_conf creates the directory of its file.
MakeDirectory ==
  /\ pc = "mkdir"
  /\ dirs' = dirs \cup {DirOf[file]}
  /\ Goto("copy")
  /\ UNCHANGED <<conf, tmp, updated, same>>

MakeDirectoryFails ==
  /\ pc = "mkdir"
  /\ "readonly" \in faults
  /\ DirOf[file] \notin dirs
  /\ Return
  /\ UNCHANGED <<dirs, conf, tmp, updated, same>>

\* Mutant: an interrupted update is finished in the next boot.
NoCopyNeededTmp ==
  /\ pc = "copy"
  /\ conf[file] # Absent
  /\ conf' = [conf EXCEPT ![file] = IF tmp[file] = Absent THEN conf[file] ELSE tmp[file]]
  /\ tmp' = [tmp EXCEPT ![file] = Absent]
  /\ Goto("check")
  /\ UNCHANGED <<dirs, updated, same>>

NoCopyNeeded ==
  /\ pc = "copy"
  /\ conf[file] # Absent
  /\ Goto("check")
  /\ UNCHANGED <<dirs, conf, tmp, updated, same>>

\* copy_file creates the file and fills it: a power failure before it is done
\* leaves some of the template.
BeginCopy ==
  /\ pc = "copy"
  /\ conf[file] = Absent
  /\ DirOf[file] \in dirs
  /\ \E c \in Torn(template[file]) : conf' = [conf EXCEPT ![file] = c]
  /\ Goto("copying")
  /\ UNCHANGED <<dirs, tmp, updated, same>>

\* copy_file throws: no directory, a file system that cannot be written, or a
\* template the firmware does not have.
CopyThrows ==
  /\ pc = "copy"
  /\ conf[file] = Absent
  /\ DirOf[file] \notin dirs \/ faults \cap {"readonly", "copy"} # {}
  /\ Return
  /\ UNCHANGED <<dirs, conf, tmp, updated, same>>

EndCopy ==
  /\ pc = "copying"
  /\ conf' = [conf EXCEPT ![file] = template[file]]
  /\ Unsynced
  /\ Goto("check")
  /\ UNCHANGED <<dirs, tmp, updated, given>>

\* ... or throws while it fills the file; what it has written stays.
CopyFails ==
  /\ pc = "copying"
  /\ "copy" \in faults
  /\ Return
  /\ UNCHANGED <<dirs, conf, tmp, updated, same>>

\* isBootDeviceConfigured: one line contains the device's path.
isBootDeviceConfigured(c, d) ==
  \E l \in c.lines : l.device = d \/ <<d, l.device>> \in IsPrefix

\* Mutant: a missing MTD device is not noticed.
RewritableUnknown == boot.type = "eMMC" \/ file = "fw_env"

\* system.conf is not rewritten on NAND, no file when the MTD device is unknown.
Rewritable == boot.type = "eMMC" \/ (file = "fw_env" /\ boot.device # NoDevice)

Check ==
  /\ pc = "check"
  /\ IF Rewritable /\ ~isBootDeviceConfigured(conf[file], boot.device)
     THEN Goto("open")
     ELSE Return
  /\ UNCHANGED <<dirs, conf, tmp, updated, same>>

UpdateReturns(b) == updated' = [updated EXCEPT ![file] = b] /\ Return

OpenTmp ==
  /\ pc = "open"
  /\ tmp' = [tmp EXCEPT ![file] = Empty]
  /\ Goto("write")
  /\ UNCHANGED <<dirs, conf, updated, same>>

OpenFails ==
  /\ pc = "open"
  /\ "readonly" \in faults
  /\ UpdateReturns("false")
  /\ UNCHANGED <<dirs, conf, tmp, same>>

\* The pattern for MMC devices needs a partition behind the name.
Replaceable(l) == l.part \/ boot.type = "NAND"

\* Mutant: the device of the firmware's template is written.
RewrittenFromTemplate(c) == template[file]

Rewritten(c) ==
  [c EXCEPT !.lines = {IF Replaceable(l) THEN [l EXCEPT !.device = boot.device] ELSE l :
                         l \in c.lines}]

\* The result of the writes is not looked at.
WriteTmp ==
  /\ pc = "write"
  /\ \E c \in {Rewritten(conf[file])} \cup
              (IF "nospace" \in faults THEN Torn(Rewritten(conf[file])) ELSE {}) :
        tmp' = [tmp EXCEPT ![file] = c]
  /\ Goto("rename")
  /\ UNCHANGED <<dirs, conf, updated, same>>

Rename ==
  /\ pc = "rename"
  /\ conf' = [conf EXCEPT ![file] = tmp[file]]
  /\ tmp' = [tmp EXCEPT ![file] = Absent]
  /\ Unsynced
  /\ Goto("sync")
  /\ UNCHANGED <<dirs, updated, given>>

RenameFails ==
  /\ pc = "rename"
  /\ "rename" \in faults
  /\ UpdateReturns("false")
  /\ UNCHANGED <<dirs, conf, tmp, same>>

\* Mutant: the file is checked again after the update.
SyncAndRetry ==
  /\ pc = "sync"
  /\ tmp' = [tmp EXCEPT ![file] = Absent]
  /\ unsynced' = {}
  /\ Goto("check")
  /\ UNCHANGED <<dirs, conf, updated, given>>

\* Mutant: the sync is missing.
SyncForgotten ==
  /\ pc = "sync"
  /\ tmp' = [tmp EXCEPT ![file] = Absent]
  /\ UpdateReturns("true")
  /\ UNCHANGED <<dirs, conf, same>>

\* sync of all files, and a remove that finds no file.
SyncAndRemove ==
  /\ pc = "sync"
  /\ tmp' = [tmp EXCEPT ![file] = Absent]
  /\ unsynced' = {}
  /\ UpdateReturns("true")
  /\ UNCHANGED <<dirs, conf, given>>

\* What a power failure can leave empty: files that were not synchronised, also
\* those of boots whose program came to its end.
Lost == IF {"power", "unordered"} \subseteq faults THEN SUBSET unsynced ELSE {{}}

\* The board is started again, after an orderly shutdown or a power failure,
\* with the same or another device and firmware.
Reboot ==
  /\ pc = "done" \/ "power" \in faults
  /\ boots < MaxBoots
  /\ boots' = boots + 1
  /\ \E lost \in Lost : conf' = [f \in Files |-> IF f \in lost THEN Empty ELSE conf[f]]
  /\ unsynced' = {}
  /\ Start
  /\ UNCHANGED <<dirs, tmp, ended, faults>>

Step ==
  \/ MakeDirectory \/ MakeDirectoryFails
  \/ NoCopyNeeded \/ BeginCopy \/ CopyThrows \/ EndCopy \/ CopyFails
  \/ Check
  \/ OpenTmp \/ OpenFails \/ WriteTmp \/ Rename \/ RenameFails \/ SyncAndRemove

Next == Step \/ Reboot

\* The program's system calls return; nobody need restart the board.
Spec == Init /\ [][Next]_vars /\ WF_vars(Step)

-----------------------------------------------------------------------------
(* Correctness                                                             *)

\* A file that is whole stays whole through every rewrite and every power
\* failure, unless the file system is full: a rewrite goes through the ".tmp"
\* file, and one that a power failure left is never taken for the file.  Where
\* names reach the disk before data, this holds of a file that was synchronised
\* since it was written; one that was only copied, or is between the rename and
\* the sync behind it, can be lost.
StaysWhole ==
  [][\A f \in Files :
       /\ conf[f].state = "whole"
       /\ "nospace" \notin faults
       /\ "unordered" \in faults => f \notin unsynced
       => conf'[f].state = "whole"]_vars

\* A rewrite that was reported as done is what the next boot finds, whatever the
\* file system does with the order of its writes and wherever the power fails
\* afterwards: it is synchronised before the update returns.
ReportedSurvives ==
  [][boots' # boots =>
       \A f \in Files : updated[f] = "true" => conf'[f] = conf[f]]_vars

\* After a boot in which no system call failed, whatever earlier boots were
\* interrupted in, the next program finds the boot device in each whole file
\* that can be rewritten.
NamesBootDevice ==
  pc = "done" /\ faults \subseteq {"power", "unordered"} =>
    \A f \in Files :
       conf[f].state = "whole" /\ (boot.type = "eMMC" \/ (f = "fw_env" /\ boot.device # NoDevice)) =>
         \/ isBootDeviceConfigured(conf[f], boot.device)
         \/ \A l \in conf[f].lines : ~Replaceable(l)

\* The directory only the second function creates is there for the first one
\* in the next boot: after two undisturbed boots both files exist and are whole.
ThereAfterTwoBoots ==
  faults = {} /\ ended >= 2 => \A f \in Files : conf[f].state = "whole"

\* Every boot's program comes to its end or is interrupted by the next boot.
EveryBootEnds == []<>(pc = "done")

\* What the comment of updateMCCBootDevConf says of its result: it is true when
\* the update was successful.  Where only the update can fail, and copies do
\* not, the file is whole afterwards.
UpdateReported ==
  faults \subseteq {"nospace"} =>
    \A f \in Files : updated[f] = "true" => conf[f].state = "whole"

\* What the comment of isBootDeviceConfigured says of its result: it is true
\* when the boot device is configured.
ConfiguredMeansBootDevice ==
  pc = "check" /\ Rewritable /\ isBootDeviceConfigured(conf[file], boot.device) =>
    \A l \in conf[file].lines : l.device = boot.device

=============================================================================
