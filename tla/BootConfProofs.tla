--------------------------- MODULE BootConfProofs ---------------------------
(***************************************************************************)
(* Theorems about the two configuration files, for every set of devices,   *)
(* templates, directories and failures and for any number of boots.        *)
(***************************************************************************)
EXTENDS BootConf, TLAPS

\* Which function runs, and what is known of its files at each of its calls.
ControlOK ==
  /\ pc \in {"mkdir", "done"} => file = "fw_env"
  /\ pc # "done" => ended < boots
  /\ pc = "copying" => conf[file].state = "torn"
  /\ pc \in {"open", "write"} => Rewritable
  /\ pc = "rename" /\ "nospace" \notin faults => tmp[file] = Rewritten(conf[file])

FileInv == TypeOK /\ ControlOK

-----------------------------------------------------------------------------
(* Facts about the operators on contents                                   *)

\* A template is a whole file, and a part of a file is a torn one.
LEMMA ContentsProperties ==
  ASSUME TypeOK, NEW f \in Files
  PROVE  /\ template[f] \in Contents /\ template[f].state = "whole"
         /\ Absent \in Contents /\ Absent.state = "absent"
         /\ Empty \in Contents /\ Empty.state = "torn"
         /\ \A c \in Contents : \A t \in Torn(c) : t \in Contents /\ t.state = "torn"
<1>1. boot.type \in {"eMMC", "NAND"}
  BY BootAssumption DEF TypeOK
<1>2. template[f] \in Templates[boot.type]
  BY DEF TypeOK
<1>3. Templates[boot.type] \subseteq [lines : SUBSET Lines, state : {"whole"}]
  BY <1>1, TemplateAssumption
<1>4. template[f] \in [lines : SUBSET Lines, state : {"whole"}]
  BY <1>2, <1>3
<1>5. template[f] \in Contents /\ template[f].state = "whole"
  BY <1>4 DEF Contents
<1>6. /\ Absent \in Contents /\ Absent.state = "absent"
      /\ Empty \in Contents /\ Empty.state = "torn"
  BY DEF Absent, Empty, Contents
<1>7. \A c \in Contents : \A t \in Torn(c) : t \in Contents /\ t.state = "torn"
  BY DEF Torn, Contents
<1> QED
  BY <1>5, <1>6, <1>7

\* A rewrite keeps the state of a file, and writes devices only.
LEMMA RewrittenProperties ==
  ASSUME TypeOK, Rewritable, NEW c \in Contents
  PROVE  Rewritten(c) \in Contents /\ Rewritten(c).state = c.state
<1>1. boot.device \in Devices
  BY BootAssumption DEF TypeOK, Rewritable, NoDevice
<1>2. \A l \in Lines : [l EXCEPT !.device = boot.device] \in Lines
  BY <1>1 DEF Lines
<1> DEFINE L == {IF Replaceable(l) THEN [l EXCEPT !.device = boot.device] ELSE l : l \in c.lines}
<1>3. L \subseteq Lines
  BY <1>2 DEF Contents
<1>4. Rewritten(c) = [c EXCEPT !.lines = L]
  BY DEF Rewritten
<1> HIDE DEF L
<1> QED
  BY <1>3, <1>4 DEF Contents

-----------------------------------------------------------------------------
(* The types, and where the program is                                     *)

\* The counters, as numbers.
LEMMA CountProperties ==
  ASSUME TypeOK
  PROVE  /\ MaxBoots \in Nat
         /\ boots \in Nat /\ 1 <= boots /\ boots <= MaxBoots
         /\ ended \in Nat /\ ended <= boots
<1>1. MaxBoots \in Nat
  BY BoundAssumption
<1>2. boots \in 1 .. MaxBoots /\ ended \in 0 .. boots
  BY DEF TypeOK
<1> QED
  BY <1>1, <1>2

\* The program begins with nothing but templates for the memory it found.
LEMMA FileInvInit == Init => FileInv
<1> SUFFICES ASSUME Init PROVE FileInv
  OBVIOUS
<1>1. Absent \in Contents
  BY DEF Absent, Contents
<1>2. 1 \in 1 .. MaxBoots /\ 0 \in 0 .. 1 /\ 0 < 1
  BY BoundAssumption
<1> QED
  BY <1>1, <1>2 DEF Init, FileInv, TypeOK, ControlOK, PCs, Files

\* The end of a function goes on to the second one or ends the boot.
LEMMA ReturnProperties ==
  ASSUME FileInv, Return, boots' = boots, pc # "done"
  PROVE  /\ pc' \in {"mkdir", "done"} /\ file' = "fw_env"
         /\ ended' \in 0 .. boots' /\ (pc' # "done" => ended' < boots')
         /\ pc' = "done" => file = "fw_env"
         /\ pc' = "mkdir" => file = "system"
<1>1. file \in {"system", "fw_env"} /\ ended < boots
  BY DEF FileInv, TypeOK, ControlOK, Files
<1>2. boots \in Nat /\ ended \in Nat
  BY CountProperties DEF FileInv
<1> QED
  BY <1>1, <1>2 DEF Return

\* Every step keeps the types and the facts about the control.
LEMMA FileInvStep == FileInv /\ [Next]_vars => FileInv'
<1> SUFFICES ASSUME FileInv, [Next]_vars PROVE FileInv'
  OBVIOUS
<1> USE DEF FileInv
<1>t. /\ file \in Files /\ Files = {"system", "fw_env"}
      /\ conf \in [Files -> Contents] /\ tmp \in [Files -> Contents]
      /\ MaxBoots \in Nat /\ boots \in Nat /\ 1 <= boots /\ boots <= MaxBoots
      /\ ended \in Nat /\ ended <= boots
  <2>1. /\ file \in Files /\ Files = {"system", "fw_env"}
        /\ conf \in [Files -> Contents] /\ tmp \in [Files -> Contents]
    BY DEF TypeOK, Files
  <2> QED
    BY <2>1, CountProperties
<1>1. CASE UNCHANGED vars
  <2>1. TypeOK'
    BY <1>1 DEF vars, TypeOK
  <2>2. Rewritable' = Rewritable /\ Rewritten(conf[file])' = Rewritten(conf[file])
    BY <1>1 DEF vars, Rewritable, Rewritten, Replaceable
  <2> QED
    BY <1>1, <2>1, <2>2 DEF vars, ControlOK
<1>2. CASE MakeDirectory
  <2>1. TypeOK'
    BY <1>2, DirAssumption DEF MakeDirectory, Goto, same, given, TypeOK, PCs
  <2> QED
    BY <1>2, <2>1 DEF MakeDirectory, Goto, same, given, ControlOK
<1>3. CASE MakeDirectoryFails
  <2>1. Return /\ pc # "done" /\ boots' = boots
    BY <1>3 DEF MakeDirectoryFails, same, given
  <2> QED
    BY <1>3, <2>1, ReturnProperties DEF MakeDirectoryFails, same, given, TypeOK, ControlOK, PCs, Files
<1>4. CASE NoCopyNeeded
  BY <1>4 DEF NoCopyNeeded, Goto, same, given, TypeOK, ControlOK, PCs
<1>5. CASE BeginCopy
  <2>c. PICK c \in Torn(template[file]) : conf' = [conf EXCEPT ![file] = c]
    BY <1>5 DEF BeginCopy
  <2>t. /\ template[file] \in Contents
        /\ \A t \in Torn(template[file]) : t \in Contents /\ t.state = "torn"
    BY <1>t, ContentsProperties
  <2>d. c \in Contents /\ c.state = "torn"
    BY <2>c, <2>t
  <2>1. TypeOK'
    BY <1>5, <1>t, <2>c, <2>d DEF BeginCopy, Goto, same, given, TypeOK, PCs
  <2>2. conf'[file'].state = "torn"
    BY <1>5, <1>t, <2>c, <2>d DEF BeginCopy, Goto
  <2> QED
    BY <1>5, <2>1, <2>2 DEF BeginCopy, Goto, same, given, ControlOK
<1>6. CASE CopyThrows
  <2>1. Return /\ pc # "done" /\ boots' = boots
    BY <1>6 DEF CopyThrows, same, given
  <2> QED
    BY <1>6, <2>1, ReturnProperties DEF CopyThrows, same, given, TypeOK, ControlOK, PCs, Files
<1>7. CASE EndCopy
  <2>1. TypeOK'
    BY <1>7, <1>t, ContentsProperties DEF EndCopy, Unsynced, Goto, given, TypeOK, PCs
  <2> QED
    BY <1>7, <2>1 DEF EndCopy, Goto, given, ControlOK
<1>8. CASE CopyFails
  <2>1. Return /\ pc # "done" /\ boots' = boots
    BY <1>8 DEF CopyFails, same, given
  <2> QED
    BY <1>8, <2>1, ReturnProperties DEF CopyFails, same, given, TypeOK, ControlOK, PCs, Files
<1>9. CASE Check
  <2>1. CASE Rewritable /\ Goto("open")
    BY <1>9, <2>1 DEF Check, Goto, same, given, TypeOK, ControlOK, PCs, Rewritable
  <2>2. CASE Return
    <3>1. pc # "done" /\ boots' = boots
      BY <1>9 DEF Check, same, given
    <3> QED
      BY <1>9, <2>2, <3>1, ReturnProperties DEF Check, same, given, TypeOK, ControlOK, PCs, Files
  <2> QED
    BY <1>9, <2>1, <2>2 DEF Check
<1>10. CASE OpenTmp
  <2>1. TypeOK'
    BY <1>10, <1>t, ContentsProperties DEF OpenTmp, Goto, same, given, TypeOK, PCs
  <2> QED
    BY <1>10, <2>1 DEF OpenTmp, Goto, same, given, ControlOK, Rewritable
<1>11. CASE OpenFails
  <2>1. Return /\ pc # "done" /\ boots' = boots
    BY <1>11 DEF OpenFails, UpdateReturns, same, given
  <2> QED
    BY <1>11, <2>1, ReturnProperties
       DEF OpenFails, UpdateReturns, same, given, TypeOK, ControlOK, PCs, Files
<1>12. CASE WriteTmp
  <2>1. Rewritable
    BY <1>12 DEF WriteTmp, ControlOK
  <2>2. PICK c \in {Rewritten(conf[file])} \cup
                   (IF "nospace" \in faults THEN Torn(Rewritten(conf[file])) ELSE {}) :
          tmp' = [tmp EXCEPT ![file] = c]
    BY <1>12 DEF WriteTmp
  <2>3. Rewritten(conf[file]) \in Contents
    BY <2>1, <1>t, RewrittenProperties
  <2>4. c \in Contents /\ ("nospace" \notin faults => c = Rewritten(conf[file]))
    BY <2>2, <2>3, <1>t, ContentsProperties
  <2>5. UNCHANGED <<dirs, conf, updated, boot, template, boots, faults, unsynced, file, ended>> /\ pc' = "rename"
    BY <1>12 DEF WriteTmp, Goto, same, given
  <2>6. TypeOK'
    BY <2>2, <2>4, <2>5, <1>t DEF TypeOK, PCs
  <2>7. "nospace" \notin faults => tmp'[file] = Rewritten(conf[file])
    BY <2>2, <2>4, <1>t
  <2>8. Rewritten(conf[file])' = Rewritten(conf[file])
    BY <2>5 DEF Rewritten, Replaceable
  <2> QED
    BY <2>5, <2>6, <2>7, <2>8, <1>12 DEF ControlOK, WriteTmp
<1>13. CASE Rename
  <2>1. TypeOK'
    BY <1>13, <1>t, ContentsProperties DEF Rename, Unsynced, Goto, given, TypeOK, PCs
  <2> QED
    BY <1>13, <2>1 DEF Rename, Goto, given, ControlOK
<1>14. CASE RenameFails
  <2>1. Return /\ pc # "done" /\ boots' = boots
    BY <1>14 DEF RenameFails, UpdateReturns, same, given
  <2> QED
    BY <1>14, <2>1, ReturnProperties
       DEF RenameFails, UpdateReturns, same, given, TypeOK, ControlOK, PCs, Files
<1>15. CASE SyncAndRemove
  <2>1. Return /\ pc # "done" /\ boots' = boots
    BY <1>15 DEF SyncAndRemove, UpdateReturns, given
  <2>2. tmp' \in [Files -> Contents]
    BY <1>15, <1>t, ContentsProperties DEF SyncAndRemove
  <2> QED
    BY <1>15, <2>1, <2>2, ReturnProperties
       DEF SyncAndRemove, UpdateReturns, given, TypeOK, ControlOK, PCs, Files
<1>16. CASE Reboot
  <2>1. conf' \in [Files -> Contents]
    BY <1>16, <1>t, ContentsProperties DEF Reboot
  <2>2. boots' = boots + 1 /\ boots' \in 1 .. MaxBoots
    <3>1. boots' = boots + 1 /\ boots < MaxBoots
      BY <1>16 DEF Reboot
    <3> QED
      BY <3>1, <1>t
  <2>3. ended' = ended /\ ended \in 0 .. boots' /\ ended < boots'
    <3>1. ended' = ended
      BY <1>16 DEF Reboot
    <3> QED
      BY <3>1, <1>t, <2>2
  <2>4. boot' \in Booted /\ boot'.type = boot.type
    BY <1>16 DEF Reboot, Start
  <2>5. template' \in [Files -> Templates[boot'.type]]
    BY <1>16, <2>4 DEF Reboot, Start
  <2> QED
    BY <1>16, <2>1, <2>2, <2>3, <2>4, <2>5 DEF Reboot, Start, TypeOK, ControlOK, PCs, Files
<1> QED
  BY <1>1, <1>2, <1>3, <1>4, <1>5, <1>6, <1>7, <1>8, <1>9, <1>10, <1>11, <1>12, <1>13,
     <1>14, <1>15, <1>16 DEF Next, Step

LEMMA FileInvAlways == Spec => []FileInv
BY FileInvInit, FileInvStep, PTL DEF Spec

\* Both files, their temporary files and what is known of the boot keep their
\* types, whatever fails and however many boots there are.
THEOREM TypeCorrect == Spec => []TypeOK
BY FileInvAlways, PTL DEF FileInv

-----------------------------------------------------------------------------
(* A whole file stays whole                                                *)

LEMMA WholeStep ==
  ASSUME FileInv, [Next]_vars, NEW f \in Files,
         conf[f].state = "whole", "nospace" \notin faults,
         "unordered" \in faults => f \notin unsynced
  PROVE  conf'[f].state = "whole"
<1>t. /\ file \in Files /\ conf \in [Files -> Contents] /\ tmp \in [Files -> Contents]
      /\ TypeOK /\ ControlOK
  BY DEF FileInv, TypeOK
<1>1. CASE UNCHANGED conf
  BY <1>1
<1>2. CASE BeginCopy
  <2>1. f # file
    BY <1>2, <1>t, ContentsProperties DEF BeginCopy
  <2> QED
    BY <1>2, <1>t, <2>1 DEF BeginCopy
<1>3. CASE EndCopy
  BY <1>3, <1>t, ContentsProperties DEF EndCopy
<1>4. CASE CopyFails
  BY <1>4 DEF CopyFails
<1>5. CASE Rename
  <2>1. conf' = [conf EXCEPT ![file] = tmp[file]]
    BY <1>5 DEF Rename
  <2>2. tmp[file] = Rewritten(conf[file])
    BY <1>5, <1>t DEF Rename, ControlOK
  <2>3. Rewritten(conf[file]).state = conf[file].state
    BY <1>t DEF Rewritten, Contents
  <2> QED
    BY <1>t, <2>1, <2>2, <2>3
<1>6. CASE Reboot
  <2>1. PICK lost \in Lost : conf' = [g \in Files |-> IF g \in lost THEN Empty ELSE conf[g]]
    BY <1>6 DEF Reboot
  <2>2. f \notin lost
    BY <2>1 DEF Lost
  <2> QED
    BY <2>1, <2>2
<1> QED
  BY <1>1, <1>2, <1>3, <1>4, <1>5, <1>6
     DEF Next, Step, vars, MakeDirectory, MakeDirectoryFails, NoCopyNeeded, CopyThrows, Check,
         OpenTmp, OpenFails, WriteTmp, RenameFails, SyncAndRemove

\* No rewrite and no power failure leaves a part of a file that was whole,
\* unless the file system is full or the file was not synchronised where that
\* matters.
THEOREM WholeFilesStayWhole == Spec => StaysWhole
<1> DEFINE Whole == \A f \in Files :
                     /\ conf[f].state = "whole"
                     /\ "nospace" \notin faults
                     /\ "unordered" \in faults => f \notin unsynced
                     => conf'[f].state = "whole"
<1>1. FileInv /\ [Next]_vars => [Whole]_vars
  BY WholeStep
<1> QED
  BY <1>1, FileInvAlways, PTL DEF Spec, StaysWhole

-----------------------------------------------------------------------------
(* A rewrite that was reported survives                                    *)

\* What was reported is synchronised, and its function does not run any more.
Reported ==
  /\ file = "system" => updated["fw_env"] = "not called"
  /\ \A f \in Files : updated[f] = "true" => f \notin unsynced /\ (f = file => pc = "done")

LEMMA ReportedInit == Init => Reported
BY DEF Init, Reported, Files

LEMMA ReportedStep == FileInv /\ Reported /\ [Next]_vars => Reported'
<1> SUFFICES ASSUME FileInv, Reported, [Next]_vars PROVE Reported'
  OBVIOUS
<1>t. /\ file \in {"system", "fw_env"} /\ Files = {"system", "fw_env"}
      /\ updated \in [Files -> {"not called", "true", "false"}]
      /\ unsynced \subseteq Files
      /\ pc \in {"mkdir", "done"} => file = "fw_env"
  BY DEF FileInv, TypeOK, ControlOK, Files
<1>1. CASE UNCHANGED vars
  BY <1>1 DEF vars, Reported
<1>2. CASE MakeDirectory \/ NoCopyNeeded \/ BeginCopy \/ OpenTmp \/ WriteTmp
  BY <1>2, <1>t DEF MakeDirectory, NoCopyNeeded, BeginCopy, OpenTmp, WriteTmp, Goto, same, Reported
<1>3. CASE EndCopy \/ Rename
  BY <1>3, <1>t DEF EndCopy, Rename, Unsynced, Goto, Reported
<1>4. CASE MakeDirectoryFails \/ CopyThrows \/ CopyFails
  BY <1>4, <1>t DEF MakeDirectoryFails, CopyThrows, CopyFails, Return, same, Reported
<1>5. CASE Check
  BY <1>5, <1>t DEF Check, Goto, Return, same, Reported
<1>6. CASE OpenFails \/ RenameFails
  BY <1>6, <1>t DEF OpenFails, RenameFails, UpdateReturns, Return, same, Reported
<1>7. CASE SyncAndRemove
  BY <1>7, <1>t DEF SyncAndRemove, UpdateReturns, Return, Reported
<1>8. CASE Reboot
  BY <1>8, <1>t DEF Reboot, Start, Reported
<1> QED
  BY <1>1, <1>2, <1>3, <1>4, <1>5, <1>6, <1>7, <1>8 DEF Next, Step

\* The next boot finds what an update that returned true has written, also on a
\* file system that does not order its writes.
THEOREM ReportedUpdatesSurvive == Spec => ReportedSurvives
<1> DEFINE Kept == boots' # boots =>
                     \A f \in Files : updated[f] = "true" => conf'[f] = conf[f]
<1>1. ASSUME FileInv, Reported, [Next]_vars PROVE [Kept]_vars
  <2>1. CASE Reboot
    <3>1. PICK lost \in Lost : conf' = [f \in Files |-> IF f \in lost THEN Empty ELSE conf[f]]
      BY <2>1 DEF Reboot
    <3>2. \A f \in Files : updated[f] = "true" => f \notin lost
      BY <1>1, <3>1 DEF Reported, Lost
    <3> QED
      BY <3>1, <3>2
  <2>2. CASE boots' = boots
    BY <2>2
  <2> QED
    BY <1>1, <2>1, <2>2
       DEF Next, Step, vars, same, given, MakeDirectory, MakeDirectoryFails, NoCopyNeeded,
           BeginCopy, CopyThrows, EndCopy, CopyFails, Check, OpenTmp, OpenFails, WriteTmp,
           Rename, RenameFails, SyncAndRemove
<1>2. FileInv /\ Reported /\ [Next]_vars => [Kept]_vars
  BY <1>1
<1>3. Spec => []Reported
  BY ReportedInit, ReportedStep, FileInvAlways, PTL DEF Spec
<1> QED
  BY <1>2, <1>3, FileInvAlways, PTL DEF Spec, ReportedSurvives

-----------------------------------------------------------------------------
(* The files name the boot device                                          *)

\* What NamesBootDevice says of the file f with the contents c.
Names(f, c) ==
  c.state = "whole" /\ (boot.type = "eMMC" \/ (f = "fw_env" /\ boot.device # NoDevice)) =>
    \/ isBootDeviceConfigured(c, boot.device)
    \/ \A l \in c.lines : ~Replaceable(l)

\* A function leaves its file naming the boot device.
Named ==
  faults \subseteq {"power", "unordered"} =>
    /\ pc = "sync" => Names(file, conf[file])
    /\ file = "fw_env" => Names("system", conf["system"])
    /\ pc = "done" => Names("fw_env", conf["fw_env"])

\* A rewritten file does, whatever it was before.
LEMMA RewrittenNames ==
  ASSUME NEW c \in Contents
  PROVE  \/ isBootDeviceConfigured(Rewritten(c), boot.device)
         \/ \A l \in Rewritten(c).lines : ~Replaceable(l)
<1> DEFINE New(l) == IF Replaceable(l) THEN [l EXCEPT !.device = boot.device] ELSE l
<1>1. Rewritten(c).lines = {New(l) : l \in c.lines}
  BY DEF Rewritten, Contents
<1>2. CASE \E l \in c.lines : Replaceable(l)
  <2>1. PICK l \in c.lines : Replaceable(l)
    BY <1>2
  <2>2. l \in Lines
    BY DEF Contents
  <2>3. New(l).device = boot.device
    BY <2>1, <2>2 DEF Lines
  <2> QED
    BY <1>1, <2>3 DEF isBootDeviceConfigured
<1>3. CASE \A l \in c.lines : ~Replaceable(l)
  BY <1>1, <1>3
<1> QED
  BY <1>2, <1>3

LEMMA NamedInit == Init => Named
BY DEF Init, Named

\* A function whose file names the boot device returns to Named.
LEMMA NamedReturn ==
  ASSUME FileInv, Named, Return, UNCHANGED <<boot, faults>>,
         \A f \in Files : f # file => conf'[f] = conf[f],
         faults \subseteq {"power", "unordered"} => Names(file, conf'[file]), pc # "done"
  PROVE  Named'
<1>1. file \in {"system", "fw_env"} /\ Files = {"system", "fw_env"}
  BY DEF FileInv, TypeOK, Files
<1>2. ASSUME NEW f \in Files, Names(f, conf'[f])
      PROVE  (Names(f, conf[f]))'
  BY <1>2 DEF Names, isBootDeviceConfigured, Replaceable
<1>3. CASE file = "system"
  BY <1>1, <1>2, <1>3 DEF Named, Return
<1>4. CASE file = "fw_env"
  <2>1. pc' = "done" /\ file' = "fw_env" /\ conf'["system"] = conf["system"]
    BY <1>1, <1>4 DEF Return
  <2> QED
    BY <1>1, <1>2, <1>4, <2>1 DEF Named
<1> QED
  BY <1>1, <1>3, <1>4

\* A step inside a function that leaves the other file alone.
LEMMA NamedInside ==
  ASSUME FileInv, Named, UNCHANGED <<boot, faults, file>>,
         \A f \in Files : f # file => conf'[f] = conf[f],
         pc' \notin {"sync", "done"}
  PROVE  Named'
<1>1. file \in {"system", "fw_env"} /\ Files = {"system", "fw_env"}
  BY DEF FileInv, TypeOK, Files
<1>2. file = "fw_env" => conf'["system"] = conf["system"]
  BY <1>1
<1> QED
  BY <1>2 DEF Named, Names, isBootDeviceConfigured, Replaceable

LEMMA NamedStep == FileInv /\ Named /\ [Next]_vars => Named'
<1> SUFFICES ASSUME FileInv, Named, [Next]_vars PROVE Named'
  OBVIOUS
<1>t. /\ file \in Files /\ conf \in [Files -> Contents] /\ tmp \in [Files -> Contents]
      /\ TypeOK /\ ControlOK
  BY DEF FileInv, TypeOK
<1>1. CASE UNCHANGED vars
  BY <1>1 DEF vars, Named, Names, isBootDeviceConfigured, Replaceable
<1>2. CASE MakeDirectory \/ NoCopyNeeded \/ OpenTmp \/ WriteTmp
  BY <1>2, NamedInside DEF MakeDirectory, NoCopyNeeded, OpenTmp, WriteTmp, Goto, same, given
<1>3. CASE BeginCopy
  <2>1. \A f \in Files : f # file => conf'[f] = conf[f]
    BY <1>3, <1>t DEF BeginCopy
  <2> QED
    BY <1>3, <2>1, NamedInside DEF BeginCopy, Goto, same, given
<1>4. CASE EndCopy
  <2>1. \A f \in Files : f # file => conf'[f] = conf[f]
    BY <1>4, <1>t DEF EndCopy
  <2> QED
    BY <1>4, <2>1, NamedInside DEF EndCopy, Goto, given
<1>5. CASE CopyThrows
  <2>1. conf[file].state # "whole"
    BY <1>5, ContentsProperties, <1>t DEF CopyThrows
  <2>2. conf'[file].state # "whole"
    BY <1>5, <2>1 DEF CopyThrows
  <2> QED
    BY <1>5, <2>2, NamedReturn DEF CopyThrows, Names, same, given
<1>6. CASE Check
  <2>1. CASE Goto("open")
    BY <1>6, <2>1, NamedInside DEF Check, Goto, same, given
  <2>2. CASE Return /\ ~(Rewritable /\ ~isBootDeviceConfigured(conf[file], boot.device))
    <3>1. UNCHANGED <<boot, faults, conf>> /\ pc # "done"
      BY <1>6 DEF Check, same, given
    <3> QED
      BY <2>2, <3>1, NamedReturn DEF Names, Rewritable
  <2> QED
    BY <1>6, <2>1, <2>2 DEF Check
<1>7. CASE Rename
  <2>1. conf' = [conf EXCEPT ![file] = tmp[file]]
    BY <1>7 DEF Rename
  <2>2. pc' = "sync" /\ UNCHANGED <<file, boot, faults>>
    BY <1>7 DEF Rename, Goto, given
  <2>3. \A f \in Files : f # file => conf'[f] = conf[f]
    BY <2>1, <1>t
  <2>4. faults \subseteq {"power", "unordered"} => conf'[file] = Rewritten(conf[file])
    BY <1>7, <1>t, <2>1 DEF Rename, ControlOK
  <2>5. faults \subseteq {"power", "unordered"} => Names(file, conf'[file])
    <3>1. \/ isBootDeviceConfigured(Rewritten(conf[file]), boot.device)
          \/ \A l \in Rewritten(conf[file]).lines : ~Replaceable(l)
      BY RewrittenNames, <1>t
    <3> QED
      BY <2>4, <3>1 DEF Names
  <2>6. file = "fw_env" => conf'["system"] = conf["system"]
    BY <2>3 DEF Files
  <2> QED
    BY <2>2, <2>5, <2>6 DEF Named, Names, isBootDeviceConfigured, Replaceable
<1>8. CASE SyncAndRemove
  <2>1. UNCHANGED <<boot, faults, conf>> /\ pc = "sync" /\ Return
    BY <1>8 DEF SyncAndRemove, UpdateReturns, given
  <2>2. faults \subseteq {"power", "unordered"} => Names(file, conf[file])
    BY <2>1 DEF Named
  <2> QED
    BY <2>1, <2>2, NamedReturn
<1>9. CASE Reboot
  BY <1>9 DEF Reboot, Start, Named
<1>10. CASE MakeDirectoryFails \/ CopyFails \/ OpenFails \/ RenameFails
  BY <1>10 DEF MakeDirectoryFails, CopyFails, OpenFails, RenameFails, UpdateReturns, same, given, Named
<1> QED
  BY <1>1, <1>2, <1>3, <1>4, <1>5, <1>6, <1>7, <1>8, <1>9, <1>10 DEF Next, Step

\* After a boot in which no system call failed, both files name the boot device
\* as far as they can, whatever earlier boots were interrupted in.
THEOREM FilesNameBootDevice == Spec => []NamesBootDevice
<1>1. FileInv /\ Named => NamesBootDevice
  <2> SUFFICES ASSUME FileInv, Named, pc = "done", faults \subseteq {"power", "unordered"}
               PROVE  \A f \in Files : Names(f, conf[f])
    BY DEF NamesBootDevice, Names
  <2>1. file = "fw_env"
    BY DEF FileInv, ControlOK
  <2> QED
    BY <2>1 DEF Named, Files
<1>2. Spec => []Named
  BY NamedInit, NamedStep, FileInvAlways, PTL DEF Spec
<1> QED
  BY <1>1, <1>2, FileInvAlways, PTL

-----------------------------------------------------------------------------
(* Both files are there after two boots                                    *)

Whole(f) == conf[f].state = "whole"
SameDirectory == DirOf["system"] = DirOf["fw_env"]

\* Without failures: no file is torn but the one that is being copied, and the
\* directory and the files are there from the boots on that make them.
There ==
  faults = {} =>
    /\ \A f \in Files : Whole(f) \/ conf[f] = Absent \/ (pc = "copying" /\ f = file)
    /\ pc \in {"check", "open", "write", "rename", "sync"} => Whole(file)
    /\ ended >= 1 \/ (file = "fw_env" /\ pc # "mkdir") => DirOf["fw_env"] \in dirs
    /\ ended >= 1 => Whole("fw_env")
    /\ ended >= 2 \/ (ended >= 1 /\ file = "fw_env" /\ pc # "done") => Whole("system")

LEMMA CountedBoots == FileInv => ended \in Nat
<1> SUFFICES ASSUME FileInv PROVE ended \in Nat
  OBVIOUS
<1>1. boots \in 1 .. MaxBoots /\ ended \in 0 .. boots
  BY DEF FileInv, TypeOK
<1>2. MaxBoots \in Nat
  BY BoundAssumption
<1>3. boots \in Nat
  BY <1>1, <1>2
<1> QED
  BY <1>1, <1>3

LEMMA ThereInit == Init => There
<1> SUFFICES ASSUME Init PROVE There
  OBVIOUS
<1>1. pc = "copy" /\ file = "system" /\ ended = 0 /\ \A f \in Files : conf[f] = Absent
  BY DEF Init
<1> QED
  BY <1>1 DEF There

\* A function comes to its end with its file whole, or without its directory.
LEMMA ThereReturn ==
  ASSUME FileInv, There, SameDirectory, Return, UNCHANGED <<conf, dirs, faults>>, faults = {},
         pc \notin {"copying", "mkdir", "done"}, Whole(file) \/ DirOf[file] \notin dirs
  PROVE  There'
<1>1. file \in {"system", "fw_env"} /\ Files = {"system", "fw_env"} /\ ended \in Nat
  BY CountedBoots DEF FileInv, TypeOK, Files
<1>2. \A f \in Files : Whole(f)' <=> Whole(f)
  BY DEF Whole
<1>3. CASE file = "system"
  <2>1. pc' = "mkdir" /\ file' = "fw_env" /\ ended' = ended
    BY <1>3 DEF Return
  <2>2. ended >= 1 => Whole("system")
    BY <1>3 DEF There, SameDirectory
  <2> QED
    BY <1>1, <1>2, <2>1, <2>2 DEF There
<1>4. CASE file = "fw_env"
  <2>1. pc' = "done" /\ file' = "fw_env" /\ ended' = ended + 1
    BY <1>1, <1>4 DEF Return
  <2>2. DirOf["fw_env"] \in dirs /\ Whole("fw_env")
    BY <1>4 DEF There
  <2>3. ended' >= 2 => Whole("system")
    BY <1>1, <1>4, <2>1 DEF There
  <2>4. \A f \in Files : (Whole(f) \/ conf[f] = Absent)'
    BY <1>2 DEF There
  <2>5. dirs' = dirs /\ Whole("fw_env")' /\ (ended' >= 2 => Whole("system")')
    BY <1>1, <1>2, <2>2, <2>3
  <2> QED
    BY <2>1, <2>2, <2>4, <2>5 DEF There
<1> QED
  BY <1>1, <1>3, <1>4

LEMMA ThereStep == SameDirectory /\ FileInv /\ There /\ [Next]_vars => There'
<1> SUFFICES ASSUME SameDirectory, FileInv, There, [Next]_vars, faults' = {} PROVE There'
  BY DEF There
<1>0. faults = {}
  BY DEF Next, Step, vars, same, given, MakeDirectory, MakeDirectoryFails, NoCopyNeeded,
         BeginCopy, CopyThrows, EndCopy, CopyFails, Check, OpenTmp, OpenFails, WriteTmp,
         Rename, RenameFails, SyncAndRemove, Reboot, UpdateReturns
<1>t. /\ file \in Files /\ Files = {"system", "fw_env"} /\ conf \in [Files -> Contents]
      /\ TypeOK /\ ControlOK /\ ended \in Nat
  BY CountedBoots DEF FileInv, TypeOK, Files
<1>1. CASE UNCHANGED vars
  BY <1>1 DEF vars, There, Whole
<1>2. CASE MakeDirectory
  BY <1>2, <1>t DEF MakeDirectory, Goto, same, given, There, Whole, ControlOK
<1>3. CASE NoCopyNeeded
  <2>1. Whole(file)
    BY <1>0, <1>3, <1>t DEF NoCopyNeeded, There
  <2> QED
    BY <1>0, <1>3, <2>1 DEF NoCopyNeeded, Goto, same, given, There, Whole
<1>4. CASE BeginCopy
  <2>1. /\ conf[file] = Absent /\ pc' = "copying" /\ pc = "copy"
        /\ UNCHANGED <<file, ended, dirs, faults>>
        /\ \E c : conf' = [conf EXCEPT ![file] = c]
    BY <1>4 DEF BeginCopy, Goto, same, given
  <2>2. \A f \in Files : f # file => conf'[f] = conf[f]
    BY <1>t, <2>1
  <2>3. ~Whole(file)
    BY <2>1 DEF Whole, Absent
  <2> QED
    BY <1>0, <1>t, <2>1, <2>2, <2>3 DEF There, Whole
<1>5. CASE CopyThrows
  <2>1. DirOf[file] \notin dirs /\ pc = "copy" /\ Return /\ UNCHANGED <<conf, dirs, faults>>
    BY <1>0, <1>5 DEF CopyThrows, same, given
  <2> QED
    BY <1>0, <2>1, ThereReturn
<1>6. CASE EndCopy
  <2>1. /\ pc' = "check" /\ pc = "copying" /\ UNCHANGED <<file, ended, dirs, faults>>
        /\ conf' = [conf EXCEPT ![file] = template[file]]
    BY <1>6 DEF EndCopy, Goto, given
  <2>2. conf'[file].state = "whole" /\ \A f \in Files : f # file => conf'[f] = conf[f]
    BY <1>t, <2>1, ContentsProperties
  <2> QED
    BY <1>0, <1>t, <2>1, <2>2 DEF There, Whole
<1>7. CASE Check
  <2>1. pc = "check" /\ Whole(file) /\ UNCHANGED <<conf, dirs, faults>>
    BY <1>0, <1>7 DEF Check, same, given, There
  <2>2. CASE Goto("open")
    BY <1>0, <2>1, <2>2 DEF Goto, There, Whole
  <2>3. CASE Return
    BY <1>0, <2>1, <2>3, ThereReturn
  <2> QED
    BY <1>7, <2>2, <2>3 DEF Check
<1>8. CASE OpenTmp \/ WriteTmp
  BY <1>0, <1>8 DEF OpenTmp, WriteTmp, Goto, same, given, There, Whole
<1>9. CASE Rename
  <2>1. /\ pc' = "sync" /\ pc = "rename" /\ UNCHANGED <<file, ended, dirs, faults>>
        /\ conf' = [conf EXCEPT ![file] = tmp[file]]
    BY <1>9 DEF Rename, Goto, given
  <2>2. tmp[file] = Rewritten(conf[file]) /\ Whole(file)
    BY <1>0, <1>t, <2>1 DEF ControlOK, There
  <2>3. Rewritten(conf[file]).state = conf[file].state
    BY <1>t DEF Rewritten, Contents
  <2>4. conf'[file].state = "whole" /\ \A f \in Files : f # file => conf'[f] = conf[f]
    BY <1>t, <2>1, <2>2, <2>3 DEF Whole
  <2> QED
    BY <1>0, <1>t, <2>1, <2>4 DEF There, Whole
<1>10. CASE SyncAndRemove
  <2>1. pc = "sync" /\ Whole(file) /\ Return /\ UNCHANGED <<conf, dirs, faults>>
    BY <1>0, <1>10 DEF SyncAndRemove, UpdateReturns, given, There
  <2> QED
    BY <1>0, <2>1, ThereReturn
<1>11. CASE Reboot
  <2>1. /\ pc = "done" /\ pc' = "copy" /\ file' = "system" /\ UNCHANGED <<ended, dirs, faults>>
    BY <1>0, <1>11 DEF Reboot, Start
  <2>2. \A f \in Files : conf'[f] = conf[f]
    BY <1>0, <1>11 DEF Reboot, Lost
  <2> QED
    BY <1>0, <1>t, <2>1, <2>2 DEF There, Whole
<1>12. CASE MakeDirectoryFails \/ CopyFails \/ OpenFails \/ RenameFails
  BY <1>0, <1>12 DEF MakeDirectoryFails, CopyFails, OpenFails, RenameFails
<1> QED
  BY <1>1, <1>2, <1>3, <1>4, <1>5, <1>6, <1>7, <1>8, <1>9, <1>10, <1>11, <1>12 DEF Next, Step

\* After two undisturbed boots both files are there and whole, when they are in
\* one directory, which only the second function creates.
THEOREM BothFilesAreThere ==
  ASSUME DirOf["system"] = DirOf["fw_env"]
  PROVE  Spec => []ThereAfterTwoBoots
<1>1. SameDirectory
  BY DEF SameDirectory
<1>2. FileInv /\ There => ThereAfterTwoBoots
  <2> SUFFICES ASSUME FileInv, There, faults = {}, ended >= 2
               PROVE  \A f \in Files : Whole(f)
    BY DEF ThereAfterTwoBoots, Whole
  <2>1. ended >= 1 /\ Files = {"system", "fw_env"}
    BY CountedBoots DEF Files
  <2> QED
    BY <2>1 DEF There
<1>3. There /\ FileInv /\ [Next]_vars => There'
  BY <1>1, ThereStep
<1>4. Spec => []There
  BY <1>3, ThereInit, FileInvAlways, PTL DEF Spec
<1> QED
  BY <1>2, <1>4, FileInvAlways, PTL

-----------------------------------------------------------------------------
(* The steps of a boot descend                                             *)

Position(p) ==
  CASE p = "mkdir" -> 8 [] p = "copy" -> 7 [] p = "copying" -> 6 [] p = "check" -> 5
    [] p = "open" -> 4 [] p = "write" -> 3 [] p = "rename" -> 2 [] p = "sync" -> 1
    [] OTHER -> 0

\* The second function begins, or the one that runs comes to a later call.
Descends ==
  \/ file = "system" /\ file' = "fw_env"
  \/ file' = file /\ Position(pc') < Position(pc)

LEMMA ReturnDescends ==
  ASSUME FileInv, Return, pc # "done"
  PROVE  Descends
<1>1. pc \in PCs \ {"done"} /\ file \in {"system", "fw_env"}
  BY DEF FileInv, TypeOK, Files
<1>2. CASE file = "system"
  BY <1>2 DEF Return, Descends
<1>3. CASE file = "fw_env"
  BY <1>1, <1>3 DEF Return, Descends, Position, PCs
<1> QED
  BY <1>1, <1>2, <1>3

LEMMA StepDescends == FileInv /\ Step => Descends
<1> SUFFICES ASSUME FileInv, Step PROVE Descends
  OBVIOUS
<1>1. CASE MakeDirectory \/ NoCopyNeeded \/ BeginCopy \/ EndCopy \/ OpenTmp \/ WriteTmp \/ Rename
  BY <1>1 DEF MakeDirectory, NoCopyNeeded, BeginCopy, EndCopy, OpenTmp, WriteTmp, Rename, Goto,
              Descends, Position
<1>2. CASE MakeDirectoryFails
  <2>1. pc = "mkdir" /\ Return
    BY <1>2 DEF MakeDirectoryFails
  <2> QED
    BY <2>1, ReturnDescends
<1>3. CASE CopyThrows \/ CopyFails \/ OpenFails \/ RenameFails \/ SyncAndRemove
  <2>1. pc \in {"copy", "copying", "open", "rename", "sync"} /\ Return
    BY <1>3 DEF CopyThrows, CopyFails, OpenFails, RenameFails, SyncAndRemove, UpdateReturns
  <2> QED
    BY <2>1, ReturnDescends
<1>4. CASE Check
  <2>1. pc = "check" /\ (Return \/ Goto("open"))
    BY <1>4 DEF Check
  <2>2. CASE Return
    BY <2>1, <2>2, ReturnDescends
  <2>3. CASE Goto("open")
    BY <2>1, <2>3 DEF Goto, Descends, Position
  <2> QED
    BY <2>1, <2>2, <2>3
<1> QED
  BY <1>1, <1>2, <1>3, <1>4 DEF Step

\* Each step of the two functions comes to a later call of the one that runs, or
\* begins the second one: a boot's work on the files has at most one step per
\* call, whatever fails and wherever an earlier boot was interrupted.
THEOREM UpdateDescends == Spec => [][Step => Descends]_vars
BY StepDescends, FileInvAlways, PTL DEF Spec

=============================================================================
