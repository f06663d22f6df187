----------------------- MODULE DynamicMountingProofs -----------------------
(***************************************************************************)
(* Theorems about the overlay engine, for every set of merge directories,  *)
(* images, initial mount tables, faults and every MaxOverlays.             *)
(***************************************************************************)
EXTENDS DynamicMounting, SequenceTheorems, TLAPS

-----------------------------------------------------------------------------
(* Facts about the operators on mount stacks                               *)

\* What is left of a stack without its top.
LEMMA PopProperties ==
  ASSUME NEW S, NEW s \in Seq(S)
  PROVE  /\ Pop(s) \in Seq(S)
         /\ \A i \in DOMAIN Pop(s) : i \in DOMAIN s /\ i # Len(s) /\ Pop(s)[i] = s[i]
<1>1. CASE s = <<>>
  BY <1>1 DEF Pop
<1>2. CASE s # <<>>
  <2>1. /\ Len(s) \in Nat \ {0}
        /\ DOMAIN s = 1 .. Len(s)
        /\ \A i \in 1 .. Len(s) : s[i] \in S
    BY <1>2, EmptySeq, LenProperties
  <2>2. /\ Pop(s) \in Seq(S)
        /\ Len(Pop(s)) = Len(s) - 1
        /\ \A i \in 1 .. Len(s) - 1 : Pop(s)[i] = s[i]
    <3>1. \A i \in 1 .. Len(s) - 1 : s[i] \in S
      BY <2>1
    <3> QED
      BY <1>2, <2>1, <3>1, SubSeqProperties DEF Pop
  <2>3. DOMAIN Pop(s) = 1 .. Len(s) - 1
    BY <2>1, <2>2, LenProperties
  <2> QED
    BY <2>1, <2>2, <2>3
<1> QED
  BY <1>1, <1>2

\* Nothing on the stack is an overlay.
Clean(stack) == \A i \in DOMAIN stack : ~IsOverlay(stack[i])

\* is_path_mounted finds nothing on a stack without overlays.
LEMMA CleanIsNotOverlaid ==
  ASSUME NEW p \in Paths
  PROVE  Clean(mounts[p]) <=> ~Overlaid(p)
BY DEF Clean, Overlaid

\* Below the top of a stack of the right shape there is no overlay.
LEMMA PopIsClean ==
  ASSUME NEW s \in Seq(Mounts), Shape(s)
  PROVE  Clean(Pop(s))
BY PopProperties DEF Clean, Shape

\* An overlay mounted on a stack without overlays is its only one, on top.
LEMMA PushKeepsShape ==
  ASSUME NEW s \in Seq(Mounts), Clean(s), NEW m \in Mounts
  PROVE  /\ Append(s, m) \in Seq(Mounts)
         /\ Shape(Append(s, m))
         /\ \A i \in DOMAIN Append(s, m) :
              (i \in DOMAIN s /\ Append(s, m)[i] = s[i]) \/ Append(s, m)[i] = m
<1>1. /\ Append(s, m) \in Seq(Mounts)
      /\ Len(Append(s, m)) = Len(s) + 1
      /\ \A i \in 1 .. Len(s) : Append(s, m)[i] = s[i]
      /\ Append(s, m)[Len(s) + 1] = m
  BY AppendProperties
<1>2. /\ Len(s) \in Nat
      /\ DOMAIN s = 1 .. Len(s)
      /\ DOMAIN Append(s, m) = 1 .. Len(s) + 1
  BY <1>1, LenProperties
<1> QED
  BY <1>1, <1>2 DEF Shape, Clean

\* The lists of lower directories the three passes build.
LEMMA SourcesProperties ==
  ASSUME TypeOK, NEW p \in Paths
  PROVE  Sources(p) \in Seq(Dirs)
<1>1. AppDir(p) \in Dirs /\ SysDir(p) \in Dirs
  BY DEF Dirs, AppDir, SysDir
<1> QED
  BY <1>1 DEF Sources, Keep

\* The same for an added overlay; std::unique leaves has_identical_paths
\* nothing to find.
LEMMA RamSourcesProperties ==
  ASSUME TypeOK, NEW e \in Entries
  PROVE  RamSources(e) \in Seq(Dirs) /\ ~Duplicates(RamSources(e))
<1>1. e.merge \in Paths /\ e.lower \in Dirs /\ SysDir(e.merge) \in Dirs
  BY EntriesAssumption DEF ReadOnly, Dirs, SysDir
<1> QED
  BY <1>1 DEF RamSources, Keep, Duplicates

\* The same for a section: the application's directory is put first only
\* above an overlay.
LEMMA LayersProperties ==
  ASSUME TypeOK, NEW s \in Sections
  PROVE  Layers(s) \in Seq(Dirs)
<1>1. s.merge \in Paths /\ s.lower \in Seq(Dirs) /\ AppDir(s.merge) \in Dirs
  BY DEF Sections, Dirs, AppDir
<1>2. <<AppDir(s.merge)>> \in Seq(Dirs)
  BY <1>1
<1> QED
  BY <1>1, <1>2, ConcatProperties DEF Layers

\* The record of a mount the engine makes.
LEMMA MountOfProperties ==
  ASSUME NEW kind \in Kinds, NEW lower \in Seq(Dirs)
  PROVE  /\ MountOf(kind, lower) \in Mounts
         /\ MountOf(kind, lower).kind = kind
         /\ MountOf(kind, lower).lower = lower
BY DEF MountOf, Mounts

\* What a section mounts on has no overlay.
LEMMA BelowProperties ==
  ASSUME TypeOK, OneOverlay, NEW s \in Sections
  PROVE  /\ Below(s) \in Seq(Mounts)
         /\ Clean(Below(s))
         /\ \A i \in DOMAIN Below(s) : /\ i \in DOMAIN mounts[s.merge]
                                       /\ Below(s)[i] = mounts[s.merge][i]
<1>1. s.merge \in Paths /\ mounts[s.merge] \in Seq(Mounts) /\ Shape(mounts[s.merge])
  BY DEF Sections, TypeOK, OneOverlay
<1>2. CASE Overlaid(s.merge)
  BY <1>1, <1>2, PopProperties, PopIsClean DEF Below
<1>3. CASE ~Overlaid(s.merge)
  BY <1>1, <1>3, CleanIsNotOverlaid DEF Below
<1> QED
  BY <1>2, <1>3

-----------------------------------------------------------------------------
(* Every step changes the stack of at most one directory, to a part b of   *)
(* the old one that has no overlay or to b with an overlay on top.  Only   *)
(* the persistent pass does so where there was an overlay, and what it     *)
(* mounts there has the application's directory first.                     *)

Changed(p, b) ==
  /\ pc' = pc
  /\ pc \in {"readonly", "ramdisk", "persistent"}
  /\ pc # "persistent" => ~Overlaid(p)
  /\ Clean(b)
  /\ \A i \in DOMAIN b : i \in DOMAIN mounts[p] /\ b[i] = mounts[p][i]
  /\ \/ mounts' = [mounts EXCEPT ![p] = b]
     \/ \E m \in Mounts :
          /\ m.kind \in {"app", "ram", "persistent"}
          /\ m.kind = "app" => successful' = successful + 1
          /\ m.kind = "persistent" => mount_count' = mount_count + 1
          /\ m.kind = "persistent" <=> pc = "persistent"
          /\ Overlaid(p) => m.lower # <<>> /\ m.lower[1] = AppDir(p)
          /\ mounts' = [mounts EXCEPT ![p] = Append(b, m)]

StackStep ==
  \/ mounts' = mounts
  \/ \E p \in Paths, b \in Seq(Mounts) : Changed(p, b)

\* Each step of the application loop changes one stack as Changed allows.
LEMMA ROStepStack ==
  ASSUME TypeOK, OneOverlay, NEW p \in Paths, ROStep(p)
  PROVE  StackStep
<1>1. mounts[p] \in Seq(Mounts)
  BY DEF TypeOK
<1>2. Pop(mounts[p]) \in Seq(Mounts)
  BY <1>1, PopProperties
<1>3. /\ \A i \in DOMAIN Pop(mounts[p]) :
           i \in DOMAIN mounts[p] /\ Pop(mounts[p])[i] = mounts[p][i]
      /\ Clean(Pop(mounts[p]))
  BY <1>1, PopProperties, PopIsClean DEF OneOverlay
<1>4. ASSUME NEW cause \in {"busy", "depth", "mount"}, ROMountFails(p, cause)
      PROVE  StackStep
  <2>1. Changed(p, Pop(mounts[p]))
    BY <1>3, <1>4 DEF ROMountFails, ROAt, ROContinue, Umounted, Changed
  <2> QED
    BY <1>2, <2>1 DEF StackStep
<1>5. CASE ROMount(p)
  <2> DEFINE m == MountOf("app", Sources(p))
  <2>1. m \in Mounts /\ m.kind = "app"
    BY SourcesProperties, MountOfProperties DEF Kinds
  <2>2. successful' = successful + 1 /\ pc = "readonly" /\ pc' = pc /\ ~Overlaid(p)
    BY <1>5 DEF ROMount, ROAt, ROContinue
  <2>3. mounts' = [mounts EXCEPT ![p] = Append(Pop(mounts[p]), m)]
    BY <1>5 DEF ROMount, Mounted
  <2> HIDE DEF m
  <2>4. Changed(p, Pop(mounts[p]))
    BY <1>3, <2>1, <2>2, <2>3 DEF Changed
  <2> QED
    BY <1>2, <2>4 DEF StackStep
<1>6. CASE \/ ROSkip(p) \/ RONoSource(p) \/ ROCreateFails(p) \/ ROUmountFails(p)
           \/ ROThrow(p)
  BY <1>6 DEF ROSkip, RONoSource, ROCreateFails, ROUmountFails, ROThrow, StackStep
<1> QED
  BY <1>4, <1>5, <1>6 DEF ROStep

\* So does each step of the loop over the added entries ...
LEMMA RamStepStack ==
  ASSUME TypeOK, OneOverlay, NEW e \in Entries, RamStep(e)
  PROVE  StackStep
<1> DEFINE p == e.merge
<1>1. p \in Paths /\ mounts[p] \in Seq(Mounts)
  BY EntriesAssumption DEF TypeOK, ReadOnly
<1>2. Pop(mounts[p]) \in Seq(Mounts)
  BY <1>1, PopProperties
<1>3. /\ \A i \in DOMAIN Pop(mounts[p]) :
           i \in DOMAIN mounts[p] /\ Pop(mounts[p])[i] = mounts[p][i]
      /\ Clean(Pop(mounts[p]))
  BY <1>1, PopProperties, PopIsClean DEF OneOverlay
<1>4. CASE RamMountFails(e)
  <2>1. Changed(p, Pop(mounts[p]))
    BY <1>3, <1>4 DEF RamMountFails, RamAt, RamContinue, Umounted, Changed
  <2> QED
    BY <1>1, <1>2, <2>1 DEF StackStep
<1>5. CASE RamMount(e)
  <2> DEFINE m == MountOf("ram", RamSources(e))
  <2>1. m \in Mounts /\ m.kind = "ram"
    BY RamSourcesProperties, MountOfProperties DEF Kinds
  <2>2. pc = "ramdisk" /\ pc' = pc /\ ~Overlaid(p)
    BY <1>5 DEF RamMount, RamAt, RamContinue
  <2>3. mounts' = [mounts EXCEPT ![p] = Append(Pop(mounts[p]), m)]
    BY <1>5 DEF RamMount, Mounted
  <2> HIDE DEF m
  <2>4. Changed(p, Pop(mounts[p]))
    BY <1>3, <2>1, <2>2, <2>3 DEF Changed
  <2> QED
    BY <1>1, <1>2, <2>4 DEF StackStep
<1>6. CASE RamSkip(e) \/ RamFails(e)
  BY <1>6 DEF RamSkip, RamFails, StackStep
<1> QED
  BY <1>4, <1>5, <1>6 DEF RamStep

\* ... and each step of the loop over the sections.
LEMMA PStepStack ==
  ASSUME TypeOK, OneOverlay, NEW s \in Sections, PStep(s)
  PROVE  StackStep
<1> DEFINE p == s.merge
<1>1. p \in Paths
  BY DEF Sections
<1>2. /\ Below(s) \in Seq(Mounts)
      /\ Clean(Below(s))
      /\ \A i \in DOMAIN Below(s) : i \in DOMAIN mounts[p] /\ Below(s)[i] = mounts[p][i]
  BY BelowProperties
<1>3. CASE PFails(s)
  <2>1. Changed(p, Below(s))
    BY <1>2, <1>3 DEF PFails, PPrepare, PAt, PContinue, Changed
  <2> QED
    BY <1>1, <1>2, <2>1 DEF StackStep
<1>4. CASE PMount(s)
  <2> DEFINE m == MountOf("persistent", Layers(s))
  <2>1. m \in Mounts /\ m.kind = "persistent" /\ m.lower = Layers(s)
    BY LayersProperties, MountOfProperties DEF Kinds
  <2>2. pc = "persistent" /\ pc' = pc /\ mount_count' = mount_count + 1
    BY <1>4 DEF PMount, PPrepare, PAt, PContinue
  <2>3. mounts' = [mounts EXCEPT ![p] = Append(Below(s), m)]
    BY <1>4 DEF PMount, Mounted
  <2>4. Overlaid(p) => m.lower # <<>> /\ m.lower[1] = AppDir(p)
    <3>1. s.lower \in Seq(Dirs)
      BY DEF Sections
    <3> QED
      BY <2>1, <3>1 DEF Layers
  <2> HIDE DEF m
  <2>5. Changed(p, Below(s))
    BY <1>2, <2>1, <2>2, <2>3, <2>4 DEF Changed
  <2> QED
    BY <1>1, <1>2, <2>5 DEF StackStep
<1>5. CASE PSkip(s) \/ PUmountFails(s)
  BY <1>5 DEF PSkip, PUmountFails, StackStep
<1> QED
  BY <1>3, <1>4, <1>5 DEF PStep

\* Every step changes one stack as Changed allows, or none.
LEMMA NextStack ==
  ASSUME TypeOK, OneOverlay, [Next]_vars
  PROVE  StackStep
<1>1. ASSUME NEW i \in DOMAIN overlay_application, ROStep(overlay_application[i])
      PROVE  StackStep
  BY <1>1, ROStepStack DEF TypeOK
<1>2. ASSUME NEW i \in DOMAIN additional, RamStep(additional[i])
      PROVE  StackStep
  BY <1>2, RamStepStack DEF TypeOK
<1>3. ASSUME NEW i \in DOMAIN overlay_persistent, PStep(overlay_persistent[i])
      PROVE  StackStep
  BY <1>3, PStepStack DEF TypeOK
<1>4. CASE \/ MountApplication \/ ParseIni \/ ParseFails \/ ROEnd
           \/ RamEndVerdict \/ RamEnd \/ ReadOnlySucceeded \/ ReadOnlyFailed
           \/ PEnd \/ UNCHANGED vars
  BY <1>4 DEF MountApplication, ParseIni, ParseFails, ROEnd, RamEndVerdict, RamEnd,
              RamClear, ReadOnlySucceeded, ReadOnlyFailed, PEnd, vars, StackStep
<1>5. ASSUME NEW e \in Entries, AddLowerDir(e)
      PROVE  StackStep
  BY <1>5 DEF AddLowerDir, StackStep
<1> QED
  BY <1>1, <1>2, <1>3, <1>4, <1>5 DEF Next, Engine, Caller

-----------------------------------------------------------------------------
(* Type correctness                                                        *)

\* The variables start with their types.
LEMMA InitType == Init => TypeOK
<1> SUFFICES ASSUME Init
             PROVE  TypeOK
  OBVIOUS
<1>1. image \in Image
  BY EmptySeq DEF Init, NoImage, Image, Ini
<1>2. mounts \in [Paths -> Seq(Mounts)]
  BY MountsAssumption DEF Init
<1>3. dirs \subseteq Dirs
  BY DirsAssumption DEF Init
<1> QED
  BY <1>1, <1>2, <1>3 DEF Init, TypeOK, PCs

\* The stacks keep their type because every change is a StackStep.
LEMMA StackType ==
  ASSUME TypeOK, StackStep
  PROVE  mounts' \in [Paths -> Seq(Mounts)]
<1>1. CASE mounts' = mounts
  BY <1>1 DEF TypeOK
<1>2. ASSUME NEW p \in Paths, NEW b \in Seq(Mounts), Changed(p, b)
      PROVE  mounts' \in [Paths -> Seq(Mounts)]
  <2>1. CASE mounts' = [mounts EXCEPT ![p] = b]
    BY <2>1 DEF TypeOK
  <2>2. ASSUME NEW m \in Mounts, mounts' = [mounts EXCEPT ![p] = Append(b, m)]
        PROVE  mounts' \in [Paths -> Seq(Mounts)]
    BY <2>2, AppendProperties DEF TypeOK
  <2> QED
    BY <1>2, <2>1, <2>2 DEF Changed
<1> QED
  BY <1>1, <1>2 DEF StackStep

\* The application loop keeps the types of the other variables.
LEMMA ROStepType ==
  ASSUME TypeOK, NEW p \in Paths, ROStep(p), mounts' \in [Paths -> Seq(Mounts)],
         faults' = faults
  PROVE  TypeOK'
<1>1. SysDir(p) \in Dirs
  BY DEF SysDir, Dirs
<1>2. CASE ROThrow(p)
  BY <1>2 DEF ROThrow, TypeOK, PCs, config, ghosts
<1>3. CASE ~ROThrow(p)
  <2>1. /\ UNCHANGED <<pc, config, additional, error, mount_count, tmp_app, ghosts>>
        /\ next' = next + 1
    BY <1>3 DEF ROStep, ROSkip, RONoSource, ROCreateFails, ROUmountFails, ROMount,
                ROMountFails, ROContinue
  <2>2. failed' \subseteq [path : Paths, cause : Causes]
    BY <1>3 DEF ROStep, ROSkip, RONoSource, ROCreateFails, ROUmountFails, ROMount,
                ROMountFails, Fail, TypeOK, Causes
  <2>3. successful' \in Nat
    BY <1>3 DEF ROStep, ROSkip, RONoSource, ROCreateFails, ROUmountFails, ROMount,
                ROMountFails, TypeOK
  <2>4. dirs' \subseteq Dirs
    BY <1>1, <1>3 DEF ROStep, ROSkip, RONoSource, ROCreateFails, ROUmountFails, ROMount,
                      ROMountFails, TypeOK
  <2> QED
    BY <2>1, <2>2, <2>3, <2>4 DEF TypeOK, config, ghosts
<1> QED
  BY <1>2, <1>3

\* The loop over the added entries keeps them.
LEMMA RamStepType ==
  ASSUME TypeOK, NEW e \in Entries, RamStep(e), mounts' \in [Paths -> Seq(Mounts)],
         faults' = faults
  PROVE  TypeOK'
<1>1. SysDir(e.merge) \in Dirs
  BY EntriesAssumption DEF ReadOnly, SysDir, Dirs
<1>2. RamContinue(e)
  BY DEF RamStep, RamSkip, RamFails, RamMountFails, RamMount
<1>3. dirs' \subseteq Dirs
  BY <1>1 DEF RamStep, RamSkip, RamFails, RamMountFails, RamMount, TypeOK
<1>4. handled' \in [Entries -> Nat]
  BY <1>2 DEF RamContinue, TypeOK
<1> QED
  BY <1>2, <1>3, <1>4 DEF RamContinue, TypeOK, config, counts

\* The loop over the sections keeps them.
LEMMA PStepType ==
  ASSUME TypeOK, NEW s \in Sections, PStep(s), mounts' \in [Paths -> Seq(Mounts)],
         faults' = faults
  PROVE  TypeOK'
<1>1. SysDir(s.merge) \in Dirs
  BY DEF Sections, SysDir, Dirs
<1>2. PContinue
  BY DEF PStep, PSkip, PUmountFails, PFails, PMount
<1>3. dirs' \subseteq Dirs
  BY <1>1 DEF PStep, PSkip, PUmountFails, PFails, PMount, TypeOK
<1>4. mount_count' \in Nat
  BY DEF PStep, PSkip, PUmountFails, PFails, PMount, TypeOK
<1>5. overlay_persistent' \in Seq(Sections)
  <2>1. CASE PPrepare(s)
    <3>1. /\ next \in DOMAIN overlay_persistent
          /\ s = overlay_persistent[next]
          /\ overlay_persistent' = [overlay_persistent EXCEPT ![next].lower = Layers(s)]
      BY <2>1 DEF PPrepare, PAt
    <3>2. overlay_persistent \in Seq(Sections) /\ next \in 1 .. Len(overlay_persistent)
      BY <3>1, LenProperties DEF TypeOK
    <3> DEFINE t == [merge |-> s.merge, lower |-> Layers(s)]
    <3>3. t \in Sections
      BY LayersProperties DEF Sections
    <3>4. [s EXCEPT !.lower = Layers(s)] = t
      BY DEF Sections
    <3>5. overlay_persistent' = [overlay_persistent EXCEPT ![next] = t]
      BY <3>1, <3>4
    <3> QED
      BY <3>2, <3>3, <3>5, ExceptSeq
  <2>2. CASE overlay_persistent' = overlay_persistent
    BY <2>2 DEF TypeOK
  <2> QED
    BY <2>1, <2>2 DEF PStep, PSkip, PUmountFails, PFails, PMount
<1> QED
  BY <1>2, <1>3, <1>4, <1>5 DEF PContinue, TypeOK, ghosts

\* Every step keeps the types.
LEMMA NextType ==
  ASSUME TypeOK, OneOverlay, [Next]_vars
  PROVE  TypeOK'
<1>0. mounts' \in [Paths -> Seq(Mounts)] /\ faults' = faults
  BY NextStack, StackType DEF Next, Engine, Caller, vars
<1>1. ASSUME NEW i \in DOMAIN overlay_application, ROStep(overlay_application[i])
      PROVE  TypeOK'
  <2>1. overlay_application[i] \in Paths
    BY DEF TypeOK
  <2> QED
    BY <1>0, <1>1, <2>1, ROStepType
<1>2. ASSUME NEW i \in DOMAIN additional, RamStep(additional[i])
      PROVE  TypeOK'
  <2>1. additional[i] \in Entries
    BY DEF TypeOK
  <2> QED
    BY <1>0, <1>2, <2>1, RamStepType
<1>3. ASSUME NEW i \in DOMAIN overlay_persistent, PStep(overlay_persistent[i])
      PROVE  TypeOK'
  <2>1. overlay_persistent[i] \in Sections
    BY DEF TypeOK
  <2> QED
    BY <1>0, <1>3, <2>1, PStepType
<1>4. CASE MountApplication
  <2>1. image' \in Image /\ tmp_app' \in BOOLEAN
    BY <1>4, ImagesAssumption DEF MountApplication, CleanupTmpApp, TypeOK
  <2> QED
    BY <1>0, <1>4, <2>1 DEF MountApplication, TypeOK, PCs, counts, ghosts
<1>5. CASE ParseIni
  BY <1>0, <1>5 DEF ParseIni, TypeOK, PCs, Image, Ini, counts, ghosts
<1>6. CASE ParseFails
  <2>1. <<Etc, UsrBin>> \in Seq(Paths)
    BY PathsAssumption
  <2> QED
    BY <1>0, <1>6, <2>1, EmptySeq DEF ParseFails, TypeOK, PCs, counts, ghosts
<1>7. CASE ROEnd \/ ReadOnlySucceeded
  BY <1>0, <1>7 DEF ROEnd, ReadOnlySucceeded, TypeOK, PCs, config, counts, ghosts
<1>8. CASE RamEndVerdict \/ RamEnd
  <2>1. RamClear /\ error' \in {error, "all_failed"} /\ pc' \in {pc, "returned"}
    BY <1>8 DEF RamEndVerdict, RamEnd
  <2>2. additional' \in Seq(Entries)
    BY <2>1, EmptySeq DEF RamClear
  <2> QED
    BY <1>0, <2>1, <2>2 DEF RamClear, TypeOK, PCs, config, ghosts
<1>9. CASE ReadOnlyFailed \/ PEnd
  BY <1>0, <1>9 DEF ReadOnlyFailed, PEnd, CleanupTmpApp, TypeOK, PCs, config, counts, ghosts
<1>10. ASSUME NEW e \in Entries, AddLowerDir(e)
       PROVE  TypeOK'
  <2>1. additional' \in Seq(Entries) /\ added' \subseteq Entries
    <3>1. Append(additional, e) \in Seq(Entries)
      BY AppendProperties DEF TypeOK
    <3> QED
      BY <1>10, <3>1 DEF AddLowerDir, TypeOK
  <2> QED
    BY <1>0, <1>10, <2>1 DEF AddLowerDir, TypeOK, config, counts
<1>11. CASE UNCHANGED vars
  BY <1>0, <1>11 DEF vars, TypeOK, config, counts, ghosts
<1> QED
  BY <1>1, <1>2, <1>3, <1>4, <1>5, <1>6, <1>7, <1>8, <1>9, <1>10, <1>11 DEF Next, Engine, Caller

-----------------------------------------------------------------------------
(* The mount stacks                                                        *)

\* The mount tables the engine starts with have the right shape.
LEMMA InitStacks == Init => OneOverlay
<1> SUFFICES ASSUME Init
             PROVE  OneOverlay
  OBVIOUS
<1>1. ASSUME NEW p \in Paths
      PROVE  Shape(mounts[p])
  <2>1. /\ mounts[p] \in Seq(Mounts)
        /\ Len(mounts[p]) <= 1
    BY MountsAssumption DEF Init
  <2>2. DOMAIN mounts[p] = 1 .. Len(mounts[p]) /\ Len(mounts[p]) \in Nat
    BY <2>1, LenProperties
  <2> QED
    BY <2>1, <2>2 DEF Shape
<1> QED
  BY <1>1 DEF OneOverlay

\* A change of one stack keeps the shape of all.
LEMMA NextStacks ==
  ASSUME TypeOK, OneOverlay, StackStep
  PROVE  OneOverlay'
<1>1. CASE mounts' = mounts
  BY <1>1 DEF OneOverlay
<1>2. ASSUME NEW p \in Paths, NEW b \in Seq(Mounts), Changed(p, b)
      PROVE  OneOverlay'
  <2>1. Shape(b)
    BY <1>2 DEF Changed, Clean, Shape
  <2>2. CASE mounts' = [mounts EXCEPT ![p] = b]
    BY <2>1, <2>2 DEF TypeOK, OneOverlay
  <2>3. ASSUME NEW m \in Mounts, mounts' = [mounts EXCEPT ![p] = Append(b, m)]
        PROVE  OneOverlay'
    <3>1. Shape(Append(b, m))
      BY <1>2, PushKeepsShape DEF Changed
    <3> QED
      BY <2>3, <3>1 DEF TypeOK, OneOverlay
  <2> QED
    BY <1>2, <2>2, <2>3 DEF Changed
<1> QED
  BY <1>1, <1>2 DEF StackStep

StackInv == TypeOK /\ OneOverlay

\* The part of the invariant about the mount table.
LEMMA StackInvInductive == Spec => []StackInv
<1>1. Init => StackInv
  BY InitType, InitStacks DEF StackInv
<1>2. StackInv /\ [Next]_vars => StackInv'
  BY NextStack, NextType, NextStacks DEF StackInv
<1> QED
  BY <1>1, <1>2, PTL DEF Spec

\* The variables keep their types, for every configuration and every fault.
THEOREM TypeCorrect == Spec => []TypeOK
<1>1. StackInv => TypeOK
  BY DEF StackInv
<1> QED
  BY <1>1, StackInvInductive, PTL

\* No directory ever has an overlay below another mount: mount_overlay_readonly
\* and the section loop remove what is_path_mounted found before they mount.
THEOREM OverlaysAreOnTop == Spec => []OneOverlay
<1>1. StackInv => OneOverlay
  BY DEF StackInv
<1> QED
  BY <1>1, StackInvInductive, PTL

-----------------------------------------------------------------------------
(* The verdict of the read-only pass and the gate to the persistent one    *)

\* How a step moves the control state these properties look at.
ControlStep ==
  \/ UNCHANGED <<pc, error, successful, failed>>
  \/ /\ pc = "readonly" /\ UNCHANGED <<pc, error>>
     /\ successful' \in {successful, successful + 1}
  \/ /\ UNCHANGED <<successful, failed>>
     /\ \/ pc \in {"constructed", "parse"} /\ pc' \in {"parse", "readonly"} /\ UNCHANGED error
        \/ pc = "readonly" /\ pc' = "ramdisk" /\ error' \in {error, "stat"}
        \/ pc = "ramdisk" /\ pc' = pc /\ error = "none" /\ AllFailed /\ error' = "all_failed"
        \/ pc = "ramdisk" /\ pc' = "returned" /\ ~(error = "none" /\ AllFailed) /\ UNCHANGED error
        \/ pc = "returned" /\ pc' = "persistent" /\ error = "none" /\ UNCHANGED error
        \/ pc = "returned" /\ pc' = "done" /\ error # "none" /\ UNCHANGED error
        \/ pc = "persistent" /\ pc' = "done" /\ UNCHANGED error

\* How pc, error and the counters move together.
LEMMA NextControl == [Next]_vars => ControlStep
<1> SUFFICES ASSUME [Next]_vars
             PROVE  ControlStep
  OBVIOUS
<1>1. ASSUME NEW p, ROStep(p)
      PROVE  ControlStep
  <2>1. CASE ROThrow(p)
    BY <2>1 DEF ROThrow, ROAt, ControlStep
  <2>2. CASE ~ROThrow(p)
    <3>1. ROAt(p) /\ ROContinue /\ successful' \in {successful, successful + 1}
      BY <1>1, <2>2 DEF ROStep, ROSkip, RONoSource, ROCreateFails, ROUmountFails,
                        ROMount, ROMountFails
    <3> QED
      BY <3>1 DEF ROAt, ROContinue, ControlStep
  <2> QED
    BY <2>1, <2>2
<1>2. ASSUME NEW e, RamStep(e)
      PROVE  ControlStep
  BY <1>2 DEF RamStep, RamSkip, RamFails, RamMountFails, RamMount, RamContinue, counts,
              ControlStep
<1>3. ASSUME NEW s, PStep(s)
      PROVE  ControlStep
  BY <1>3 DEF PStep, PSkip, PUmountFails, PFails, PMount, PContinue, ControlStep
<1>4. CASE MountApplication \/ ParseIni \/ ParseFails
  BY <1>4 DEF MountApplication, ParseIni, ParseFails, counts, ControlStep
<1>5. CASE ROEnd \/ RamEndVerdict \/ RamEnd
  BY <1>5 DEF ROEnd, RamEndVerdict, RamEnd, RamClear, counts, ControlStep
<1>6. CASE ReadOnlySucceeded \/ ReadOnlyFailed \/ PEnd
  BY <1>6 DEF ReadOnlySucceeded, ReadOnlyFailed, PEnd, counts, ControlStep
<1>7. ASSUME NEW e, AddLowerDir(e)
      PROVE  ControlStep
  BY <1>7 DEF AddLowerDir, counts, ControlStep
<1>8. CASE UNCHANGED vars
  BY <1>8 DEF vars, counts, ControlStep
<1> QED
  BY <1>1, <1>2, <1>3, <1>4, <1>5, <1>6, <1>7, <1>8 DEF Next, Engine, Caller

\* Only a mount of the application pass makes a directory show an application
\* overlay, and only one of the persistent pass a persistent overlay.
LEMMA OverlaysStep ==
  ASSUME TypeOK, StackStep
  PROVE  /\ successful' # successful + 1 => OverlaysOf("app")' \subseteq OverlaysOf("app")
         /\ pc # "persistent" \/ mount_count' # mount_count + 1 =>
              OverlaysOf("persistent")' \subseteq OverlaysOf("persistent")
<1>1. CASE mounts' = mounts
  BY <1>1 DEF OverlaysOf
<1>2. ASSUME NEW p \in Paths, NEW b \in Seq(Mounts), Changed(p, b),
             NEW kind \in {"app", "persistent"},
             kind = "app" => successful' # successful + 1,
             kind = "persistent" => pc # "persistent" \/ mount_count' # mount_count + 1,
             NEW q \in OverlaysOf(kind)'
      PROVE  q \in OverlaysOf(kind)
  <2>1. q \in Paths
    BY <1>2 DEF OverlaysOf
  <2>2. PICK i \in DOMAIN mounts'[q] : mounts'[q][i].kind = kind
    BY <1>2 DEF OverlaysOf
  <2>3. CASE mounts'[q] = mounts[q]
    BY <2>1, <2>2, <2>3 DEF OverlaysOf
  <2>4. CASE mounts'[q] # mounts[q]
    <3>1. q = p
      BY <1>2, <2>1, <2>4 DEF Changed, TypeOK
    <3>2. CASE mounts' = [mounts EXCEPT ![p] = b]
      <4>1. mounts'[q] = b
        BY <2>1, <3>1, <3>2 DEF TypeOK
      <4> QED
        BY <1>2, <2>1, <2>2, <3>1, <4>1 DEF Changed, OverlaysOf
    <3>3. ASSUME NEW m \in Mounts, m.kind # kind,
                 mounts' = [mounts EXCEPT ![p] = Append(b, m)]
          PROVE  q \in OverlaysOf(kind)
      <4>1. mounts'[q] = Append(b, m)
        BY <2>1, <3>1, <3>3 DEF TypeOK
      <4>2. i \in DOMAIN b /\ mounts'[q][i] = b[i]
        BY <1>2, <2>2, <3>3, <4>1, PushKeepsShape DEF Changed
      <4> QED
        BY <1>2, <2>1, <2>2, <3>1, <4>2 DEF Changed, OverlaysOf
    <3> QED
      BY <1>2, <3>2, <3>3 DEF Changed
  <2> QED
    BY <2>3, <2>4
<1> QED
  BY <1>1, <1>2 DEF StackStep

\* The strengthening: an exception is only there once the application loop is
\* left, the directories it covered are counted, and the persistent pass and
\* its overlays come after a read-only pass that returned.
ControlInv ==
  /\ error # "none" => pc \in {"ramdisk", "returned", "done"}
  /\ error = "all_failed" => successful = 0
  /\ successful = 0 => OverlaysOf("app") = {}
  /\ pc = "returned" /\ error = "none" => ~AllFailed
  /\ pc = "persistent" => error = "none" /\ ~AllFailed
  /\ OverlaysOf("persistent") # {} =>
       pc \in {"persistent", "done"} /\ error = "none" /\ ~AllFailed

\* The invariant about the control holds at the start.
LEMMA InitControl == Init => ControlInv
<1> SUFFICES ASSUME Init
             PROVE  ControlInv
  OBVIOUS
<1>1. OverlaysOf("app") = {} /\ OverlaysOf("persistent") = {}
  BY MountsAssumption DEF Init, OverlaysOf
<1> QED
  BY <1>1 DEF Init, ControlInv

\* Every step keeps the invariant about the control.
LEMMA NextControlInv ==
  ASSUME StackInv, ControlInv, StackStep, ControlStep
  PROVE  ControlInv'
<1>1. successful \in Nat /\ pc \in PCs
  BY DEF StackInv, TypeOK
<1>2. /\ successful' = 0 => OverlaysOf("app")' \subseteq OverlaysOf("app")
      /\ pc # "persistent" => OverlaysOf("persistent")' \subseteq OverlaysOf("persistent")
  <2>1. successful' = 0 => successful' # successful + 1
    BY <1>1
  <2> QED
    BY <2>1, OverlaysStep DEF StackInv
<1>3. CASE UNCHANGED <<pc, error, successful, failed>>
  BY <1>2, <1>3 DEF ControlInv, AllFailed
<1>4. CASE /\ pc = "readonly" /\ UNCHANGED <<pc, error>>
           /\ successful' \in {successful, successful + 1}
  <2>1. successful' = 0 => successful = 0
    BY <1>1, <1>4
  <2>2. OverlaysOf("persistent")' = {} /\ error' = "none"
    BY <1>2, <1>4 DEF ControlInv
  <2> QED
    BY <1>2, <1>4, <2>1, <2>2 DEF ControlInv
<1>5. CASE /\ UNCHANGED <<successful, failed>>
           /\ pc \in {"constructed", "parse", "readonly", "ramdisk", "returned"}
           /\ ControlStep
  <2>1. OverlaysOf("persistent")' = {}
    BY <1>2, <1>5 DEF ControlInv
  <2> QED
    BY <1>2, <1>5, <2>1 DEF ControlInv, ControlStep, AllFailed
<1>6. CASE /\ UNCHANGED <<successful, failed, error>>
           /\ pc = "persistent" /\ pc' = "done"
  BY <1>2, <1>6 DEF ControlInv, AllFailed
<1> QED
  BY <1>1, <1>3, <1>4, <1>5, <1>6 DEF ControlStep

EngineInv == StackInv /\ ControlInv

\* The inductive invariant of the engine.
LEMMA EngineInvInductive == Spec => []EngineInv
<1>1. Init => EngineInv
  BY InitType, InitStacks, InitControl DEF EngineInv, StackInv
<1>2. EngineInv /\ [Next]_vars => EngineInv'
  BY NextStack, NextType, NextStacks, NextControl, NextControlInv DEF EngineInv, StackInv
<1> QED
  BY <1>1, <1>2, PTL DEF Spec

\* "All application overlay mounts failed" is only said when the application
\* covers no directory.
THEOREM VerdictIsRight == Spec => []AllFailedVerdict
<1>1. EngineInv => AllFailedVerdict
  BY DEF EngineInv, ControlInv, AllFailedVerdict
<1> QED
  BY <1>1, EngineInvInductive, PTL

\* A writable overlay is only mounted after a read-only pass that returned.
THEOREM GateHolds == Spec => []PersistentGate
<1>1. EngineInv => PersistentGate
  BY DEF EngineInv, ControlInv, PersistentGate
<1> QED
  BY <1>1, EngineInvInductive, PTL

-----------------------------------------------------------------------------
(* The engine implements OverlayView                                       *)

\* The engine starts as OverlayView does.
LEMMA InitView == Init => View!Init
<1> SUFFICES ASSUME Init
             PROVE  View!Init
  OBVIOUS
<1>1. \A p \in Paths : ViewOf(p) \in View!Views
  BY DEF ViewOf, View!Views
<1>2. PhaseOf = "setup"
  BY DEF Init, PhaseOf
<1> QED
  BY <1>1, <1>2 DEF View!Init

\* What a directory shows when its stack is a part without overlays, or that
\* with an overlay on top.
LEMMA ViewOfStack ==
  ASSUME NEW p \in Paths, NEW b \in Seq(Mounts), Clean(b)
  PROVE  /\ mounts'[p] = b => ViewOf(p)' = "bare"
         /\ \A m \in Mounts :
              m.kind # "other" /\ mounts'[p] = Append(b, m) =>
                ViewOf(p)' =
                  IF m.lower # <<>> /\ m.lower[1] = AppDir(p)
                  THEN IF m.kind \in {"app", "ram"} THEN "app" ELSE "rwapp"
                  ELSE IF m.kind \in {"app", "ram"} THEN "ro" ELSE "rw"
<1>1. ASSUME mounts'[p] = b
      PROVE  ViewOf(p)' = "bare"
  BY <1>1 DEF ViewOf, Overlaid, Clean
<1>2. ASSUME NEW m \in Mounts, m.kind # "other", mounts'[p] = Append(b, m)
      PROVE  ViewOf(p)' =
               IF m.lower # <<>> /\ m.lower[1] = AppDir(p)
               THEN IF m.kind \in {"app", "ram"} THEN "app" ELSE "rwapp"
               ELSE IF m.kind \in {"app", "ram"} THEN "ro" ELSE "rw"
  <2>1. Top(mounts'[p]) = m /\ Len(mounts'[p]) \in DOMAIN mounts'[p]
    BY <1>2, AppendProperties, LenProperties DEF Top
  <2>2. Overlaid(p)'
    BY <1>2, <2>1 DEF Overlaid, IsOverlay, Top
  <2> QED
    BY <2>1, <2>2 DEF ViewOf
<1> QED
  BY <1>1, <1>2

ViewMap == [p \in Paths |-> ViewOf(p)]

\* A step that changes a stack is a step of OverlayView for its directory.
LEMMA ChangedView ==
  ASSUME TypeOK, NEW p \in Paths, NEW b \in Seq(Mounts), Changed(p, b)
  PROVE  [View!Next]_(View!vars)
<1>1. /\ PhaseOf' = PhaseOf
      /\ PhaseOf = IF pc = "persistent" THEN "persistent" ELSE "readonly"
  BY DEF Changed, PhaseOf
<1>2. \A q \in Paths \ {p} : ViewOf(q)' = ViewOf(q)
  BY DEF Changed, TypeOK, ViewOf, Overlaid
<1>3. ViewMap' = [ViewMap EXCEPT ![p] = ViewOf(p)']
  BY <1>2 DEF ViewMap
<1>4. ViewMap[p] = ViewOf(p) /\ (ViewOf(p) = "bare" <=> ~Overlaid(p))
  BY DEF ViewMap, ViewOf
<1>5. CASE mounts' = [mounts EXCEPT ![p] = b]
  <2>1. ViewOf(p)' = "bare"
    BY <1>5, ViewOfStack DEF Changed, TypeOK
  <2>2. CASE ViewOf(p) = "bare"
    BY <1>1, <1>3, <1>4, <2>1, <2>2 DEF View!vars, ViewMap
  <2>3. CASE ViewOf(p) # "bare"
    <3>1. pc = "persistent"
      BY <1>4, <2>3 DEF Changed
    <3>2. View!Withdraw(p)
      BY <1>1, <1>3, <1>4, <2>1, <2>3, <3>1 DEF View!Withdraw, ViewMap
    <3> QED
      BY <3>2 DEF View!Next
  <2> QED
    BY <2>2, <2>3
<1>6. ASSUME NEW m \in Mounts,
             m.kind \in {"app", "ram", "persistent"},
             m.kind = "persistent" <=> pc = "persistent",
             Overlaid(p) => m.lower # <<>> /\ m.lower[1] = AppDir(p),
             mounts' = [mounts EXCEPT ![p] = Append(b, m)]
      PROVE  View!Next
  <2>1. ViewOf(p)' =
          IF m.lower # <<>> /\ m.lower[1] = AppDir(p)
          THEN IF m.kind \in {"app", "ram"} THEN "app" ELSE "rwapp"
          ELSE IF m.kind \in {"app", "ram"} THEN "ro" ELSE "rw"
    BY <1>6, ViewOfStack DEF Changed, TypeOK
  <2>2. CASE pc # "persistent"
    <3>1. ~Overlaid(p) /\ ViewOf(p)' \in {"ro", "app"}
      BY <1>6, <2>1, <2>2 DEF Changed
    <3>2. View!Cover(p)
      BY <1>1, <1>3, <1>4, <2>2, <3>1 DEF View!Cover, ViewMap
    <3> QED
      BY <3>2 DEF View!Next
  <2>3. CASE pc = "persistent" /\ ~Overlaid(p)
    <3>1. ViewOf(p)' \in {"rw", "rwapp"}
      BY <1>6, <2>1, <2>3
    <3>2. View!Open(p)
      BY <1>1, <1>3, <1>4, <2>3, <3>1 DEF View!Open, ViewMap
    <3> QED
      BY <3>2 DEF View!Next
  <2>4. CASE pc = "persistent" /\ Overlaid(p)
    <3>1. ViewOf(p)' = "rwapp"
      BY <1>6, <2>1, <2>4
    <3>2. View!Promote(p)
      BY <1>1, <1>3, <1>4, <2>4, <3>1 DEF View!Promote, ViewMap
    <3> QED
      BY <3>2 DEF View!Next
  <2> QED
    BY <2>2, <2>3, <2>4
<1> QED
  BY <1>5, <1>6 DEF Changed

\* A step that changes no stack is a change of phase or a stutter.
LEMMA UnchangedView ==
  ASSUME TypeOK, ControlStep, mounts' = mounts
  PROVE  [View!Next]_(View!vars)
<1>1. ViewMap' = ViewMap
  BY DEF ViewMap, ViewOf, Overlaid
<1>2. \/ PhaseOf' = PhaseOf
      \/ PhaseOf = "setup" /\ PhaseOf' = "readonly"
      \/ PhaseOf = "readonly" /\ PhaseOf' \in {"persistent", "done"}
      \/ PhaseOf = "persistent" /\ PhaseOf' = "done"
  BY DEF ControlStep, PhaseOf
<1> QED
  BY <1>1, <1>2 DEF ViewMap, View!vars, View!Next, View!Begin, View!EndReadOnly,
                    View!EndPersistent

\* The engine implements OverlayView: a read-only overlay never hides another
\* overlay, only the persistent pass takes one away, what replaces it keeps
\* the application's directory first, and nothing changes after the end.
THEOREM EngineImplementsView == Spec => ViewSpec
<1>1. EngineInv /\ [Next]_vars => [View!Next]_(View!vars)
  BY NextStack, NextControl, ChangedView, UnchangedView DEF EngineInv, StackInv, StackStep
<1> QED
  BY <1>1, InitView, EngineInvInductive, PTL DEF Spec, ViewSpec, View!Spec

=============================================================================
