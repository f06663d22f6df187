-------------------------- MODULE DynamicMounting --------------------------
(***************************************************************************)
(* The overlay engine: class DynamicMounting (dynamic_mounting.cpp) with   *)
(* the overlay mounts of class Mount (mount.cpp) it makes.  One run of     *)
(* application_image(): mount the application image, read overlay.ini,     *)
(* mount the application's read-only overlays and the added ones, then the *)
(* persistent ones.                                                        *)
(*                                                                         *)
(* The program is sequential; every action is one iteration of one of its  *)
(* loops, or the code between two loops.  What the kernel does with a      *)
(* system call is chosen by the environment within faults.   Abstracted:    *)
(* the text of paths (a directory is a member of Dirs, mounts on parents   *)
(* and children of a merge directory are independent of each other), the   *)
(* upper and work directories (module UpperDir has them), and              *)
(* /proc/mounts, which is read as the table of mounts it prints.           *)
(* Left out because nothing reaches it: the retry with fewer overlays      *)
(* (ReadOnlySucceeded says why) and the exception for an added entry with  *)
(* an empty field (main() only adds what the certificate store returns).   *)
(***************************************************************************)
EXTENDS Naturals, Sequences, FiniteSets

CONSTANTS
  Paths,         \* merge directories, as overlay.ini names them
  Etc, UsrBin,   \* the merge directories of the fallback configuration
  MaxOverlays,   \* Config::MAX_OVERLAY_COUNT
  Images,        \* what can be found at DEFAULT_APPLICATION_PATH
  Entries,       \* what callers pass to add_lower_dir_readonly_memory
  InitialMounts, \* mount tables the engine can start with
  InitialDirs,   \* directories that can exist beside those of the image
  FaultSets      \* failures the environment can produce: one of these sets

\* A merge directory p on the root filesystem, its counterpart in the mounted
\* application image, and the directories that other code prepares (ramdisks,
\* directories only lowerdir= names).
Dirs == {"sys", "app", "ram"} \X Paths
SysDir(p) == <<"sys", p>>
AppDir(p) == <<"app", p>>

\* "other" is a mount that is not an overlay; "cert" is the writable overlay
\* the certificate store mounts before the engine runs.  The upper directory
\* is kept where an added entry can name it, which is the ramdisk's.
Kinds  == {"app", "ram", "persistent", "cert", "other"}
Mounts == [kind : Kinds, lower : Seq(Dirs), upper : SUBSET Dirs]
MountOf(kind, lower) == [kind |-> kind, lower |-> lower, upper |-> {}]

\* OverlayDescription::ReadOnly and ::Persistent.
ReadOnly == [merge : Paths, lower : Dirs]
Sections == [merge : Paths, lower : Seq(Dirs)]
Ini      == [valid : BOOLEAN, application : Seq(Paths), persistent : Seq(Sections)]
Image    == [dirs : SUBSET Dirs, ini : Ini]

Duplicates(s) == \E i, j \in DOMAIN s : i # j /\ s[i] = s[j]

ASSUME PathsAssumption  == Etc \in Paths /\ UsrBin \in Paths
ASSUME LimitAssumption  == MaxOverlays \in Nat
ASSUME ImagesAssumption ==   \* the parser rejects a section without lowerdir=
  \A im \in Images :
     /\ im \in Image
     /\ \A i \in DOMAIN im.ini.persistent : im.ini.persistent[i].lower # <<>>
ASSUME EntriesAssumption == \A e \in Entries : e \in ReadOnly
ASSUME DirsAssumption   == \A D \in InitialDirs : D \subseteq Dirs
ASSUME MountsAssumption ==
  \A M \in InitialMounts :
     /\ M \in [Paths -> Seq(Mounts)]
     /\ \A p \in Paths :
          /\ Len(M[p]) <= 1
          /\ \A i \in DOMAIN M[p] : M[p][i].kind \in {"cert", "other"}

VARIABLES
  pc,                  \* where application_image() is
  image,               \* what DEFAULT_APPLICATION_PATH shows
  overlay_application, \* merge directories of [ApplicationFolder]
  overlay_persistent,  \* the [PersistentMemory.*] sections, in the map's order
  additional,          \* additional_lower_directory_to_persistent
  next,                \* index of the loop that runs
  successful,          \* successful_app_mounts
  failed,              \* failed_app_mounts, with the cause of each
  error,               \* what mount_overlay_read_only throws
  mount_count,         \* of mount_overlay_persistent
  mounts,              \* the kernel's mounts on each merge directory, top last
  dirs,                \* existing directories beside those of the image
  tmp_app,             \* whether tmp.app exists
  faults,              \* the failures that can happen in this run
  added,               \* history: the entries that were added
  handled              \* history: how often an added entry was worked on

config == <<image, overlay_application, overlay_persistent>>
counts == <<successful, failed, error, mount_count>>
ghosts == <<added, handled>>
vars == <<pc, config, additional, next, counts, mounts, dirs, tmp_app, faults, ghosts>>

PCs    == {"constructed", "parse", "readonly", "ramdisk", "returned", "persistent", "done"}
Causes == {"nosource", "create", "umount", "mount", "depth"}

TypeOK ==
  /\ pc \in PCs
  /\ image \in Image
  /\ overlay_application \in Seq(Paths)
  /\ overlay_persistent \in Seq(Sections)
  /\ additional \in Seq(Entries)
  /\ next \in Nat \ {0}
  /\ successful \in Nat
  /\ failed \subseteq [path : Paths, cause : Causes]
  /\ error \in {"none", "all_failed", "stat"}
  /\ mount_count \in Nat
  /\ mounts \in [Paths -> Seq(Mounts)]
  /\ dirs \subseteq Dirs
  /\ tmp_app \in BOOLEAN
  /\ faults \in FaultSets
  /\ added \subseteq Entries
  /\ handled \in [Entries -> Nat]

-----------------------------------------------------------------------------
Top(s) == s[Len(s)]
Pop(s)  == IF s = <<>> THEN <<>> ELSE SubSeq(s, 1, Len(s) - 1)

IsOverlay(m) == m.kind # "other"

\* is_path_mounted: /proc/mounts has a line with the path and "overlay".
\* Mount::is_mounted asks for any line, that is, for mounts[p] # <<>>.
Overlaid(p) == \E i \in DOMAIN mounts[p] : IsOverlay(mounts[p][i])

Exists(d) == d \in dirs \cup image.dirs
Keep(d)   == IF Exists(d) THEN <<d>> ELSE <<>>

\* The lower directories of an application overlay, the application's first.
Sources(p) == Keep(AppDir(p)) \o Keep(SysDir(p))

\* The lower directories of an added overlay: the merge directory itself and
\* the entry's, once when they are the same.
RamSources(e) ==
  IF e.lower = SysDir(e.merge) THEN Keep(e.lower)
  ELSE Keep(SysDir(e.merge)) \o Keep(e.lower)

\* wrapper_c_umount and mount(2) on a merge directory.
Umounted(p)       == [mounts EXCEPT ![p] = Pop(mounts[p])]
Mounted(stack, m) == Append(stack, m)

InApplication(p) == \E i \in DOMAIN overlay_application : overlay_application[i] = p

NoImage == [dirs |-> {}, ini |-> [valid |-> FALSE, application |-> <<>>, persistent |-> <<>>]]

Init ==
  /\ pc = "constructed"
  /\ image = NoImage
  /\ overlay_application = <<>>
  /\ overlay_persistent = <<>>
  /\ additional = <<>>
  /\ next = 1
  /\ successful = 0
  /\ failed = {}
  /\ error = "none"
  /\ mount_count = 0
  /\ mounts \in InitialMounts
  /\ dirs \in InitialDirs
  /\ tmp_app \in BOOLEAN
  /\ faults \in FaultSets
  /\ added = {}
  /\ handled = [e \in Entries |-> 0]

\* add_lower_dir_readonly_memory: an entry whose merge directory is in the
\* list already is not added.
AddLowerDir(e) ==
  /\ pc = "constructed"
  /\ IF \E i \in DOMAIN additional : additional[i].merge = e.merge
     THEN UNCHANGED <<additional, added>>
     ELSE /\ additional' = Append(additional, e)
          /\ added' = added \cup {e}
  /\ UNCHANGED <<pc, config, next, counts, mounts, dirs, tmp_app, handled>>

\* cleanup_tmp_app: a failure to remove the file is only reported.
CleanupTmpApp ==
  IF "remove" \in faults THEN tmp_app' \in {FALSE, tmp_app} ELSE tmp_app' = FALSE

\* application_image up to read_and_parse_ini.  A failure to mount the image
\* is caught; the directory then shows what it showed before.
MountApplication ==
  /\ pc = "constructed"
  /\ CleanupTmpApp
  /\ image' \in Images
  /\ pc' = "parse"
  /\ UNCHANGED <<overlay_application, overlay_persistent, additional, next,
                 counts, mounts, dirs, ghosts>>

\* read_and_parse_ini ...
ParseIni ==
  /\ pc = "parse"
  /\ image.ini.valid
  /\ overlay_application' = image.ini.application
  /\ overlay_persistent' = image.ini.persistent
  /\ pc' = "readonly"
  /\ UNCHANGED <<image, additional, next, counts, mounts, dirs, tmp_app, ghosts>>

\* ... and what application_image falls back to when it throws.
ParseFails ==
  /\ pc = "parse"
  /\ ~image.ini.valid
  /\ overlay_application' = <<Etc, UsrBin>>
  /\ overlay_persistent' = <<>>
  /\ pc' = "readonly"
  /\ UNCHANGED <<image, additional, next, counts, mounts, dirs, tmp_app, ghosts>>

-----------------------------------------------------------------------------
(* mount_overlay_read_only: the loop over overlay_application              *)

\* Mutant: one overlay too many.
ROAtInclusive(p) ==
  /\ pc = "readonly"
  /\ next \in DOMAIN overlay_application
  /\ successful <= MaxOverlays
  /\ p = overlay_application[next]

\* The loop body runs for merge directory p.
ROAt(p) ==
  /\ pc = "readonly"
  /\ next \in DOMAIN overlay_application
  /\ successful < MaxOverlays
  /\ p = overlay_application[next]

\* Mutant: the loop does not advance.
ROStay ==
  UNCHANGED <<pc, next, config, additional, error, mount_count, tmp_app, ghosts>>

ROContinue ==
  /\ next' = next + 1
  /\ UNCHANGED <<pc, config, additional, error, mount_count, tmp_app, ghosts>>

Fail(p, cause) == failed' = failed \cup {[path |-> p, cause |-> cause]}

ROSkip(p) ==
  /\ ROAt(p)
  /\ Overlaid(p)
  /\ ROContinue
  /\ UNCHANGED <<successful, failed, mounts, dirs>>

RONoSource(p) ==
  /\ ROAt(p)
  /\ ~Overlaid(p)
  /\ Sources(p) = <<>>
  /\ Fail(p, "nosource")
  /\ ROContinue
  /\ UNCHANGED <<successful, mounts, dirs>>

\* exists or create_directories of the merge directory throws.
ROCreateFails(p) ==
  /\ ROAt(p)
  /\ ~Overlaid(p)
  /\ Sources(p) # <<>>
  /\ \/ "stat" \in faults
     \/ "create" \in faults /\ ~Exists(SysDir(p))
  /\ Fail(p, "create")
  /\ ROContinue
  /\ UNCHANGED <<successful, mounts, dirs>>

\* mount_overlay_readonly finds a mount that is not an overlay and cannot
\* remove it.
ROUmountFails(p) ==
  /\ ROAt(p)
  /\ ~Overlaid(p)
  /\ Sources(p) # <<>>
  /\ "umount" \in faults
  /\ mounts[p] # <<>>
  /\ dirs' = dirs \cup {SysDir(p)}
  /\ Fail(p, "umount")
  /\ ROContinue
  /\ UNCHANGED <<successful, mounts>>

\* mount(2) fails, after a mount that is not an overlay has been removed.
\* EBUSY is not counted as a failure.
ROMountFails(p, cause) ==
  /\ ROAt(p)
  /\ ~Overlaid(p)
  /\ Sources(p) # <<>>
  /\ cause \in faults \cap {"busy", "depth", "mount"}
  /\ dirs' = dirs \cup {SysDir(p)}
  /\ mounts' = Umounted(p)
  /\ IF cause = "busy" THEN UNCHANGED failed ELSE Fail(p, cause)
  /\ ROContinue
  /\ UNCHANGED successful

ROMount(p) ==
  /\ ROAt(p)
  /\ ~Overlaid(p)
  /\ Sources(p) # <<>>
  /\ dirs' = dirs \cup {SysDir(p)}
  /\ mounts' = [mounts EXCEPT ![p] =
                  Mounted(Pop(mounts[p]), MountOf("app", Sources(p)))]
  /\ successful' = successful + 1
  /\ ROContinue
  /\ UNCHANGED failed

\* std::filesystem::exists throws: the loop is left, the added overlays are
\* mounted and the exception is thrown on.
ROThrow(p) ==
  /\ ROAt(p)
  /\ ~Overlaid(p)
  /\ "stat" \in faults
  /\ error' = "stat"
  /\ pc' = "ramdisk"
  /\ next' = 1
  /\ UNCHANGED <<config, additional, successful, failed, mount_count, mounts,
                 dirs, tmp_app, ghosts>>

SomeFailed == failed # {}   \* mutant: forgets the successful ones

AllFailed == failed # {} /\ successful = 0

\* Mutant: the exception is thrown before the added overlays are mounted.
ROEndEarly ==
  /\ pc = "readonly"
  /\ next \notin DOMAIN overlay_application \/ successful >= MaxOverlays
  /\ pc' = IF AllFailed THEN "returned" ELSE "ramdisk"
  /\ next' = 1
  /\ UNCHANGED <<config, additional, counts, mounts, dirs, tmp_app, ghosts>>

\* The loop is over, also when the maximum is reached.
ROEnd ==
  /\ pc = "readonly"
  /\ next \notin DOMAIN overlay_application \/ successful >= MaxOverlays
  /\ pc' = "ramdisk"
  /\ next' = 1
  /\ UNCHANGED <<config, additional, counts, mounts, dirs, tmp_app, ghosts>>

-----------------------------------------------------------------------------
(* mount_ramdisk: the loop over the added entries; every failure is only   *)
(* reported                                                                *)

RamAt(e) ==
  /\ pc = "ramdisk"
  /\ next \in DOMAIN additional
  /\ e = additional[next]

RamContinue(e) ==
  /\ next' = next + 1
  /\ handled' = [handled EXCEPT ![e] = handled[e] + 1]
  /\ UNCHANGED <<pc, config, additional, counts, tmp_app, added>>

RamSkip(e) ==
  /\ RamAt(e)
  /\ Overlaid(e.merge)
  /\ RamContinue(e)
  /\ UNCHANGED <<mounts, dirs>>

\* The entry gets as far as mount_overlay_readonly: it has a source, and
\* has_identical_paths finds none twice.
Mountable(e) == RamSources(e) # <<>> /\ ~Duplicates(RamSources(e))

\* No source or the same one twice, or exists, create_directories or umount
\* fails.
RamFails(e) ==
  /\ RamAt(e)
  /\ ~Overlaid(e.merge)
  /\ \/ ~Mountable(e)
     \/ "stat" \in faults
     \/ "create" \in faults /\ ~Exists(SysDir(e.merge))
     \/ "umount" \in faults /\ mounts[e.merge] # <<>>
  /\ dirs' \in IF Mountable(e) /\ "umount" \in faults /\ mounts[e.merge] # <<>>
               THEN {dirs, dirs \cup {SysDir(e.merge)}} ELSE {dirs}
  /\ RamContinue(e)
  /\ UNCHANGED mounts

RamMountFails(e) ==
  /\ RamAt(e)
  /\ ~Overlaid(e.merge)
  /\ Mountable(e)
  /\ faults \cap {"busy", "depth", "mount"} # {}
  /\ dirs' = dirs \cup {SysDir(e.merge)}
  /\ mounts' = Umounted(e.merge)
  /\ RamContinue(e)

RamMount(e) ==
  /\ RamAt(e)
  /\ ~Overlaid(e.merge)
  /\ Mountable(e)
  /\ dirs' = dirs \cup {SysDir(e.merge)}
  /\ mounts' = [mounts EXCEPT ![e.merge] =
                  Mounted(Pop(mounts[e.merge]), MountOf("ram", RamSources(e)))]
  /\ RamContinue(e)

\* Mutant: the list is not cleared.
RamKeep ==
  /\ pc = "ramdisk"
  /\ next \notin DOMAIN additional
  /\ next' = 1
  /\ UNCHANGED <<additional, config, successful, failed, mount_count, mounts,
                 dirs, tmp_app, ghosts>>

\* Mutant: the index starts below the first element again.
RamClearZero ==
  /\ pc = "ramdisk"
  /\ next \notin DOMAIN additional
  /\ additional' = <<>>
  /\ next' = 0
  /\ UNCHANGED <<config, successful, failed, mount_count, mounts, dirs, tmp_app, ghosts>>

RamClear ==
  /\ pc = "ramdisk"
  /\ next \notin DOMAIN additional
  /\ additional' = <<>>
  /\ next' = 1
  /\ UNCHANGED <<config, successful, failed, mount_count, mounts, dirs, tmp_app, ghosts>>

\* The verdict of the application loop called mount_ramdisk; its exception is
\* caught in the same function, which calls mount_ramdisk again.
RamEndVerdict ==
  /\ RamClear
  /\ error = "none"
  /\ AllFailed
  /\ error' = "all_failed"
  /\ UNCHANGED pc

RamEnd ==
  /\ RamClear
  /\ ~(error = "none" /\ AllFailed)
  /\ pc' = "returned"
  /\ UNCHANGED error

-----------------------------------------------------------------------------
(* application_image after mount_overlay_read_only.  The retry with fewer  *)
(* overlays needs an exception that says "maximum fs stacking depth        *)
(* exceeded"; no exception of the program does.                            *)

\* Mutant: overlay_success is not looked at.
ReadOnlyReturned ==
  /\ pc = "returned"
  /\ pc' = "persistent"
  /\ next' = 1
  /\ UNCHANGED <<config, additional, counts, mounts, dirs, tmp_app, ghosts>>

ReadOnlySucceeded ==
  /\ pc = "returned"
  /\ error = "none"
  /\ pc' = "persistent"
  /\ next' = 1
  /\ UNCHANGED <<config, additional, counts, mounts, dirs, tmp_app, ghosts>>

ReadOnlyFailed ==
  /\ pc = "returned"
  /\ error # "none"
  /\ CleanupTmpApp
  /\ pc' = "done"
  /\ UNCHANGED <<config, additional, next, counts, mounts, dirs, ghosts>>

-----------------------------------------------------------------------------
(* mount_overlay_persistent: the loop over the sections                    *)

PAt(s) ==
  /\ pc = "persistent"
  /\ next \in DOMAIN overlay_persistent
  /\ mount_count < MaxOverlays
  /\ s = overlay_persistent[next]

PContinue ==
  /\ next' = next + 1
  /\ UNCHANGED <<pc, image, overlay_application, additional, successful, failed,
                 error, tmp_app, ghosts>>

\* Mutant: whether the application lists the directory is not asked.
ReplaceableUnlisted(p) == Exists(AppDir(p))

\* An overlay on the merge directory is only taken away when the directory is
\* one of the application's and the application has it.
Replaceable(p) == InApplication(p) /\ Exists(AppDir(p))

PSkip(s) ==
  /\ PAt(s)
  /\ Overlaid(s.merge)
  /\ ~Replaceable(s.merge)
  /\ PContinue
  /\ UNCHANGED <<overlay_persistent, mount_count, mounts, dirs>>

\* std::filesystem::exists or the umount throws: the section is left.
PUmountFails(s) ==
  /\ PAt(s)
  /\ Overlaid(s.merge)
  /\ Replaceable(s.merge)
  /\ faults \cap {"umount", "stat"} # {}
  /\ PContinue
  /\ UNCHANGED <<overlay_persistent, mount_count, mounts, dirs>>

\* What the section mounts on, and its lower directories, when the code that
\* looks for an overlay on the merge directory is done.
BelowCovered(s)  == mounts[s.merge]                        \* mutant: no umount
LayersAppended(s) ==                                       \* mutant: swapped order
  IF Overlaid(s.merge) THEN s.lower \o <<AppDir(s.merge)>> ELSE s.lower

Below(s)  == IF Overlaid(s.merge) THEN Pop(mounts[s.merge]) ELSE mounts[s.merge]
Layers(s) == IF Overlaid(s.merge) THEN <<AppDir(s.merge)>> \o s.lower ELSE s.lower

\* The merge directory is created before the mount.
LayersExist(s) ==
  \A i \in DOMAIN Layers(s) : Exists(Layers(s)[i]) \/ Layers(s)[i] = SysDir(s.merge)

PPrepare(s) ==
  /\ PAt(s)
  /\ ~Overlaid(s.merge) \/ Replaceable(s.merge)
  /\ overlay_persistent' = [overlay_persistent EXCEPT ![next].lower = Layers(s)]

\* The merge directory was unmounted if it had an overlay, and stays so: the
\* lower directories are not distinct, or one does not exist, or a directory
\* cannot be created, the properties cannot be copied or mount(2) fails.
PFails(s) ==
  /\ PPrepare(s)
  /\ \/ Duplicates(Layers(s))
     \/ ~LayersExist(s)
     \/ faults \cap {"create", "stat", "busy", "depth", "mount"} # {}
  /\ mounts' = [mounts EXCEPT ![s.merge] = Below(s)]
  /\ dirs' \in IF Duplicates(Layers(s)) THEN {dirs}
               ELSE {dirs \cup {SysDir(s.merge)}} \cup
                    (IF faults \cap {"create", "stat"} # {} THEN {dirs} ELSE {})
  /\ PContinue
  /\ UNCHANGED mount_count

PMount(s) ==
  /\ PPrepare(s)
  /\ ~Duplicates(Layers(s))
  /\ LayersExist(s)
  /\ dirs' = dirs \cup {SysDir(s.merge)}
  /\ mounts' = [mounts EXCEPT ![s.merge] =
                  Mounted(Below(s), MountOf("persistent", Layers(s)))]
  /\ mount_count' = mount_count + 1
  /\ PContinue

PEnd ==
  /\ pc = "persistent"
  /\ next \notin DOMAIN overlay_persistent \/ mount_count >= MaxOverlays
  /\ CleanupTmpApp
  /\ pc' = "done"
  /\ UNCHANGED <<config, additional, next, counts, mounts, dirs, ghosts>>

-----------------------------------------------------------------------------
ROStep(p) ==
  \/ ROSkip(p) \/ RONoSource(p) \/ ROCreateFails(p) \/ ROUmountFails(p)
  \/ ROMount(p) \/ ROThrow(p)
  \/ \E cause \in {"busy", "depth", "mount"} : ROMountFails(p, cause)

RamStep(e) == RamSkip(e) \/ RamFails(e) \/ RamMountFails(e) \/ RamMount(e)

PStep(s) == PSkip(s) \/ PUmountFails(s) \/ PFails(s) \/ PMount(s)

Engine ==
  /\ UNCHANGED faults
  /\ \/ MountApplication \/ ParseIni \/ ParseFails
     \/ \E i \in DOMAIN overlay_application : ROStep(overlay_application[i])
     \/ ROEnd
     \/ \E i \in DOMAIN additional : RamStep(additional[i])
     \/ RamEndVerdict \/ RamEnd
     \/ ReadOnlySucceeded \/ ReadOnlyFailed
     \/ \E i \in DOMAIN overlay_persistent : PStep(overlay_persistent[i])
     \/ PEnd

Caller == UNCHANGED faults /\ \E e \in Entries : AddLowerDir(e)

Next == Engine \/ Caller

\* The engine is a sequential program and its system calls return; callers
\* need not add anything.
Fairness == WF_vars(Engine)

Spec == Init /\ [][Next]_vars /\ Fairness

-----------------------------------------------------------------------------
(* Correctness                                                             *)

Shape(stack) == \A i \in DOMAIN stack : IsOverlay(stack[i]) => i = Len(stack)

\* However the passes overlap (a section whose directory the application or
\* the certificate store covered before, two sections for one directory, an
\* added entry for a directory of the application), a directory never has two
\* overlays on top of each other, and nothing is mounted on top of one: what
\* is_path_mounted sees is what the next umount removes.
OneOverlay == \A p \in Paths : Shape(mounts[p])

OverlaysOf(kind) ==
  {p \in Paths : \E i \in DOMAIN mounts[p] : mounts[p][i].kind = kind}

\* Neither pass gives more than MAX_OVERLAY_COUNT directories an overlay.
OverlayLimit ==
  /\ Cardinality(OverlaysOf("app")) <= MaxOverlays
  /\ Cardinality(OverlaysOf("persistent")) <= MaxOverlays

\* "All application overlay mounts failed" is only said when the application
\* covers no directory, and a pass that failed leaves the persistent pass out:
\* no directory shows the application's files with nothing persistent above.
AllFailedVerdict == error = "all_failed" => OverlaysOf("app") = {}

\* A writable overlay is only mounted when the read-only pass returned, and
\* that pass does not return when each application overlay failed.
PersistentGate ==
  pc = "persistent" \/ OverlaysOf("persistent") # {} => error = "none" /\ ~AllFailed

\* On every way out of the read-only pass, with its two calls of
\* mount_ramdisk after a failure, each added entry was worked on exactly once.
AddedHandledOnce ==
  pc \in {"returned", "persistent", "done"} =>
     \A e \in Entries : handled[e] = IF e \in added THEN 1 ELSE 0

\* When no system call fails, a directory for which something was added shows
\* an overlay after the read-only pass, whatever became of the application.
AddedCovered ==
  faults = {} /\ pc = "returned" =>
     \A e \in added : RamSources(e) = <<>> \/ Overlaid(e.merge)

\* The section can be mounted below the application's directory: each of its
\* lower directories exists, and not because a later section created it as its
\* merge directory.
Sound(i) ==
  LET sections == image.ini.persistent
      p        == sections[i].merge
      lower    == sections[i].lower
  IN  /\ ~Duplicates(<<AppDir(p)>> \o lower)
      /\ \A k \in DOMAIN lower :
           \/ lower[k] = SysDir(p)
           \/ /\ Exists(lower[k])
              /\ \A j \in DOMAIN sections : j > i => lower[k] # SysDir(sections[j].merge)

TopLayer(p) == Top(mounts[p]).lower[1]

\* When no system call fails, a directory the application has and asks for
\* shows the application's files on top at the end, through any number of
\* sections for the same directory.  The first of lowerdir= is the one on top:
\* so it is in the kernel and in the comments beside the code that builds the
\* lists (dynamic_mounting.cpp:492, :700); the comment on
\* add_lower_dir_readonly_memory (dynamic_mounting.h:124-128) has it the other
\* way round.
AppOnTop ==
  faults = {} /\ pc = "done" /\ error = "none"
  /\ Len(overlay_application) <= MaxOverlays =>
     \A p \in Paths :
        /\ Replaceable(p)
        /\ "cert" \notin {mounts[p][i].kind : i \in DOMAIN mounts[p]}
        /\ \A i \in DOMAIN image.ini.persistent :
             image.ini.persistent[i].merge = p => Sound(i)
        => Overlaid(p) /\ TopLayer(p) = AppDir(p)

\* The engine comes to its end, whatever fails.
Termination == <>(pc = "done")

\* The files of an added entry are seen: its directory is one of those the
\* overlay on top is made of.
Shown(e) ==
  /\ mounts[e.merge] # <<>>
  /\ \/ e.lower \in Top(mounts[e.merge]).upper
     \/ \E i \in DOMAIN Top(mounts[e.merge]).lower : Top(mounts[e.merge]).lower[i] = e.lower

\* What the documentation of add_lower_dir_readonly_memory says: an error while
\* the application or the persistent memory is mounted does not take an added
\* object away.  A step of the persistent pass that fails leaves the added
\* files that were shown shown.
AddedDespiteErrors ==
  [][\A i \in DOMAIN overlay_persistent :
       PFails(overlay_persistent[i]) =>
         \A e \in added : Shown(e) => Shown(e)']_vars

\* What a comment in application_image says: when the stacking depth was what
\* made the overlays fail, the minimal configuration was tried.
DepthRetry ==
  pc = "done" /\ error = "all_failed" /\ (\A f \in failed : f.cause = "depth") =>
     overlay_application = <<Etc>>

\* What a comment in mount_overlay_persistent says: an overlay that is taken
\* away to be mounted again was mounted for the application's folder.
OnlyApplicationUnmounted ==
  [][\A p \in Paths : pc = "persistent" /\ Overlaid(p) /\ mounts'[p] # mounts[p] =>
       Top(mounts[p]).kind = "app"]_vars

\* What a directory shows, as module OverlayView names it.
ViewOf(p) ==
  IF ~Overlaid(p) THEN "bare"
  ELSE LET top     == Top(mounts[p])
           appOnTop == top.lower # <<>> /\ top.lower[1] = AppDir(p)
       IN  IF top.kind \in {"app", "ram"} THEN IF appOnTop THEN "app" ELSE "ro"
           ELSE IF appOnTop THEN "rwapp" ELSE "rw"

PhaseOf ==
  CASE pc \in {"constructed", "parse"} -> "setup"
    [] pc \in {"readonly", "ramdisk", "returned"} -> "readonly"
    [] OTHER -> pc

View == INSTANCE OverlayView
          WITH phase <- PhaseOf, view <- [p \in Paths |-> ViewOf(p)]

\* The engine implements the contract of module OverlayView: read-only
\* overlays never hide another overlay, only the persistent pass takes one
\* away, and one it replaces keeps the application's files on top.
ViewSpec == View!Spec

=============================================================================
