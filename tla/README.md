# dynamic-overlay: models, checks and proofs

`dynamic-overlay` is the program the kernel starts as *preinit* on the board,
before the init system: it mounts `/proc` and `/sys`, finds out from which memory
the board was booted, mounts the persistent memory, keeps RAUC's and U-Boot's
configuration on it right, prepares the certificate store, mounts the application
image that belongs to the current boot, and lays overlays over directories of the
read-only root file system, read-only ones with the application's files and
persistent ones with a writable layer. Then it unmounts `/sys` and `/proc` again
and `systemd` starts. When it goes wrong, the board does not boot or shows the
wrong files, and there is nobody at the console.

The program is sequential. What makes it hard is what a unit test does not reach:
every system call may fail and each failure is handled in a different catch block;
passes over the same directories undo and repeat each other; and the files it
leaves behind are met again by the next boot, after a power failure at any point,
an update, or changes made by the running system.

This directory holds TLA+ modules translated from the source, TLC configurations
that check them on small instances, and proofs of theorems for all values of the
constants. All paths below are relative to the repository's root, `src/` here.

## 1. The system and its parts

| Part | Source (`src/src/`) | State | Operations | Modules |
|---|---|---|---|---|
| Overlay engine | `dynamic_mounting.cpp` | the parsed `[ApplicationFolder]` and `[PersistentMemory.*]` entries, the added read-only entries, counters of successful and failed mounts; the kernel's mount table | `application_image`, `add_lower_dir_readonly_memory` and all they call | `DynamicMounting`, `OverlayView`, `DynamicMountingProofs`, `EngineLoopsProofs` |
| Application image | `dynamic_mounting.cpp`, `mount.cpp` | chosen image, loop device, file descriptors | `determine_application_image`, `detect_failedUpdate_app_fw_reboot`, `mount_application_image` | `AppImage`, `AppImageProofs` |
| Mount wrapper | `mount.cpp` | none of its own | `mount_overlay_readonly`, `mount_overlay_persistent`, `wrapper_c_mount`, `wrapper_c_umount` | in the modules of its callers |
| Directory properties | `file_properties.cpp` | owner, mode and attributes of the upper directory | `properties_set`, `copy_properties_lower_to_upper`, `copy_extended_attributes`, `copy_single_attribute` | `UpperDir`, `UpperDirProofs` |
| Mount list | `preinit.cpp` | `mount_prep`, `mounted_paths` | `add`, `prepare` with rollback, `remove` | `PreInit`, `BootProofs`, `InductionLemmas` |
| Main program | `main.cpp` | two `PreInit` objects, the saved exception | the order of everything, the catch blocks | `Boot`, `StoreAndEngine`, `BootProofs` |
| Memory detector | `persistent_mem_detector.cpp` | memory type and boot device | constructor, `getPathToPersistentMemoryDevice` | `MemDetect`, used by `Boot` |
| Boot configuration | `create_link.cpp` | two files and their directory on the persistent memory | `create_link_to_system_conf`, `create_link_to_fw_env_conf`, `updateMCCBootDevConf`, `updateMTDBootDevConf`, `isBootDeviceConfigured` | `BootConf`, `BootConfProofs` |
| U-Boot environment | `u-boot.cpp` | the library's context | `getVariable`, three conversions | `AppImage` |
| Certificate store | `x509_cert_store.cpp` | ramdisk, archive on an MTD or a file | `prepare_ramdisk_readable`, find the partition, read the header, copy the archive, unpack, remount read-only, hand over | `CertStore`, `StoreAndEngine`, `StoreAndEngineProofs`, `InductionLemmas` |
| Descriptions, `overlay.ini` | `mount.h` (`OverlayDescription`), `dynamic_mounting.cpp` | records | parse | `DynamicMounting` (records; accept or reject) |

How they interact: `main` calls everything, one after the other. The parts share
the kernel's mount table (the engine, the mount list, the image and the certificate
store all mount; `is_path_mounted` reads `/proc/mounts` and therefore needs the
`/proc` the first mount list mounted), the persistent memory (the boot
configuration's files and the upper directories live on what the second mount list
mounted), and the U-Boot environment, which the updater writes in other boots.
The certificate store mounts an overlay of its own before the engine runs, and `main`
hands the engine an entry for the same directory with `add_lower_dir_readonly_memory`.

What makes each part correct:

* engine: no directory ends up with overlays on top of each other; what an earlier
  pass showed is only replaced, never hidden; everything that was added is worked
  on once; a failed application leaves the persistent pass out; the application's
  files end on top; it comes to an end.
* image: the image that belongs to the boot, no number cut to another one, no
  descriptor, context or loop device left behind by any failure.
* mount lists and `main`: the ledger agrees with the kernel, `/proc` and `/sys` are
  there while they are read and gone afterwards, the persistent memory stays; neither
  its failure nor that of the steps after it keeps the engine from running.
* boot configuration: names the device of this boot, is there after at most two
  boots; a power failure never makes it worse than it was, and a rewrite that was
  reported as done survives every later one.
* certificate store: what is unpacked is the archive of the partition, byte by byte;
  the engine gets the ramdisk exactly when it was made read-only, and the
  certificates are still shown when the engine is done.
* upper directories: never mounted with another owner or mode than the system
  directory's.

The hazards, each at its line with the properties that would notice it going
wrong, are listed in `PROJECT.json`.

## 2. Modules

### DynamicMounting and OverlayView

`DynamicMounting` is one run of `application_image()`. An action is one iteration
of one loop, or the code between two loops; `pc` says which loop runs and `next` is
its index.

| Action | Code |
|---|---|
| `AddLowerDir` | `add_lower_dir_readonly_memory`, by the callers, before the run |
| `MountApplication`, `ParseIni`, `ParseFails` | mount the image, read `overlay.ini`, or the fallback configuration `/etc`, `/usr/bin` |
| `ROSkip`, `ROFails`, `ROMountFails`, `ROMount` … `ROEnd` | the loop of `mount_overlay_read_only` with its early exits and its verdict |
| `RamSkip`, `RamFails`, `RamMountFails`, `RamMount`, `RamEndVerdict`, `RamEnd` | `mount_ramdisk`, called from the verdict, from the catch block, and at the end |
| `ReadOnlySucceeded`, `ReadOnlyFailed` | the return into `application_image`, the comparison of the exception's text |
| `PSkip`, `PUmountFails`, `PFails`, `PMount`, `PEnd` | `mount_overlay_persistent` |

The mount table is a stack per merge directory. A directory name is a member of
`Dirs`: the merge directory itself, its counterpart in the image, or a third place. An
overlay has its lower directories in the order of `lowerdir=`, the first on top, and the
upper directory of the certificate store's overlay, because that is the very directory
the added entry names (`x509_cert_store.cpp:380`, `:432`): its files are shown by either
(`Shown`).
What the kernel answers is chosen by the environment inside `faults`, one of
`FaultSets`.

`OverlayView` is the abstract specification: five things a directory can show, and
what each phase may do to them. The engine refines it with
`phase <- PhaseOf`, `view <- ViewOf`. It says in particular that a read-only pass only
covers bare directories, and that an overlay a persistent pass takes away is
replaced by a writable one with the application on top, or lost (`Withdraw`: the code
unmounts at `dynamic_mounting.cpp:704` before it knows whether the new mount works). A
mount that is no overlay counts as bare there. So the losses at
`dynamic_mounting.cpp:704`, `:731` and `mount.cpp:139` are steps the contract permits; the
first is the subject of the run `added_despite_errors`.

Two branches are left out because nothing reaches them: the retry with fewer overlays
(`dynamic_mounting.cpp:896-919`), whose text is in no exception, which the run
`depth_retry` is about, and the `ConfigException` for an added entry with an empty field
(`:961-966`), since `main` only adds what the certificate store returns.

### PreInit, MemDetect, Boot

`PreInit` is one list of mounts: `mount_prep`, the ledger `mounted_paths`, and the
steps of `prepare` with the rollback in the ledger's order. `Boot` is `main()`: two
instances of `PreInit` on one kernel, the detector's answer from `MemDetect`, and the
rest as steps that return or throw. The two configuration steps never throw: their
catch blocks build a `CreateSymlink` object and drop it (`create_link.cpp:205`, `:248`).
`getPathToPersistentMemoryDevice` (step `path`) is a choice among the volumes
`IsPersistentMemory` accepts: on eMMC any block device with the label, on NAND a volume
of the booted UBI device only. How the code finds it under `/sys` is not modelled, so no
property is stated about the volume.

### CertStore, StoreAndEngine

`CertStore` is `x509_cert_store.cpp` with `main`'s steps around it, a system call or one
iteration of a loop per action. The bytes of the archive are numbered, so that a copy
shows which byte of the partition it holds.

| Action | Code |
|---|---|
| `MountTmpfs`, `MakeDirectories`, `MountOverlay`, `PrepareFails` | `prepare_ramdisk_readable`; an exception skips the engine, too |
| `ConfigRejected`, `ScanFails`, `ConfigAccepted`, `OpenFails`, `ReadHeader` | the constructor, the row of `/proc/mtd`, the header |
| `CreateArchive`, `CopyChunk`, `CopyThrows`, `CopyEnds` | `CertMDTstore::ExtractCertStore`: `read` and `write` in a loop; no step is possible once `read` returns 0 too early |
| `CopyBlock`, `CopyRest` | `CertMMCstore::ExtractCertStore`: streams whose state is not looked at, a counter modulo 2^64 |
| `Unpack`, `Chown`, `ShellFails` | `system()`, whose exit status is not looked at |
| `Remount`, `RemountFails`, `HandOver` | main's inner `try` up to the engine |

`StoreAndEngine` composes it with an instance of `DynamicMounting` on one mount table:
`CertOverlay` is the store's mount, `AddEntry` the call of
`add_lower_dir_readonly_memory`, `EngineStep` a step of the engine once the store has
returned. It refines `Boot`'s five steps for this part of `main` (`BootSteps`, with the
mapping `BootPC`, `BootRamdisk`): the coarse steps of `Boot` leave nothing out.

### BootConf

The two configuration files over several boots. A file is a set of lines that name
a device, and absent, torn or whole. Actions are the single system calls, so that
a `Reboot` after a power failure may come between any two of them: create the
directory, begin (with any part of the template) and end the copy, open and write the temporary file, rename it,
synchronise. `unsynced` has the files that were written since the last sync: with the
fault "unordered" the file system may bring names to the disk before data, and a power
failure can leave such a file empty, those of an earlier copy included. The two
functions run one after the other in each boot; `isBootDeviceConfigured` is modelled as
what it does, a search for a part of a line.

### UpperDir

One `mount_overlay_persistent` per boot: create upper and work directory, compare,
`chmod`, `chown`, one attribute after the other, mount. Between boots the system
directory may change (an update), and the running system may change the upper one.

### AppImage

`mount_application`: the seven U-Boot variables in the order in which they are read,
each present, absent or with any content; `getVariable` with the library's context, which
each way out gives up in its own way (`GivenUp`; a context freed with its environment still
open is "lost");
the choice between `app_a` and `app_b` with the cases of a failed update; and the five
resources of the loop mount with the cleanup behind each failing call.

### MC modules

`MCDynamicMounting`, `MCBoot`, `MCBootConf`, `MCUpperDir`, `MCAppImage` and
`MCStoreAndEngine` only give the constants their values.

## 3. Runs

| Run | States | Shows |
|---|---|---|
| `engine` | 439,592 | shape of the mount table, limits, verdict and gate, added entries, the application on top, refinement of `OverlayView`, termination |
| `boot` | 638 | ledgers, the lifetime of `/proc`, `/sys` and the persistent memory on every way through `main`, and that only the ramdisk or an endless copy keeps the engine from running |
| `boot_conf` | 722,354 | both files over three boots with power failures, file systems that order their writes or do not, and changing devices |
| `upper_dir` | about 2,900 | upper directory over three boots |
| `app_image` | about 3,200 | every content of the variables, every failing call |
| `store_and_engine` | 62,800 | the copy of the archive on both media, the ramdisk's way to the engine, the certificates' overlay through the engine's passes, refinement of `Boot`'s steps, termination |

Six more runs look for a disagreement between the code and a comment or the
documentation, and find it:

| Run | What it shows |
|---|---|
| `added_despite_errors` | a persistent section that fails has unmounted the overlay with the added entry's files before (`dynamic_mounting.cpp:704`), although `dynamic_mounting.h:130` says that errors with the persistent memory do not prohibit an added object |
| `depth_retry` | the retry with fewer overlays never happens: the text it waits for is in no exception |
| `only_application_unmounted` | the persistent pass unmounts overlays the application did not mount |
| `proc_sys_unmounted` | a throwing detector leaves `/proc` and `/sys` mounted at the end |
| `update_reported` | on a full file system a configuration is replaced by a part of itself and `true` is returned |
| `configured_means_boot_device` | `mtd1` is found in `mtd10`, so a file for another device is left as it is |

### Bounds, and why they are enough

* `engine`: three directories (the two of the fallback configuration and one that
  the certificate store covers), eight images, two added entries, four initial mount
  tables, `MaxOverlays = 2` where the code has 8. The limit is met and exceeded in
  both passes: one image lists more directories than it, and one has more sections. The images contain the overlaps the code has
  to deal with: a directory listed twice, two sections for one directory, a section
  that names the application's own directory, a section with a directory that may be
  missing, a section whose lower directory only a later section creates, an empty
  `overlay.ini`, no image. `added_despite_errors` starts as `main` does: with the
  certificate store's overlay and the one entry of the ramdisk. `FaultSets` is "no failure" or "any
  call may fail at any time"; properties that promise something only for calls that
  succeed have the first one as their hypothesis.
* `boot`: nothing is bounded; the program has no parameters but the build option,
  which is on because the program without it does a subset of the steps.
* `boot_conf`: `MaxBoots = 3` - one to create, one to be interrupted, one to see what
  was left. Devices: two MMC, and two MTD whose names are prefixes of one another.
  The seven members of `FaultSets` separate the hypotheses of the properties: no
  failure, only power failures, those on an unordered file system, only a full one,
  and everything with and without each of the last two.
* `upper_dir`: `MaxBoots = 3`, three versions of the system directory, each differing in
  another property.
* `app_image`: `Numbers` has every boundary (negative, 0, the tries, the two rollback
  states, 255, 256, what they would be cut to), `ULONG_MAX` is 1023.
* `store_and_engine`: `Chunk = 2` for `BUF_SIZE`, `Modulus = 10` for 2^64, `Capacity = 5`
  bytes of ramdisk. Archives of 0 to 6 bytes give no block, whole blocks, a rest, and one
  byte more than fits; 9 is the size within `BUFSIZ` of the counter's end, where the
  eMMC loop's bound wraps. Partitions are shorter than the archive, as long, and
  longer. `/proc/mtd` has one row, several or none with the name. The images claim
  the certificates' directory, only list it, only have a section for it, or are
  not there.

### Assumptions and abstractions

* The texts of paths are not modelled: directories are model values and independent
  of each other, so that a mount on a parent hides nothing. `/proc/mounts` is read as
  the table it prints.
* A write that was completed is there after a power failure, unless "unordered" is
  among the faults. The program synchronises only after the rename
  (`create_link.cpp:83`) and a copy not at all: on such a file system a file that was only
  copied, or renamed and not yet synchronised, can be lost. `StaysWhole` promises
  nothing for those files, `ReportedSurvives` everything for a rewrite that was reported.
* libubootenv, inicpp, and the kernel are modelled from how the code uses them.
  `std::stoul` of a negative number wraps round the modulus; texts so long that it
  throws `out_of_range` are not distinguished from other texts without a number.
* A read of an MTD partition fails or delivers what is there; one that fails exactly at
  the partition's end, where the loop has nothing more to read, is not modelled apart.
* A file that is open for writing makes the kernel refuse the read-only remount; the
  shell, `bunzip2` and `tar` either do all of their work or count as failed.

### Fairness

Every specification has weak fairness of the program's own steps, and of nothing
else. This is what the code justifies: there is one thread, nothing it waits for
but system calls, which return with a result or an error. In `DynamicMounting`
the callers of `AddLowerDir` are not fair; in `BootConf` and `UpperDir` neither are
power failures, reboots and the running system. `InnerSpec` has one weak fairness for the
store and the engine together, because they are one thread. `Termination`,
`EveryBootEnds`, `EveryCallEnds` and `InnerTryEnds` say that whatever fails the program
comes to its end, so that init starts, and `EngineReached` that the engine ran before,
unless the ramdisk could not be prepared. There is one exception in the code, and the
properties name it (`Spins`, `pc = "spins"` in `Boot`): the copy of the archive never ends
when the MTD partition is shorter than its header says, or the size on the eMMC is
within `BUFSIZ` of `UINT64_MAX`. The liveness properties show that nothing else stops it.

`CHECK_DEADLOCK` is off in all configurations because the program ends.

## 4. Proofs

Eight modules prove 40 theorems, for every value of the constants that satisfies the named
assumptions of the modules. Every invariant and every action property of the runs that
pass is stated by one of them, and was model-checked first. What is left to TLC alone are
the liveness properties; the section's end says why.

| Module | Theorems | State |
|---|---|---|
| `DynamicMountingProofs` | `TypeCorrect`, `OverlaysAreOnTop`, `VerdictIsRight`, `GateHolds`, `EngineImplementsView` | `TypeOK`, `OneOverlay`, `AllFailedVerdict`, `PersistentGate`, `Spec => View!Spec` |
| `EngineLoopsProofs` | `LimitHolds`, `AddedAreHandledOnce`, `AddedAreCovered`, `ApplicationIsOnTop`, `EngineDescends` | `OverlayLimit`, `AddedHandledOnce`, `AddedCovered`, `AppOnTop`, each step of the engine descends |
| `BootProofs` | `TypeCorrect`, `LedgersAreSound`, `ProcAndSysAreMounted`, `NothingIsLeftBehind`, `PersistentMemoryStays`, `MainDescends` | `TypeOK`, `LedgersSound`, `ProcAndSysMounted`, `NothingLeftBehind`, `PersistentStays`, each step of `main` descends |
| `BootConfProofs` | `TypeCorrect`, `WholeFilesStayWhole`, `ReportedUpdatesSurvive`, `FilesNameBootDevice`, `BothFilesAreThere`, `UpdateDescends` | `TypeOK`, `StaysWhole`, `ReportedSurvives`, `NamesBootDevice`, `ThereAfterTwoBoots`, each step of a boot descends |
| `UpperDirProofs` | `TypeCorrect`, `MountedHasProperties`, `AttributesAreCopied`, `CallDescends` | `TypeOK`, `MountedWithProperties`, `AttributesCopied`, each step of a boot descends |
| `AppImageProofs` | `TypeCorrect`, `NothingIsLeft`, `NumbersAreKept`, `ImageIsRight`, `SelectionDescends` | `TypeOK`, `NothingLeft`, `NumbersKept`, `RightImage`, each step descends |
| `StoreAndEngineProofs` | `TypeCorrect`, `RemountIsReady`, `AddedWhenSealed`, `ArchiveIsExact`, `CertificatesStay`, `StepsOfMain`, `OnlySpinsEndless` | `TypeOK`, `ReadyToRemount`, `SealedWhenAdded`, `ArchiveExact`, `CertificatesShown`, `BootSteps`, each step of the store descends or spins |
| `InductionLemmas` | `LeastNumber`, `ErasedProperties` | facts about numbers and sequences the proofs above rest on |

Three theorems have a hypothesis of their own, stated in them:

* `AddedAreCovered` assumes `OwnDirectories`: no entry's lower directory is the merge
  directory of another entry. `mount_ramdisk` creates merge directories, so such an entry
  could be without a source when it is worked on and have one afterwards. The program
  adds one entry, for the ramdisk.
* `BothFilesAreThere` assumes that both files are in one directory, as they are in the
  code: only the second function creates it.
* `ImageIsRight` assumes that no number in the environment is at or below
  256 - 2^w: `std::stoul` wraps 9 - 2^w round to 9, which is a rollback state.

### The engine

The inductive invariant is `EngineInv == StackInv /\ ControlInv`.

* `StackInv` is `TypeOK /\ OneOverlay`. The two need each other:
  without `OneOverlay` the single `umount` before a persistent mount could leave an
  overlay below, and the next mount would be the second. Every step changes the
  stack of at most one directory, to a part of the old one that has no overlay, with
  or without a new overlay on top. The definition `Changed` says so; the lemmas
  `ROStepStack` and its siblings show it of each action, and the invariant's
  preservation and the refinement are then proved from `Changed` alone.
* `ControlInv` ties the table to the program's position: which kinds of overlay can
  exist in which phase, and what the counters say about them. `AllFailedVerdict` and
  `PersistentGate` are not inductive without it: that `error = "all_failed"` excludes
  application overlays is only known because `successful = 0` does, at any earlier point
  of the loop.

`EngineImplementsView` uses `EngineInv` in the refinement: each action of the engine
is shown to be one action of `OverlayView`, or to leave `PhaseOf` and `ViewOf` as they were.

`OverlayLimit` counts directories, the code counts mounts. `LimitInv` bounds the number of
directories with an overlay of each kind by the pass's counter: a step adds at most one
directory, and only together with the counter (`OneDirectory`, `CountedSet`).
`HandledInv` says for each position of the loop how often each entry was worked on: it
needs that the list has no entry twice, that all before `next` were handled, and that
after the verdict's call the list is empty, so that the catch block's second call does
nothing. `CoveredInv` adds that each entry is covered or still ahead of the index.

`AppOnTop` follows a directory through all three passes, by `SectionInv /\ AppInv`: in the
application loop each listed directory before `next` shows the application (`ListedInv`);
`mount_ramdisk` leaves such a directory alone, since it has an overlay; and a persistent
section takes the overlay away and puts one back with the application's directory in
front. That the section is still the one of `overlay.ini` when the loop comes to it is
`SectionInv`: the loop writes the application's directory into the stored section it works
on (`dynamic_mounting.cpp:705`), and into no other. That its mount succeeds is `SoundMounts`.
The proof attempt refuted an earlier form of the property: a section may list a lower
directory that does not exist until a later section creates it as its merge directory.
The first section then has lost its overlay and cannot mount another, although no call
but that mount fails, and at the end all of its lower directories exist. `Sound` now excludes
such a section, and one of the images of the run has it, so the run would show a
weakening of that clause.

### The main program

`BootInv == StageOne /\ StageTwo` lists the states of the two `PreInit` objects: which lists
they can have at each step of `main` and of `prepare`, and the kernel's counts with each.
The counts are tied to the ledgers only while the object works on them; afterwards the
position in `main` says what is mounted.

`TypeOK` and `LedgersSound` need another view of the same states: `LedgerInv` says that the
ledgers are sequences of targets, and (`Kept`) that after stage 1 its ledger lists nothing but
`/proc` and `/sys`, and only while they are mounted. It is `remove` that needs it: `std::remove`
takes every occurrence out of a list of any length. `PreInit!Without` defines this
by recursion on the list, and `InductionLemmas` proves that exactly the other
elements are left. The detector's answer is in its type because it is one of `Detect`'s.

### Induction over data

The library's induction theorems take the formula as an operator parameter, which the
provers cannot instantiate. `InductionLemmas` takes a set in its place: `LeastNumber` says
that a non-empty set of natural numbers has a least element, from the library's
theorem about well-founded relations, and `UpTo` that a set with 0 that is closed under
successors below `n` has every number up to `n`. With these it is proved that the recursive
function of `Without` exists and what it returns, by applying them to the set of the
indices for which the statement holds; and in `StoreAndEngineProofs` that the first row of
`/proc/mtd` with a name exists when any has it (`ScanFindsRow`).

### The boot configuration

`FileInv` is `TypeOK` with what is known at each system call, above all that the temporary
file that is renamed is the rewritten one unless the disk is full. `Reported` says that a
rewritten file is no longer unsynchronised and that its function does not run again;
`Named` that each function leaves its file with the boot device, for which a rewrite needs
no assumption about the file it rewrites (`RewrittenNames`). `There` follows the files
through the boots: the first one creates the directory and `fw_env`'s file, the second one
`system.conf`.

### The upper directory

`PropertiesInv` says what each system call has made sure of: the mode after `chmod`, both
after `chown`, and both whenever the comparison found them equal. It says nothing about
earlier boots, which is why it holds wherever those were interrupted. `CopyInv` does
the same for the attributes that are not left to copy.

### The application image

`ImageInv == ResourceInv /\ ContentInv`. `ResourceInv` lists the resources held at each call, and what
is still to be released on the way out after a failure or a success. `ContentInv` says that the
contents of the variables before `next` were read and accepted; at the end of the
list, with `FailedUpdate`, the choice is the one `RightImage` describes.

### The certificate store and the engine

`ClosedInv` and `SealedInv` follow the files and the ramdisk through the exceptions.
`ArchiveInv` has the loops' invariants. On NAND (`NandCopy`) the copy is the first `cursor` bytes
of the partition, and `cursor` is the position in it. On eMMC (`EmmcCopy`) the counter is
a multiple of the buffer's size below the modulus, always; and while nothing
fails and the bound cannot wrap, the copy is again the first `cursor` bytes. The
lemmas under "Multiples of the buffer's size" are the arithmetic behind the counter
modulo the width.

`StoreType` is `CertStore`'s `TypeOK`. That the cursor stays below the modulus and the archive within
the ramdisk needs the loops' invariants before and after the step; that `source` is a row of
the table needs the least row with the name, and `TablesAssumption`, that the tables of
`/proc/mtd` are sequences of rows.

`ShownInv` says that the certificates' overlay is the only mount on its directory from its mount on,
or the application's configuration was read and claims the directory. The passes skip
a directory with an overlay; only a persistent section for a directory the application
lists may take one away (`PKeeps`), and that is a claim. `StepsOfMain` combines
`ArchiveInv` with `PhaseInv`, the ramdisk at each position: a copy that spins does so for
ever (`SpinsForEver`), which makes `ExtractSpins` a step that nothing follows.

### Steps that descend

Whatever fails, the program must come to its end, or the board does not boot. The
liveness properties say so, and TLC checks them on the instances. What makes them true is
proved for all constants, as action properties: each step of the program leads to a
smaller state in a well-founded order, and with the fairness, which no prover here can use,
there can only be finitely many.

* `EngineDescends`: `Stage` falls, or it stays and the list of the current loop has one element
  less to work on. The call of `mount_ramdisk` from the catch block is a stage of its own:
  after the verdict's exception the function runs a second time, and no third one.
* `MainDescends`: `Position` in `main` falls, or within `prepare` the object's `Progress` falls or
  the list that is mounted or rolled back gets shorter. No catch block leads back.
* `OnlySpinsEndless`: the store's `Position` falls, or a smaller `Rest` of the archive is left, unless
  `Spins` holds. Together with `StepsOfMain` this says that the copy named there is the only
  place where the store can stay for ever, for every size of buffer, counter and archive.
* `UpdateDescends`, `CallDescends`, `SelectionDescends`: the calls of the two configuration
  functions, of a persistent overlay and of the image's selection come one after the
  other; nothing is tried again. Between boots the first two start anew, at most `MaxBoots` times.

### Only model-checked

The liveness properties `Termination`, `EngineReached`, `InnerTryEnds`, `EveryBootEnds` and
`EveryCallEnds`:
weak fairness is defined by `ENABLED`, which the provers do not reason about. The
theorems of the last section have what can be proved of them; that a step is possible
wherever the program has not ended is left to TLC.

## 5. What is not modelled

* The texts of paths, `overlay.ini` and `/proc/mounts`, `errno` values and messages,
  except for the one comparison of a message that decides about the retry. Therefore the
  hazard at `dynamic_mounting.cpp:282` (paths compared as text) has no property, and the
  parser, the external inicpp library, only accepts or rejects a file.
* Nested merge directories (`/etc` and `/etc/x`). What such a mount shows depends on the
  directories below each layer, and a mount on a parent hides its children's mounts,
  which remain in `/proc/mounts`: the table would have to become a tree of mounts with
  the layers' contents. The hazard is listed at `dynamic_mounting.cpp:468`.
* Which of the patterns in the command line is right on which board: `MemDetect` has the
  code's order, no document says another one.
* How device names are found under `/sys/class/ubi` and `/sys/class/mtd`: the iteration is a
  choice among the entries the code accepts.
* `CertStore`'s dead code: `du-config.json` is never written (without a partition the header
  is read from a directory and rejected; on eMMC the constant `use_part_cert` selects the
  partition), and `close_ramdisk` is never called.
* Build files and documentation.

With this every part of the program that changes state has its actions in a module; only
the texts above are left.
