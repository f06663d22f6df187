------------------------------ MODULE UpperDir ------------------------------
(***************************************************************************)
(* Mount::mount_overlay_persistent (mount.cpp) with file_properties.cpp:   *)
(* the upper directory of one persistent overlay gets the owner, the mode  *)
(* and the extended attributes of the system directory before the mount.   *)
(* The upper directory is on the persistent memory: it outlives power      *)
(* failures, updates of the firmware and what the running system does to   *)
(* the merged directory.                                                   *)
(***************************************************************************)
EXTENDS Naturals, FiniteSets

CONSTANTS
  Owners, Modes,          \* owners (user and group) and permission bits
  Attributes, Values,     \* names and values of extended attributes
  SystemDirs,             \* what the system directory can be
  NewOwner, NewMode,      \* what create_directories gives a directory
  FaultSets,              \* failures the environment can produce: one of these
  MaxBoots                \* bound: boots that are looked at

\* An attribute a directory does not have is absent from the function's domain.
Xattrs      == UNION {[S -> Values] : S \in SUBSET Attributes}
Directories == [owner : Owners, mode : Modes, xattr : Xattrs]

ASSUME SystemAssumption == SystemDirs \subseteq Directories
ASSUME NewAssumption    == NewOwner \in Owners /\ NewMode \in Modes
ASSUME AttributesAssumption == IsFiniteSet(Attributes)
ASSUME BoundAssumption  == MaxBoots \in Nat \ {0}

VARIABLES
  pc,        \* where mount_overlay_persistent is
  system,    \* the last lower directory
  exists,    \* which of the overlay's directories exist
  upper,     \* the upper directory, when it exists
  left,      \* attributes copy_extended_attributes has still to copy
  boots,     \* boots that began
  copied,    \* history: the properties were copied, in this boot
  faults     \* the failures that can happen

vars == <<pc, system, exists, upper, left, boots, copied, faults>>

PCs == {"upper", "work", "compare", "chmod", "chown", "xattr", "mount", "mounted", "thrown"}

NoXattr == [a \in {} |-> CHOOSE v \in Values : TRUE]
NewDir  == [owner |-> NewOwner, mode |-> NewMode, xattr |-> NoXattr]

TypeOK ==
  /\ pc \in PCs
  /\ system \in SystemDirs
  /\ exists \subseteq {"upper", "work"}
  /\ upper \in Directories
  /\ left \subseteq DOMAIN system.xattr
  /\ boots \in 1..MaxBoots
  /\ copied \in BOOLEAN
  /\ faults \in FaultSets

Init ==
  /\ pc = "upper"
  /\ system \in SystemDirs
  /\ exists = {}
  /\ upper = NewDir
  /\ left = {}
  /\ boots = 1
  /\ copied = FALSE
  /\ faults \in FaultSets

Goto(p) == pc' = p /\ UNCHANGED <<system, boots, faults>>
Throw   == Goto("thrown") /\ UNCHANGED <<exists, upper, left, copied>>

CreateUpper ==
  /\ pc = "upper"
  /\ IF "upper" \in exists THEN UNCHANGED <<exists, upper>>
     ELSE exists' = exists \cup {"upper"} /\ upper' = NewDir
  /\ Goto("work")
  /\ UNCHANGED <<left, copied>>

CreateWork ==
  /\ pc = "work"
  /\ exists' = exists \cup {"work"}
  /\ Goto("compare")
  /\ UNCHANGED <<upper, left, copied>>

CreateFails ==
  /\ pc \in {"upper", "work"} \ exists
  /\ "create" \in faults
  /\ Throw

\* Mutant: only the owner is compared.
OwnerSet == system.owner = upper.owner

\* The extended attributes are not compared.
properties_set == system.owner = upper.owner /\ system.mode = upper.mode

Compare ==
  /\ pc = "compare"
  /\ Goto(IF properties_set THEN "mount" ELSE "chmod")
  /\ UNCHANGED <<exists, upper, left, copied>>

ChangeMode ==
  /\ pc = "chmod"
  /\ upper' = [upper EXCEPT !.mode = system.mode]
  /\ Goto("chown")
  /\ UNCHANGED <<exists, left, copied>>

\* Mutant: the names of all attributes are copied, not the system's.
ChangeOwnerAll ==
  /\ pc = "chown"
  /\ upper' = [upper EXCEPT !.owner = system.owner]
  /\ left' = Attributes
  /\ copied' = TRUE
  /\ Goto("xattr")
  /\ UNCHANGED exists

ChangeOwner ==
  /\ pc = "chown"
  /\ upper' = [upper EXCEPT !.owner = system.owner]
  /\ left' = DOMAIN system.xattr
  /\ copied' = TRUE
  /\ Goto("xattr")
  /\ UNCHANGED exists

\* A stat, chmod or chown that fails throws.
ChangeFails ==
  /\ pc \in {"compare", "chmod", "chown"}
  /\ "change" \in faults
  /\ Throw

\* Mutant: an attribute the directory has is kept.
CopyMissing(a) ==
  /\ pc = "xattr"
  /\ a \in left
  /\ upper' = [upper EXCEPT !.xattr =
       [b \in DOMAIN upper.xattr \cup {a} |->
          IF b \in DOMAIN upper.xattr THEN upper.xattr[b] ELSE system.xattr[b]]]
  /\ left' = left \ {a}
  /\ Goto("xattr")
  /\ UNCHANGED <<exists, copied>>

\* Mutant: the pointer to the next name is not advanced.
CopyAttributeStays(a) ==
  /\ pc = "xattr"
  /\ a \in left
  /\ Goto("xattr")
  /\ UNCHANGED <<exists, upper, left, copied>>

\* copy_single_attribute sets one; attributes only the upper directory has stay.
CopyAttribute(a) ==
  /\ pc = "xattr"
  /\ a \in left
  /\ upper' = [upper EXCEPT !.xattr =
       [b \in DOMAIN upper.xattr \cup {a} |->
          IF b = a THEN system.xattr[a] ELSE upper.xattr[b]]]
  /\ left' = left \ {a}
  /\ Goto("xattr")
  /\ UNCHANGED <<exists, copied>>

\* One that cannot be copied is left out with a warning, or all of them when
\* the list of names cannot be read.
SkipAttributes ==
  /\ pc = "xattr"
  /\ left # {}
  /\ "xattr" \in faults
  /\ left' \in {{}} \cup {left \ {a} : a \in left}
  /\ Goto("xattr")
  /\ UNCHANGED <<exists, upper, copied>>

EndCopy ==
  /\ pc = "xattr"
  /\ left = {}
  /\ Goto("mount")
  /\ UNCHANGED <<exists, upper, left, copied>>

MountOverlay ==
  /\ pc = "mount"
  /\ Goto("mounted")
  /\ UNCHANGED <<exists, upper, left, copied>>

MountFails ==
  /\ pc = "mount"
  /\ "mount" \in faults
  /\ Throw

\* The running system changes the merged directory, that is, the upper one,
\* and the board is started again; or the power fails before.  An update may
\* have changed the system directory.
Restart ==
  /\ boots < MaxBoots
  /\ boots' = boots + 1
  /\ system' \in SystemDirs
  /\ pc' = "upper"
  /\ left' = {}
  /\ copied' = FALSE
  /\ UNCHANGED <<exists, faults>>

Reboot ==
  /\ pc \in {"mounted", "thrown"}
  /\ upper' \in IF pc = "mounted" /\ "use" \in faults
                THEN {upper} \cup {[upper EXCEPT !.mode = m] : m \in Modes}
                             \cup {[upper EXCEPT !.owner = o] : o \in Owners}
                ELSE {upper}
  /\ Restart

PowerFails ==
  /\ pc \notin {"mounted", "thrown"}
  /\ "power" \in faults
  /\ UNCHANGED upper
  /\ Restart

Step ==
  \/ CreateUpper \/ CreateWork \/ CreateFails
  \/ Compare \/ ChangeMode \/ ChangeOwner \/ ChangeFails
  \/ \E a \in Attributes : CopyAttribute(a)
  \/ SkipAttributes \/ EndCopy
  \/ MountOverlay \/ MountFails

Next == Step \/ Reboot \/ PowerFails

\* The program's system calls return.
Spec == Init /\ [][Next]_vars /\ WF_vars(Step)

-----------------------------------------------------------------------------
(* Correctness                                                             *)

\* Whatever earlier boots were interrupted in and whatever was done to the
\* directory or to the firmware since, an overlay is only mounted with an upper
\* directory that has the owner and the mode of the system directory.
MountedWithProperties ==
  pc = "mounted" =>
    exists = {"upper", "work"} /\ upper.owner = system.owner /\ upper.mode = system.mode

\* When the properties were copied in this boot, each extended attribute of the
\* system directory is there with its value, unless one could not be copied.
AttributesCopied ==
  pc = "mounted" /\ copied /\ "xattr" \notin faults =>
    \A a \in DOMAIN system.xattr :
       a \in DOMAIN upper.xattr /\ upper.xattr[a] = system.xattr[a]

\* Each boot's call comes to its end or is interrupted by the next boot.
EveryCallEnds == []<>(pc \in {"mounted", "thrown"})

=============================================================================
