--------------------------- MODULE UpperDirProofs ---------------------------
(***************************************************************************)
(* Theorems about the upper directory of a persistent overlay, for every   *)
(* set of owners, modes and attributes, every sequence of firmware updates *)
(* and every set of failures, power failures among them.                   *)
(***************************************************************************)
EXTENDS UpperDir, FiniteSetTheorems, TLAPS

-----------------------------------------------------------------------------
(* Type correctness                                                        *)

\* Setting one attribute, as copy_single_attribute does, gives attributes.
LEMMA SetAttribute ==
  ASSUME NEW x \in Xattrs, NEW a \in Attributes, NEW v \in Values
  PROVE  [b \in DOMAIN x \cup {a} |-> IF b = a THEN v ELSE x[b]] \in Xattrs
<1>1. PICK S \in SUBSET Attributes : x \in [S -> Values]
  BY DEF Xattrs
<1>2. [b \in DOMAIN x \cup {a} |-> IF b = a THEN v ELSE x[b]] \in [S \cup {a} -> Values]
  BY <1>1
<1>3. S \cup {a} \in SUBSET Attributes
  BY <1>1
<1> QED
  BY <1>2, <1>3 DEF Xattrs

\* The attributes of the system directory have names and values.
LEMMA SystemAttributes ==
  ASSUME NEW d \in SystemDirs
  PROVE  /\ d.owner \in Owners /\ d.mode \in Modes
         /\ DOMAIN d.xattr \subseteq Attributes
         /\ \A a \in DOMAIN d.xattr : d.xattr[a] \in Values
<1>1. d.owner \in Owners /\ d.mode \in Modes /\ d.xattr \in Xattrs
  BY SystemAssumption DEF Directories
<1>2. PICK S \in SUBSET Attributes : d.xattr \in [S -> Values]
  BY <1>1 DEF Xattrs
<1> QED
  BY <1>1, <1>2

\* What create_directories makes is a directory.
LEMMA NewDirType == NewDir \in Directories
<1>1. NoXattr \in [{} -> Values]
  BY DEF NoXattr
<1>2. NoXattr \in Xattrs
  BY <1>1 DEF Xattrs
<1> QED
  BY <1>2, NewAssumption DEF NewDir, Directories

LEMMA StepType == TypeOK /\ [Next]_vars => TypeOK'
<1> SUFFICES ASSUME TypeOK, [Next]_vars PROVE TypeOK'
  OBVIOUS
<1> USE DEF TypeOK, PCs
<1>1. ASSUME NEW a \in Attributes, CopyAttribute(a) PROVE TypeOK'
  <2>1. a \in DOMAIN system.xattr /\ system \in SystemDirs
    BY <1>1 DEF CopyAttribute
  <2>2. system.xattr[a] \in Values /\ upper.xattr \in Xattrs
    BY <2>1, SystemAttributes DEF Directories
  <2> DEFINE x == [b \in DOMAIN upper.xattr \cup {a} |->
                     IF b = a THEN system.xattr[a] ELSE upper.xattr[b]]
  <2>3. x \in Xattrs
    BY <2>2, SetAttribute
  <2>4. upper' = [upper EXCEPT !.xattr = x]
    BY <1>1 DEF CopyAttribute
  <2>5. upper' \in Directories
    <3> HIDE DEF x
    <3> QED
      BY <2>3, <2>4 DEF Directories
  <2> QED
    BY <1>1, <2>5 DEF CopyAttribute, Goto
<1>2. CASE CreateUpper
  BY <1>2, NewDirType DEF CreateUpper, Goto
<1>3. CASE ChangeMode \/ ChangeOwner
  <2>1. system \in SystemDirs /\ system.owner \in Owners /\ system.mode \in Modes
    BY SystemAttributes
  <2>2. upper' \in Directories
    BY <1>3, <2>1 DEF ChangeMode, ChangeOwner, Directories
  <2> QED
    BY <1>3, <2>2 DEF ChangeMode, ChangeOwner, Goto
<1>4. CASE CreateWork \/ Compare \/ SkipAttributes \/ EndCopy \/ MountOverlay
  BY <1>4 DEF CreateWork, Compare, SkipAttributes, EndCopy, MountOverlay, Goto
<1>5. CASE CreateFails \/ ChangeFails \/ MountFails
  BY <1>5 DEF CreateFails, ChangeFails, MountFails, Throw, Goto
<1>6. ASSUME Restart, upper' \in Directories PROVE TypeOK'
  <2>1. MaxBoots \in Nat /\ boots \in 1 .. MaxBoots /\ boots < MaxBoots /\ boots' = boots + 1
    BY <1>6, BoundAssumption DEF Restart
  <2>2. boots' \in 1 .. MaxBoots
    BY <2>1
  <2>3. left' \subseteq DOMAIN system'.xattr
    BY <1>6 DEF Restart
  <2>4. UNCHANGED <<exists, faults>> /\ system' \in SystemDirs /\ pc' = "upper" /\ copied' = FALSE
    BY <1>6 DEF Restart
  <2> QED
    BY <1>6, <2>2, <2>3, <2>4
<1>7. CASE Reboot \/ PowerFails
  <2>1. upper' \in Directories
    BY <1>7 DEF Reboot, PowerFails, Directories
  <2> QED
    BY <1>6, <1>7, <2>1 DEF Reboot, PowerFails
<1>8. CASE UNCHANGED vars
  BY <1>8 DEF vars
<1> QED
  BY <1>1, <1>2, <1>3, <1>4, <1>5, <1>6, <1>7, <1>8 DEF Next, Step

\* The variables keep their types.
THEOREM TypeCorrect == Spec => []TypeOK
<1>1. Init => TypeOK
  <2> SUFFICES ASSUME Init PROVE TypeOK
    OBVIOUS
  <2>1. boots \in 1 .. MaxBoots
    BY BoundAssumption DEF Init
  <2>2. upper \in Directories
    BY NewDirType DEF Init
  <2> QED
    BY <2>1, <2>2 DEF Init, TypeOK, PCs
<1> QED
  BY <1>1, StepType, PTL DEF Spec

-----------------------------------------------------------------------------
(* The properties of the upper directory                                   *)

\* What each position in mount_overlay_persistent has made sure of.
PropertiesInv ==
  /\ pc \in {"work", "compare", "chmod", "chown", "xattr", "mount", "mounted"} => "upper" \in exists
  /\ pc \in {"compare", "chmod", "chown", "xattr", "mount", "mounted"} => "work" \in exists
  /\ pc = "chown" => upper.mode = system.mode
  /\ pc \in {"xattr", "mount", "mounted"} => upper.owner = system.owner /\ upper.mode = system.mode

LEMMA PropertiesStep == TypeOK /\ PropertiesInv /\ [Next]_vars => PropertiesInv'
<1> SUFFICES ASSUME TypeOK, PropertiesInv, [Next]_vars PROVE PropertiesInv'
  OBVIOUS
<1>0. upper \in [owner : Owners, mode : Modes, xattr : Xattrs]
  BY DEF TypeOK, Directories
<1>1. ASSUME NEW a \in Attributes, CopyAttribute(a) PROVE PropertiesInv'
  <2>1. upper'.owner = upper.owner /\ upper'.mode = upper.mode
    BY <1>0, <1>1 DEF CopyAttribute
  <2> QED
    BY <1>1, <2>1 DEF CopyAttribute, Goto, PropertiesInv
<1>2. CASE CreateUpper \/ CreateWork \/ Compare
  BY <1>2 DEF CreateUpper, CreateWork, Compare, properties_set, Goto, PropertiesInv
<1>3. CASE ChangeMode
  BY <1>0, <1>3 DEF ChangeMode, Goto, PropertiesInv
<1>4. CASE ChangeOwner
  BY <1>0, <1>4 DEF ChangeOwner, Goto, PropertiesInv
<1>5. CASE SkipAttributes \/ EndCopy \/ MountOverlay
  BY <1>5 DEF SkipAttributes, EndCopy, MountOverlay, Goto, PropertiesInv
<1>6. CASE CreateFails \/ ChangeFails \/ MountFails
  BY <1>6 DEF CreateFails, ChangeFails, MountFails, Throw, Goto, PropertiesInv
<1>7. CASE Reboot \/ PowerFails
  BY <1>7 DEF Reboot, PowerFails, Restart, PropertiesInv
<1>8. CASE UNCHANGED vars
  BY <1>8 DEF vars, PropertiesInv
<1> QED
  BY <1>1, <1>2, <1>3, <1>4, <1>5, <1>6, <1>7, <1>8 DEF Next, Step

\* An overlay is only mounted with an upper directory that has the owner and
\* the mode of the system directory, whatever earlier boots left behind.
THEOREM MountedHasProperties == Spec => []MountedWithProperties
<1>1. Init => PropertiesInv
  BY DEF Init, PropertiesInv
<1>2. TypeOK /\ PropertiesInv => MountedWithProperties
  BY DEF TypeOK, PropertiesInv, MountedWithProperties
<1> QED
  BY <1>1, <1>2, PropertiesStep, TypeCorrect, PTL DEF Spec

-----------------------------------------------------------------------------
(* Its extended attributes                                                 *)

Has(a) == a \in DOMAIN upper.xattr /\ upper.xattr[a] = system.xattr[a]

\* While attributes are copied, those that are not left are there.
CopyInv ==
  /\ pc \in {"upper", "work", "compare", "chmod", "chown"} => ~copied
  /\ pc \in {"xattr", "mount", "mounted"} /\ copied /\ "xattr" \notin faults =>
       /\ \A a \in DOMAIN system.xattr : a \in left \/ Has(a)
       /\ pc # "xattr" => left = {}

LEMMA CopyStep == TypeOK /\ CopyInv /\ [Next]_vars => CopyInv'
<1> SUFFICES ASSUME TypeOK, CopyInv, [Next]_vars PROVE CopyInv'
  OBVIOUS
<1>0. upper \in [owner : Owners, mode : Modes, xattr : Xattrs]
  BY DEF TypeOK, Directories
<1>1. ASSUME NEW a \in Attributes, CopyAttribute(a) PROVE CopyInv'
  <2> DEFINE x == [b \in DOMAIN upper.xattr \cup {a} |->
                     IF b = a THEN system.xattr[a] ELSE upper.xattr[b]]
  <2>1. upper' = [upper EXCEPT !.xattr = x]
    BY <1>1 DEF CopyAttribute
  <2>2. upper'.xattr = x
    <3> HIDE DEF x
    <3> QED
      BY <1>0, <2>1
  <2>3. \A b \in DOMAIN system.xattr : Has(b) \/ b = a => Has(b)'
    BY <1>1, <2>2 DEF Has, CopyAttribute, Goto
  <2> QED
    BY <1>1, <2>3 DEF CopyAttribute, Goto, CopyInv
<1>2. CASE CreateUpper \/ CreateWork \/ Compare \/ ChangeMode \/ ChangeOwner
  BY <1>2 DEF CreateUpper, CreateWork, Compare, ChangeMode, ChangeOwner, Goto, CopyInv
<1>3. CASE EndCopy \/ MountOverlay
  BY <1>3 DEF EndCopy, MountOverlay, Goto, CopyInv, Has
<1>4. CASE SkipAttributes
  BY <1>4 DEF SkipAttributes, Goto, CopyInv
<1>5. CASE CreateFails \/ ChangeFails \/ MountFails
  BY <1>5 DEF CreateFails, ChangeFails, MountFails, Throw, Goto, CopyInv
<1>6. CASE Reboot \/ PowerFails
  BY <1>6 DEF Reboot, PowerFails, Restart, CopyInv
<1>7. CASE UNCHANGED vars
  BY <1>7 DEF vars, CopyInv, Has
<1> QED
  BY <1>1, <1>2, <1>3, <1>4, <1>5, <1>6, <1>7 DEF Next, Step

\* When the properties were copied in this boot, each extended attribute of the
\* system directory is on the mounted upper directory with its value.
THEOREM AttributesAreCopied == Spec => []AttributesCopied
<1>1. Init => CopyInv
  BY DEF Init, CopyInv
<1>2. CopyInv => AttributesCopied
  BY DEF CopyInv, Has, AttributesCopied
<1> QED
  BY <1>1, <1>2, CopyStep, TypeCorrect, PTL DEF Spec

-----------------------------------------------------------------------------
(* The steps of a boot descend                                             *)

Position(p) ==
  CASE p = "upper" -> 7 [] p = "work" -> 6 [] p = "compare" -> 5 [] p = "chmod" -> 4
    [] p = "chown" -> 3 [] p = "xattr" -> 2 [] p = "mount" -> 1 [] OTHER -> 0

\* The function comes to a later call, or has fewer attributes left to copy.
Descends ==
  \/ Position(pc') < Position(pc)
  \/ /\ pc = "xattr" /\ pc' = "xattr"
     /\ Cardinality(left) \in Nat
     /\ Cardinality(left') \in Nat
     /\ Cardinality(left') < Cardinality(left)

\* A set of attributes from which some are taken away has fewer.
LEMMA FewerLeft ==
  ASSUME TypeOK, NEW T \in SUBSET left, T # left
  PROVE  /\ Cardinality(left) \in Nat /\ Cardinality(T) \in Nat
         /\ Cardinality(T) < Cardinality(left)
<1>1. left \subseteq Attributes
  BY SystemAttributes DEF TypeOK
<1>2. IsFiniteSet(left)
  BY <1>1, AttributesAssumption, FS_Subset
<1>3. /\ IsFiniteSet(T) /\ Cardinality(T) <= Cardinality(left)
      /\ Cardinality(T) = Cardinality(left) => T = left
  BY <1>2, FS_Subset
<1>4. Cardinality(left) \in Nat /\ Cardinality(T) \in Nat
  BY <1>2, <1>3, FS_CardinalityType
<1> QED
  BY <1>3, <1>4

LEMMA StepDescends == TypeOK /\ Step => Descends
<1> SUFFICES ASSUME TypeOK, Step PROVE Descends
  OBVIOUS
<1>1. CASE SkipAttributes \/ \E a \in Attributes : CopyAttribute(a)
  <2>1. left' \in SUBSET left /\ left' # left /\ pc = "xattr" /\ pc' = "xattr"
    BY <1>1 DEF SkipAttributes, CopyAttribute, Goto
  <2> QED
    BY <2>1, FewerLeft DEF Descends
<1>2. CASE CreateUpper \/ CreateWork \/ CreateFails \/ ChangeMode \/ ChangeOwner
  BY <1>2 DEF CreateUpper, CreateWork, CreateFails, ChangeMode, ChangeOwner, Throw, Goto,
              Descends, Position
<1>3. CASE Compare \/ ChangeFails \/ EndCopy \/ MountOverlay \/ MountFails
  BY <1>3 DEF Compare, ChangeFails, EndCopy, MountOverlay, MountFails, Throw, Goto,
              Descends, Position
<1> QED
  BY <1>1, <1>2, <1>3 DEF Step

\* Each step of mount_overlay_persistent comes to a later system call or copies
\* or gives up an attribute: nothing is tried again, whatever fails.
THEOREM CallDescends == Spec => [][Step => Descends]_vars
BY StepDescends, TypeCorrect, PTL DEF Spec

=============================================================================
