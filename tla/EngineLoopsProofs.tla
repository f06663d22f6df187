-------------------------- MODULE EngineLoopsProofs --------------------------
(***************************************************************************)
(* Theorems about the loops of the overlay engine: how many directories    *)
(* they give an overlay, how often they work on an added entry, what has   *)
(* become of it afterwards, and what the application's directories show.   *)
(***************************************************************************)
EXTENDS DynamicMountingProofs, FiniteSetTheorems

-----------------------------------------------------------------------------
(* The limit of each pass                                                  *)

\* How a step moves the counters of the two passes.
LEMMA CountStep ==
  ASSUME [Next]_vars
  PROVE  /\ \/ successful' = successful
            \/ successful' = successful + 1 /\ successful < MaxOverlays
         /\ \/ mount_count' = mount_count
            \/ mount_count' = mount_count + 1 /\ mount_count < MaxOverlays
<1>1. ASSUME NEW p, ROStep(p)
      PROVE  /\ \/ successful' = successful
                \/ successful' = successful + 1 /\ successful < MaxOverlays
             /\ mount_count' = mount_count
  BY <1>1 DEF ROStep, ROSkip, RONoSource, ROCreateFails, ROUmountFails, ROMount, ROMountFails,
              ROThrow, ROAt, ROContinue
<1>2. ASSUME NEW e, RamStep(e)
      PROVE  UNCHANGED <<successful, mount_count>>
  BY <1>2 DEF RamStep, RamSkip, RamFails, RamMountFails, RamMount, RamContinue, counts
<1>3. ASSUME NEW s, PStep(s)
      PROVE  /\ successful' = successful
             /\ \/ mount_count' = mount_count
                \/ mount_count' = mount_count + 1 /\ mount_count < MaxOverlays
  BY <1>3 DEF PStep, PSkip, PUmountFails, PFails, PMount, PPrepare, PAt, PContinue
<1>4. ASSUME NEW e, AddLowerDir(e)
      PROVE  UNCHANGED <<successful, mount_count>>
  BY <1>4 DEF AddLowerDir, counts
<1>5. CASE \/ MountApplication \/ ParseIni \/ ParseFails \/ ROEnd
           \/ RamEndVerdict \/ RamEnd \/ ReadOnlySucceeded \/ ReadOnlyFailed
           \/ PEnd \/ UNCHANGED vars
  BY <1>5 DEF MountApplication, ParseIni, ParseFails, ROEnd, RamEndVerdict, RamEnd,
              RamClear, ReadOnlySucceeded, ReadOnlyFailed, PEnd, vars, counts
<1> QED
  BY <1>1, <1>2, <1>3, <1>4, <1>5 DEF Next, Engine, Caller

\* A step gives at most one directory another stack.
LEMMA OneDirectory ==
  ASSUME TypeOK, StackStep, NEW kind
  PROVE  \E p : OverlaysOf(kind)' \subseteq OverlaysOf(kind) \cup {p}
<1>1. CASE mounts' = mounts
  BY <1>1 DEF OverlaysOf
<1>2. ASSUME NEW p \in Paths, NEW b \in Seq(Mounts), Changed(p, b)
      PROVE  OverlaysOf(kind)' \subseteq OverlaysOf(kind) \cup {p}
  <2>1. \A q \in Paths \ {p} : mounts'[q] = mounts[q]
    BY <1>2 DEF Changed, TypeOK
  <2> QED
    BY <2>1 DEF OverlaysOf
<1> QED
  BY <1>1, <1>2 DEF StackStep

\* A set that grows by at most one element, and only with its counter.
LEMMA CountedSet ==
  ASSUME NEW S, NEW T, NEW p, NEW n \in Nat, NEW m \in {n, n + 1},
         IsFiniteSet(S), Cardinality(S) <= n,
         T \subseteq S \cup {p}, m # n + 1 => T \subseteq S
  PROVE  IsFiniteSet(T) /\ Cardinality(T) <= m
<1>1. CASE T \subseteq S
  <2>1. IsFiniteSet(T) /\ Cardinality(T) <= Cardinality(S)
    BY <1>1, FS_Subset
  <2>2. Cardinality(T) \in Nat /\ Cardinality(S) \in Nat
    BY <2>1, FS_CardinalityType
  <2> QED
    BY <2>1, <2>2
<1>2. CASE m = n + 1
  <2>1. /\ IsFiniteSet(S \cup {p})
        /\ Cardinality(S \cup {p}) = IF p \in S THEN Cardinality(S) ELSE Cardinality(S) + 1
    BY FS_AddElement
  <2>2. IsFiniteSet(T) /\ Cardinality(T) <= Cardinality(S \cup {p})
    BY <2>1, FS_Subset
  <2>3. Cardinality(T) \in Nat /\ Cardinality(S) \in Nat
    BY <2>2, FS_CardinalityType
  <2> QED
    BY <1>2, <2>1, <2>2, <2>3
<1> QED
  BY <1>1, <1>2

\* The directories of a pass are counted, and the counter stays in its limit.
LimitInv ==
  /\ successful <= MaxOverlays
  /\ mount_count <= MaxOverlays
  /\ IsFiniteSet(OverlaysOf("app")) /\ Cardinality(OverlaysOf("app")) <= successful
  /\ IsFiniteSet(OverlaysOf("persistent")) /\ Cardinality(OverlaysOf("persistent")) <= mount_count

LEMMA LimitInit == Init => LimitInv
<1> SUFFICES ASSUME Init PROVE LimitInv
  OBVIOUS
<1>1. OverlaysOf("app") = {} /\ OverlaysOf("persistent") = {}
  BY MountsAssumption DEF Init, OverlaysOf
<1>2. IsFiniteSet({}) /\ Cardinality({}) = 0
  BY FS_EmptySet
<1>3. /\ IsFiniteSet(OverlaysOf("app")) /\ Cardinality(OverlaysOf("app")) = 0
      /\ IsFiniteSet(OverlaysOf("persistent")) /\ Cardinality(OverlaysOf("persistent")) = 0
  BY <1>1, <1>2
<1>4. successful = 0 /\ mount_count = 0 /\ 0 <= MaxOverlays
  BY LimitAssumption DEF Init
<1> QED
  BY <1>3, <1>4 DEF LimitInv

LEMMA LimitStep == StackInv /\ LimitInv /\ [Next]_vars => LimitInv'
<1> SUFFICES ASSUME StackInv, LimitInv, [Next]_vars PROVE LimitInv'
  OBVIOUS
<1>1. TypeOK /\ OneOverlay /\ StackStep
  BY NextStack DEF StackInv
<1>2. successful \in Nat /\ mount_count \in Nat /\ MaxOverlays \in Nat
  BY <1>1, LimitAssumption DEF TypeOK
<1>3. /\ successful' \in {successful, successful + 1} /\ successful' <= MaxOverlays
      /\ mount_count' \in {mount_count, mount_count + 1} /\ mount_count' <= MaxOverlays
  BY <1>2, CountStep DEF LimitInv
<1>4. IsFiniteSet(OverlaysOf("app")') /\ Cardinality(OverlaysOf("app")') <= successful'
  <2>1. PICK p : OverlaysOf("app")' \subseteq OverlaysOf("app") \cup {p}
    BY <1>1, OneDirectory
  <2>2. successful' # successful + 1 => OverlaysOf("app")' \subseteq OverlaysOf("app")
    BY <1>1, OverlaysStep
  <2>3. IsFiniteSet(OverlaysOf("app")) /\ Cardinality(OverlaysOf("app")) <= successful
    BY DEF LimitInv
  <2>4. successful \in Nat /\ successful' \in {successful, successful + 1}
    BY <1>2, <1>3
  <2> QED
    BY <2>1, <2>2, <2>3, <2>4, CountedSet
<1>5. /\ IsFiniteSet(OverlaysOf("persistent")')
      /\ Cardinality(OverlaysOf("persistent")') <= mount_count'
  <2>1. PICK p : OverlaysOf("persistent")' \subseteq OverlaysOf("persistent") \cup {p}
    BY <1>1, OneDirectory
  <2>2. mount_count' # mount_count + 1 =>
          OverlaysOf("persistent")' \subseteq OverlaysOf("persistent")
    BY <1>1, OverlaysStep
  <2>3. IsFiniteSet(OverlaysOf("persistent")) /\ Cardinality(OverlaysOf("persistent")) <= mount_count
    BY DEF LimitInv
  <2>4. mount_count \in Nat /\ mount_count' \in {mount_count, mount_count + 1}
    BY <1>2, <1>3
  <2> QED
    BY <2>1, <2>2, <2>3, <2>4, CountedSet
<1> QED
  BY <1>3, <1>4, <1>5 DEF LimitInv

\* Neither pass gives more than MAX_OVERLAY_COUNT directories an overlay, for
\* every limit and every set of directories.
THEOREM LimitHolds == Spec => []OverlayLimit
<1>1. StackInv /\ LimitInv => OverlayLimit
  <2> SUFFICES ASSUME StackInv, LimitInv PROVE OverlayLimit
    OBVIOUS
  <2>1. successful \in Nat /\ mount_count \in Nat /\ MaxOverlays \in Nat
    BY LimitAssumption DEF StackInv, TypeOK
  <2>2. Cardinality(OverlaysOf("app")) \in Nat /\ Cardinality(OverlaysOf("persistent")) \in Nat
    BY FS_CardinalityType DEF LimitInv
  <2> QED
    BY <2>1, <2>2 DEF LimitInv, OverlayLimit
<1> QED
  BY <1>1, LimitInit, LimitStep, StackInvInductive, PTL DEF Spec

-----------------------------------------------------------------------------
(* The added entries                                                       *)

\* The list of added entries is still to be worked on ...
Waiting == pc \in {"constructed", "parse", "readonly"}
\* ... is being worked on, by the first call of mount_ramdisk ...
Working == pc = "ramdisk" /\ error # "all_failed"
\* ... or was worked on and cleared.
Worked == pc \in {"returned", "persistent", "done"} \/ (pc = "ramdisk" /\ error = "all_failed")

Times(e) == IF e \in added THEN 1 ELSE 0

HandledInv ==
  /\ error = "all_failed" => ~Waiting
  /\ Waiting \/ Working =>
       /\ \A e \in Entries : e \in added <=> \E i \in DOMAIN additional : additional[i] = e
       /\ \A i, j \in DOMAIN additional : additional[i] = additional[j] => i = j
       /\ \A i \in DOMAIN additional :
            handled[additional[i]] = IF Working /\ i < next THEN 1 ELSE 0
       /\ \A e \in Entries \ added : handled[e] = 0
  /\ Worked => additional = <<>> /\ \A e \in Entries : handled[e] = Times(e)

LEMMA HandledInit == Init => HandledInv
BY DEF Init, HandledInv, Waiting, Working, Worked

\* A caller adds an entry, or one of its directory is there already.
LEMMA HandledAdd ==
  ASSUME TypeOK, HandledInv, NEW e \in Entries, AddLowerDir(e)
  PROVE  HandledInv'
<1>1. /\ pc = "constructed" /\ UNCHANGED <<pc, next, error, handled>>
  BY DEF AddLowerDir, counts
<1>2. CASE UNCHANGED <<additional, added>>
  BY <1>1, <1>2 DEF HandledInv, Waiting, Working, Worked, Times
<1>3. CASE /\ \A i \in DOMAIN additional : additional[i] # e
           /\ additional' = Append(additional, e) /\ added' = added \cup {e}
  <2>1. /\ additional \in Seq(Entries) /\ Len(additional) \in Nat
        /\ DOMAIN additional = 1 .. Len(additional)
    BY LenProperties DEF TypeOK
  <2>2. /\ DOMAIN additional' = 1 .. Len(additional) + 1
        /\ \A i \in 1 .. Len(additional) : additional'[i] = additional[i]
        /\ additional'[Len(additional) + 1] = e
    BY <1>3, <2>1, AppendProperties, LenProperties
  <2>3. e \notin added
    BY <1>1, <1>3 DEF HandledInv, Waiting
  <2>4. handled[e] = 0
    BY <1>1, <2>3 DEF HandledInv, Waiting
  <2>5. \A d \in Entries : d \in added' <=> \E i \in DOMAIN additional' : additional'[i] = d
    BY <1>1, <1>3, <2>1, <2>2 DEF HandledInv, Waiting
  <2>6. \A i, j \in DOMAIN additional' : additional'[i] = additional'[j] => i = j
    BY <1>1, <1>3, <2>1, <2>2 DEF HandledInv, Waiting
  <2>7. \A i \in DOMAIN additional' : handled[additional'[i]] = 0
    BY <1>1, <2>1, <2>2, <2>4 DEF HandledInv, Waiting, Working
  <2> QED
    BY <1>1, <1>3, <2>5, <2>6, <2>7 DEF HandledInv, Waiting, Working, Worked
<1> QED
  BY <1>2, <1>3 DEF AddLowerDir

\* One entry is worked on.
LEMMA HandledWork ==
  ASSUME TypeOK, HandledInv, NEW e \in Entries, RamStep(e)
  PROVE  HandledInv'
<1>1. /\ pc = "ramdisk" /\ next \in DOMAIN additional /\ e = additional[next]
      /\ next' = next + 1 /\ handled' = [handled EXCEPT ![e] = handled[e] + 1]
      /\ UNCHANGED <<pc, additional, error, added>>
  BY DEF RamStep, RamSkip, RamFails, RamMountFails, RamMount, RamAt, RamContinue, counts
<1>2. error # "all_failed"
  BY <1>1 DEF HandledInv, Worked
<1>3. Working /\ ~Waiting /\ ~Worked
  BY <1>1, <1>2 DEF Working, Waiting, Worked
<1>4. /\ \A i, j \in DOMAIN additional : additional[i] = additional[j] => i = j
      /\ \A i \in DOMAIN additional :
            handled[additional[i]] = IF i < next THEN 1 ELSE 0
      /\ \A d \in Entries \ added : handled[d] = 0
      /\ \A d \in Entries : d \in added <=> \E i \in DOMAIN additional : additional[i] = d
  BY <1>3 DEF HandledInv
<1>5. /\ \A i \in DOMAIN additional : additional[i] \in Entries
      /\ DOMAIN additional = 1 .. Len(additional) /\ Len(additional) \in Nat
      /\ handled \in [Entries -> Nat]
  BY LenProperties DEF TypeOK
<1>6. handled[e] = 0 /\ e \in added
  BY <1>1, <1>4, <1>5
<1>7. /\ handled'[e] = 1
      /\ \A d \in Entries \ {e} : handled'[d] = handled[d]
  BY <1>1, <1>5, <1>6
<1>8. \A i \in DOMAIN additional : handled'[additional[i]] = IF i < next' THEN 1 ELSE 0
  <2> SUFFICES ASSUME NEW i \in DOMAIN additional
               PROVE  handled'[additional[i]] = IF i < next' THEN 1 ELSE 0
    OBVIOUS
  <2>1. CASE i = next
    BY <1>1, <1>5, <1>7, <2>1
  <2>2. CASE i # next
    <3>1. additional[i] \in Entries \ {e}
      BY <1>1, <1>4, <1>5, <2>2
    <3>2. handled'[additional[i]] = IF i < next THEN 1 ELSE 0
      BY <1>4, <1>7, <3>1
    <3>3. i < next <=> i < next'
      BY <1>1, <1>5, <2>2
    <3> QED
      BY <3>2, <3>3
  <2> QED
    BY <2>1, <2>2
<1>9. \A d \in Entries \ added : handled'[d] = 0
  BY <1>4, <1>6, <1>7
<1>10. Working' /\ ~Waiting' /\ ~Worked'
  BY <1>1, <1>3 DEF Working, Waiting, Worked
<1> QED
  BY <1>1, <1>4, <1>8, <1>9, <1>10 DEF HandledInv

\* mount_ramdisk is over: every entry was worked on and the list is cleared.
LEMMA HandledClear ==
  ASSUME TypeOK, HandledInv, RamEndVerdict \/ RamEnd
  PROVE  HandledInv'
<1>1. /\ pc = "ramdisk" /\ next \notin DOMAIN additional /\ additional' = <<>>
      /\ UNCHANGED <<added, handled>>
      /\ \/ pc' = pc /\ error' = "all_failed"
         \/ pc' = "returned"
  BY DEF RamEndVerdict, RamEnd, RamClear, ghosts
<1>2. Worked' /\ ~Waiting' /\ ~Working'
  BY <1>1 DEF Worked, Waiting, Working
<1>3. \A e \in Entries : handled[e] = Times(e)
  <2>1. CASE Worked
    BY <2>1 DEF HandledInv
  <2>2. CASE Working
    <3>1. \A i \in DOMAIN additional : i < next
      <4>1. /\ DOMAIN additional = 1 .. Len(additional) /\ Len(additional) \in Nat
            /\ next \in Nat \ {0}
        BY LenProperties DEF TypeOK
      <4> QED
        BY <1>1, <4>1
    <3>2. ASSUME NEW e \in Entries, e \in added PROVE handled[e] = 1
      BY <2>2, <3>1, <3>2 DEF HandledInv
    <3>3. ASSUME NEW e \in Entries, e \notin added PROVE handled[e] = 0
      BY <2>2, <3>3 DEF HandledInv
    <3> QED
      BY <3>2, <3>3 DEF Times
  <2> QED
    BY <1>1, <2>1, <2>2 DEF Worked, Working
<1> QED
  BY <1>1, <1>2, <1>3 DEF HandledInv, Times

\* The other steps leave the list and the history alone.
LEMMA HandledElsewhere ==
  ASSUME HandledInv, UNCHANGED <<additional, added, handled>>,
         \/ UNCHANGED <<pc, error>> /\ (next' = next \/ ~Working)
         \/ Waiting /\ Waiting' /\ UNCHANGED error
         \/ pc = "readonly" /\ pc' = "ramdisk" /\ next' = 1 /\ error' \in {error, "stat"}
         \/ pc \in {"returned", "persistent"} /\ pc' \in {"persistent", "done"} /\ UNCHANGED error
  PROVE  HandledInv'
<1>1. CASE UNCHANGED <<pc, error>> /\ (next' = next \/ ~Working)
  BY <1>1 DEF HandledInv, Waiting, Working, Worked, Times
<1>2. CASE Waiting /\ Waiting' /\ UNCHANGED error
  BY <1>2 DEF HandledInv, Waiting, Working, Worked, Times
<1>3. CASE pc = "readonly" /\ pc' = "ramdisk" /\ next' = 1 /\ error' \in {error, "stat"}
  <2>1. Waiting /\ ~Working /\ ~Worked /\ error # "all_failed"
    BY <1>3 DEF HandledInv, Waiting, Working, Worked
  <2>2. Working' /\ ~Waiting' /\ ~Worked'
    BY <1>3, <2>1 DEF Waiting, Working, Worked
  <2> QED
    BY <1>3, <2>1, <2>2 DEF HandledInv
<1>4. CASE pc \in {"returned", "persistent"} /\ pc' \in {"persistent", "done"} /\ UNCHANGED error
  BY <1>4 DEF HandledInv, Waiting, Working, Worked, Times
<1> QED
  BY <1>1, <1>2, <1>3, <1>4

LEMMA HandledStep == TypeOK /\ HandledInv /\ [Next]_vars => HandledInv'
<1> SUFFICES ASSUME TypeOK, HandledInv, [Next]_vars PROVE HandledInv'
  OBVIOUS
<1>1. ASSUME NEW p, ROStep(p) PROVE HandledInv'
  <2>1. UNCHANGED <<additional, added, handled>>
    BY <1>1 DEF ROStep, ROSkip, RONoSource, ROCreateFails, ROUmountFails, ROMount, ROMountFails,
                ROThrow, ROContinue, ghosts
  <2>2. \/ pc = "readonly" /\ UNCHANGED <<pc, error>>
        \/ pc = "readonly" /\ pc' = "ramdisk" /\ next' = 1 /\ error' = "stat"
    BY <1>1 DEF ROStep, ROSkip, RONoSource, ROCreateFails, ROUmountFails, ROMount, ROMountFails,
                ROThrow, ROContinue, ROAt
  <2> QED
    BY <2>1, <2>2, HandledElsewhere DEF Working
<1>2. ASSUME NEW i \in DOMAIN additional, RamStep(additional[i]) PROVE HandledInv'
  BY <1>2, HandledWork DEF TypeOK
<1>3. ASSUME NEW s, PStep(s) PROVE HandledInv'
  <2>1. pc = "persistent" /\ UNCHANGED <<additional, added, handled, pc, error>>
    BY <1>3 DEF PStep, PSkip, PUmountFails, PFails, PMount, PPrepare, PAt, PContinue, ghosts
  <2> QED
    BY <2>1, HandledElsewhere DEF Working
<1>4. CASE MountApplication \/ ParseIni \/ ParseFails
  BY <1>4, HandledElsewhere DEF MountApplication, ParseIni, ParseFails, counts, ghosts, Waiting
<1>5. CASE ROEnd
  BY <1>5, HandledElsewhere DEF ROEnd, counts, ghosts
<1>6. CASE RamEndVerdict \/ RamEnd
  BY <1>6, HandledClear
<1>7. CASE ReadOnlySucceeded \/ ReadOnlyFailed \/ PEnd
  BY <1>7, HandledElsewhere DEF ReadOnlySucceeded, ReadOnlyFailed, PEnd, counts, ghosts
<1>8. ASSUME NEW e \in Entries, AddLowerDir(e) PROVE HandledInv'
  BY <1>8, HandledAdd
<1>9. CASE UNCHANGED vars
  BY <1>9, HandledElsewhere DEF vars, counts, ghosts
<1> QED
  BY <1>1, <1>2, <1>3, <1>4, <1>5, <1>6, <1>7, <1>8, <1>9 DEF Next, Engine, Caller

\* On every way out of the read-only pass each added entry was worked on exactly
\* once, although a failure calls mount_ramdisk twice.
THEOREM AddedAreHandledOnce == Spec => []AddedHandledOnce
<1>1. HandledInv => AddedHandledOnce
  BY DEF HandledInv, Worked, Times, AddedHandledOnce
<1> QED
  BY <1>1, HandledInit, HandledStep, TypeCorrect, PTL DEF Spec

-----------------------------------------------------------------------------
(* Added entries are covered when nothing fails                            *)

\* No entry's directory is the merge directory of another one: mount_ramdisk
\* creates those, and a directory that was missing would be there afterwards.
OwnDirectories == \A e \in Entries, p \in Paths : e.lower = SysDir(p) => p = e.merge

Covered(e) == RamSources(e) = <<>> \/ Overlaid(e.merge)

CoveredInv ==
  faults = {} =>
    /\ Working => \A e \in added :
         Covered(e) \/ \E i \in DOMAIN additional : i >= next /\ additional[i] = e
    /\ pc = "returned" \/ (pc = "ramdisk" /\ error = "all_failed") => \A e \in added : Covered(e)

\* An overlay on a stack covers its directory.
LEMMA PushedIsOverlaid ==
  ASSUME NEW p \in Paths, NEW b \in Seq(Mounts), NEW m \in Mounts, m.kind # "other",
         p \in DOMAIN mounts, mounts' = [mounts EXCEPT ![p] = Append(b, m)]
  PROVE  Overlaid(p)'
<1>1. mounts'[p] = Append(b, m)
  OBVIOUS
<1>2. Len(Append(b, m)) \in DOMAIN Append(b, m) /\ Append(b, m)[Len(Append(b, m))] = m
  <2>1. /\ Append(b, m) \in Seq(Mounts) /\ Len(b) \in Nat
        /\ Len(Append(b, m)) = Len(b) + 1 /\ Append(b, m)[Len(b) + 1] = m
    BY AppendProperties, LenProperties
  <2> QED
    BY <2>1, LenProperties
<1> QED
  BY <1>1, <1>2 DEF Overlaid, IsOverlay

\* What a step of mount_ramdisk does when nothing fails.
LEMMA RamCovers ==
  ASSUME TypeOK, faults = {}, NEW e \in Entries, RamStep(e)
  PROVE  /\ Covered(e)'
         /\ image' = image
         /\ dirs' = dirs \/ (dirs' = dirs \cup {SysDir(e.merge)} /\ Overlaid(e.merge)')
         /\ \A p \in Paths : Overlaid(p) => Overlaid(p)'
<1>1. e.merge \in Paths /\ e.lower \in Dirs
  BY EntriesAssumption DEF ReadOnly
<1>2. mounts \in [Paths -> Seq(Mounts)] /\ Pop(mounts[e.merge]) \in Seq(Mounts)
  BY <1>1, PopProperties DEF TypeOK
<1>3. image' = image
  BY DEF RamStep, RamSkip, RamFails, RamMountFails, RamMount, RamContinue, config
<1>4. CASE RamSkip(e)
  BY <1>3, <1>4 DEF RamSkip, Covered, Overlaid
<1>5. CASE RamFails(e)
  <2>1. RamSources(e) = <<>> /\ UNCHANGED <<dirs, mounts>>
    BY <1>5, RamSourcesProperties DEF RamFails, Mountable
  <2>2. RamSources(e)' = RamSources(e)
    BY <1>3, <2>1 DEF RamSources, Keep, Exists
  <2> QED
    BY <1>3, <2>1, <2>2 DEF Covered, Overlaid
<1>6. CASE RamMount(e)
  <2> DEFINE m == MountOf("ram", RamSources(e))
  <2>1. m \in Mounts /\ m.kind # "other"
    BY RamSourcesProperties, MountOfProperties DEF Kinds
  <2>2. mounts' = [mounts EXCEPT ![e.merge] = Append(Pop(mounts[e.merge]), m)]
        /\ dirs' = dirs \cup {SysDir(e.merge)}
    BY <1>6 DEF RamMount, Mounted
  <2> HIDE DEF m
  <2>3. Overlaid(e.merge)'
    BY <1>1, <1>2, <2>1, <2>2, PushedIsOverlaid
  <2>4. \A p \in Paths \ {e.merge} : mounts'[p] = mounts[p]
    BY <1>2, <2>2
  <2>5. \A p \in Paths : Overlaid(p) => Overlaid(p)'
    BY <2>3, <2>4 DEF Overlaid
  <2> QED
    BY <1>3, <2>2, <2>3, <2>5 DEF Covered
<1>7. CASE RamMountFails(e)
  BY <1>7 DEF RamMountFails
<1> QED
  BY <1>4, <1>5, <1>6, <1>7 DEF RamStep

\* A covered entry stays covered while others are worked on.
LEMMA CoveredStays ==
  ASSUME OwnDirectories, TypeOK, faults = {}, NEW e \in Entries, RamStep(e),
         NEW d \in Entries, Covered(d)
  PROVE  Covered(d)'
<1>1. d.merge \in Paths /\ e.merge \in Paths
  BY EntriesAssumption DEF ReadOnly
<1>2. CASE Overlaid(d.merge)
  BY <1>1, <1>2, RamCovers DEF Covered
<1>3. CASE d.merge = e.merge
  <2>1. CASE dirs' = dirs
    <3>1. RamSources(d)' = RamSources(d)
      BY <2>1, RamCovers DEF RamSources, Keep, Exists
    <3> QED
      BY <1>1, <3>1, RamCovers DEF Covered
  <2>2. CASE Overlaid(e.merge)'
    BY <1>3, <2>2 DEF Covered
  <2> QED
    BY <2>1, <2>2, RamCovers
<1>4. CASE d.merge # e.merge /\ RamSources(d) = <<>>
  <2>1. SysDir(e.merge) # SysDir(d.merge) /\ SysDir(e.merge) # d.lower
    BY <1>1, <1>4 DEF SysDir, OwnDirectories
  <2>2. Exists(d.lower)' = Exists(d.lower) /\ Exists(SysDir(d.merge))' = Exists(SysDir(d.merge))
    BY <2>1, RamCovers DEF Exists
  <2>3. RamSources(d)' = RamSources(d)
    BY <2>2 DEF RamSources, Keep
  <2> QED
    BY <1>4, <2>3 DEF Covered
<1> QED
  BY <1>2, <1>3, <1>4 DEF Covered

\* One entry more is covered, or the loop is over.
LEMMA CoveredWork ==
  ASSUME OwnDirectories, TypeOK, HandledInv, CoveredInv, NEW e \in Entries, RamStep(e),
         faults' = faults
  PROVE  CoveredInv'
<1>1. /\ pc = "ramdisk" /\ next \in DOMAIN additional /\ e = additional[next]
      /\ next' = next + 1 /\ UNCHANGED <<pc, additional, error, added>>
  BY DEF RamStep, RamSkip, RamFails, RamMountFails, RamMount, RamAt, RamContinue, counts
<1>2. error # "all_failed"
  BY <1>1 DEF HandledInv, Worked
<1>3. SUFFICES ASSUME faults = {}, NEW d \in added
               PROVE  Covered(d)' \/ \E i \in DOMAIN additional : i >= next + 1 /\ additional[i] = d
  BY <1>1, <1>2 DEF CoveredInv, Working
<1>4. d \in Entries /\ next \in Nat /\ DOMAIN additional = 1 .. Len(additional)
      /\ Len(additional) \in Nat
  BY LenProperties DEF TypeOK
<1>5. CASE Covered(d)
  BY <1>3, <1>4, <1>5, CoveredStays
<1>6. ASSUME NEW i \in DOMAIN additional, i >= next, additional[i] = d
      PROVE  Covered(d)' \/ \E j \in DOMAIN additional : j >= next + 1 /\ additional[j] = d
  <2>1. CASE i = next
    BY <1>1, <1>3, <1>6, <2>1, RamCovers
  <2>2. CASE i # next
    <3>1. i >= next + 1
      BY <1>4, <1>6, <2>2
    <3> QED
      BY <1>6, <3>1
  <2> QED
    BY <2>1, <2>2
<1> QED
  BY <1>1, <1>2, <1>3, <1>5, <1>6 DEF CoveredInv, Working

LEMMA CoveredClear ==
  ASSUME TypeOK, HandledInv, CoveredInv, RamEndVerdict \/ RamEnd, faults' = faults
  PROVE  CoveredInv'
<1>1. /\ pc = "ramdisk" /\ next \notin DOMAIN additional
      /\ UNCHANGED <<added, mounts, dirs, image>>
      /\ \/ pc' = pc /\ error' = "all_failed"
         \/ pc' = "returned"
  BY DEF RamEndVerdict, RamEnd, RamClear, ghosts, config
<1>2. ~Working'
  BY <1>1 DEF Working
<1>3. \A e \in added : Covered(e)' = Covered(e)
  BY <1>1 DEF Covered, Overlaid, RamSources, Keep, Exists
<1>4. ASSUME faults = {}, NEW e \in added PROVE Covered(e)
  <2>1. \A i \in DOMAIN additional : ~(i >= next)
    <3>1. /\ DOMAIN additional = 1 .. Len(additional) /\ Len(additional) \in Nat
          /\ next \in Nat \ {0}
      BY LenProperties DEF TypeOK
    <3> QED
      BY <1>1, <3>1
  <2> QED
    BY <1>1, <1>4, <2>1 DEF CoveredInv, Working
<1> QED
  BY <1>1, <1>2, <1>3, <1>4 DEF CoveredInv

\* The loop begins with the first entry.
LEMMA CoveredBegins ==
  ASSUME TypeOK, HandledInv, pc = "readonly", pc' = "ramdisk", next' = 1,
         UNCHANGED <<additional, added>>, error' \in {error, "stat"}
  PROVE  CoveredInv'
<1>1. Waiting /\ error' # "all_failed"
  BY DEF Waiting, HandledInv
<1>2. ASSUME NEW e \in added PROVE \E i \in DOMAIN additional : i >= 1 /\ additional[i] = e
  <2>1. PICK i \in DOMAIN additional : additional[i] = e
    BY <1>1 DEF HandledInv, TypeOK
  <2>2. i >= 1
    BY LenProperties DEF TypeOK
  <2> QED
    BY <2>1, <2>2
<1> QED
  BY <1>1, <1>2 DEF CoveredInv, Working

LEMMA CoveredStep ==
  OwnDirectories /\ TypeOK /\ HandledInv /\ CoveredInv /\ [Next]_vars => CoveredInv'
<1> SUFFICES ASSUME OwnDirectories, TypeOK, HandledInv, CoveredInv, [Next]_vars PROVE CoveredInv'
  OBVIOUS
<1>0. faults' = faults
  BY DEF Next, Engine, Caller, vars
<1>1. ASSUME NEW p, ROStep(p) PROVE CoveredInv'
  <2>1. UNCHANGED <<additional, added>>
    BY <1>1 DEF ROStep, ROSkip, RONoSource, ROCreateFails, ROUmountFails, ROMount, ROMountFails,
                ROThrow, ROContinue, ghosts
  <2>2. \/ pc = "readonly" /\ pc' = pc
        \/ pc = "readonly" /\ pc' = "ramdisk" /\ next' = 1 /\ error' = "stat"
    BY <1>1 DEF ROStep, ROSkip, RONoSource, ROCreateFails, ROUmountFails, ROMount, ROMountFails,
                ROThrow, ROContinue, ROAt
  <2>3. CASE pc' = "readonly"
    BY <2>3 DEF CoveredInv, Working
  <2> QED
    BY <2>1, <2>2, <2>3, CoveredBegins
<1>2. ASSUME NEW i \in DOMAIN additional, RamStep(additional[i]) PROVE CoveredInv'
  BY <1>0, <1>2, CoveredWork DEF TypeOK
<1>3. CASE RamEndVerdict \/ RamEnd
  BY <1>0, <1>3, CoveredClear
<1>4. CASE ROEnd
  BY <1>4, CoveredBegins DEF ROEnd, counts, ghosts
<1>5. ASSUME \/ MountApplication \/ ParseIni \/ ParseFails \/ ReadOnlySucceeded \/ ReadOnlyFailed
             \/ PEnd \/ \E s : PStep(s) \/ \E e : AddLowerDir(e)
      PROVE  CoveredInv'
  <2>1. pc' \notin {"ramdisk", "returned"}
    BY <1>5 DEF MountApplication, ParseIni, ParseFails, ReadOnlySucceeded, ReadOnlyFailed, PEnd,
                PStep, PSkip, PUmountFails, PFails, PMount, PPrepare, PAt, PContinue, AddLowerDir
  <2> QED
    BY <2>1 DEF CoveredInv, Working
<1>6. CASE UNCHANGED vars
  BY <1>6 DEF vars, counts, ghosts, config, CoveredInv, Working, Covered, Overlaid, RamSources,
              Keep, Exists
<1> QED
  BY <1>1, <1>2, <1>3, <1>4, <1>5, <1>6 DEF Next, Engine, Caller

LEMMA HandledAlways == Spec => []HandledInv
BY HandledInit, HandledStep, TypeCorrect, PTL DEF Spec

\* When nothing fails, each directory for which something was added shows an
\* overlay after the read-only pass, whatever became of the application; where
\* no entry names the merge directory of another.
THEOREM AddedAreCovered ==
  ASSUME OwnDirectories PROVE Spec => []AddedCovered
<1>1. Init => CoveredInv
  BY DEF Init, CoveredInv, Working
<1>2. TypeOK /\ HandledInv /\ CoveredInv /\ [Next]_vars => CoveredInv'
  BY CoveredStep
<1>3. CoveredInv => AddedCovered
  BY DEF CoveredInv, AddedCovered, Covered
<1> QED
  BY <1>1, <1>2, <1>3, HandledAlways, TypeCorrect, PTL DEF Spec

-----------------------------------------------------------------------------
(* The application's files on top when nothing fails                       *)

\* The directory shows the application's files, or has the certificate store's
\* overlay, which the application loop leaves alone.
ShowsApp(p) ==
  /\ Overlaid(p)
  /\ Top(mounts[p]).kind = "cert" \/ TopLayer(p) = AppDir(p)

\* What is mounted until the application loop is over.
ReadOnlyMount(p, m) ==
  \/ m.kind \in {"cert", "other"}
  \/ pc = "readonly" /\ (Exists(AppDir(p)) => m.lower # <<>> /\ m.lower[1] = AppDir(p))

\* A section is as overlay.ini has it until the loop comes to it.
SectionInv ==
  pc \in {"readonly", "ramdisk", "returned", "persistent"} =>
     \A i \in DOMAIN overlay_persistent :
        (pc = "persistent" => i >= next) =>
           /\ i \in DOMAIN image.ini.persistent
           /\ overlay_persistent[i] = image.ini.persistent[i]

\* Each directory of the application that was listed so far shows it.
ListedInv ==
  /\ successful < next
  /\ pc # "readonly" => next = 1
  /\ \A p \in Paths : \A i \in DOMAIN mounts[p] : ReadOnlyMount(p, mounts[p][i])
  /\ pc = "readonly" =>
       \A i \in DOMAIN overlay_application :
          i < next /\ Exists(AppDir(overlay_application[i])) => ShowsApp(overlay_application[i])

\* The sections of p the loop has passed could be mounted.
SoundSoFar(p) ==
  \A i \in DOMAIN image.ini.persistent :
     i < next /\ image.ini.persistent[i].merge = p => Sound(i)

AppInv ==
  faults = {} =>
    /\ pc \in {"constructed", "parse", "readonly"} => ListedInv
    /\ pc \in {"ramdisk", "returned"} /\ Len(overlay_application) <= MaxOverlays =>
          \A p \in Paths : Replaceable(p) => ShowsApp(p)
    /\ pc \in {"persistent", "done"} /\ error = "none"
       /\ Len(overlay_application) <= MaxOverlays =>
          \A p \in Paths : Replaceable(p) /\ SoundSoFar(p) => ShowsApp(p)

LEMMA SectionStep == TypeOK /\ SectionInv /\ [Next]_vars => SectionInv'
<1> SUFFICES ASSUME TypeOK, SectionInv, [Next]_vars PROVE SectionInv'
  OBVIOUS
<1>1. CASE ParseIni \/ ParseFails
  <2>1. pc' = "readonly" /\ image' = image
        /\ (overlay_persistent' = image.ini.persistent \/ overlay_persistent' = <<>>)
    BY <1>1 DEF ParseIni, ParseFails
  <2> QED
    BY <2>1 DEF SectionInv
<1>2. ASSUME NEW s, PStep(s) PROVE SectionInv'
  <2>1. /\ pc = "persistent" /\ pc' = pc /\ image' = image /\ next' = next + 1
        /\ \/ overlay_persistent' = overlay_persistent
           \/ overlay_persistent' = [overlay_persistent EXCEPT ![next].lower = Layers(s)]
    BY <1>2 DEF PStep, PSkip, PUmountFails, PFails, PMount, PPrepare, PAt, PContinue
  <2>2. /\ DOMAIN overlay_persistent' = DOMAIN overlay_persistent
        /\ \A i \in DOMAIN overlay_persistent :
             i # next => overlay_persistent'[i] = overlay_persistent[i]
    BY <2>1
  <2>3. next \in Nat /\ DOMAIN overlay_persistent = 1 .. Len(overlay_persistent)
        /\ Len(overlay_persistent) \in Nat
    BY LenProperties DEF TypeOK
  <2>4. ASSUME NEW i \in DOMAIN overlay_persistent, i >= next + 1
        PROVE  i >= next /\ i # next
    BY <2>3, <2>4
  <2> QED
    BY <2>1, <2>2, <2>4 DEF SectionInv
<1>3. CASE MountApplication
  BY <1>3 DEF MountApplication, SectionInv
<1>4. CASE ReadOnlySucceeded
  BY <1>4 DEF ReadOnlySucceeded, config, SectionInv
<1>5. CASE ReadOnlyFailed \/ PEnd
  BY <1>5 DEF ReadOnlyFailed, PEnd, SectionInv
<1>6. ASSUME \/ \E p : ROStep(p)
             \/ ROEnd \/ RamEndVerdict \/ RamEnd
             \/ \E e : RamStep(e)
      PROVE  SectionInv'
  <2>1. pc \in {"readonly", "ramdisk"} /\ pc' \in {"readonly", "ramdisk", "returned"}
        /\ UNCHANGED config
    BY <1>6 DEF ROStep, ROSkip, RONoSource, ROCreateFails, ROUmountFails, ROMount, ROMountFails,
                ROThrow, ROContinue, ROAt, ROEnd, RamEndVerdict, RamEnd, RamClear, RamStep,
                RamSkip, RamFails, RamMountFails, RamMount, RamContinue, RamAt
  <2> QED
    BY <2>1 DEF config, SectionInv
<1>7. CASE (\E e : AddLowerDir(e)) \/ UNCHANGED vars
  BY <1>7 DEF AddLowerDir, vars, config, SectionInv
<1> QED
  BY <1>1, <1>2, <1>3, <1>4, <1>5, <1>6, <1>7 DEF Next, Engine, Caller

\* A directory whose mounts are left alone shows what it showed.
LEMMA ShowsAppStays ==
  ASSUME NEW p \in Paths, mounts'[p] = mounts[p]
  PROVE  ShowsApp(p)' = ShowsApp(p)
BY DEF ShowsApp, Overlaid, TopLayer

\* An overlay with the application's directory first shows it.
LEMMA PushedShowsApp ==
  ASSUME NEW p \in Paths, NEW b \in Seq(Mounts), NEW m \in Mounts, m.kind # "other",
         m.lower[1] = AppDir(p), p \in DOMAIN mounts,
         mounts' = [mounts EXCEPT ![p] = Append(b, m)]
  PROVE  ShowsApp(p)'
<1>1. mounts'[p] = Append(b, m)
  OBVIOUS
<1>2. Top(Append(b, m)) = m
  BY AppendProperties DEF Top
<1>3. TopLayer(p)' = AppDir(p)
  BY <1>1, <1>2 DEF TopLayer
<1> QED
  BY <1>3, PushedIsOverlaid DEF ShowsApp

\* The engine creates merge directories of the root filesystem only.
LEMMA AppDirStays ==
  ASSUME NEW p, NEW q, image' = image, dirs' \subseteq dirs \cup {SysDir(q)}, dirs \subseteq dirs'
  PROVE  Exists(AppDir(p))' = Exists(AppDir(p))
<1>1. AppDir(p) # SysDir(q)
  BY DEF AppDir, SysDir
<1> QED
  BY <1>1 DEF Exists

LEMMA AppInit == Init => AppInv
<1> SUFFICES ASSUME Init PROVE ListedInv /\ pc = "constructed"
  BY DEF AppInv
<1>1. successful < next /\ next = 1 /\ pc = "constructed"
  BY DEF Init
<1>2. \A p \in Paths : \A i \in DOMAIN mounts[p] : mounts[p][i].kind \in {"cert", "other"}
  BY MountsAssumption DEF Init
<1> QED
  BY <1>1, <1>2 DEF ListedInv, ReadOnlyMount

\* When nothing fails, the directory at hand is covered afterwards by what
\* covered it or by an overlay with the application's directory first; only
\* one the application does not have is left out.
LEMMA ListedStep ==
  ASSUME TypeOK, OneOverlay, ListedInv, faults = {}, NEW p \in Paths, ROStep(p)
  PROVE  pc' = "readonly" /\ ListedInv'
<1>1. /\ pc = "readonly" /\ next \in DOMAIN overlay_application /\ p = overlay_application[next]
  BY DEF ROStep, ROSkip, RONoSource, ROCreateFails, ROUmountFails, ROMount, ROMountFails,
         ROThrow, ROAt
<1>2. ROSkip(p) \/ RONoSource(p) \/ ROMount(p)
  BY DEF ROStep, ROCreateFails, ROUmountFails, ROMountFails, ROThrow
<1>3. /\ next' = next + 1 /\ UNCHANGED <<pc, image, overlay_application>>
      /\ dirs \subseteq dirs' /\ dirs' \subseteq dirs \cup {SysDir(p)}
  BY <1>2 DEF ROSkip, RONoSource, ROMount, ROContinue, config
<1>4. \A q \in Paths : Exists(AppDir(q))' = Exists(AppDir(q))
  BY <1>3, AppDirStays
<1>5. next \in Nat /\ successful \in Nat /\ mounts \in [Paths -> Seq(Mounts)]
      /\ overlay_application \in Seq(Paths)
  BY DEF TypeOK
<1>6. successful' < next'
  BY <1>2, <1>3, <1>5 DEF ROSkip, RONoSource, ROMount, ListedInv
<1>7. ASSUME ROMount(p)
      PROVE  /\ Exists(AppDir(p)) => ShowsApp(p)'
             /\ \A i \in DOMAIN mounts'[p] : ReadOnlyMount(p, mounts[p][i])'
             /\ \A q \in Paths \ {p} : mounts'[q] = mounts[q]
  <2> DEFINE m == MountOf("app", Sources(p))
  <2>1. m \in Mounts /\ m.kind # "other" /\ m.lower = Sources(p)
    BY SourcesProperties, MountOfProperties DEF Kinds
  <2>2. Exists(AppDir(p)) => m.lower # <<>> /\ m.lower[1] = AppDir(p)
    BY <2>1 DEF Sources, Keep
  <2>3. mounts' = [mounts EXCEPT ![p] = Append(Pop(mounts[p]), m)]
    BY <1>7 DEF ROMount, Mounted
  <2> HIDE DEF m
  <2>4. /\ Pop(mounts[p]) \in Seq(Mounts)
        /\ \A i \in DOMAIN Pop(mounts[p]) : i \in DOMAIN mounts[p] /\ Pop(mounts[p])[i] = mounts[p][i]
    BY <1>5, PopProperties
  <2>5. mounts'[p] = Append(Pop(mounts[p]), m)
    BY <1>5, <2>3
  <2>6. \A i \in DOMAIN mounts'[p] :
          (i \in DOMAIN Pop(mounts[p]) /\ mounts'[p][i] = Pop(mounts[p])[i]) \/ mounts'[p][i] = m
    BY <2>1, <2>4, <2>5, AppendProperties, LenProperties
  <2>7. ASSUME NEW i \in DOMAIN mounts'[p] PROVE ReadOnlyMount(p, mounts[p][i])'
    <3>1. CASE mounts'[p][i] = m
      BY <1>1, <1>3, <1>4, <2>2, <3>1 DEF ReadOnlyMount
    <3>2. CASE i \in DOMAIN mounts[p] /\ mounts'[p][i] = mounts[p][i]
      <4>1. ReadOnlyMount(p, mounts[p][i])
        BY <3>2 DEF ListedInv
      <4> QED
        BY <1>3, <1>4, <3>2, <4>1 DEF ReadOnlyMount
    <3> QED
      BY <2>4, <2>6, <3>1, <3>2
  <2>8. Exists(AppDir(p)) => ShowsApp(p)'
    BY <1>5, <2>1, <2>2, <2>3, <2>4, PushedShowsApp
  <2> QED
    BY <1>5, <2>3, <2>7, <2>8
<1>8. ASSUME ROSkip(p) \/ RONoSource(p)
      PROVE  /\ Exists(AppDir(p)) => ShowsApp(p)
             /\ mounts' = mounts
  <2>1. mounts' = mounts
    BY <1>8 DEF ROSkip, RONoSource
  <2>2. ASSUME Exists(AppDir(p)) PROVE Overlaid(p)
    <3>1. Sources(p) # <<>>
      BY <2>2 DEF Sources, Keep
    <3> QED
      BY <1>8, <3>1 DEF ROSkip, RONoSource
  <2>3. ASSUME Exists(AppDir(p)) PROVE ShowsApp(p)
    <3>1. PICK i \in DOMAIN mounts[p] : IsOverlay(mounts[p][i])
      BY <2>2, <2>3 DEF Overlaid
    <3>2. Top(mounts[p]) = mounts[p][i] /\ ReadOnlyMount(p, mounts[p][i])
      BY <3>1 DEF Top, OneOverlay, Shape, ListedInv
    <3> QED
      BY <2>2, <2>3, <3>1, <3>2 DEF ShowsApp, TopLayer, ReadOnlyMount, IsOverlay
  <2> QED
    BY <2>1, <2>3
<1>9. \A q \in Paths : \A i \in DOMAIN mounts'[q] : ReadOnlyMount(q, mounts[q][i])'
  <2> SUFFICES ASSUME NEW q \in Paths, NEW i \in DOMAIN mounts'[q]
               PROVE  ReadOnlyMount(q, mounts[q][i])'
    OBVIOUS
  <2>1. CASE mounts'[q] = mounts[q]
    <3>1. ReadOnlyMount(q, mounts[q][i])
      BY <2>1 DEF ListedInv
    <3> QED
      BY <1>3, <1>4, <2>1, <3>1 DEF ReadOnlyMount
  <2> QED
    BY <1>2, <1>7, <1>8, <2>1
<1>10. \A q \in Paths : mounts'[q] = mounts[q] => ShowsApp(q)' = ShowsApp(q)
  BY ShowsAppStays
<1>11. ASSUME NEW i \in DOMAIN overlay_application, i < next + 1,
              NEW q \in Paths, q = overlay_application[i], Exists(AppDir(q))
       PROVE  ShowsApp(q)'
  <2>1. CASE q = p
    BY <1>2, <1>7, <1>8, <1>10, <1>11, <2>1
  <2>2. CASE q # p
    <3>1. i < next
      BY <1>1, <1>5, <1>11, <2>2, LenProperties
    <3>2. ShowsApp(q)
      BY <1>1, <1>11, <3>1 DEF ListedInv
    <3> QED
      BY <1>2, <1>7, <1>8, <1>10, <2>2, <3>2
  <2> QED
    BY <2>1, <2>2
<1>12. \A i \in DOMAIN overlay_application' :
          i < next' /\ Exists(AppDir(overlay_application[i]))' => ShowsApp(overlay_application[i])'
  <2> SUFFICES ASSUME NEW i \in DOMAIN overlay_application, i < next + 1,
                      NEW q, q = overlay_application[i], Exists(AppDir(q))'
               PROVE  ShowsApp(q)'
    BY <1>3
  <2>1. q \in Paths
    BY <1>5
  <2> QED
    BY <1>4, <1>11, <2>1
<1> QED
  BY <1>1, <1>3, <1>6, <1>9, <1>12 DEF ListedInv

\* The application loop has come to the end of its list, unless the list is
\* longer than the limit.
LEMMA ListedEnd ==
  ASSUME TypeOK, ListedInv, ROEnd, Len(overlay_application) <= MaxOverlays,
         NEW p \in Paths, Replaceable(p)
  PROVE  ShowsApp(p)
<1>1. PICK i \in DOMAIN overlay_application : overlay_application[i] = p
  BY DEF Replaceable, InApplication
<1>2. i < next
  <2>1. /\ next \in Nat /\ successful \in Nat /\ MaxOverlays \in Nat /\ successful < next
        /\ DOMAIN overlay_application = 1 .. Len(overlay_application)
        /\ Len(overlay_application) \in Nat /\ next # 0
    BY LimitAssumption, LenProperties DEF TypeOK, ListedInv
  <2>2. next \notin DOMAIN overlay_application \/ successful >= MaxOverlays
    BY DEF ROEnd
  <2> QED
    BY <2>1, <2>2
<1> QED
  BY <1>1, <1>2 DEF ROEnd, ListedInv, Replaceable

\* mount_ramdisk leaves a directory that has an overlay alone.
LEMMA ShownInRamdisk ==
  ASSUME TypeOK, NEW e \in Entries, RamStep(e), NEW p \in Paths,
         Replaceable(p) => ShowsApp(p), Replaceable(p)'
  PROVE  ShowsApp(p)'
<1>1. UNCHANGED <<image, overlay_application>>
      /\ dirs \subseteq dirs' /\ dirs' \subseteq dirs \cup {SysDir(e.merge)}
  BY DEF RamStep, RamSkip, RamFails, RamMountFails, RamMount, RamContinue, config
<1>2. ShowsApp(p)
  BY <1>1, AppDirStays DEF Replaceable, InApplication
<1>3. mounts'[p] = mounts[p]
  <2>1. CASE p = e.merge
    BY <1>2, <2>1 DEF ShowsApp, RamStep, RamSkip, RamFails, RamMountFails, RamMount
  <2>2. CASE p # e.merge
    BY <2>2 DEF RamStep, RamSkip, RamFails, RamMountFails, RamMount, Umounted, TypeOK
  <2> QED
    BY <2>1, <2>2
<1> QED
  BY <1>2, <1>3, ShowsAppStays

-----------------------------------------------------------------------------
(* A section.  That its lower directories exist at the end says that they  *)
(* existed when the loop came to it, because they are not the merge        *)
(* directory of a later section; so the mount succeeds, and the            *)
(* application's directory was put first if the directory showed it.       *)

\* The section the loop is at is the one of overlay.ini.
LEMMA SectionNow ==
  ASSUME TypeOK, SectionInv, pc = "persistent", next \in DOMAIN overlay_persistent
  PROVE  /\ next \in DOMAIN image.ini.persistent
         /\ overlay_persistent[next] = image.ini.persistent[next]
<1>1. next >= next
  <2>1. next \in Nat
    BY DEF TypeOK
  <2> QED
    BY <2>1
<1> QED
  BY <1>1 DEF SectionInv

\* What was sound after a section was sound before it.
LEMMA SoundBefore ==
  ASSUME TypeOK, SectionInv, pc = "persistent", NEW s \in Sections, PStep(s),
         NEW i \in DOMAIN image.ini.persistent, i < next, Sound(i)'
  PROVE  Sound(i)
<1>1. /\ image' = image /\ dirs' \subseteq dirs \cup {SysDir(s.merge)}
      /\ next \in DOMAIN overlay_persistent /\ s = overlay_persistent[next]
  BY DEF PStep, PSkip, PUmountFails, PFails, PMount, PPrepare, PAt, PContinue
<1>2. next \in DOMAIN image.ini.persistent /\ image.ini.persistent[next].merge = s.merge
  BY <1>1, SectionNow
<1> DEFINE q     == image.ini.persistent[i].merge
           lower == image.ini.persistent[i].lower
<1>3. /\ ~Duplicates(<<AppDir(q)>> \o lower)
      /\ \A k \in DOMAIN lower :
           \/ lower[k] = SysDir(q)
           \/ /\ lower[k] \in dirs' \cup image.dirs
              /\ \A j \in DOMAIN image.ini.persistent :
                    j > i => lower[k] # SysDir(image.ini.persistent[j].merge)
  BY <1>1 DEF Sound, Exists
<1>4. next \in Nat /\ i \in Nat
  BY LenProperties DEF TypeOK, Image, Ini
<1>5. ASSUME NEW k \in DOMAIN lower, lower[k] # SysDir(q)
      PROVE  Exists(lower[k])
  <2>1. lower[k] # SysDir(s.merge)
    BY <1>2, <1>3, <1>4, <1>5
  <2> QED
    BY <1>1, <1>3, <1>5, <2>1 DEF Exists
<1> QED
  BY <1>3, <1>5 DEF Sound

\* A sound section for a directory that shows the application's files is
\* mounted, with the application's directory first.
LEMMA SoundMounts ==
  ASSUME TypeOK, OneOverlay, SectionInv, faults = {}, pc = "persistent",
         NEW s \in Sections, PStep(s),
         Replaceable(s.merge), ShowsApp(s.merge), NEW n, n = next, Sound(n)'
  PROVE  ShowsApp(s.merge)'
<1> DEFINE p == s.merge
<1>1. /\ image' = image /\ dirs' \subseteq dirs \cup {SysDir(p)}
      /\ next \in DOMAIN overlay_persistent /\ s = overlay_persistent[next]
  BY DEF PStep, PSkip, PUmountFails, PFails, PMount, PPrepare, PAt, PContinue
<1>2. image.ini.persistent[n] = s
  BY <1>1, SectionNow
<1>3. Overlaid(p) /\ p \in Paths /\ s.lower \in Seq(Dirs)
  BY DEF ShowsApp, Sections
<1>4. Layers(s) = <<AppDir(p)>> \o s.lower
  BY <1>3 DEF Layers
<1>5. /\ ~Duplicates(Layers(s))
      /\ \A k \in DOMAIN s.lower : s.lower[k] = SysDir(p) \/ Exists(s.lower[k])
  <2>1. \A k \in DOMAIN s.lower : s.lower[k] = SysDir(p) \/ s.lower[k] \in dirs' \cup image.dirs
    BY <1>1, <1>2 DEF Sound, Exists
  <2>2. ~Duplicates(<<AppDir(p)>> \o s.lower)
    BY <1>1, <1>2 DEF Sound
  <2> QED
    BY <1>1, <1>4, <2>1, <2>2 DEF Exists
<1>6. LayersExist(s)
  <2>1. \A i \in DOMAIN Layers(s) :
           Layers(s)[i] = AppDir(p) \/ \E k \in DOMAIN s.lower : Layers(s)[i] = s.lower[k]
    BY <1>3, <1>4
  <2>2. Exists(AppDir(p))
    BY DEF Replaceable
  <2> QED
    BY <1>5, <2>1, <2>2 DEF LayersExist
<1>7. PMount(s)
  BY <1>3, <1>5, <1>6 DEF PStep, PSkip, PUmountFails, PFails
<1> DEFINE m == MountOf("persistent", Layers(s))
<1>8. m \in Mounts /\ m.kind # "other" /\ m.lower = Layers(s)
  BY LayersProperties, MountOfProperties DEF Kinds
<1>9. mounts' = [mounts EXCEPT ![p] = Append(Below(s), m)]
  BY <1>7 DEF PMount, Mounted
<1> HIDE DEF m
<1>10. Layers(s)[1] = AppDir(p)
  BY <1>3, <1>4
<1>11. Below(s) \in Seq(Mounts) /\ p \in DOMAIN mounts
  BY <1>3, BelowProperties DEF TypeOK
<1> QED
  BY <1>3, <1>8, <1>9, <1>10, <1>11, PushedShowsApp

LEMMA ShownAfterSection ==
  ASSUME TypeOK, OneOverlay, SectionInv, faults = {}, NEW s \in Sections, PStep(s),
         NEW p \in Paths, Replaceable(p)', SoundSoFar(p)',
         Replaceable(p) /\ SoundSoFar(p) => ShowsApp(p)
  PROVE  ShowsApp(p)'
<1>1. /\ pc = "persistent" /\ next' = next + 1 /\ UNCHANGED <<image, overlay_application>>
      /\ dirs \subseteq dirs' /\ dirs' \subseteq dirs \cup {SysDir(s.merge)}
      /\ next \in DOMAIN overlay_persistent /\ s = overlay_persistent[next]
      /\ \A q \in Paths \ {s.merge} : mounts'[q] = mounts[q]
  BY DEF PStep, PSkip, PUmountFails, PFails, PMount, PPrepare, PAt, PContinue, TypeOK
<1>2. Replaceable(p)
  BY <1>1, AppDirStays DEF Replaceable, InApplication
<1>3. next \in Nat /\ \A i \in DOMAIN image.ini.persistent : i \in Nat
  BY LenProperties DEF TypeOK, Image, Ini
<1>4. \A i \in DOMAIN image.ini.persistent :
         i < next + 1 /\ image.ini.persistent[i].merge = p => Sound(i)'
  BY <1>1 DEF SoundSoFar
<1>5. SoundSoFar(p)
  <2> SUFFICES ASSUME NEW i \in DOMAIN image.ini.persistent, i < next,
                      image.ini.persistent[i].merge = p
               PROVE  Sound(i)
    BY DEF SoundSoFar
  <2>1. Sound(i)'
    BY <1>3, <1>4
  <2> QED
    BY <1>1, <2>1, SoundBefore
<1>6. ShowsApp(p)
  BY <1>2, <1>5
<1>7. CASE p # s.merge
  BY <1>1, <1>6, <1>7, ShowsAppStays
<1>8. CASE p = s.merge
  <2>1. next \in DOMAIN image.ini.persistent /\ image.ini.persistent[next].merge = p
    <3>1. next >= next
      BY <1>3
    <3> QED
      BY <1>1, <1>8, <3>1 DEF SectionInv
  <2>2. ASSUME NEW n, n = next PROVE Sound(n)'
    <3>1. n < next + 1
      BY <1>3, <2>2
    <3> QED
      BY <1>4, <2>1, <2>2, <3>1
  <2> QED
    BY <1>1, <1>2, <1>6, <1>8, <2>2, SoundMounts
<1> QED
  BY <1>7, <1>8

LEMMA AppStep ==
  ASSUME TypeOK, OneOverlay, SectionInv, AppInv, [Next]_vars PROVE AppInv'
<1>0. SUFFICES ASSUME faults = {}, faults' = {} PROVE AppInv'
  <2>1. faults' = faults
    BY DEF Next, Engine, Caller, vars
  <2> QED
    BY <2>1 DEF AppInv
<1>1. ASSUME NEW i \in DOMAIN overlay_application, ROStep(overlay_application[i]) PROVE AppInv'
  <2>1. overlay_application[i] \in Paths
    BY DEF TypeOK
  <2>2. pc = "readonly"
    BY <1>1 DEF ROStep, ROSkip, RONoSource, ROCreateFails, ROUmountFails, ROMount, ROMountFails,
                ROThrow, ROAt
  <2>3. ListedInv
    BY <1>0, <2>2 DEF AppInv
  <2>4. pc' = "readonly" /\ ListedInv'
    BY <1>0, <1>1, <2>1, <2>3, ListedStep
  <2> QED
    BY <2>4 DEF AppInv
<1>2. ASSUME NEW i \in DOMAIN additional, RamStep(additional[i]) PROVE AppInv'
  <2>1. /\ additional[i] \in Entries
        /\ pc = "ramdisk" /\ pc' = pc /\ overlay_application' = overlay_application
    BY <1>2 DEF RamStep, RamSkip, RamFails, RamMountFails, RamMount, RamContinue, RamAt, config,
                TypeOK
  <2>2. ASSUME Len(overlay_application) <= MaxOverlays, NEW p \in Paths, Replaceable(p)'
        PROVE  ShowsApp(p)'
    BY <1>0, <1>2, <2>1, <2>2, ShownInRamdisk DEF AppInv
  <2> QED
    BY <2>1, <2>2 DEF AppInv
<1>3. ASSUME NEW i \in DOMAIN overlay_persistent, PStep(overlay_persistent[i]) PROVE AppInv'
  <2>1. /\ overlay_persistent[i] \in Sections
        /\ pc = "persistent" /\ pc' = pc /\ UNCHANGED <<overlay_application, error>>
    BY <1>3 DEF PStep, PSkip, PUmountFails, PFails, PMount, PPrepare, PAt, PContinue, TypeOK
  <2>2. ASSUME error = "none", Len(overlay_application) <= MaxOverlays,
               NEW p \in Paths, Replaceable(p)', SoundSoFar(p)'
        PROVE  ShowsApp(p)'
    <3>1. Replaceable(p) /\ SoundSoFar(p) => ShowsApp(p)
      BY <1>0, <2>1, <2>2 DEF AppInv
    <3> QED
      BY <1>0, <1>3, <2>1, <2>2, <3>1, ShownAfterSection
  <2> QED
    BY <2>1, <2>2 DEF AppInv
<1>4. CASE MountApplication \/ ParseIni \/ ParseFails
  <2>1. /\ pc \in {"constructed", "parse"} /\ pc' \in {"parse", "readonly"}
        /\ UNCHANGED <<successful, next, mounts>>
    BY <1>4 DEF MountApplication, ParseIni, ParseFails, counts
  <2>2. ListedInv
    BY <1>0, <2>1 DEF AppInv
  <2>3. \A p \in Paths : \A i \in DOMAIN mounts[p] : mounts[p][i].kind \in {"cert", "other"}
    BY <2>1, <2>2 DEF ListedInv, ReadOnlyMount
  <2>4. \A i \in DOMAIN overlay_application' : ~(i < 1)
    <3>1. overlay_application' \in Seq(Paths)
      <4>1. image.ini.application \in Seq(Paths) /\ overlay_application \in Seq(Paths)
        BY DEF TypeOK, Image, Ini
      <4>2. <<Etc, UsrBin>> \in Seq(Paths)
        BY PathsAssumption
      <4> QED
        BY <1>4, <4>1, <4>2 DEF MountApplication, ParseIni, ParseFails
    <3> QED
      BY <3>1, LenProperties
  <2>5. successful < next /\ next = 1
    BY <2>1, <2>2 DEF ListedInv
  <2>6. ListedInv'
    BY <2>1, <2>3, <2>4, <2>5 DEF ListedInv, ReadOnlyMount
  <2> QED
    BY <2>1, <2>6 DEF AppInv
<1>5. CASE ROEnd
  <2>1. pc = "readonly" /\ pc' = "ramdisk" /\ UNCHANGED <<mounts, dirs, image, overlay_application>>
    BY <1>5 DEF ROEnd, config
  <2>2. ListedInv
    BY <1>0, <2>1 DEF AppInv
  <2>3. ASSUME Len(overlay_application) <= MaxOverlays, NEW p \in Paths, Replaceable(p)
        PROVE  ShowsApp(p)
    BY <1>5, <2>2, <2>3, ListedEnd
  <2>4. \A p \in Paths : Replaceable(p)' = Replaceable(p) /\ ShowsApp(p)' = ShowsApp(p)
    BY <2>1, ShowsAppStays DEF Replaceable, InApplication, Exists
  <2> QED
    BY <2>1, <2>3, <2>4 DEF AppInv
<1>6. CASE RamEndVerdict \/ RamEnd
  <2>1. /\ pc = "ramdisk" /\ pc' \in {"ramdisk", "returned"}
        /\ UNCHANGED <<mounts, dirs, image, overlay_application>>
    BY <1>6 DEF RamEndVerdict, RamEnd, RamClear, config
  <2>2. \A p \in Paths : Replaceable(p)' = Replaceable(p) /\ ShowsApp(p)' = ShowsApp(p)
    BY <2>1, ShowsAppStays DEF Replaceable, InApplication, Exists
  <2> QED
    BY <1>0, <2>1, <2>2 DEF AppInv
<1>7. CASE ReadOnlySucceeded
  <2>1. /\ pc = "returned" /\ pc' = "persistent"
        /\ UNCHANGED <<mounts, dirs, image, overlay_application>>
    BY <1>7 DEF ReadOnlySucceeded, config
  <2>2. \A p \in Paths : Replaceable(p)' = Replaceable(p) /\ ShowsApp(p)' = ShowsApp(p)
    BY <2>1, ShowsAppStays DEF Replaceable, InApplication, Exists
  <2> QED
    BY <1>0, <2>1, <2>2 DEF AppInv
<1>8. CASE ReadOnlyFailed
  BY <1>8 DEF ReadOnlyFailed, AppInv, counts
<1>9. CASE PEnd
  <2>1. /\ pc = "persistent" /\ pc' = "done"
        /\ UNCHANGED <<mounts, dirs, image, overlay_application, next, error>>
    BY <1>9 DEF PEnd, config, counts
  <2>2. \A p \in Paths : /\ Replaceable(p)' = Replaceable(p) /\ ShowsApp(p)' = ShowsApp(p)
                         /\ SoundSoFar(p)' = SoundSoFar(p)
    BY <2>1, ShowsAppStays DEF Replaceable, InApplication, Exists, SoundSoFar, Sound
  <2> QED
    BY <1>0, <2>1, <2>2 DEF AppInv
<1>10. CASE (\E e \in Entries : AddLowerDir(e)) \/ UNCHANGED vars
  <2>1. UNCHANGED <<pc, mounts, dirs, image, overlay_application, next, error, successful>>
    BY <1>10 DEF AddLowerDir, vars, config, counts
  <2>2. \A p \in Paths : /\ Replaceable(p)' = Replaceable(p) /\ ShowsApp(p)' = ShowsApp(p)
                         /\ SoundSoFar(p)' = SoundSoFar(p)
    BY <2>1, ShowsAppStays DEF Replaceable, InApplication, Exists, SoundSoFar, Sound
  <2>3. ListedInv => ListedInv'
    <3>1. \A i \in DOMAIN overlay_application : overlay_application[i] \in Paths
      BY DEF TypeOK
    <3>2. \A i \in DOMAIN overlay_application :
             ShowsApp(overlay_application[i])' = ShowsApp(overlay_application[i])
      BY <2>1 DEF ShowsApp, Overlaid, TopLayer
    <3> QED
      BY <2>1, <3>1, <3>2 DEF ListedInv, ReadOnlyMount, Exists
  <2> QED
    BY <1>0, <2>1, <2>2, <2>3 DEF AppInv
<1> QED
  BY <1>1, <1>2, <1>3, <1>4, <1>5, <1>6, <1>7, <1>8, <1>9, <1>10 DEF Next, Engine, Caller

LEMMA AppInvImplies == TypeOK /\ OneOverlay /\ AppInv => AppOnTop
<1> SUFFICES ASSUME OneOverlay, AppInv, faults = {}, pc = "done", error = "none",
                    Len(overlay_application) <= MaxOverlays,
                    NEW p \in Paths, Replaceable(p),
                    "cert" \notin {mounts[p][i].kind : i \in DOMAIN mounts[p]},
                    \A i \in DOMAIN image.ini.persistent :
                       image.ini.persistent[i].merge = p => Sound(i)
             PROVE  Overlaid(p) /\ TopLayer(p) = AppDir(p)
  BY DEF AppOnTop
<1>1. ShowsApp(p)
  BY DEF AppInv, SoundSoFar
<1>2. PICK i \in DOMAIN mounts[p] : Top(mounts[p]) = mounts[p][i]
  BY <1>1 DEF ShowsApp, Overlaid, OneOverlay, Shape, Top
<1> QED
  BY <1>1, <1>2 DEF ShowsApp

\* When nothing fails, each directory the application has and asks for shows
\* the application's files on top at the end, through any number of sections:
\* for every overlay.ini, whatever was mounted and added before.
THEOREM ApplicationIsOnTop == Spec => []AppOnTop
<1>1. Init => SectionInv
  BY DEF Init, SectionInv
<1>2. TypeOK /\ SectionInv /\ [Next]_vars => SectionInv'
  BY SectionStep
<1>3. TypeOK /\ OneOverlay /\ SectionInv /\ AppInv /\ [Next]_vars => AppInv'
  BY AppStep
<1>4. StackInv => TypeOK /\ OneOverlay
  BY DEF StackInv
<1> QED
  BY <1>1, <1>2, <1>3, <1>4, AppInit, AppInvImplies, StackInvInductive, PTL DEF Spec

-----------------------------------------------------------------------------
(* No step leaves the engine where it was.  Under the fairness of Spec this *)
(* is what makes it come to its end.                                        *)

\* How far the engine is; the verdict's exception makes mount_ramdisk run a
\* second time.
Stage ==
  CASE pc = "constructed" -> 7
    [] pc = "parse" -> 6
    [] pc = "readonly" -> 5
    [] pc = "ramdisk" /\ error # "all_failed" -> 4
    [] pc = "ramdisk" /\ error = "all_failed" -> 3
    [] pc = "returned" -> 2
    [] pc = "persistent" -> 1
    [] OTHER -> 0

\* The elements its loop has not worked on.
Left ==
  Len(CASE pc = "readonly" -> overlay_application
        [] pc = "ramdisk" -> additional
        [] OTHER -> overlay_persistent) - next + 1

Descends == Stage' < Stage \/ (Stage' = Stage /\ Left > 0 /\ Left' = Left - 1)

LEMMA StepDescends == TypeOK /\ Engine => Descends
<1> SUFFICES ASSUME TypeOK, Engine PROVE Descends
  OBVIOUS
<1>0. /\ next \in Nat
      /\ Len(overlay_application) \in Nat /\ DOMAIN overlay_application = 1 .. Len(overlay_application)
      /\ Len(additional) \in Nat /\ DOMAIN additional = 1 .. Len(additional)
      /\ Len(overlay_persistent) \in Nat /\ DOMAIN overlay_persistent = 1 .. Len(overlay_persistent)
  BY LenProperties DEF TypeOK
<1>1. ASSUME NEW p, ROStep(p) PROVE Descends
  <2>1. /\ pc = "readonly" /\ next \in DOMAIN overlay_application
        /\ \/ pc' = pc /\ next' = next + 1 /\ overlay_application' = overlay_application
           \/ pc' = "ramdisk" /\ error' = "stat"
    BY <1>1 DEF ROStep, ROSkip, RONoSource, ROCreateFails, ROUmountFails, ROMount, ROMountFails,
                ROThrow, ROContinue, ROAt, config
  <2>2. CASE pc' = pc /\ next' = next + 1 /\ overlay_application' = overlay_application
    BY <1>0, <2>1, <2>2 DEF Descends, Stage, Left
  <2>3. CASE pc' = "ramdisk" /\ error' = "stat"
    BY <2>1, <2>3 DEF Descends, Stage
  <2> QED
    BY <2>1, <2>2, <2>3
<1>2. ASSUME NEW e, RamStep(e) PROVE Descends
  <2>1. /\ pc = "ramdisk" /\ next \in DOMAIN additional /\ pc' = pc /\ next' = next + 1
        /\ UNCHANGED <<additional, error>>
    BY <1>2 DEF RamStep, RamSkip, RamFails, RamMountFails, RamMount, RamContinue, RamAt, counts
  <2> QED
    BY <1>0, <2>1 DEF Descends, Stage, Left
<1>3. ASSUME NEW s, PStep(s) PROVE Descends
  <2>1. /\ pc = "persistent" /\ next \in DOMAIN overlay_persistent /\ pc' = pc /\ next' = next + 1
        /\ Len(overlay_persistent') = Len(overlay_persistent)
    BY <1>3 DEF PStep, PSkip, PUmountFails, PFails, PMount, PPrepare, PAt, PContinue
  <2> QED
    BY <1>0, <2>1 DEF Descends, Stage, Left
<1>4. CASE RamEndVerdict \/ RamEnd
  BY <1>4 DEF RamEndVerdict, RamEnd, RamClear, Descends, Stage
<1>5. CASE MountApplication \/ ParseIni \/ ParseFails \/ ROEnd
  BY <1>5 DEF MountApplication, ParseIni, ParseFails, ROEnd, Descends, Stage
<1>6. CASE ReadOnlySucceeded \/ ReadOnlyFailed \/ PEnd
  BY <1>6 DEF ReadOnlySucceeded, ReadOnlyFailed, PEnd, Descends, Stage
<1> QED
  BY <1>1, <1>2, <1>3, <1>4, <1>5, <1>6 DEF Engine

\* Each step of the engine works on one more element of the loop's list or
\* leaves the loop for good, whatever fails: for every configuration and every
\* limit only finitely many steps are possible.
THEOREM EngineDescends == Spec => [][Engine => Descends]_vars
BY StepDescends, TypeCorrect, PTL DEF Spec

=============================================================================
