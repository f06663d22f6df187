-------------------------- MODULE InductionLemmas --------------------------
(***************************************************************************)
(* Induction over numbers and over sequences, from the least element of a  *)
(* set of natural numbers.  The library's induction theorems take the      *)
(* formula that is proved as an operator; here it is a set, the set of the *)
(* numbers for which the formula is false.                                 *)
(***************************************************************************)
EXTENDS Integers, Sequences, SequenceTheorems, WellFoundedInduction, TLAPS

\* A set of natural numbers that is not empty has a least element.
THEOREM LeastNumber ==
  ASSUME NEW S \in SUBSET Nat, S # {}
  PROVE  \E m \in S : \A k \in S : m <= k
<1> DEFINE R == OpToRel(<, Nat)
<1>1. IsWellFoundedOn(R, Nat)
  BY NatLessThanWellFounded
<1>2. \E x \in S : \A y \in S : <<y, x>> \notin R
  <2> HIDE DEF R
  <2> QED
    BY <1>1, WFMin
<1>3. PICK x \in S : \A y \in S : <<y, x>> \notin R
  BY <1>2
<1>4. ASSUME NEW y \in S, y < x PROVE FALSE
  <2>1. <<y, x>> \in Nat \X Nat /\ <<y, x>>[1] < <<y, x>>[2]
    BY <1>4
  <2>2. <<y, x>> \in {ss \in Nat \X Nat : ss[1] < ss[2]}
    BY <2>1
  <2> QED
    BY <1>3, <2>2 DEF OpToRel
<1> QED
  BY <1>4

\* Induction up to n: a set that has 0 and with each number below n the next one.
LEMMA UpTo ==
  ASSUME NEW n \in Nat, NEW T, 0 \in T,
         \A i \in 0 .. n : i # n /\ i \in T => i + 1 \in T
  PROVE  \A i \in 0 .. n : i \in T
<1> DEFINE S == {i \in 0 .. n : i \notin T}
<1>1. SUFFICES ASSUME S # {} PROVE FALSE
  OBVIOUS
<1>2. PICK m \in S : \A k \in S : m <= k
  <2>1. S \in SUBSET Nat
    OBVIOUS
  <2> HIDE DEF S
  <2> QED
    BY <1>1, <2>1, LeastNumber
<1>3. m \in Nat /\ m \in 0 .. n /\ m \notin T /\ m # 0
  OBVIOUS
<1>4. m - 1 \in 0 .. n /\ m - 1 # n /\ m - 1 \notin S
  BY <1>2, <1>3
<1>5. m - 1 \in T /\ (m - 1) + 1 = m
  BY <1>3, <1>4
<1> QED
  BY <1>3, <1>4, <1>5

-----------------------------------------------------------------------------
(* The entries of a sequence that are not t, in their order                *)

EraseStep(s, t, f, i) ==
  IF i = 0 THEN <<>> ELSE IF s[i] = t THEN f[i - 1] ELSE Append(f[i - 1], s[i])

Erased(s, t) ==
  LET kept[i \in 0 .. Len(s)] ==
        IF i = 0 THEN <<>> ELSE IF s[i] = t THEN kept[i - 1] ELSE Append(kept[i - 1], s[i])
  IN  kept[Len(s)]

\* The recursive function exists: it can be defined up to each index.
LEMMA ErasedIsDefined ==
  ASSUME NEW A, NEW s \in Seq(A), NEW t
  PROVE  \E f : /\ f = [i \in 0 .. Len(s) |-> EraseStep(s, t, f, i)]
                /\ Erased(s, t) = f[Len(s)]
<1> DEFINE n == Len(s)
           Upto(f, m) == f = [i \in 0 .. m |-> EraseStep(s, t, f, i)]
           T == {m \in Nat : \E f : Upto(f, m)}
<1>0. n \in Nat
  OBVIOUS
<1>1. 0 \in T
  <2> DEFINE f == [i \in 0 .. 0 |-> <<>>]
  <2>1. f = [i \in 0 .. 0 |-> EraseStep(s, t, f, i)]
    BY DEF EraseStep
  <2> QED
    BY <2>1
<1>2. ASSUME NEW m \in 0 .. n, m # n, m \in T PROVE m + 1 \in T
  <2>1. PICK g : Upto(g, m)
    BY <1>2
  <2> DEFINE f == [i \in 0 .. m + 1 |-> IF i = m + 1 THEN EraseStep(s, t, g, i) ELSE g[i]]
  <2>2. \A i \in 0 .. m : f[i] = g[i]
    OBVIOUS
  <2>3. ASSUME NEW i \in 0 .. m + 1 PROVE f[i] = EraseStep(s, t, f, i)
    <3>1. i = 0 \/ i - 1 \in 0 .. m
      OBVIOUS
    <3>2. EraseStep(s, t, f, i) = EraseStep(s, t, g, i)
      BY <2>2, <3>1 DEF EraseStep
    <3>3. i # m + 1 => g[i] = EraseStep(s, t, g, i)
      BY <2>1
    <3> QED
      BY <3>2, <3>3
  <2>4. Upto(f, m + 1)
    BY <2>3
  <2>5. \E h : Upto(h, m + 1)
    <3> HIDE DEF f, Upto
    <3> QED
      BY <2>4
  <2> QED
    BY <1>2, <2>5
<1>3. n \in T
  <2> HIDE DEF T, n
  <2>1. \A i \in 0 .. n : i \in T
    BY <1>0, <1>1, <1>2, UpTo
  <2> QED
    BY <1>0, <2>1
<1>4. \E f : Upto(f, n)
  BY <1>3
<1> DEFINE k == CHOOSE f : f = [i \in 0 .. n |->
                     IF i = 0 THEN <<>> ELSE IF s[i] = t THEN f[i - 1] ELSE Append(f[i - 1], s[i])]
<1>5. Erased(s, t) = k[n]
  BY DEF Erased
<1>6. Upto(k, n)
  BY <1>4 DEF EraseStep
<1> QED
  BY <1>5, <1>6

Lists(s, u) == \E i \in DOMAIN s : s[i] = u

\* What is left is a sequence of the same entries without t.
THEOREM ErasedProperties ==
  ASSUME NEW A, NEW s \in Seq(A), NEW t
  PROVE  /\ Erased(s, t) \in Seq(A)
         /\ \A u \in A : Lists(Erased(s, t), u) <=> u # t /\ Lists(s, u)
<1> DEFINE n == Len(s)
<1>0. n \in Nat /\ DOMAIN s = 1 .. n /\ \A i \in 1 .. n : s[i] \in A
  OBVIOUS
<1>1. PICK f : f = [i \in 0 .. n |-> EraseStep(s, t, f, i)] /\ Erased(s, t) = f[n]
  BY ErasedIsDefined
<1> DEFINE Good(m) == /\ f[m] \in Seq(A)
                      /\ \A u \in A : Lists(f[m], u) <=> u # t /\ \E i \in 1 .. m : s[i] = u
           T == {m \in 0 .. n : Good(m)}
<1>2. \A i \in 0 .. n : f[i] = EraseStep(s, t, f, i)
  <2> HIDE DEF n
  <2> QED
    BY <1>1
<1> HIDE DEF n
<1>3. 0 \in T
  <2>1. f[0] = <<>>
    BY <1>0, <1>2 DEF EraseStep
  <2>2. <<>> \in Seq(A) /\ \A u : ~Lists(<<>>, u)
    BY DEF Lists
  <2>3. \A u : ~\E i \in 1 .. 0 : s[i] = u
    OBVIOUS
  <2>4. Good(0)
    BY <2>1, <2>2, <2>3
  <2> QED
    BY <1>0, <2>4
<1>4. ASSUME NEW m \in 0 .. n, m # n, m \in T PROVE m + 1 \in T
  <2>1. m + 1 \in 1 .. n /\ m \in Nat
    BY <1>0, <1>4
  <2>2. f[m + 1] = IF s[m + 1] = t THEN f[m] ELSE Append(f[m], s[m + 1])
    BY <1>0, <1>2, <2>1 DEF EraseStep
  <2>3. Good(m)
    BY <1>4
  <2>4. s[m + 1] \in A
    BY <1>0, <2>1
  <2>5. \A u : (\E i \in 1 .. m + 1 : s[i] = u) <=> s[m + 1] = u \/ \E i \in 1 .. m : s[i] = u
    BY <2>1
  <2>6. CASE s[m + 1] = t
    <3>1. f[m + 1] = f[m]
      BY <2>2, <2>6
    <3>2. Good(m + 1)
      BY <2>3, <2>5, <2>6, <3>1
    <3> QED
      BY <1>0, <2>1, <3>2
  <2>7. CASE s[m + 1] # t
    <3>1. f[m + 1] = Append(f[m], s[m + 1])
      BY <2>2, <2>7
    <3>2. f[m + 1] \in Seq(A)
      BY <2>3, <2>4, <3>1
    <3>3. \A u : Lists(f[m + 1], u) <=> s[m + 1] = u \/ Lists(f[m], u)
      <4> DEFINE g == f[m]
                 e == s[m + 1]
      <4>1. g \in Seq(A) /\ e \in A
        BY <2>3, <2>4
      <4> HIDE DEF g, e
      <4>2. /\ DOMAIN g = 1 .. Len(g) /\ DOMAIN Append(g, e) = 1 .. Len(g) + 1 /\ Len(g) \in Nat
            /\ \A i \in 1 .. Len(g) : Append(g, e)[i] = g[i]
            /\ Append(g, e)[Len(g) + 1] = e
        BY <4>1, AppendProperties
      <4>3. \A u : Lists(Append(g, e), u) <=> e = u \/ Lists(g, u)
        BY <4>2 DEF Lists
      <4> QED
        BY <3>1, <4>3 DEF g, e
    <3>4. Good(m + 1)
      BY <2>3, <2>5, <2>7, <3>2, <3>3
    <3> QED
      BY <1>0, <2>1, <3>4
  <2> QED
    BY <2>6, <2>7
<1>5. n \in T
  <2> HIDE DEF T
  <2>1. \A i \in 0 .. n : i \in T
    BY <1>0, <1>3, <1>4, UpTo
  <2> QED
    BY <1>0, <2>1
<1>6. Good(n)
  BY <1>5
<1> QED
  BY <1>0, <1>1, <1>6 DEF Lists
=============================================================================
