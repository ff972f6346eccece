--------------------------- MODULE SelectionProofs ---------------------------
(* Facts about the operators that several modules are built from.  Induction  *)
(* over a sequence is done by its index: a set of numbers that has zero and   *)
(* every successor has all of them, since a set of naturals that is not empty *)
(* has a least element.                                                       *)
EXTENDS Selections, Integers, WellFoundedInduction, TLAPS

(* A set of natural numbers that is not empty has a least one.                *)
LEMMA LeastNat ==
    ASSUME NEW S, S \subseteq Nat, S # {}
    PROVE  \E n \in S : \A m \in S : n <= m
<1> DEFINE Before == {ss \in Nat \X Nat : ss[1] < ss[2]}
<1>1. IsWellFoundedOn(Before, Nat)
  BY NatLessThanWellFounded DEF OpToRel
<1>2. PICK n \in S : \A m \in S : ~ (<<m, n>> \in Before)
  <2> HIDE DEF Before
  <2> QED BY <1>1, WFMin
<1>3. \A m \in S : n <= m
  <2> SUFFICES ASSUME NEW m \in S, m < n PROVE FALSE
    OBVIOUS
  <2>1. <<m, n>> \in Nat \X Nat /\ <<m, n>>[1] = m /\ <<m, n>>[2] = n
    OBVIOUS
  <2>2. <<m, n>> \in Before
    BY <2>1
  <2> QED
    BY <1>2, <2>2
<1> QED
  BY <1>3

(* Induction up to a bound, with a set for the predicate.                     *)
LEMMA Induct ==
    ASSUME NEW S, NEW N \in Nat, 0 \in S, \A n \in 0 .. N - 1 : n \in S => n + 1 \in S
    PROVE  \A n \in 0 .. N : n \in S
<1> SUFFICES ASSUME NEW k \in 0 .. N, k \notin S PROVE FALSE
  OBVIOUS
<1> DEFINE T == {n \in 0 .. N : n \notin S}
<1>1. T \subseteq Nat /\ T # {}
  OBVIOUS
<1>2. PICK n \in T : \A m \in T : n <= m
  <2> HIDE DEF T
  <2> QED BY <1>1, LeastNat
<1>3. n # 0 /\ n - 1 \in 0 .. N - 1 /\ n - 1 \in S
  BY <1>2
<1> QED
  BY <1>2, <1>3

-----------------------------------------------------------------------------
(* The equations of the loop up to step n.                                    *)
KeepUpTo(s, A, n, f) ==
    f = [i \in 0 .. n |->
           IF i = 0 THEN <<>>
           ELSE IF s[i] \in A THEN Append(f[i - 1], s[i]) ELSE f[i - 1]]

(* The loop has a result: its equations have a solution.                      *)
LEMMA KeepDefined ==
    ASSUME NEW s, Len(s) \in Nat, NEW A
    PROVE  \E f : KeepUpTo(s, A, Len(s), f) /\ Keep(s, A) = f[Len(s)]
<1> DEFINE S == {n \in Nat : \E f : KeepUpTo(s, A, n, f)}
<1>1. 0 \in S
  <2>1. KeepUpTo(s, A, 0, [i \in 0 .. 0 |-> <<>>])
    BY DEF KeepUpTo
  <2> QED
    BY <2>1
<1>2. ASSUME NEW n \in 0 .. Len(s) - 1, n \in S PROVE n + 1 \in S
  <2>1. PICK f : KeepUpTo(s, A, n, f)
    BY <1>2
  <2> DEFINE last == IF s[n + 1] \in A THEN Append(f[n], s[n + 1]) ELSE f[n]
             g == [i \in 0 .. n + 1 |-> IF i <= n THEN f[i] ELSE last]
             Right(i) == IF i = 0 THEN <<>>
                         ELSE IF s[i] \in A THEN Append(g[i - 1], s[i]) ELSE g[i - 1]
  <2>2. \A i \in 0 .. n : g[i] = f[i]
    OBVIOUS
  <2>3. g[n + 1] = last
    OBVIOUS
  <2>4. ASSUME NEW i \in 0 .. n PROVE g[i] = Right(i)
    <3> HIDE DEF g
    <3>1. CASE i = 0
      BY <3>1, <2>1, <2>2 DEF KeepUpTo
    <3>2. CASE i # 0
      <4>1. i - 1 \in 0 .. n
        BY <3>2
      <4> QED
        BY <3>2, <4>1, <2>1, <2>2 DEF KeepUpTo
    <3> QED
      BY <3>1, <3>2
  <2>5. g[n + 1] = Right(n + 1)
    <3> HIDE DEF g
    <3> QED
      BY <2>2, <2>3
  <2>6. KeepUpTo(s, A, n + 1, g)
    <3>1. g = [i \in 0 .. n + 1 |-> g[i]]
      OBVIOUS
    <3>2. \A i \in 0 .. n + 1 : g[i] = Right(i)
      <4> HIDE DEF g, Right
      <4> QED
        BY <2>4, <2>5
    <3> HIDE DEF g
    <3> QED
      BY <3>1, <3>2 DEF KeepUpTo
  <2> QED
    BY <2>6
<1>3. \A n \in 0 .. Len(s) : n \in S
  <2> HIDE DEF S
  <2> QED BY <1>1, <1>2, Induct
<1> DEFINE f == CHOOSE f : KeepUpTo(s, A, Len(s), f)
<1>4. KeepUpTo(s, A, Len(s), f)
  BY <1>3
<1>5. Keep(s, A) = f[Len(s)]
  BY DEF Keep, KeepUpTo
<1> QED
  BY <1>4, <1>5

(* What is kept after n steps: elements of A, each with all those of A that   *)
(* stand before it, and every element of A that was seen.                     *)
KeptUpTo(s, A, n, k) ==
    /\ Len(k) <= n
    /\ \A m \in 1 .. Len(k) :
         \E a \in 1 .. n :
           /\ s[a] = k[m] /\ s[a] \in A
           /\ \A b \in 1 .. a - 1 : s[b] \in A => \E l \in 1 .. m - 1 : k[l] = s[b]
    /\ \A b \in 1 .. n : s[b] \in A => \E l \in 1 .. Len(k) : k[l] = s[b]

(* One more step that leaves an element out, and one that appends it.         *)
LEMMA KeptWithout ==
    ASSUME NEW s, NEW A, NEW n \in Nat, NEW k, Len(k) \in Nat,
           KeptUpTo(s, A, n, k), s[n + 1] \notin A
    PROVE  KeptUpTo(s, A, n + 1, k)
<1>1. Len(k) <= n + 1
  BY DEF KeptUpTo
<1>2. ASSUME NEW m \in 1 .. Len(k)
      PROVE  \E a \in 1 .. n + 1 :
               /\ s[a] = k[m] /\ s[a] \in A
               /\ \A b \in 1 .. a - 1 : s[b] \in A => \E l \in 1 .. m - 1 : k[l] = s[b]
  <2>1. 1 .. n \subseteq 1 .. n + 1
    OBVIOUS
  <2> QED
    BY <2>1 DEF KeptUpTo
<1>3. ASSUME NEW b \in 1 .. n + 1, s[b] \in A PROVE \E l \in 1 .. Len(k) : k[l] = s[b]
  <2>1. b \in 1 .. n
    BY <1>3
  <2> QED
    BY <1>3, <2>1 DEF KeptUpTo
<1> QED
  BY <1>1, <1>2, <1>3 DEF KeptUpTo

LEMMA KeptWith ==
    ASSUME NEW s, NEW A, NEW n \in Nat, NEW k, Len(k) \in Nat, KeptUpTo(s, A, n, k),
           s[n + 1] \in A,
           NEW g, Len(g) = Len(k) + 1, \A l \in 1 .. Len(k) : g[l] = k[l],
           g[Len(k) + 1] = s[n + 1]
    PROVE  KeptUpTo(s, A, n + 1, g)
<1>1. Len(g) <= n + 1
  BY DEF KeptUpTo
<1>2. ASSUME NEW b \in 1 .. n, s[b] \in A PROVE \E l \in 1 .. Len(k) : g[l] = s[b]
  <2>1. PICK l \in 1 .. Len(k) : k[l] = s[b]
    BY <1>2 DEF KeptUpTo
  <2> QED
    BY <2>1
<1>3. ASSUME NEW m \in 1 .. Len(k)
      PROVE  \E a \in 1 .. n + 1 :
               /\ s[a] = g[m] /\ s[a] \in A
               /\ \A b \in 1 .. a - 1 : s[b] \in A => \E l \in 1 .. m - 1 : g[l] = s[b]
  <2>1. PICK a \in 1 .. n :
          /\ s[a] = k[m] /\ s[a] \in A
          /\ \A b \in 1 .. a - 1 : s[b] \in A => \E l \in 1 .. m - 1 : k[l] = s[b]
    BY DEF KeptUpTo
  <2>2. a \in 1 .. n + 1 /\ s[a] = g[m]
    BY <2>1
  <2>3. ASSUME NEW b \in 1 .. a - 1, s[b] \in A PROVE \E l \in 1 .. m - 1 : g[l] = s[b]
    <3>1. PICK l \in 1 .. m - 1 : k[l] = s[b]
      BY <2>1, <2>3
    <3>2. l \in 1 .. Len(k)
      OBVIOUS
    <3> QED
      BY <3>1, <3>2
  <2> QED
    BY <2>1, <2>2, <2>3
<1>4. \E a \in 1 .. n + 1 :
        /\ s[a] = g[Len(k) + 1] /\ s[a] \in A
        /\ \A b \in 1 .. a - 1 : s[b] \in A => \E l \in 1 .. Len(k) : g[l] = s[b]
  <2>1. n + 1 \in 1 .. n + 1 /\ (n + 1) - 1 = n
    OBVIOUS
  <2> QED
    BY <1>2, <2>1
<1>5. ASSUME NEW m \in 1 .. Len(g)
      PROVE  \E a \in 1 .. n + 1 :
               /\ s[a] = g[m] /\ s[a] \in A
               /\ \A b \in 1 .. a - 1 : s[b] \in A => \E l \in 1 .. m - 1 : g[l] = s[b]
  <2>1. m \in 1 .. Len(k) \/ (m = Len(k) + 1 /\ m - 1 = Len(k))
    OBVIOUS
  <2> QED
    BY <1>3, <1>4, <2>1
<1>6. ASSUME NEW b \in 1 .. n + 1, s[b] \in A PROVE \E l \in 1 .. Len(g) : g[l] = s[b]
  <2>1. b \in 1 .. n \/ b = n + 1
    OBVIOUS
  <2>2. Len(k) + 1 \in 1 .. Len(g) /\ 1 .. Len(k) \subseteq 1 .. Len(g)
    OBVIOUS
  <2> QED
    BY <1>2, <1>6, <2>1, <2>2
<1> QED
  BY <1>1, <1>5, <1>6 DEF KeptUpTo

(* Keep returns the elements of s in A, all of them and in their order.       *)
LEMMA KeepFacts ==
    ASSUME NEW S, NEW s \in Seq(S), NEW A
    PROVE  Keep(s, A) \in Seq(S) /\ KeptUpTo(s, A, Len(s), Keep(s, A))
<1>1. Len(s) \in Nat /\ \A i \in 1 .. Len(s) : s[i] \in S
  OBVIOUS
<1>2. PICK f : KeepUpTo(s, A, Len(s), f) /\ Keep(s, A) = f[Len(s)]
  BY <1>1, KeepDefined
<1> DEFINE T == {n \in 0 .. Len(s) : f[n] \in Seq(S) /\ KeptUpTo(s, A, n, f[n])}
<1>3. 0 \in T
  BY <1>1, <1>2 DEF KeepUpTo, KeptUpTo
<1>4. ASSUME NEW n \in 0 .. Len(s) - 1, n \in T PROVE n + 1 \in T
  <2>1. n \in Nat /\ n + 1 \in 0 .. Len(s) /\ n + 1 # 0 /\ (n + 1) - 1 = n /\ s[n + 1] \in S
    BY <1>1
  <2>2. f[n + 1] = IF s[n + 1] \in A THEN Append(f[n], s[n + 1]) ELSE f[n]
    <3> DEFINE R(i) == IF i = 0 THEN <<>>
                       ELSE IF s[i] \in A THEN Append(f[i - 1], s[i]) ELSE f[i - 1]
    <3>1. f = [i \in 0 .. Len(s) |-> R(i)]
      BY <1>2 DEF KeepUpTo
    <3>2. f[n + 1] = R(n + 1)
      <4> HIDE DEF R
      <4> QED BY <2>1, <3>1
    <3> QED
      BY <2>1, <3>2
  <2>3. f[n] \in Seq(S) /\ KeptUpTo(s, A, n, f[n])
    BY <1>4
  <2> HIDE DEF T
  <2>4. f[n + 1] \in Seq(S)
    BY <2>1, <2>2, <2>3
  <2>5. CASE s[n + 1] \notin A
    <3>1. KeptUpTo(s, A, n + 1, f[n + 1])
      BY <2>1, <2>2, <2>3, <2>5, KeptWithout
    <3> QED
      BY <2>1, <2>4, <3>1 DEF T
  <2>6. CASE s[n + 1] \in A
    <3>1. /\ Len(f[n]) \in Nat /\ Len(f[n + 1]) = Len(f[n]) + 1
          /\ f[n + 1][Len(f[n]) + 1] = s[n + 1]
          /\ \A l \in 1 .. Len(f[n]) : f[n + 1][l] = f[n][l]
      BY <2>1, <2>2, <2>3, <2>6
    <3>2. KeptUpTo(s, A, n + 1, f[n + 1])
      BY <2>1, <2>3, <2>6, <3>1, KeptWith
    <3> QED
      BY <2>1, <2>4, <3>2 DEF T
  <2> QED
    BY <2>5, <2>6
<1>5. \A n \in 0 .. Len(s) : n \in T
  <2> HIDE DEF T
  <2> QED BY <1>1, <1>3, <1>4, Induct
<1> QED
  BY <1>1, <1>2, <1>5
=============================================================================
