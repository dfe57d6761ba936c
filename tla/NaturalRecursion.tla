------------------------- MODULE NaturalRecursion -------------------------
(***************************************************************************)
(* Induction and recursion over the natural numbers, with the induction    *)
(* hypothesis as a set and the step as a function, so that the proofs of   *)
(* this project can cite them; and the powers of two, the arithmetic of    *)
(* pointers and slices.  Then FlattenSeq of SequencesExt, and the rows of  *)
(* a table stored one after the other.                                     *)
(***************************************************************************)
EXTENDS Integers, SequencesExt, SequenceTheorems, WellFoundedInduction, TLAPS

\* Every nonempty set of naturals has a least element.
LEMMA LeastNatural ==
  ASSUME NEW S \in SUBSET Nat, S # {}
  PROVE  \E x \in S : \A y \in S : x <= y
<1>1. \E x \in S : \A y \in S : <<y, x>> \notin OpToRel(<, Nat)
  BY NatLessThanWellFounded, WFMin, Zenon
<1>2. PICK x \in S : \A y \in S : <<y, x>> \notin OpToRel(<, Nat)
  BY <1>1
<1>3. ASSUME NEW y \in S PROVE x <= y
  <2>1. <<y, x>> \notin {p \in Nat \X Nat : p[1] < p[2]}
    BY <1>2 DEF OpToRel
  <2>2. <<y, x>> \in Nat \X Nat
    OBVIOUS
  <2>3. ~(y < x)
    BY <2>1, <2>2
  <2> QED
    BY <2>3
<1> QED
  BY <1>3

\* A set that holds 0 and with every number the next holds them all.
LEMMA SetInduction ==
  ASSUME NEW A, 0 \in A, \A n \in Nat : n \in A => n + 1 \in A
  PROVE  Nat \subseteq A
<1> SUFFICES ASSUME Nat \ A # {} PROVE FALSE
  OBVIOUS
<1>1. PICK m \in Nat \ A : \A y \in Nat \ A : m <= y
  BY LeastNatural, Nat \ A \in SUBSET Nat
<1>2. m - 1 \in Nat /\ m - 1 + 1 = m
  BY <1>1
<1>3. m - 1 \in A
  BY <1>1, <1>2
<1> QED
  BY <1>1, <1>2, <1>3

----------------------------------------------------------------------------
(* Recursion: tables of the first m values.                                *)

Table(m, f, start, step) ==
  f[0] = start /\ \A i \in 1 .. m : f[i] = step[<<i, f[i - 1]>>]

\* There is a table of any length.
LEMMA TableExists ==
  ASSUME NEW start, NEW step
  PROVE  \A m \in Nat : \E f : Table(m, f, start, step)
<1> DEFINE Made == {m \in Nat : \E f : Table(m, f, start, step)}
<1>1. 0 \in Made
  <2>1. Table(0, [i \in 0 .. 0 |-> start], start, step)
    BY DEF Table
  <2> QED
    BY <2>1
<1>2. ASSUME NEW m \in Nat, m \in Made PROVE m + 1 \in Made
  <2>1. PICK f : Table(m, f, start, step)
    BY <1>2
  <2> DEFINE g == [i \in 0 .. m + 1 |-> IF i = m + 1 THEN step[<<m + 1, f[m]>>] ELSE f[i]]
  <2>2. g[0] = start
    BY <2>1 DEF Table
  <2>3. ASSUME NEW i \in 1 .. m + 1 PROVE g[i] = step[<<i, g[i - 1]>>]
    <3>1. CASE i = m + 1
      <4>1. g[i] = step[<<m + 1, f[m]>>] /\ g[i - 1] = f[m]
        BY <3>1
      <4> QED
        BY <3>1, <4>1
    <3>2. CASE i # m + 1
      <4>1. i \in 1 .. m /\ g[i] = f[i] /\ g[i - 1] = f[i - 1]
        BY <3>2
      <4> QED
        BY <2>1, <4>1 DEF Table
    <3> QED
      BY <3>1, <3>2
  <2>4. Table(m + 1, g, start, step)
    <3> HIDE DEF g
    <3> QED
      BY <2>2, <2>3 DEF Table
  <2> QED
    BY <2>4
<1> QED
  BY <1>1, <1>2, SetInduction

\* Two tables agree as far as both go.
LEMMA TablesAgree ==
  ASSUME NEW start, NEW step, NEW m \in Nat, NEW n \in Nat, NEW f, NEW g,
         Table(m, f, start, step), Table(n, g, start, step)
  PROVE  \A i \in 0 .. m : i <= n => f[i] = g[i]
<1> DEFINE Same == {i \in Nat : i <= m /\ i <= n => f[i] = g[i]}
<1>1. 0 \in Same
  BY DEF Table
<1>2. ASSUME NEW i \in Nat, i \in Same PROVE i + 1 \in Same
  <2> SUFFICES ASSUME i + 1 <= m, i + 1 <= n PROVE f[i + 1] = g[i + 1]
    OBVIOUS
  <2>1. f[i + 1 - 1] = g[i + 1 - 1] /\ i + 1 \in 1 .. m /\ i + 1 \in 1 .. n
    BY <1>2
  <2>2. /\ f[i + 1] = step[<<i + 1, f[i + 1 - 1]>>]
        /\ g[i + 1] = step[<<i + 1, g[i + 1 - 1]>>]
    BY <2>1 DEF Table
  <2> QED
    BY <2>1, <2>2
<1>3. Nat \subseteq Same
  BY <1>1, <1>2, SetInduction
<1> QED
  BY <1>3

Solution(h, S, start, step) ==
  h \in [Nat -> S] /\ h[0] = start /\ \A n \in Nat : h[n + 1] = step[<<n + 1, h[n]>>]

\* Every recursion over the naturals has a solution.
LEMMA Recursion ==
  ASSUME NEW S, NEW start \in S, NEW step \in [Nat \X S -> S]
  PROVE  \E h : Solution(h, S, start, step)
<1> DEFINE T(n) == CHOOSE f : Table(n, f, start, step)
           h == [n \in Nat |-> T(n)[n]]
<1>1. \A n \in Nat : Table(n, T(n), start, step)
  BY TableExists
<1>2. h[0] = start
  BY <1>1 DEF Table
<1>3. ASSUME NEW n \in Nat PROVE h[n + 1] = step[<<n + 1, h[n]>>]
  <2>1. T(n + 1)[n + 1] = step[<<n + 1, T(n + 1)[n]>>]
    <3> HIDE DEF T
    <3> QED
      BY <1>1 DEF Table
  <2>2. T(n)[n] = T(n + 1)[n]
    <3> HIDE DEF T
    <3>1. n + 1 \in Nat /\ n \in 0 .. n /\ n <= n + 1
      OBVIOUS
    <3> QED
      BY <1>1, <3>1, TablesAgree
  <2> QED
    BY <2>1, <2>2
<1> DEFINE Typed == {n \in Nat : h[n] \in S}
<1>4. Nat \subseteq Typed
  <2> HIDE DEF h
  <2>1. 0 \in Typed
    BY <1>2
  <2>2. ASSUME NEW n \in Nat, n \in Typed PROVE n + 1 \in Typed
    <3>1. h[n] \in S /\ n + 1 \in Nat
      BY <2>2
    <3>2. step[<<n + 1, h[n]>>] \in S
      BY <3>1
    <3> QED
      BY <1>3, <3>1, <3>2
  <2> QED
    BY <2>1, <2>2, SetInduction
<1>5. h \in [Nat -> S]
  BY <1>4
<1> QED
  <2> HIDE DEF h
  <2> QED
    BY <1>2, <1>3, <1>5 DEF Solution

\* A recursion that takes each value from that of a smaller number.
Descends(f, start, below, step) ==
  f = [n \in Nat |-> IF n = 0 THEN start ELSE step[<<n, f[below[n]]>>]]

\* It has a solution.
LEMMA RecursionBelow ==
  ASSUME NEW S, NEW start \in S, NEW step \in [Nat \X S -> S],
         NEW below \in [Nat -> Nat], \A n \in Nat \ {0} : below[n] < n
  PROVE  \E f \in [Nat -> S] : Descends(f, start, below, step)
<1> DEFINE T == [Nat -> S]
           more == [p \in Nat \X T |-> [k \in Nat |->
                      IF k = p[1] THEN step[<<k, p[2][below[k]]>>] ELSE p[2][k]]]
           none == [k \in Nat |-> start]
<1>1. none \in T
  OBVIOUS
<1>2. ASSUME NEW n \in Nat, NEW g \in T
      PROVE  /\ more[<<n, g>>] \in T
             /\ \A k \in Nat : more[<<n, g>>][k] = IF k = n THEN step[<<n, g[below[n]]>>] ELSE g[k]
  <2>1. <<n, g>> \in Nat \X T
    OBVIOUS
  <2>2. more[<<n, g>>] = [k \in Nat |-> IF k = n THEN step[<<k, g[below[k]]>>] ELSE g[k]]
    BY <2>1
  <2>3. ASSUME NEW k \in Nat PROVE step[<<k, g[below[k]]>>] \in S /\ g[k] \in S
    OBVIOUS
  <2> QED
    BY <2>2, <2>3
<1>3. more \in [Nat \X T -> T]
  <2>1. more = [p \in Nat \X T |-> more[p]]
    OBVIOUS
  <2>2. ASSUME NEW p \in Nat \X T PROVE more[p] \in T
    <3>1. PICK n \in Nat, g \in T : p = <<n, g>>
      OBVIOUS
    <3> HIDE DEF more, T
    <3> QED
      BY <1>2, <3>1
  <2> HIDE DEF more, T
  <2> QED
    BY <2>1, <2>2
<1> HIDE DEF more, none
<1>4. PICK h : Solution(h, T, none, more)
  <2> HIDE DEF T
  <2> QED
    BY <1>1, <1>3, Recursion
<1>5. /\ \A n \in Nat : h[n] \in T
      /\ h[0] = none
      /\ \A n \in Nat : h[n + 1] = more[<<n + 1, h[n]>>]
  <2> HIDE DEF T
  <2> QED
    BY <1>4 DEF Solution
<1>6. ASSUME NEW n \in Nat, NEW k \in Nat
      PROVE  h[n + 1][k] = IF k = n + 1 THEN step[<<n + 1, h[n][below[n + 1]]>>] ELSE h[n][k]
  <2>1. n + 1 \in Nat
    OBVIOUS
  <2> DEFINE m == n + 1
             g == h[n]
  <2>2. m \in Nat /\ g \in T /\ h[m] = more[<<m, g>>]
    BY <1>5, <2>1
  <2> HIDE DEF m, g, T
  <2>3. more[<<m, g>>][k] = IF k = m THEN step[<<m, g[below[m]]>>] ELSE g[k]
    BY <1>2, <2>2
  <2> QED
    BY <2>2, <2>3 DEF m, g
<1> DEFINE f == [n \in Nat |-> h[n][n]]
           Settled == {m \in Nat : \A k \in 0 .. m : h[m][k] = f[k]}
<1>7. 0 \in Settled
  OBVIOUS
<1>8. ASSUME NEW m \in Nat, m \in Settled PROVE m + 1 \in Settled
  <2>1. ASSUME NEW k \in 0 .. m + 1 PROVE h[m + 1][k] = f[k]
    <3>1. CASE k = m + 1
      BY <3>1
    <3>2. CASE k # m + 1
      <4>1. k \in 0 .. m /\ k \in Nat
        BY <3>2
      <4> HIDE DEF f
      <4> QED
        BY <1>6, <1>8, <3>2, <4>1
    <3> QED
      BY <3>1, <3>2
  <2> QED
    BY <2>1
<1>9. Nat \subseteq Settled
  <2> HIDE DEF Settled
  <2> QED
    BY <1>7, <1>8, SetInduction
<1>10. f \in [Nat -> S]
  BY <1>5
<1>11. ASSUME NEW n \in Nat PROVE f[n] = IF n = 0 THEN start ELSE step[<<n, f[below[n]]>>]
  <2>1. CASE n = 0
    <3>1. f[0] = none[0]
      BY <1>5
    <3> QED
      BY <2>1, <3>1 DEF none
  <2>2. CASE n # 0
    <3> DEFINE m == n - 1
    <3>1. m \in Nat /\ n = m + 1
      BY <2>2
    <3> HIDE DEF m
    <3>2. h[n][n] = step[<<n, h[m][below[n]]>>]
      BY <1>6, <3>1
    <3>3. below[n] \in 0 .. m
      <4>1. below[n] \in Nat /\ below[n] < n
        BY <2>2
      <4> QED
        BY <3>1, <4>1
    <3>4. h[m][below[n]] = f[below[n]]
      <4> HIDE DEF f
      <4> QED
        BY <1>9, <3>1, <3>3
    <3> QED
      BY <2>2, <3>2, <3>4
  <2> QED
    BY <2>1, <2>2
<1>12. Descends(f, start, below, step)
  <2>1. f = [n \in Nat |-> f[n]]
    BY <1>10
  <2> HIDE DEF f
  <2>2. f = [n \in Nat |-> IF n = 0 THEN start ELSE step[<<n, f[below[n]]>>]]
    BY <1>11, <2>1
  <2> QED
    BY <2>2 DEF Descends
<1> QED
  BY <1>10, <1>12

\* A recursion as far as n.
UpTo(g, S, start, n, step) ==
  g \in [0 .. n -> S] /\ g[0] = start /\ \A i \in 1 .. n : g[i] = step[<<i, g[i - 1]>>]

\* There is one.
LEMMA TableUpTo ==
  ASSUME NEW S, NEW start \in S, NEW n \in Nat, NEW step \in [Nat \X S -> S]
  PROVE  \E g : UpTo(g, S, start, n, step)
<1>1. PICK h : Solution(h, S, start, step)
  BY Recursion
<1>2. h \in [Nat -> S] /\ h[0] = start /\ \A k \in Nat : h[k + 1] = step[<<k + 1, h[k]>>]
  BY <1>1 DEF Solution
<1> DEFINE g == [i \in 0 .. n |-> h[i]]
<1>3. g \in [0 .. n -> S] /\ g[0] = start
  BY <1>2
<1>4. ASSUME NEW i \in 1 .. n PROVE g[i] = step[<<i, g[i - 1]>>]
  <2>1. i - 1 \in Nat /\ i - 1 + 1 = i /\ i - 1 \in 0 .. n /\ i \in 0 .. n
    OBVIOUS
  <2>2. h[i] = step[<<i, h[i - 1]>>]
    BY <1>2, <2>1
  <2> QED
    BY <2>1, <2>2
<1> HIDE DEF g
<1>5. UpTo(g, S, start, n, step)
  BY <1>3, <1>4 DEF UpTo
<1> QED
  BY <1>5

\* What each step keeps, the whole recursion keeps.
LEMMA TypedUpTo ==
  ASSUME NEW S, NEW f, NEW n \in Nat, f[0] \in S,
         \A i \in 1 .. n : f[i - 1] \in S => f[i] \in S
  PROVE  \A i \in 0 .. n : f[i] \in S
<1> DEFINE Typed == {i \in Nat : i <= n => f[i] \in S}
<1>1. 0 \in Typed
  OBVIOUS
<1>2. ASSUME NEW i \in Nat, i \in Typed PROVE i + 1 \in Typed
  <2> SUFFICES ASSUME i + 1 <= n PROVE f[i + 1] \in S
    OBVIOUS
  <2>1. i + 1 \in 1 .. n /\ i + 1 - 1 = i /\ f[i] \in S
    BY <1>2
  <2> QED
    BY <2>1
<1>3. Nat \subseteq Typed
  BY <1>1, <1>2, SetInduction
<1> QED
  BY <1>3

----------------------------------------------------------------------------
(* Powers of two.                                                          *)

Doubling(f) == f = [i \in Nat |-> IF i = 0 THEN 1 ELSE 2 * f[i - 1]]

\* The recursive definition of the powers of two defines what it says.
LEMMA DoublingExists == \E f : Doubling(f)
<1> DEFINE twice == [p \in Nat \X Nat |-> 2 * p[2]]
<1>1. twice \in [Nat \X Nat -> Nat] /\ \A n \in Nat, x \in Nat : twice[<<n, x>>] = 2 * x
  OBVIOUS
<1> HIDE DEF twice
<1>2. PICK h \in [Nat -> Nat] : /\ h[0] = 1
                                /\ \A n \in Nat : h[n + 1] = twice[<<n + 1, h[n]>>]
  <2>1. \E h : Solution(h, Nat, 1, twice)
    BY <1>1, Recursion
  <2> QED
    BY <2>1 DEF Solution
<1>3. ASSUME NEW n \in Nat PROVE h[n] = IF n = 0 THEN 1 ELSE 2 * h[n - 1]
  <2>1. CASE n = 0
    BY <1>2, <2>1
  <2>2. CASE n # 0
    <3>1. n - 1 \in Nat /\ n - 1 + 1 = n /\ h[n - 1] \in Nat
      BY <2>2
    <3>2. h[n] = twice[<<n, h[n - 1]>>]
      BY <1>2, <3>1
    <3> QED
      BY <1>1, <2>2, <3>1, <3>2
  <2> QED
    BY <2>1, <2>2
<1>4. h = [i \in Nat |-> IF i = 0 THEN 1 ELSE 2 * h[i - 1]]
  BY <1>2, <1>3
<1> QED
  BY <1>4 DEF Doubling

\* They are positive, start with 1 and double.
LEMMA DoublingLaws ==
  ASSUME NEW f, Doubling(f)
  PROVE  /\ f[0] = 1
         /\ \A i \in Nat : f[i] \in Nat /\ f[i] > 0 /\ f[i + 1] = 2 * f[i]
<1>1. f[0] = 1
  BY DEF Doubling
<1>2. ASSUME NEW i \in Nat PROVE f[i + 1] = 2 * f[i]
  <2>1. \A j \in Nat : f[j] = IF j = 0 THEN 1 ELSE 2 * f[j - 1]
    BY DEF Doubling
  <2>2. i + 1 \in Nat /\ i + 1 # 0 /\ i + 1 - 1 = i
    OBVIOUS
  <2> QED
    BY <2>1, <2>2
<1> DEFINE Good == {i \in Nat : f[i] \in Nat /\ f[i] > 0}
<1>3. Nat \subseteq Good
  <2>1. 0 \in Good
    BY <1>1
  <2>2. ASSUME NEW i \in Nat, i \in Good PROVE i + 1 \in Good
    BY <1>2, <2>2
  <2> QED
    BY <2>1, <2>2, SetInduction
<1> QED
  BY <1>1, <1>2, <1>3

\* They grow beyond every number.
LEMMA PowersGrow ==
  ASSUME NEW f, Doubling(f)
  PROVE  /\ \A n \in Nat : n < f[n]
         /\ \A m \in Nat, n \in Nat : m < n => 2 * f[m] <= f[n]
<1>1. /\ f[0] = 1
      /\ \A i \in Nat : f[i] \in Nat /\ f[i] > 0 /\ f[i + 1] = 2 * f[i]
  BY DoublingLaws
<1> DEFINE Exceeded == {n \in Nat : n < f[n]}
<1>2. Nat \subseteq Exceeded
  <2>1. 0 \in Exceeded
    BY <1>1
  <2>2. ASSUME NEW n \in Nat, n \in Exceeded PROVE n + 1 \in Exceeded
    <3>1. n < f[n] /\ f[n] \in Nat /\ f[n + 1] = 2 * f[n]
      BY <1>1, <2>2
    <3> QED
      BY <3>1
  <2> QED
    BY <2>1, <2>2, SetInduction
<1>3. ASSUME NEW m \in Nat, NEW n \in Nat, m < n PROVE 2 * f[m] <= f[n]
  <2> DEFINE Above == {k \in Nat : 2 * f[m] <= f[m + 1 + k]}
  <2>1. 0 \in Above
    <3>1. f[m + 1] = 2 * f[m] /\ f[m] \in Nat /\ m + 1 + 0 = m + 1
      BY <1>1
    <3> QED
      BY <3>1
  <2>2. ASSUME NEW k \in Nat, k \in Above PROVE k + 1 \in Above
    <3>1. m + 1 + k \in Nat /\ m + 1 + (k + 1) = m + 1 + k + 1
      OBVIOUS
    <3>2. f[m + 1 + (k + 1)] = 2 * f[m + 1 + k] /\ f[m + 1 + k] \in Nat /\ f[m] \in Nat
      BY <1>1, <3>1
    <3> QED
      BY <2>2, <3>2
  <2>3. Nat \subseteq Above
    BY <2>1, <2>2, SetInduction
  <2>4. n - (m + 1) \in Nat /\ m + 1 + (n - (m + 1)) = n
    BY <1>3
  <2> QED
    BY <2>3, <2>4
<1> QED
  BY <1>2, <1>3

\* Their product is a power again.
LEMMA PowersMultiply ==
  ASSUME NEW f, Doubling(f), NEW m \in Nat
  PROVE  \A n \in Nat : f[m] * f[n] = f[m + n]
<1>1. /\ f[0] = 1
      /\ \A i \in Nat : f[i] \in Nat /\ f[i] > 0 /\ f[i + 1] = 2 * f[i]
  BY DoublingLaws
<1> DEFINE Law == {n \in Nat : f[m] * f[n] = f[m + n]}
<1>2. 0 \in Law
  BY <1>1
<1>3. ASSUME NEW n \in Nat, n \in Law PROVE n + 1 \in Law
  <2>1. /\ f[m + (n + 1)] = 2 * f[m + n] /\ f[n + 1] = 2 * f[n]
        /\ f[m] \in Nat /\ f[n] \in Nat /\ f[m + n] \in Nat
    <3>1. m + n \in Nat /\ m + (n + 1) = m + n + 1
      OBVIOUS
    <3> QED
      BY <1>1, <3>1
  <2>2. f[m] * f[n] = f[m + n]
    BY <1>3
  <2>3. \A a, b, c \in Nat : a * b = c => a * (2 * b) = 2 * c
    BY Z3
  <2>4. f[m] * (2 * f[n]) = 2 * f[m + n]
    BY <2>1, <2>2, <2>3
  <2> QED
    BY <2>1, <2>4
<1> QED
  BY <1>2, <1>3, SetInduction

\* And nothing else divides them.
LEMMA DivisorsOfPowers ==
  ASSUME NEW f, Doubling(f)
  PROVE  \A n \in Nat : \A p, s \in Nat : p * s = f[n] => \E j \in 0 .. n : p = f[j]
<1>1. /\ f[0] = 1
      /\ \A i \in Nat : f[i] \in Nat /\ f[i] > 0 /\ f[i + 1] = 2 * f[i]
  BY DoublingLaws
<1> DEFINE Only == {n \in Nat : \A p, s \in Nat : p * s = f[n] => \E j \in 0 .. n : p = f[j]}
<1>2. 0 \in Only
  <2>1. ASSUME NEW p \in Nat, NEW s \in Nat, p * s = 1 PROVE p = 1
    BY <2>1, Z3
  <2>2. ASSUME NEW p \in Nat, NEW s \in Nat, p * s = f[0] PROVE \E j \in 0 .. 0 : p = f[j]
    <3>1. p = f[0] /\ 0 \in 0 .. 0
      BY <1>1, <2>1, <2>2
    <3> QED
      BY <3>1
  <2> QED
    BY <2>2
<1>3. ASSUME NEW n \in Nat, n \in Only PROVE n + 1 \in Only
  <2> SUFFICES ASSUME NEW p \in Nat, NEW s \in Nat, p * s = f[n + 1]
               PROVE  \E j \in 0 .. n + 1 : p = f[j]
    OBVIOUS
  <2>1. f[n + 1] = 2 * f[n] /\ f[n] \in Nat
    BY <1>1
  <2>2. PICK a \in Nat, b \in Nat : (p = 2 * a \/ p = 2 * a + 1) /\ (s = 2 * b \/ s = 2 * b + 1)
    <3>1. /\ p \div 2 \in Nat /\ s \div 2 \in Nat
          /\ p = 2 * (p \div 2) \/ p = 2 * (p \div 2) + 1
          /\ s = 2 * (s \div 2) \/ s = 2 * (s \div 2) + 1
      OBVIOUS
    <3> QED
      BY <3>1
  <2>3. CASE p = 2 * a
    <3>1. a * s = f[n]
      <4>1. \A x, y, z \in Nat : (2 * x) * y = 2 * z => x * y = z
        BY Z3
      <4> QED
        BY <2>1, <2>3, <4>1
    <3>2. PICK j \in 0 .. n : a = f[j]
      BY <1>3, <3>1
    <3>3. p = f[j + 1] /\ j + 1 \in 0 .. n + 1
      BY <1>1, <2>3, <3>2
    <3> QED
      BY <3>3
  <2>4. CASE p = 2 * a + 1 /\ s = 2 * b
    <3>1. p * b = f[n]
      <4>1. \A x, y, z \in Nat : x * (2 * y) = 2 * z => x * y = z
        BY Z3
      <4> QED
        BY <2>1, <2>4, <4>1
    <3>2. PICK j \in 0 .. n : p = f[j]
      BY <1>3, <3>1
    <3> QED
      BY <3>2
  <2>5. CASE p = 2 * a + 1 /\ s = 2 * b + 1
    <3>1. \A x, y \in Nat : (2 * x + 1) * (2 * y + 1) = 2 * (2 * (x * y) + x + y) + 1
      BY Z3
    <3>2. \A x, y \in Nat : x * y \in Nat
      BY Z3
    <3> DEFINE q == 2 * (a * b) + a + b
    <3>3. q \in Nat
      BY <3>2
    <3>4. p * s = 2 * q + 1
      BY <2>5, <3>1
    <3> HIDE DEF q
    <3> QED
      BY <2>1, <3>3, <3>4
  <2> QED
    BY <2>2, <2>3, <2>4, <2>5
<1> QED
  BY <1>2, <1>3, SetInduction

----------------------------------------------------------------------------
\* Sequences put together from the left.
JoinsUp(f, parts, n) == f[0] = <<>> /\ \A i \in 1 .. n : f[i] = f[i - 1] \o parts[i]

\* FlattenSeq joins its parts from the left.
LEMMA FlattenLaw ==
  ASSUME NEW S, NEW n \in Nat \ {0}, NEW parts, parts \in [1 .. n -> Seq(S)]
  PROVE  \E f : /\ JoinsUp(f, parts, n) /\ FlattenSeq(parts) = f[n]
                /\ \A i \in 0 .. n : f[i] \in Seq(S)
<1> DEFINE flatten == CHOOSE h : h = [i \in 1 .. Len(parts) |->
                                       IF i = 1 THEN parts[i] ELSE h[i - 1] \o parts[i]]
           step == [q \in Nat \X Seq(S) |-> IF q[1] \in 1 .. n THEN q[2] \o parts[q[1]] ELSE q[2]]
<1>1. Len(parts) = n /\ \A i \in 1 .. n : parts[i] \in Seq(S)
  OBVIOUS
<1>2. FlattenSeq(parts) = flatten[n]
  BY <1>1 DEF FlattenSeq
<1>3. step \in [Nat \X Seq(S) -> Seq(S)]
  <2>1. ASSUME NEW i \in Nat, NEW s \in Seq(S)
        PROVE  (IF i \in 1 .. n THEN s \o parts[i] ELSE s) \in Seq(S)
    BY <1>1, ConcatProperties
  <2> QED
    BY <2>1
<1>4. \A i \in Nat, s \in Seq(S) : step[<<i, s>>] = IF i \in 1 .. n THEN s \o parts[i] ELSE s
  OBVIOUS
<1>5. <<>> \in Seq(S) /\ \A s \in Seq(S) : <<>> \o s = s
  BY ConcatEmptySeq
<1> HIDE DEF step
<1>6. PICK f : Solution(f, Seq(S), <<>>, step)
  BY <1>3, <1>5, Recursion
<1>7. f \in [Nat -> Seq(S)] /\ f[0] = <<>> /\ \A i \in Nat : f[i + 1] = step[<<i + 1, f[i]>>]
  BY <1>6 DEF Solution
<1>8. ASSUME NEW i \in 1 .. n PROVE f[i] = f[i - 1] \o parts[i] /\ f[i - 1] \in Seq(S)
  <2>1. i - 1 \in Nat /\ i - 1 + 1 = i /\ i \in Nat
    OBVIOUS
  <2>2. f[i - 1] \in Seq(S)
    BY <1>7, <2>1
  <2>3. f[i - 1 + 1] = step[<<i - 1 + 1, f[i - 1]>>]
    BY <1>7, <2>1
  <2>4. step[<<i, f[i - 1]>>] = f[i - 1] \o parts[i]
    BY <1>4, <2>1, <2>2, i \in 1 .. n, Zenon
  <2> QED
    BY <2>1, <2>2, <2>3, <2>4
<1>9. JoinsUp(f, parts, n)
  BY <1>7, <1>8 DEF JoinsUp
<1>10. \E h : h = [i \in 1 .. Len(parts) |-> IF i = 1 THEN parts[i] ELSE h[i - 1] \o parts[i]]
  <2> DEFINE h == [i \in 1 .. n |-> f[i]]
  <2>1. ASSUME NEW i \in 1 .. n PROVE h[i] = IF i = 1 THEN parts[i] ELSE h[i - 1] \o parts[i]
    <3>1. CASE i = 1
      <4>1. f[1] = f[0] \o parts[1]
        BY <1>8, <3>1
      <4> QED
        BY <1>1, <1>5, <1>7, <3>1, <4>1
    <3>2. CASE i # 1
      <4>1. i - 1 \in 1 .. n
        BY <3>2
      <4> QED
        BY <1>8, <3>2, <4>1
    <3> QED
      BY <3>1, <3>2
  <2>2. h = [i \in 1 .. n |-> IF i = 1 THEN parts[i] ELSE h[i - 1] \o parts[i]]
    BY <2>1
  <2> HIDE DEF h
  <2> QED
    BY <1>1, <2>2
<1>11. flatten = [i \in 1 .. n |-> IF i = 1 THEN parts[i] ELSE flatten[i - 1] \o parts[i]]
  BY <1>1, <1>10, Zenon
<1> HIDE DEF flatten
<1> DEFINE Same == {i \in Nat : i \in 1 .. n => flatten[i] = f[i]}
<1>12. 0 \in Same
  OBVIOUS
<1>13. ASSUME NEW j \in 1 .. n, j # 1 => flatten[j - 1] = f[j - 1] PROVE flatten[j] = f[j]
  <2>1. f[j] = f[j - 1] \o parts[j]
    BY <1>8
  <2>2. flatten[j] = IF j = 1 THEN parts[j] ELSE flatten[j - 1] \o parts[j]
    BY <1>11
  <2>3. CASE j = 1
    <3>1. f[j] = <<>> \o parts[j] /\ parts[j] \in Seq(S)
      <4>1. j - 1 = 0
        BY <2>3
      <4>2. f[j - 1] = <<>>
        BY <1>7, <4>1
      <4> QED
        BY <1>1, <2>1, <4>2
    <3> QED
      BY <1>5, <2>2, <2>3, <3>1
  <2>4. CASE j # 1
    BY <1>13, <2>1, <2>2, <2>4
  <2> QED
    BY <2>3, <2>4
<1>16. ASSUME NEW i \in Nat, i \in Same PROVE i + 1 \in Same
  <2>1. i + 1 \in 1 .. n /\ i + 1 # 1 => i \in 1 .. n
    OBVIOUS
  <2>2. i + 1 - 1 = i
    OBVIOUS
  <2>3. i + 1 \in 1 .. n => flatten[i + 1] = f[i + 1]
    BY <1>13, <1>16, <2>1, <2>2
  <2> QED
    BY <2>3
<1>14. flatten[n] = f[n]
  <2>1. Nat \subseteq Same
    BY <1>12, <1>16, SetInduction
  <2>2. n \in Nat /\ n \in 1 .. n
    OBVIOUS
  <2> QED
    BY <2>1, <2>2
<1>15. \A i \in 0 .. n : f[i] \in Seq(S)
  BY <1>7
<1> QED
  BY <1>2, <1>9, <1>14, <1>15

\* Rows and columns: products of naturals.
LEMMA Products ==
  /\ \A a, w \in Nat : a * w \in Nat /\ (a + 1) * w = a * w + w
  /\ \A a, b, w \in Nat : a <= b => a * w <= b * w
  /\ \A w \in Nat : 0 * w = 0
<1>1. \A a, w \in Nat : a * w \in Nat /\ (a + 1) * w = a * w + w
  BY Z3
<1>2. ASSUME NEW a \in Nat, NEW b \in Nat, NEW w \in Nat, a <= b PROVE a * w <= b * w
  <2>1. b - a \in Nat /\ b = a + (b - a)
    BY <1>2
  <2>2. \A d \in Nat : d * w \in Nat /\ (a + d) * w = a * w + d * w
    BY Z3
  <2>3. \A x, y \in Nat : x <= x + y
    OBVIOUS
  <2> DEFINE d == b - a
  <2>4. d \in Nat /\ b = a + d
    BY <2>1
  <2> HIDE DEF d
  <2>5. b * w = a * w + d * w /\ d * w \in Nat
    BY <2>2, <2>4
  <2> QED
    BY <1>1, <2>3, <2>5
<1>3. \A w \in Nat : 0 * w = 0
  BY Z3
<1> QED
  BY <1>1, <1>2, <1>3

\* A place has one row and one column.
LEMMA OnePlace ==
  ASSUME NEW w \in Nat \ {0}, NEW a \in Nat, NEW b \in Nat, NEW i \in 0 .. w - 1, NEW j \in 0 .. w - 1,
         a * w + i = b * w + j
  PROVE  a = b /\ i = j
<1>1. a * w \in Nat /\ b * w \in Nat /\ (a + 1) * w = a * w + w /\ (b + 1) * w = b * w + w
  BY Products
<1>2. CASE a < b
  <2>1. (a + 1) * w <= b * w
    BY <1>2, Products
  <2> DEFINE x == a * w
             y == b * w
  <2>2. x \in Nat /\ y \in Nat /\ x + w <= y /\ x + i = y + j
    BY <1>1, <2>1
  <2> HIDE DEF x, y
  <2>3. FALSE
    BY <2>2
  <2> QED
    BY <2>3
<1>3. CASE b < a
  <2>1. (b + 1) * w <= a * w
    BY <1>3, Products
  <2> DEFINE x == a * w
             y == b * w
  <2>2. x \in Nat /\ y \in Nat /\ y + w <= x /\ x + i = y + j
    BY <1>1, <2>1
  <2> HIDE DEF x, y
  <2>3. FALSE
    BY <2>2
  <2> QED
    BY <2>3
<1>4. CASE a = b
  <2> DEFINE x == a * w
  <2>1. x \in Nat /\ x + i = x + j
    BY <1>1, <1>4
  <2> HIDE DEF x
  <2>2. i = j
    BY <2>1
  <2> QED
    BY <1>4, <2>2
<1> QED
  BY <1>2, <1>3, <1>4

\* And every place has them.
LEMMA HasPlace ==
  ASSUME NEW w \in Nat \ {0}
  PROVE  \A n \in Nat : \E a \in Nat, i \in 0 .. w - 1 : n = a * w + i
<1> DEFINE Found == {n \in Nat : \E a \in Nat, i \in 0 .. w - 1 : n = a * w + i}
<1>1. 0 \in Found
  <2>1. 0 = 0 * w + 0 /\ 0 \in 0 .. w - 1
    BY Products
  <2> QED
    BY <2>1
<1>2. ASSUME NEW n \in Nat, n \in Found PROVE n + 1 \in Found
  <2>1. PICK a \in Nat, i \in 0 .. w - 1 : n = a * w + i
    BY <1>2
  <2>2. a * w \in Nat /\ (a + 1) * w = a * w + w
    BY Products
  <2>3. CASE i + 1 < w
    <3>1. n + 1 = a * w + (i + 1) /\ i + 1 \in 0 .. w - 1
      BY <2>1, <2>2, <2>3
    <3> QED
      BY <3>1
  <2>4. CASE ~(i + 1 < w)
    <3>1. n + 1 = a * w + w
      BY <2>1, <2>2, <2>4
    <3> DEFINE b == a + 1
    <3>2. n + 1 = b * w + 0 /\ b \in Nat /\ 0 \in 0 .. w - 1
      BY <2>2, <3>1
    <3> HIDE DEF b
    <3> QED
      BY <3>2
  <2> QED
    BY <2>3, <2>4
<1> QED
  BY <1>1, <1>2, SetInduction

\* A table row by row: the rows' places are those below n rows.
LEMMA PlacesBelow ==
  ASSUME NEW w \in Nat \ {0}, NEW n \in Nat
  PROVE  /\ n * w \in Nat
         /\ \A a \in 0 .. n - 1, i \in 0 .. w - 1 : a * w + i \in 0 .. n * w - 1
         /\ \A k \in 0 .. n * w - 1 : \E a \in 0 .. n - 1, i \in 0 .. w - 1 : k = a * w + i
<1>1. n * w \in Nat
  BY Products
<1>2. ASSUME NEW a \in 0 .. n - 1, NEW i \in 0 .. w - 1 PROVE a * w + i \in 0 .. n * w - 1
  <2>1. a \in Nat /\ a + 1 \in Nat /\ a + 1 <= n
    OBVIOUS
  <2>2. a * w \in Nat /\ (a + 1) * w = a * w + w /\ (a + 1) * w <= n * w
    BY <2>1, Products
  <2> DEFINE x == a * w
             y == n * w
  <2>3. x \in Nat /\ y \in Nat /\ x + w <= y
    BY <1>1, <2>2
  <2> HIDE DEF x, y
  <2>4. x + i \in 0 .. y - 1
    BY <2>3
  <2> QED
    BY <2>4 DEF x, y
<1>3. ASSUME NEW k \in 0 .. n * w - 1 PROVE \E a \in 0 .. n - 1, i \in 0 .. w - 1 : k = a * w + i
  <2> DEFINE y == n * w
  <2>4. k \in 0 .. y - 1 /\ y \in Nat
    BY <1>1
  <2> HIDE DEF y
  <2>5. k \in Nat
    BY <2>4
  <2>1. PICK a \in Nat, i \in 0 .. w - 1 : k = a * w + i
    BY <2>5, HasPlace
  <2>2. CASE n <= a
    <3>1. n * w <= a * w /\ a * w \in Nat
      BY <2>2, Products
    <3> DEFINE x == a * w
    <3>2. x \in Nat /\ y <= x /\ x + i \in 0 .. y - 1
      BY <2>1, <2>4, <3>1 DEF y
    <3> HIDE DEF x
    <3>3. FALSE
      BY <2>4, <3>2
    <3> QED
      BY <3>3
  <2>3. CASE ~(n <= a)
    <3>1. a \in 0 .. n - 1
      BY <2>3
    <3> QED
      BY <2>1, <3>1
  <2> QED
    BY <2>2, <2>3
<1> QED
  BY <1>1, <1>2, <1>3

\* q has the n parts, each of length w, as its rows.
RowsOf(q, parts, n, w) == \A a \in 0 .. n - 1, i \in 0 .. w - 1 : q[a * w + i + 1] = parts[a + 1][i + 1]

\* The parts of one length are the rows of what they make up.
LEMMA FlattenRows ==
  ASSUME NEW S, NEW n \in Nat \ {0}, NEW w \in Nat \ {0}, NEW parts, parts \in [1 .. n -> Seq(S)],
         \A i \in 1 .. n : Len(parts[i]) = w
  PROVE  /\ FlattenSeq(parts) \in Seq(S) /\ Len(FlattenSeq(parts)) = n * w
         /\ RowsOf(FlattenSeq(parts), parts, n, w)
<1>1. PICK f : /\ JoinsUp(f, parts, n) /\ FlattenSeq(parts) = f[n]
               /\ \A k \in 0 .. n : f[k] \in Seq(S)
  BY FlattenLaw
<1> DEFINE Rows(k) == /\ Len(f[k]) = k * w
                      /\ \A a \in 0 .. k - 1, i \in 0 .. w - 1 : f[k][a * w + i + 1] = parts[a + 1][i + 1]
           Good == {k \in Nat : k <= n => Rows(k)}
<1>2. 0 \in Good
  <2>1. f[0] = <<>> /\ 0 * w = 0 /\ Len(<<>>) = 0 /\ 0 .. 0 - 1 = {}
    BY <1>1, Products DEF JoinsUp
  <2>2. Rows(0)
    BY <2>1
  <2> HIDE DEF Rows
  <2> QED
    BY <2>2
<1>3. ASSUME NEW k \in Nat, k \in Good PROVE k + 1 \in Good
  <2> SUFFICES ASSUME k + 1 <= n PROVE Rows(k + 1)
    OBVIOUS
  <2> DEFINE m == k + 1
  <2>1. m \in 1 .. n /\ m - 1 = k /\ k \in 0 .. n /\ k <= n /\ m \in Nat
    OBVIOUS
  <2>2. Rows(k)
    BY <1>3, <2>1
  <2>3. m * w = k * w + w /\ k * w \in Nat
    BY Products
  <2> HIDE DEF m
  <2>4. f[m] = f[k] \o parts[m] /\ f[k] \in Seq(S) /\ parts[m] \in Seq(S) /\ Len(parts[m]) = w
    <3>1. \A j \in 1 .. n : f[j] = f[j - 1] \o parts[j]
      BY <1>1, Zenon DEF JoinsUp
    <3>2. f[m] = f[k] \o parts[m]
      BY <2>1, <3>1, Zenon
    <3> QED
      BY <1>1, <2>1, <3>2
  <2> DEFINE s == f[k]
             t == parts[m]
             x == k * w
  <2>5. Len(s) = x
    BY <2>2
  <2>6. /\ Len(f[m]) = Len(s) + Len(t)
        /\ \A j \in 1 .. Len(s) + Len(t) : f[m][j] = IF j <= Len(s) THEN s[j] ELSE t[j - Len(s)]
    <3>1. f[m] = s \o t /\ s \in Seq(S) /\ t \in Seq(S)
      BY <2>4
    <3> HIDE DEF s, t
    <3>2. /\ Len(s \o t) = Len(s) + Len(t)
          /\ \A j \in 1 .. Len(s) + Len(t) : (s \o t)[j] = IF j <= Len(s) THEN s[j] ELSE t[j - Len(s)]
      BY <3>1, ConcatProperties
    <3> QED
      BY <3>1, <3>2, Zenon
  <2>7. ASSUME NEW a \in 0 .. m - 1, NEW i \in 0 .. w - 1
        PROVE  f[m][a * w + i + 1] = parts[a + 1][i + 1]
    <3>1. CASE a = k
      <4>1. a * w = x /\ a + 1 = m
        BY <2>1, <3>1
      <4> HIDE DEF s, t, x
      <4> DEFINE z == x + i + 1
      <4>2. z \in 1 .. Len(s) + Len(t) /\ ~(z <= Len(s)) /\ z - Len(s) = i + 1
        BY <2>3, <2>4, <2>5 DEF t, x
      <4> HIDE DEF z
      <4>3. f[m][z] = t[i + 1]
        BY <2>6, <4>2
      <4>4. a * w + i + 1 = z /\ parts[a + 1] = t
        BY <4>1 DEF z, t
      <4> QED
        BY <4>3, <4>4
    <3>2. CASE a # k
      <4>1. a \in 0 .. k - 1
        BY <2>1, <3>2
      <4>2. a * w + i \in 0 .. x - 1
        BY <4>1, PlacesBelow
      <4>3. s[a * w + i + 1] = parts[a + 1][i + 1]
        BY <2>2, <4>1
      <4> DEFINE y == a * w + i
      <4> HIDE DEF s, t, x, y
      <4>4. y + 1 \in 1 .. Len(s) + Len(t) /\ y + 1 <= Len(s)
        BY <2>3, <2>4, <2>5, <4>2 DEF t, x, y
      <4>5. f[m][y + 1] = s[y + 1]
        BY <2>6, <4>4
      <4> QED
        BY <4>3, <4>5 DEF y
    <3> QED
      BY <3>1, <3>2
  <2>8. Len(f[m]) = m * w
    BY <2>3, <2>4, <2>5, <2>6
  <2> QED
    BY <2>7, <2>8 DEF m
<1>4. Rows(n)
  <2> HIDE DEF Rows
  <2>1. n \in Nat /\ n <= n
    OBVIOUS
  <2>2. Nat \subseteq Good
    BY <1>2, <1>3, SetInduction
  <2> QED
    BY <2>1, <2>2
<1>5. f[n] \in Seq(S)
  <2>1. n \in 0 .. n
    OBVIOUS
  <2> QED
    BY <1>1, <2>1
<1>6. RowsOf(f[n], parts, n, w)
  BY <1>4 DEF RowsOf
<1> QED
  BY <1>1, <1>4, <1>5, <1>6

\* q is made of n parts, the i-th behind at[i] elements of the others.
Cut(q, parts, n, at) ==
  /\ at \in [1 .. n -> Nat]
  /\ \A i \in 1 .. n, j \in Nat : 1 <= j /\ j <= Len(parts[i]) =>
       at[i] + j \in 1 .. Len(q) /\ q[at[i] + j] = parts[i][j]
  /\ \A i, j \in 1 .. n : i < j /\ Len(parts[i]) # 0 => at[i] + Len(parts[i]) <= at[j]
  /\ \A k \in 1 .. Len(q) : \E i \in 1 .. n : at[i] < k /\ k <= at[i] + Len(parts[i])

\* What FlattenSeq joins can be found in it again.
LEMMA FlattenCut ==
  ASSUME NEW S, NEW n \in Nat, NEW parts, parts \in [1 .. n -> Seq(S)]
  PROVE  FlattenSeq(parts) \in Seq(S) /\ \E at : Cut(FlattenSeq(parts), parts, n, at)
<1>1. CASE n = 0
  <2>1. Len(parts) = 0 /\ parts = <<>> /\ FlattenSeq(parts) = <<>>
    <3>1. parts \in [1 .. 0 -> Seq(S)] /\ Len(parts) = 0
      BY <1>1
    <3>2. parts = <<>>
      BY <1>1
    <3> QED
      BY <3>1, <3>2 DEF FlattenSeq
  <2>2. Cut(<<>>, parts, n, [i \in 1 .. n |-> 0])
    BY <1>1, <2>1 DEF Cut
  <2> QED
    BY <2>1, <2>2
<1>2. CASE n # 0
  <2>0. \A i \in 1 .. n : parts[i] \in Seq(S) /\ Len(parts[i]) \in Nat
    OBVIOUS
  <2>1. PICK f : /\ JoinsUp(f, parts, n) /\ FlattenSeq(parts) = f[n]
                 /\ \A k \in 0 .. n : f[k] \in Seq(S)
    BY <1>2, FlattenLaw
  <2> DEFINE at == [i \in 1 .. n |-> Len(f[i - 1])]
             Good == {m \in Nat : m <= n => Cut(f[m], parts, m, [i \in 1 .. m |-> at[i]])}
  <2>2. \A i \in 1 .. n : at[i] = Len(f[i - 1]) /\ at[i] \in Nat
    <3>1. \A i \in 1 .. n : i - 1 \in 0 .. n
      OBVIOUS
    <3> QED
      BY <2>1, <3>1
  <2>3. at \in [1 .. n -> Nat]
    BY <2>2
  <2> HIDE DEF at
  <2>4. 0 \in Good
    <3>1. f[0] = <<>>
      BY <2>1 DEF JoinsUp
    <3> QED
      BY <3>1 DEF Cut
  <2>5. ASSUME NEW l \in Nat, l \in Good PROVE l + 1 \in Good
    <3> SUFFICES ASSUME l + 1 <= n PROVE Cut(f[l + 1], parts, l + 1, [i \in 1 .. l + 1 |-> at[i]])
      OBVIOUS
    <3> DEFINE m == l + 1
               s == f[l]
               t == parts[m]
               q == f[m]
               old == [i \in 1 .. l |-> at[i]]
               new == [i \in 1 .. m |-> at[i]]
    <3>1. m \in 1 .. n /\ m - 1 = l /\ l \in 0 .. n /\ l <= n
      OBVIOUS
    <3>2. q = s \o t /\ s \in Seq(S) /\ t \in Seq(S)
      <4>1. \A i \in 1 .. n : f[i] = f[i - 1] \o parts[i]
        BY <2>1, Zenon DEF JoinsUp
      <4>2. f[m] = f[m - 1] \o parts[m]
        BY <3>1, <4>1, Zenon
      <4> QED
        BY <2>0, <2>1, <3>1, <4>2
    <3>3. Cut(s, parts, l, old)
      BY <2>5, <3>1
    <3>4. at[m] = Len(s)
      BY <2>2, <3>1
    <3> HIDE DEF s, q, old
    <3> HIDE DEF t
    <3>5. /\ Len(q) = Len(s) + Len(t) /\ Len(s) \in Nat /\ Len(t) \in Nat
          /\ \A j \in 1 .. Len(s) + Len(t) : q[j] = IF j <= Len(s) THEN s[j] ELSE t[j - Len(s)]
      BY <3>2, ConcatProperties
    <3>6. \A i \in 1 .. l : old[i] = at[i] /\ new[i] = at[i] /\ i \in 1 .. m /\ i \in 1 .. n
      BY <3>1 DEF old
    <3>7. new[m] = Len(s) /\ new \in [1 .. m -> Nat]
      <4>1. \A i \in 1 .. m : i \in 1 .. n
        BY <3>1
      <4> QED
        BY <2>2, <3>4, <4>1
    <3>20. \A i \in 1 .. m : i \in 1 .. l \/ i = m
      OBVIOUS
    <3>21. \A j \in 1 .. m : j <= l + 1
      OBVIOUS
    <3> HIDE DEF new, m
    <3>8. ASSUME NEW i \in 1 .. m, NEW j \in Nat, 1 <= j, j <= Len(parts[i])
          PROVE  new[i] + j \in 1 .. Len(q) /\ q[new[i] + j] = parts[i][j]
      <4>1. CASE i = m
        <5>1. new[i] = Len(s) /\ parts[i] = t
          BY <3>7, <4>1 DEF t
        <5>2. /\ Len(s) + j \in 1 .. Len(s) + Len(t) /\ ~(Len(s) + j <= Len(s))
              /\ Len(s) + j - Len(s) = j
          BY <3>5, <3>8, <5>1
        <5> QED
          BY <3>5, <5>1, <5>2
      <4>2. CASE i \in 1 .. l
        <5>1. old[i] + j \in 1 .. Len(s) /\ s[old[i] + j] = parts[i][j]
          BY <3>3, <3>8, <4>2 DEF Cut
        <5>2. new[i] + j \in 1 .. Len(s) /\ s[new[i] + j] = parts[i][j]
          BY <3>6, <4>2, <5>1
        <5> QED
          BY <3>5, <5>2
      <4> QED
        BY <3>20, <4>1, <4>2
    <3>9. ASSUME NEW i \in 1 .. m, NEW j \in 1 .. m, i < j, Len(parts[i]) # 0
          PROVE  new[i] + Len(parts[i]) <= new[j]
      <4>1. i \in 1 .. l
        <5>1. i < l + 1
          BY <3>9, <3>21
        <5> QED
          BY <5>1
      <4>2. CASE j \in 1 .. l
        <5>1. old[i] + Len(parts[i]) <= old[j]
          BY <3>3, <3>9, <4>1, <4>2 DEF Cut
        <5> QED
          BY <3>6, <4>1, <4>2, <5>1
      <4>3. CASE j = m
        <5>1. Len(parts[i]) \in Nat
          BY <2>0, <3>6, <4>1
        <5>2. 1 <= Len(parts[i]) /\ Len(parts[i]) <= Len(parts[i])
          BY <3>9, <5>1
        <5>3. old[i] + Len(parts[i]) \in 1 .. Len(s)
          BY <3>3, <4>1, <5>1, <5>2 DEF Cut
        <5> QED
          BY <3>5, <3>6, <3>7, <4>1, <4>3, <5>3
      <4> QED
        BY <3>20, <4>2, <4>3
    <3>10. ASSUME NEW k \in 1 .. Len(q)
           PROVE  \E i \in 1 .. m : new[i] < k /\ k <= new[i] + Len(parts[i])
      <4>1. CASE k <= Len(s)
        <5>1. PICK i \in 1 .. l : old[i] < k /\ k <= old[i] + Len(parts[i])
          <6>1. k \in 1 .. Len(s)
            BY <3>5, <4>1
          <6> QED
            BY <3>3, <6>1 DEF Cut
        <5> QED
          BY <3>6, <5>1
      <4>2. CASE ~(k <= Len(s))
        <5>1. new[m] < k /\ k <= new[m] + Len(parts[m]) /\ m \in 1 .. m
          BY <3>1, <3>5, <3>7, <4>2 DEF t
        <5> QED
          BY <5>1
      <4> QED
        BY <4>1, <4>2
    <3>11. Cut(q, parts, m, new)
      BY <3>7, <3>8, <3>9, <3>10 DEF Cut
    <3> QED
      BY <3>11 DEF q, m, new
  <2>6. Nat \subseteq Good
    BY <2>4, <2>5, SetInduction
  <2>7. [i \in 1 .. n |-> at[i]] = at /\ n <= n /\ n \in 0 .. n
    BY <2>3
  <2> QED
    BY <2>1, <2>6, <2>7
<1> QED
  BY <1>1, <1>2
=============================================================================
