--------------------------- MODULE InductionLemmas ---------------------------
(***************************************************************************)
(* Induction on a number, for the proofs about what a recursive definition *)
(* computes from a sequence. The library's induction theorems take an      *)
(* operator; these take the set of the numbers for which something holds,  *)
(* and rest on the well-foundedness of finite sets under inclusion.        *)
(***************************************************************************)
EXTENDS Integers, Sequences, FiniteSetTheorems, TLAPS

(* Every set of natural numbers that is not empty has a least one.         *)
LEMMA LeastNatural ==
  ASSUME NEW S \in SUBSET Nat, S # {}
  PROVE  \E n \in S : \A m \in S : n <= m
<1> DEFINE T == {1..n : n \in S}
           R == StrictSubsetOrdering(Nat)
           F == FiniteSubsetsOf(Nat)
<1>1. IsWellFoundedOn(R, F)
  BY FS_StrictSubsetOrderingWellFounded
<1>2. T \subseteq F
  <2>1. ASSUME NEW n \in S
        PROVE  IsFiniteSet(1..n) /\ 1..n \in SUBSET Nat
    <3>1. IsFiniteSet(1..n)
      BY FS_Interval
    <3> QED
      BY <3>1
  <2> QED
    BY <2>1 DEF FiniteSubsetsOf
<1>3. T # {}
  OBVIOUS
<1>4. PICK x \in T : \A y \in T : ~(<<y, x>> \in R)
  <2> HIDE DEF T, R, F
  <2> QED
    BY <1>1, <1>2, <1>3, WFMin
<1>5. PICK n \in S : x = 1..n
  OBVIOUS
<1>6. ASSUME NEW m \in S, m < n PROVE FALSE
  <2>1. <<1..m, 1..n>> \in R
    <3>1. n \in 1..n /\ n \notin 1..m
      BY <1>6
    <3>2. 1..m \subseteq 1..n /\ 1..m # 1..n
      BY <1>6, <3>1
    <3>3. 1..m \in SUBSET Nat /\ 1..n \in SUBSET Nat
      OBVIOUS
    <3> QED
      BY <3>2, <3>3 DEF StrictSubsetOrdering
  <2> QED
    BY <1>4, <1>5, <2>1
<1> QED
  BY <1>6

(* What holds of 0 and, with a number below N, of the next one, holds of   *)
(* all numbers up to N.                                                    *)
LEMMA UpTo ==
  ASSUME NEW N \in Nat, NEW S, 0 \in S,
         \A n \in 0..(N - 1) : n \in S => n + 1 \in S
  PROVE  \A n \in 0..N : n \in S
<1> DEFINE B == {n \in 0..N : n \notin S}
<1>1. SUFFICES ASSUME B # {} PROVE FALSE
  OBVIOUS
<1>2. PICK n \in B : \A m \in B : n <= m
  <2>1. B \in SUBSET Nat
    OBVIOUS
  <2> HIDE DEF B
  <2> QED
    BY <1>1, <2>1, LeastNatural
<1>3. n \in Nat /\ n # 0 /\ n - 1 \in 0..(N - 1) /\ n - 1 \in 0..N
  OBVIOUS
<1>4. n - 1 \in S
  BY <1>2, <1>3
<1>5. (n - 1) + 1 \in S
  BY <1>3, <1>4
<1> QED
  BY <1>3, <1>5

(* f is the recursive function that starts from base and takes the result  *)
(* for i - 1 to the one for i by next[i].                                  *)
FoldOf(f, N, S, base, next) ==
  /\ f \in [0..N -> S]
  /\ f[0] = base
  /\ \A i \in 1..N : f[i] = next[i][f[i - 1]]

(* There is such a function.                                               *)
LEMMA FoldExists ==
  ASSUME NEW N \in Nat, NEW S, NEW base \in S, NEW next \in [1..N -> [S -> S]]
  PROVE  \E f : FoldOf(f, N, S, base, next)
<1> DEFINE Good(n) == \E f : FoldOf(f, n, S, base, next)
           G == {n \in 0..N : Good(n)}
<1>1. 0 \in G
  <2> DEFINE f == [i \in 0..0 |-> base]
  <2>1. f \in [0..0 -> S] /\ f[0] = base
    OBVIOUS
  <2>2. Good(0)
    <3> HIDE DEF f
    <3> QED
      BY <2>1 DEF FoldOf
  <2> HIDE DEF Good
  <2> QED
    BY <2>2
<1>2. ASSUME NEW n \in 0..(N - 1), n \in G PROVE n + 1 \in G
  <2>1. PICK f : FoldOf(f, n, S, base, next)
    BY <1>2
  <2> DEFINE g == [i \in 0..(n + 1) |-> IF i = n + 1 THEN next[n + 1][f[n]] ELSE f[i]]
  <2>2. n + 1 \in 1..N /\ n \in 0..n /\ n \in Nat
    OBVIOUS
  <2> USE DEF FoldOf
  <2>3. next[n + 1][f[n]] \in S
    BY <2>1, <2>2
  <2>4. g \in [0..(n + 1) -> S]
    BY <2>1, <2>2, <2>3
  <2>5. ASSUME NEW i \in 1..(n + 1)
        PROVE  g[i] = next[i][g[i - 1]]
    <3>1. CASE i = n + 1
      <4>1. g[i] = next[n + 1][f[n]] /\ g[n] = f[n] /\ i - 1 = n
        BY <2>2, <3>1
      <4> HIDE DEF g
      <4> QED
        BY <3>1, <4>1
    <3>2. CASE i # n + 1
      <4>1. i \in 1..n /\ i \in 0..(n + 1) /\ i - 1 \in 0..(n + 1) /\ i - 1 # n + 1
        BY <2>2, <3>2
      <4>2. g[i] = f[i] /\ g[i - 1] = f[i - 1]
        BY <3>2, <4>1
      <4> HIDE DEF g
      <4> QED
        BY <2>1, <4>1, <4>2
    <3> QED
      BY <3>1, <3>2
  <2>6. g[0] = base
    BY <2>1, <2>2
  <2>7. Good(n + 1)
    <3> HIDE DEF g
    <3> QED
      BY <2>4, <2>5, <2>6
  <2> HIDE DEF Good
  <2> QED
    BY <2>2, <2>7
<1>3. \A n \in 0..N : n \in G
  <2> HIDE DEF G
  <2> QED
    BY <1>1, <1>2, UpTo
<1> QED
  BY <1>3

(* A sequence that begins with one element.                                *)
LEMMA Prefixed ==
  ASSUME NEW X, NEW x \in X, NEW t \in Seq(X)
  PROVE  /\ <<x>> \o t \in Seq(X)
         /\ <<x>> \o t # <<>>
         /\ Head(<<x>> \o t) = x
         /\ Tail(<<x>> \o t) = t
<1>1. <<x>> \in Seq(X) /\ Len(<<x>>) = 1
  OBVIOUS
<1>2. <<x>> \o t \in Seq(X)
  BY <1>1
<1>3. Len(<<x>> \o t) = 1 + Len(t)
  BY <1>1
<1>4. <<x>> \o t # <<>>
  BY <1>3
<1>5. Head(<<x>> \o t) = x
  BY <1>2, <1>3, <1>4
<1>6. Tail(<<x>> \o t) = t
  <2> DEFINE s == <<x>> \o t
  <2>1. Tail(s) \in Seq(X) /\ Len(Tail(s)) = Len(t)
    BY <1>2, <1>3, <1>4
  <2>2. \A i \in 1..Len(t) : Tail(s)[i] = t[i]
    BY <1>2, <1>3, <1>4
  <2> HIDE DEF s
  <2>3. Tail(s) = t
    BY <2>1, <2>2
  <2> QED
    BY <2>3 DEF s
<1> QED
  BY <1>2, <1>4, <1>5, <1>6
=============================================================================
