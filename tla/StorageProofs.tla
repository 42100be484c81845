---------------------------- MODULE StorageProofs ---------------------------
(***************************************************************************)
(* Proofs about the files of an index: WordData, for any data, sizes,      *)
(* cache and file, PagedArray, for any arrays and elements, Properties,    *)
(* for any properties, lengths and texts, and NativeWords, for any words   *)
(* and hash function.                                                      *)
(***************************************************************************)
EXTENDS WordData, PagedArray, Properties, NativeWords, InductionLemmas

-----------------------------------------------------------------------------
(***************************************************************************)
(* Sizes.                                                                  *)
(***************************************************************************)
LEMMA DivUpMonotonic ==
  ASSUME NEW n \in Nat, NEW m \in Nat, NEW k \in Nat \ {0}, n <= m
  PROVE  DivUp(n, k) \in Nat /\ DivUp(n, k) <= DivUp(m, k)
BY DEF DivUp

LEMMA DivUpPositive ==
  ASSUME NEW n \in Nat \ {0}, NEW k \in Nat \ {0}
  PROVE  DivUp(n, k) >= 1
BY DEF DivUp

(* A record takes a block at least, never frees more than it takes, and a  *)
(* big one takes a page at least.                                          *)
LEMMA SizeFacts ==
  ASSUME NEW d \in Data
  PROVE  /\ Blocks(d) \in Nat /\ Blocks(d) >= 1
         /\ FreedBlocks(d) \in Nat /\ FreedBlocks(d) <= Blocks(d)
         /\ Run(d) \in Nat /\ Run(d) >= 1
<1>1. Bytes[d] \in Nat /\ BlockSize \in Nat \ {0} /\ MaxBlocks \in Nat
  BY WordDataAssumption
<1>2. PageSize \in Nat \ {0}
  BY <1>1 DEF PageSize
<1> DEFINE n == Bytes[d]
           a == n + 3
           b == n + LongBytes
<1>3. a \in Nat \ {0} /\ b \in Nat \ {0} /\ n <= a /\ a <= a /\ b <= b
  BY <1>1, WordDataAssumption
<1>4. /\ Blocks(d) = DivUp(a, BlockSize) /\ FreedBlocks(d) = DivUp(n, BlockSize)
      /\ Run(d) = DivUp(b, PageSize)
  BY DEF Blocks, FreedBlocks, Run
<1>5. n \in Nat
  BY <1>1
<1> HIDE DEF n, a, b
<1>6. /\ DivUp(a, BlockSize) \in Nat /\ DivUp(a, BlockSize) >= 1
      /\ DivUp(b, PageSize) \in Nat /\ DivUp(b, PageSize) >= 1
  BY <1>1, <1>2, <1>3, DivUpMonotonic, DivUpPositive
<1>7. DivUp(n, BlockSize) \in Nat /\ DivUp(n, BlockSize) <= DivUp(a, BlockSize)
  <2>1. a \in Nat
    BY <1>3
  <2> QED
    BY <1>1, <1>3, <1>5, <2>1, DivUpMonotonic
<1> QED
  BY <1>4, <1>6, <1>7

-----------------------------------------------------------------------------
(***************************************************************************)
(* Sequences.                                                              *)
(***************************************************************************)
LEMMA InsertAtElements ==
  ASSUME NEW S, NEW s \in Seq(S), NEW e \in S, NEW i \in 1..(Len(s) + 1)
  PROVE  /\ InsertAt(s, i, e) \in Seq(S) /\ Len(InsertAt(s, i, e)) = Len(s) + 1
         /\ \A k \in 1..(Len(s) + 1) :
              InsertAt(s, i, e)[k] =
                IF k < i THEN s[k] ELSE IF k = i THEN e ELSE s[k - 1]
<1> DEFINE a == SubSeq(s, 1, i - 1)
           b == SubSeq(s, i, Len(s))
           t == a \o <<e>>
<1>1. /\ a \in Seq(S) /\ Len(a) = i - 1 /\ \A k \in 1..(i - 1) : a[k] = s[k]
      /\ b \in Seq(S) /\ Len(b) = Len(s) - i + 1
      /\ \A k \in 1..(Len(s) - i + 1) : b[k] = s[k + i - 1]
  OBVIOUS
<1>0. i \in Nat /\ Len(s) \in Nat
  OBVIOUS
<1> HIDE DEF a, b
<1>2. /\ t \in Seq(S) /\ Len(t) = i /\ t[i] = e
      /\ \A k \in 1..(i - 1) : t[k] = s[k]
  <2>1. t \in Seq(S)
    BY <1>1
  <2>3. Len(t) = Len(a) + 1 /\ t[Len(a) + 1] = e
    BY <1>1
  <2>4. \A k \in 1..Len(a) : t[k] = a[k]
    BY <1>1
  <2>2. Len(a) = i - 1 /\ Len(a) + 1 = i
    BY <1>0, <1>1
  <2> HIDE DEF t
  <2> QED
    BY <1>0, <1>1, <2>1, <2>2, <2>3, <2>4
<1> HIDE DEF t
<1>3. /\ t \o b \in Seq(S) /\ Len(t \o b) = Len(s) + 1
      /\ \A k \in 1..i : (t \o b)[k] = t[k]
      /\ \A k \in (i + 1)..(Len(s) + 1) : (t \o b)[k] = b[k - i]
  BY <1>0, <1>1, <1>2
<1>4. ASSUME NEW k \in 1..(Len(s) + 1)
      PROVE  (t \o b)[k] = IF k < i THEN s[k] ELSE IF k = i THEN e ELSE s[k - 1]
  <2> DEFINE u == t \o b
  <2>0. u[k] = (t \o b)[k] /\ k \in Nat
    BY <1>0
  <2> HIDE DEF u
  <2>1. CASE k <= i
    <3>1. k \in 1..i /\ (k = i \/ k \in 1..(i - 1))
      BY <1>0, <2>1
    <3>2. u[k] = t[k]
      BY <1>3, <2>0, <3>1
    <3>3. u[k] = IF k < i THEN s[k] ELSE IF k = i THEN e ELSE s[k - 1]
      BY <1>0, <1>2, <3>1, <3>2
    <3> QED
      BY <2>0, <3>3
  <2>2. CASE k > i
    <3>1. k \in (i + 1)..(Len(s) + 1) /\ k - i \in 1..(Len(s) - i + 1)
          /\ (k - i) + i - 1 = k - 1
      BY <1>0, <2>2
    <3> QED
      BY <1>0, <1>1, <1>3, <2>2, <3>1
  <2>3. k <= i \/ k > i
    BY <1>0, <2>0
  <2> QED
    BY Zenon, <2>1, <2>2, <2>3
<1> QED
  BY <1>3, <1>4 DEF InsertAt, a, b, t

LEMMA RemoveAtElements ==
  ASSUME NEW S, NEW s \in Seq(S), NEW i \in 1..Len(s)
  PROVE  /\ RemoveAt(s, i) \in Seq(S) /\ Len(RemoveAt(s, i)) = Len(s) - 1
         /\ \A k \in 1..(Len(s) - 1) :
              RemoveAt(s, i)[k] = IF k < i THEN s[k] ELSE s[k + 1]
<1> DEFINE a == SubSeq(s, 1, i - 1)
           b == SubSeq(s, i + 1, Len(s))
<1>1. /\ a \in Seq(S) /\ Len(a) = i - 1 /\ \A k \in 1..(i - 1) : a[k] = s[k]
      /\ b \in Seq(S) /\ Len(b) = Len(s) - i
      /\ \A k \in 1..(Len(s) - i) : b[k] = s[k + i]
  OBVIOUS
<1>0. i \in Nat /\ Len(s) \in Nat /\ i <= Len(s) /\ i >= 1
  OBVIOUS
<1> HIDE DEF a, b
<1>2. /\ a \o b \in Seq(S) /\ Len(a \o b) = Len(s) - 1
      /\ \A k \in 1..(i - 1) : (a \o b)[k] = a[k]
      /\ \A k \in i..(Len(s) - 1) : (a \o b)[k] = b[k - i + 1]
  <2>1. a \o b \in Seq(S)
    BY <1>1
  <2>7. Len(a \o b) = Len(a) + Len(b)
    <3>1. a \in Seq(S) /\ b \in Seq(S)
      BY <1>1
    <3> QED
      BY <3>1
  <2>5. \A k \in 1..Len(a) : (a \o b)[k] = a[k]
    BY <1>1
  <2>6. \A k \in (Len(a) + 1)..(Len(a) + Len(b)) : (a \o b)[k] = b[k - Len(a)]
    BY <1>1
  <2>2. Len(a) + 1 = i /\ Len(a) + Len(b) = Len(s) - 1 /\ Len(a) = i - 1
    BY <1>0, <1>1
  <2>3. \A k \in i..(Len(s) - 1) : k - Len(a) = k - i + 1
    BY <1>0, <2>2
  <2> DEFINE ab == a \o b
  <2> HIDE DEF ab
  <2>4. \A k \in i..(Len(s) - 1) : ab[k] = b[k - i + 1]
    BY <2>2, <2>3, <2>6 DEF ab
  <2> QED
    BY <2>1, <2>2, <2>4, <2>5, <2>7 DEF ab
<1>3. ASSUME NEW k \in 1..(Len(s) - 1)
      PROVE  (a \o b)[k] = IF k < i THEN s[k] ELSE s[k + 1]
  <2>0. k \in Nat
    BY <1>0
  <2>1. CASE k < i
    BY <1>0, <1>1, <1>2, <2>1
  <2>2. CASE k >= i
    <3>1. k \in i..(Len(s) - 1) /\ k - i + 1 \in 1..(Len(s) - i)
          /\ (k - i + 1) + i = k + 1
      BY <1>0, <2>2
    <3> QED
      BY <1>0, <1>1, <1>2, <2>2, <3>1
  <2>3. k < i \/ k >= i
    BY <1>0, <2>0
  <2> QED
    BY Zenon, <2>1, <2>2, <2>3
<1> QED
  BY <1>2, <1>3 DEF RemoveAt, a, b

(* The least of a set of numbers.                                          *)
LEMMA MinIsLeast ==
  ASSUME NEW S \in SUBSET Nat, S # {}
  PROVE  Min(S) \in S /\ \A n \in S : Min(S) <= n
<1>1. \E n \in S : \A m \in S : n <= m
  BY LeastNatural
<1> QED
  BY <1>1 DEF Min

-----------------------------------------------------------------------------
(***************************************************************************)
(* The blocks of a page's records: the sum over them, which grows and      *)
(* shrinks by the blocks of a record put in or taken out anywhere.         *)
(***************************************************************************)
Rec == [id : Nat, data : Data]

LEMMA RecFields ==
  ASSUME NEW recs \in Seq(Rec)
  PROVE  /\ Len(recs) \in Nat
         /\ \A k \in 1..Len(recs) : recs[k].id \in Nat /\ recs[k].data \in Data
<1>1. Len(recs) \in Nat /\ \A k \in 1..Len(recs) : recs[k] \in Rec
  OBVIOUS
<1>2. \A r \in Rec : r.id \in Nat /\ r.data \in Data
  BY DEF Rec
<1> QED
  BY <1>1, <1>2

(* f[k] is the number of blocks of the first k records.                    *)
SumOf(f, recs) ==
  /\ f \in [0..Len(recs) -> Nat]
  /\ f[0] = 0
  /\ \A k \in 1..Len(recs) : f[k] = f[k - 1] + Blocks(recs[k].data)

LEMMA OccupiedSum ==
  ASSUME NEW recs \in Seq(Rec)
  PROVE  \E f : SumOf(f, recs) /\ Occupied(recs) = f[Len(recs)]
<1> DEFINE N == Len(recs)
           B(k) == Blocks(recs[k].data)
           upTo[k \in 0..Len(recs)] ==
             IF k = 0 THEN 0 ELSE upTo[k - 1] + Blocks(recs[k].data)
           next == [k \in 1..N |-> [n \in Nat |-> n + B(k)]]
<1>1. Occupied(recs) = upTo[N]
  BY DEF Occupied
<1>2. N \in Nat /\ \A k \in 1..N : B(k) \in Nat
  <2>1. N \in Nat /\ \A k \in 1..N : recs[k].data \in Data
    BY RecFields
  <2> QED
    BY <2>1, SizeFacts
<1> HIDE DEF B
<1>3. next \in [1..N -> [Nat -> Nat]]
  BY <1>2
<1>4. PICK g : FoldOf(g, N, Nat, 0, next)
  <2> HIDE DEF next, N
  <2>1. 0 \in Nat
    OBVIOUS
  <2> QED
    BY <1>2, <1>3, <2>1, FoldExists
<1>5. \A k \in 1..N : g[k] = g[k - 1] + B(k)
  <2> SUFFICES ASSUME NEW k \in 1..N PROVE g[k] = g[k - 1] + B(k)
    OBVIOUS
  <2>1. k - 1 \in 0..N /\ g[k - 1] \in Nat
    <3> HIDE DEF upTo, next, N
    <3> QED
      BY <1>2, <1>4 DEF FoldOf
  <2>2. next[k][g[k - 1]] = g[k - 1] + B(k)
    BY <2>1
  <2> QED
    BY <1>4, <2>2 DEF FoldOf
<1>6. g = [k \in 0..N |-> IF k = 0 THEN 0 ELSE g[k - 1] + B(k)]
  <2> DEFINE h == [k \in 0..N |-> IF k = 0 THEN 0 ELSE g[k - 1] + B(k)]
  <2>1. \A k \in 0..N : k = 0 \/ k \in 1..N
    BY <1>2
  <2>2. \A k \in 0..N : g[k] = h[k]
    BY <1>4, <1>5, <2>1 DEF FoldOf
  <2> HIDE DEF next, upTo
  <2> QED
    BY <1>4, <2>2 DEF FoldOf
<1>7. upTo = [k \in 0..N |-> IF k = 0 THEN 0 ELSE upTo[k - 1] + B(k)]
  BY <1>6 DEF B
<1> HIDE DEF upTo
<1>8. upTo[0] = 0 /\ \A k \in 1..N : upTo[k] = upTo[k - 1] + B(k)
  <2>1. \A k \in 0..N : upTo[k] = IF k = 0 THEN 0 ELSE upTo[k - 1] + B(k)
    BY Zenon, <1>7
  <2>2. 0 \in 0..N /\ \A k \in 1..N : k \in 0..N /\ k # 0
    BY <1>2
  <2> HIDE DEF N
  <2> QED
    BY <2>1, <2>2
<1> HIDE DEF next, N
<1>9. \A k \in 0..N : upTo[k] \in Nat
  <2> DEFINE S == {k \in 0..N : upTo[k] \in Nat}
  <2>1. 0 \in S
    BY <1>2, <1>8
  <2>2. ASSUME NEW k \in 0..(N - 1), k \in S PROVE k + 1 \in S
    <3>1. k + 1 \in 1..N /\ (k + 1) - 1 = k /\ k + 1 \in 0..N
      BY <1>2
    <3>2. upTo[k + 1] = upTo[k] + B(k + 1)
      BY <1>8, <3>1
    <3> QED
      BY <1>2, <2>2, <3>1, <3>2
  <2>3. \A k \in 0..N : k \in S
    <3> HIDE DEF S
    <3> QED
      BY <1>2, <2>1, <2>2, UpTo
  <2> QED
    BY <2>3
<1>10. upTo \in [0..N -> Nat]
  <2>1. upTo = [k \in 0..N |-> upTo[k]]
    BY <1>7
  <2> QED
    BY <1>9, <2>1
<1>11. SumOf(upTo, recs)
  BY <1>8, <1>10 DEF SumOf, N, B
<1> QED
  BY <1>1, <1>11 DEF N

(* Each record takes a block at least.                                     *)
LEMMA OccupiedLength ==
  ASSUME NEW recs \in Seq(Rec)
  PROVE  Occupied(recs) \in Nat /\ Len(recs) <= Occupied(recs)
<1> DEFINE N == Len(recs)
<1>1. PICK f : SumOf(f, recs) /\ Occupied(recs) = f[N]
  BY OccupiedSum
<1>2. N \in Nat /\ \A k \in 1..N : Blocks(recs[k].data) \in Nat /\ Blocks(recs[k].data) >= 1
  <2>1. N \in Nat /\ \A k \in 1..N : recs[k].data \in Data
    BY RecFields
  <2> QED
    BY <2>1, SizeFacts
<1>3. /\ f[0] = 0 /\ \A k \in 0..N : f[k] \in Nat
      /\ \A k \in 1..N : f[k] = f[k - 1] + Blocks(recs[k].data)
  BY <1>1 DEF SumOf
<1> HIDE DEF N
<1> DEFINE S == {k \in 0..N : k <= f[k]}
<1>4. 0 \in S
  BY <1>2, <1>3
<1>5. ASSUME NEW k \in 0..(N - 1), k \in S PROVE k + 1 \in S
  <2>1. k + 1 \in 1..N /\ (k + 1) - 1 = k /\ k + 1 \in 0..N /\ k \in 0..N
    BY <1>2
  <2>2. f[k + 1] = f[k] + Blocks(recs[k + 1].data)
    BY <1>3, <2>1
  <2> QED
    BY <1>2, <1>3, <1>5, <2>1, <2>2
<1>6. \A k \in 0..N : k \in S
  <2> HIDE DEF S
  <2> QED
    BY <1>2, <1>4, <1>5, UpTo
<1> QED
  BY <1>1, <1>2, <1>3, <1>6 DEF N

LEMMA OccupiedInsert ==
  ASSUME NEW recs \in Seq(Rec), NEW r \in Rec, NEW i \in 1..(Len(recs) + 1)
  PROVE  Occupied(InsertAt(recs, i, r)) = Occupied(recs) + Blocks(r.data)
<1> DEFINE N == Len(recs)
           into == InsertAt(recs, i, r)
           b == Blocks(r.data)
<1>1. /\ into \in Seq(Rec) /\ Len(into) = N + 1
      /\ \A k \in 1..(N + 1) :
           into[k] = IF k < i THEN recs[k] ELSE IF k = i THEN r ELSE recs[k - 1]
  BY InsertAtElements
<1>2. PICK f : SumOf(f, recs) /\ Occupied(recs) = f[N]
  BY OccupiedSum
<1> HIDE DEF into
<1>3. PICK g : SumOf(g, into) /\ Occupied(into) = g[N + 1]
  BY <1>1, OccupiedSum
<1>4. N \in Nat /\ i \in 1..(N + 1) /\ b \in Nat
      /\ \A k \in 1..N : Blocks(recs[k].data) \in Nat
  <2>1. N \in Nat /\ r.data \in Data /\ \A k \in 1..N : recs[k].data \in Data
    BY RecFields DEF Rec
  <2> QED
    BY <2>1, SizeFacts
<1>5. /\ f[0] = 0 /\ \A k \in 0..N : f[k] \in Nat
      /\ \A k \in 1..N : f[k] = f[k - 1] + Blocks(recs[k].data)
  BY <1>2 DEF SumOf
<1>6. /\ g[0] = 0
      /\ \A k \in 1..(N + 1) : g[k] = g[k - 1] + Blocks(into[k].data)
  BY <1>1, <1>3 DEF SumOf
<1> HIDE DEF N, b
<1> DEFINE S == {k \in 0..(N + 1) : g[k] = IF k < i THEN f[k] ELSE f[k - 1] + b}
<1>7. 0 \in S
  BY <1>4, <1>5, <1>6
<1>8. ASSUME NEW k \in 0..((N + 1) - 1), k \in S PROVE k + 1 \in S
  <2>1. k + 1 \in 1..(N + 1) /\ (k + 1) - 1 = k /\ k + 1 \in 0..(N + 1) /\ k \in 0..N
    BY <1>4
  <2>2. g[k + 1] = g[k] + Blocks(into[k + 1].data)
    BY <1>6, <2>1
  <2>3. CASE k + 1 < i
    <3>1. into[k + 1] = recs[k + 1] /\ k + 1 \in 1..N /\ k < i
      BY <1>1, <1>4, <2>1, <2>3
    <3>2. g[k] = f[k] /\ f[k + 1] = f[k] + Blocks(recs[k + 1].data)
      BY <1>5, <1>8, <2>1, <3>1
    <3> QED
      BY <2>1, <2>2, <2>3, <3>1, <3>2
  <2>4. CASE k + 1 = i
    <3>1. into[k + 1] = r /\ k < i /\ ~(k + 1 < i)
      BY <1>1, <1>4, <2>1, <2>4
    <3>2. g[k] = f[k]
      BY <1>8, <3>1
    <3> QED
      BY <2>1, <2>2, <3>1, <3>2 DEF b
  <2>5. CASE k + 1 > i
    <3>1. into[k + 1] = recs[k] /\ k \in 1..N /\ ~(k < i) /\ ~(k + 1 < i) /\ k - 1 \in 0..N
      BY <1>1, <1>4, <2>1, <2>5
    <3>2. g[k] = f[k - 1] + b /\ f[k] = f[k - 1] + Blocks(recs[k].data)
      BY <1>5, <1>8, <3>1
    <3>3. g[k + 1] = f[k] + b
      BY <1>4, <1>5, <2>2, <3>1, <3>2
    <3> QED
      BY <2>1, <3>1, <3>3
  <2>6. k + 1 < i \/ k + 1 = i \/ k + 1 > i
    BY <1>4, <2>1
  <2> HIDE DEF S
  <2> QED
    BY Zenon, <2>3, <2>4, <2>5, <2>6
<1>9. \A k \in 0..(N + 1) : k \in S
  <2>1. N + 1 \in Nat
    BY <1>4
  <2> HIDE DEF S
  <2> QED
    BY <1>7, <1>8, <2>1, UpTo
<1>10. N + 1 \in 0..(N + 1) /\ ~(N + 1 < i) /\ (N + 1) - 1 = N
  BY <1>4
<1>11. g[N + 1] = f[N] + b
  BY <1>9, <1>10
<1> QED
  BY <1>2, <1>3, <1>11 DEF into, N, b

LEMMA OccupiedRemove ==
  ASSUME NEW recs \in Seq(Rec), NEW i \in 1..Len(recs)
  PROVE  Occupied(recs) = Occupied(RemoveAt(recs, i)) + Blocks(recs[i].data)
<1> DEFINE N == Len(recs)
           left == RemoveAt(recs, i)
           b == Blocks(recs[i].data)
<1>1. /\ left \in Seq(Rec) /\ Len(left) = N - 1
      /\ \A k \in 1..(N - 1) : left[k] = IF k < i THEN recs[k] ELSE recs[k + 1]
  BY RemoveAtElements
<1>2. PICK f : SumOf(f, recs) /\ Occupied(recs) = f[N]
  BY OccupiedSum
<1> HIDE DEF left
<1>3. PICK g : SumOf(g, left) /\ Occupied(left) = g[N - 1]
  BY <1>1, OccupiedSum
<1>4. N \in Nat /\ i \in 1..N /\ b \in Nat /\ N - 1 \in Nat
      /\ \A k \in 1..N : Blocks(recs[k].data) \in Nat
  <2>1. N \in Nat /\ \A k \in 1..N : recs[k].data \in Data
    BY RecFields
  <2>2. \A k \in 1..N : Blocks(recs[k].data) \in Nat
    BY <2>1, SizeFacts
  <2> QED
    BY <2>1, <2>2
<1>5. /\ f[0] = 0 /\ \A k \in 0..N : f[k] \in Nat
      /\ \A k \in 1..N : f[k] = f[k - 1] + Blocks(recs[k].data)
  BY <1>2 DEF SumOf
<1>6. /\ g[0] = 0 /\ \A k \in 0..(N - 1) : g[k] \in Nat
      /\ \A k \in 1..(N - 1) : g[k] = g[k - 1] + Blocks(left[k].data)
  BY <1>1, <1>3 DEF SumOf
<1> HIDE DEF N, b
<1> DEFINE S == {k \in 0..(N - 1) : IF k < i THEN g[k] = f[k] ELSE g[k] + b = f[k + 1]}
<1>7. 0 \in S
  BY <1>4, <1>5, <1>6
<1>8. ASSUME NEW k \in 0..((N - 1) - 1), k \in S PROVE k + 1 \in S
  <2>1. /\ k + 1 \in 1..(N - 1) /\ (k + 1) - 1 = k /\ k + 1 \in 0..(N - 1)
        /\ k \in 0..(N - 1) /\ k + 1 \in 1..N /\ k + 2 \in 1..N /\ (k + 2) - 1 = k + 1
        /\ (k + 1) + 1 = k + 2
    BY <1>4
  <2>2. g[k + 1] = g[k] + Blocks(left[k + 1].data)
    BY <1>6, <2>1
  <2>3. /\ f[k + 1] = f[k] + Blocks(recs[k + 1].data)
        /\ f[k + 2] = f[k + 1] + Blocks(recs[k + 2].data)
    BY <1>5, <2>1
  <2>4. CASE k + 1 < i
    <3>1. k + 1 \in 1..(N - 1) /\ k < i
      BY <1>4, <2>1, <2>4
    <3>3. left[k + 1] = recs[k + 1]
      BY <1>1, <2>4, <3>1
    <3>2. g[k] = f[k]
      BY <1>8, <3>1
    <3> QED
      BY <2>1, <2>2, <2>3, <2>4, <3>1, <3>2, <3>3
  <2>5. CASE k + 1 = i
    <3>1. left[k + 1] = recs[k + 2] /\ k < i /\ ~(k + 1 < i)
      BY <1>1, <1>4, <2>1, <2>5
    <3>2. g[k] = f[k] /\ b = Blocks(recs[k + 1].data)
      BY <1>8, <2>5, <3>1 DEF b
    <3>3. /\ f[k] \in Nat /\ Blocks(recs[k + 1].data) \in Nat
          /\ Blocks(recs[k + 2].data) \in Nat
      BY <1>4, <1>5, <2>1
    <3>4. g[k + 1] + b = f[k + 2]
      BY <2>2, <2>3, <3>1, <3>2, <3>3
    <3> QED
      BY <2>1, <3>1, <3>4
  <2>6. CASE k + 1 > i
    <3>1. left[k + 1] = recs[k + 2] /\ ~(k < i) /\ ~(k + 1 < i)
      BY <1>1, <1>4, <2>1, <2>6
    <3>2. g[k] + b = f[k + 1]
      BY <1>8, <3>1
    <3>3. g[k] \in Nat /\ Blocks(recs[k + 2].data) \in Nat
      BY <1>4, <1>6, <2>1
    <3>4. g[k + 1] + b = f[k + 2]
      BY <1>4, <2>2, <2>3, <3>1, <3>2, <3>3
    <3> QED
      BY <2>1, <3>1, <3>4
  <2>7. k + 1 < i \/ k + 1 = i \/ k + 1 > i
    BY <1>4, <2>1
  <2> HIDE DEF S
  <2> QED
    BY Zenon, <2>4, <2>5, <2>6, <2>7
<1>9. \A k \in 0..(N - 1) : k \in S
  <2> HIDE DEF S
  <2> QED
    BY <1>4, <1>7, <1>8, UpTo
<1>10. f[N] = g[N - 1] + b
  <2>1. N - 1 \in 0..(N - 1) /\ (N - 1) + 1 = N /\ N \in 1..N
    BY <1>4
  <2>2. CASE N - 1 < i
    <3>1. i = N
      BY <1>4, <2>2
    <3>2. f[N] = f[N - 1] + b
      BY <1>5, <2>1, <3>1 DEF b
    <3>3. g[N - 1] = f[N - 1]
      BY <1>9, <2>1, <2>2
    <3> QED
      BY <3>2, <3>3
  <2>3. CASE ~(N - 1 < i)
    BY <1>9, <2>1, <2>3
  <2> QED
    BY <2>2, <2>3
<1> QED
  BY <1>2, <1>3, <1>10 DEF left, N, b

(* A page with one record that is put in.                                  *)
LEMMA OccupiedEmpty == Occupied(<<>>) = 0
<1>1. <<>> \in Seq(Rec)
  OBVIOUS
<1>2. PICK f : SumOf(f, <<>>) /\ Occupied(<<>>) = f[Len(<<>>)]
  BY <1>1, OccupiedSum
<1> QED
  BY <1>2 DEF SumOf

-----------------------------------------------------------------------------
(***************************************************************************)
(* The records of a page. L is the data stored, by id.                     *)
(***************************************************************************)
IdsAscending(recs) == \A k, l \in 1..Len(recs) : k < l => recs[k].id < recs[l].id

(* recs are exactly what is stored in page p.                              *)
Holds(recs, p, L) ==
  /\ recs \in Seq(Rec) /\ IdsAscending(recs)
  /\ \A k \in 1..Len(recs) :
       /\ recs[k].id \in 1..MaxBlocks /\ <<p, recs[k].id>> \in DOMAIN L
       /\ L[<<p, recs[k].id>>] = recs[k].data
  /\ \A n \in 1..MaxBlocks :
       <<p, n>> \in DOMAIN L => \E k \in 1..Len(recs) : recs[k].id = n

(* The search for a free number returns the first one, at its place.       *)
LEMMA FirstGap ==
  ASSUME NEW recs \in Seq(Rec), IdsAscending(recs),
         \A k \in 1..Len(recs) : recs[k].id >= 1
  PROVE  /\ Place(recs) \in 1..(Len(recs) + 1) /\ NewNumber(recs) = Place(recs)
         /\ \A k \in 1..Len(recs) :
              IF k < Place(recs) THEN recs[k].id = k ELSE recs[k].id > Place(recs)
<1> DEFINE N == Len(recs)
           T == {i \in 1..(N + 1) : i > N \/ recs[i].id - Before(recs, i) > 1}
           P == Min(T)
<1>1. N \in Nat /\ \A k \in 1..N : recs[k].id \in Nat /\ recs[k].id >= 1
  BY RecFields
<1>2. T \in SUBSET Nat /\ N + 1 \in T
  BY <1>1
<1>3. P \in T /\ \A n \in T : P <= n
  <2> HIDE DEF T
  <2>1. T # {}
    BY <1>2
  <2> QED
    BY <1>2, <2>1, MinIsLeast
<1>4. Place(recs) = P
  BY DEF Place
<1> HIDE DEF P
<1>5. P \in 1..(N + 1) /\ P \in Nat /\ P >= 1
  BY <1>1, <1>3
<1>6. ASSUME NEW k \in 1..(P - 1)
      PROVE  k \in 1..N /\ recs[k].id - Before(recs, k) <= 1
  <2>1. k \notin T /\ k \in 1..(N + 1) /\ k \in 1..N /\ ~(k > N)
    BY <1>1, <1>3, <1>5
  <2>2. Before(recs, k) \in Nat
    BY <1>1, <2>1 DEF Before
  <2>3. ~(recs[k].id - Before(recs, k) > 1)
    BY <2>1
  <2> QED
    BY <1>1, <2>1, <2>2, <2>3
<1> HIDE DEF N
<1> DEFINE S == {k \in 0..(P - 1) : k = 0 \/ recs[k].id = k}
<1>7. \A k \in 0..(P - 1) : k \in S
  <2>1. 0 \in S
    BY <1>5
  <2>2. ASSUME NEW k \in 0..((P - 1) - 1), k \in S PROVE k + 1 \in S
    <3>1. k + 1 \in 1..(P - 1) /\ k + 1 \in 0..(P - 1) /\ (k + 1) - 1 = k /\ k \in Nat
      BY <1>5
    <3>2. k + 1 \in 1..N /\ recs[k + 1].id - Before(recs, k + 1) <= 1
      BY <1>6, <3>1
    <3>3. CASE k = 0
      BY <1>1, <3>1, <3>2, <3>3 DEF Before
    <3>4. CASE k # 0
      <4>1. Before(recs, k + 1) = recs[k].id /\ recs[k].id = k
        BY <2>2, <3>1, <3>4 DEF Before
      <4>2. k \in 1..N /\ k < k + 1
        BY <1>1, <3>1, <3>2, <3>4
      <4>3. recs[k].id < recs[k + 1].id
        BY <3>2, <4>2 DEF IdsAscending, N
      <4> QED
        BY <1>1, <3>1, <3>2, <4>1, <4>3
    <3> QED
      BY <3>3, <3>4
  <2>3. P - 1 \in Nat
    BY <1>5
  <2> HIDE DEF S
  <2> QED
    BY <2>1, <2>2, <2>3, UpTo
<1>8. Before(recs, P) = P - 1
  <2>1. CASE P = 1
    BY <2>1 DEF Before
  <2>2. CASE P # 1
    <3>1. P - 1 \in 0..(P - 1) /\ P - 1 # 0
      BY <1>5, <2>2
    <3> QED
      BY <1>7, <2>2, <3>1 DEF Before
  <2> QED
    BY <2>1, <2>2
<1>9. NewNumber(recs) = P
  BY <1>4, <1>5, <1>8 DEF NewNumber
<1>10. ASSUME NEW k \in 1..N, k < P PROVE recs[k].id = k
  <2>1. k \in 0..(P - 1) /\ k # 0
    BY <1>1, <1>5, <1>10
  <2> QED
    BY <1>7, <2>1
<1>11. ASSUME NEW k \in 1..N, ~(k < P) PROVE recs[k].id > P
  <2>1. P \in 1..N /\ ~(P > N) /\ (P = k \/ P < k)
    BY <1>1, <1>5, <1>11
  <2>2. recs[P].id - Before(recs, P) > 1
    BY <1>3, <2>1
  <2>3. recs[P].id \in Nat /\ recs[P].id > P
    BY <1>1, <1>5, <1>8, <2>1, <2>2
  <2>4. P = k \/ recs[P].id < recs[k].id
    BY <2>1 DEF IdsAscending, N
  <2> QED
    BY <1>1, <1>5, <2>3, <2>4
<1> QED
  BY <1>4, <1>5, <1>9, <1>10, <1>11 DEF N

(* A record that is put in gets an id that is not in use, and the page     *)
(* then holds it too.                                                      *)
LEMMA InsertHolds ==
  ASSUME NEW recs, NEW p, NEW L, Holds(recs, p, L), NEW d \in Data,
         NewNumber(recs) <= MaxBlocks
  PROVE  LET n == NewNumber(recs)
         IN  /\ n \in 1..MaxBlocks /\ <<p, n>> \notin DOMAIN L
             /\ Holds(Inserted(recs, d), p, With(L, <<p, n>>, d))
<1> DEFINE N == Len(recs)
           n == NewNumber(recs)
           r == [id |-> n, data |-> d]
           into == Inserted(recs, d)
           M == With(L, <<p, n>>, d)
<1>1. /\ recs \in Seq(Rec) /\ N \in Nat /\ MaxBlocks \in Nat
      /\ \A k \in 1..N :
           /\ recs[k].id \in Nat /\ recs[k].id >= 1 /\ recs[k].id \in 1..MaxBlocks
           /\ <<p, recs[k].id>> \in DOMAIN L /\ L[<<p, recs[k].id>>] = recs[k].data
  BY RecFields, WordDataAssumption DEF Holds
<1>2. /\ n \in 1..(N + 1) /\ Place(recs) = n
      /\ \A k \in 1..N : IF k < n THEN recs[k].id = k ELSE recs[k].id > n
  BY <1>1, FirstGap DEF Holds
<1> HIDE DEF n
<1>3. n \in Nat /\ n \in 1..MaxBlocks
  BY <1>1, <1>2 DEF n
<1>4. \A k \in 1..N : recs[k].id # n
  BY <1>1, <1>2, <1>3
<1>5. <<p, n>> \notin DOMAIN L
  BY <1>3, <1>4 DEF Holds
<1>6. r \in Rec /\ r.id = n /\ r.data = d
  BY <1>3 DEF Rec
<1>7. into = InsertAt(recs, n, r)
  BY <1>2 DEF Inserted, n
<1> HIDE DEF r, into
<1>8. /\ into \in Seq(Rec) /\ Len(into) = N + 1
      /\ \A k \in 1..(N + 1) :
           into[k] = IF k < n THEN recs[k] ELSE IF k = n THEN r ELSE recs[k - 1]
  <2>1. recs \in Seq(Rec) /\ n \in 1..(Len(recs) + 1) /\ r \in Rec
    BY <1>1, <1>2, <1>6
  <2> HIDE DEF N
  <2>2. /\ InsertAt(recs, n, r) \in Seq(Rec) /\ Len(InsertAt(recs, n, r)) = Len(recs) + 1
        /\ \A k \in 1..(Len(recs) + 1) :
             InsertAt(recs, n, r)[k] =
               IF k < n THEN recs[k] ELSE IF k = n THEN r ELSE recs[k - 1]
    BY <2>1, InsertAtElements
  <2> QED
    BY <1>7, <2>2 DEF N
<1> HIDE DEF N
<1>9. \A k \in 1..(N + 1) :
        /\ k < n => k \in 1..N /\ into[k] = recs[k] /\ recs[k].id = k
        /\ k = n => into[k] = r
        /\ k > n => k - 1 \in 1..N /\ into[k] = recs[k - 1] /\ recs[k - 1].id > n
  <2> TAKE k \in 1..(N + 1)
  <2>1. k \in Nat /\ (k < n => k \in 1..N) /\ (k > n => k - 1 \in 1..N /\ ~(k - 1 < n))
    BY <1>1, <1>2, <1>3
  <2>2. k < n => into[k] = recs[k] /\ recs[k].id = k
    BY <1>2, <1>8, <2>1
  <2>3. k = n => into[k] = r
    BY <1>3, <1>8
  <2>4. k > n => into[k] = recs[k - 1] /\ recs[k - 1].id > n
    BY <1>2, <1>3, <1>8, <2>1
  <2> QED
    BY <2>1, <2>2, <2>3, <2>4
<1>10. /\ DOMAIN M = DOMAIN L \cup {<<p, n>>} /\ M[<<p, n>>] = d
       /\ \A j \in DOMAIN L : M[j] = L[j]
  BY <1>5 DEF With
<1> HIDE DEF M
<1>11. IdsAscending(into)
  <2> SUFFICES ASSUME NEW k \in 1..(N + 1), NEW l \in 1..(N + 1), k < l
               PROVE  into[k].id < into[l].id
    BY <1>8 DEF IdsAscending
  <2>1. k \in Nat /\ l \in Nat
    BY <1>1
  <2>2. CASE l < n
    BY <1>3, <1>9, <2>1, <2>2
  <2>3. CASE l = n
    BY <1>3, <1>6, <1>9, <2>1, <2>3
  <2>4. CASE l > n /\ k <= n
    <3>1. into[l].id > n /\ into[l].id \in Nat
      BY <1>1, <1>9, <2>4
    <3>2. into[k].id <= n /\ into[k].id \in Nat
      BY <1>1, <1>3, <1>6, <1>9, <2>1, <2>4
    <3> QED
      BY <1>3, <3>1, <3>2
  <2>5. CASE k > n
    <3>1. l > n /\ k - 1 < l - 1
      BY <1>3, <2>1, <2>5
    <3>2. /\ k - 1 \in 1..N /\ into[k] = recs[k - 1]
          /\ l - 1 \in 1..N /\ into[l] = recs[l - 1]
      BY <1>9, <2>5, <3>1
    <3>3. recs[k - 1].id < recs[l - 1].id
      BY <3>1, <3>2 DEF Holds, IdsAscending, N
    <3> QED
      BY <3>2, <3>3
  <2>6. l < n \/ l = n \/ (l > n /\ k <= n) \/ k > n
    BY <1>3, <2>1
  <2> QED
    BY <2>2, <2>3, <2>4, <2>5, <2>6
<1>12. ASSUME NEW k \in 1..(N + 1)
       PROVE  /\ into[k].id \in 1..MaxBlocks /\ <<p, into[k].id>> \in DOMAIN M
              /\ M[<<p, into[k].id>>] = into[k].data
  <2>1. CASE k = n
    BY <1>3, <1>6, <1>9, <1>10, <2>1
  <2>2. CASE k # n
    <3>1. \E l \in 1..N : into[k] = recs[l]
      BY <1>1, <1>3, <1>9, <2>2
    <3>2. PICK l \in 1..N : into[k] = recs[l]
      BY <3>1
    <3> QED
      BY <1>1, <1>10, <3>2
  <2> QED
    BY <2>1, <2>2
<1>13. ASSUME NEW m \in 1..MaxBlocks, <<p, m>> \in DOMAIN M
       PROVE  \E k \in 1..(N + 1) : into[k].id = m
  <2>1. CASE m = n
    <3>1. into[n].id = n /\ n \in 1..(N + 1)
      BY <1>2, <1>6, <1>9
    <3> QED
      BY <2>1, <3>1
  <2>2. CASE m # n
    <3>1. <<p, m>> \in DOMAIN L
      BY <1>10, <1>13, <2>2
    <3>2. PICK l \in 1..N : recs[l].id = m
      BY <3>1 DEF Holds, N
    <3>3. CASE l < n
      <4>1. l \in 1..(N + 1)
        BY <1>1
      <4> QED
        BY <1>9, <3>2, <3>3, <4>1
    <3>4. CASE ~(l < n)
      <4>1. l + 1 \in 1..(N + 1) /\ l + 1 > n /\ (l + 1) - 1 = l
        BY <1>1, <1>3, <3>4
      <4> QED
        BY <1>9, <3>2, <4>1
    <3> QED
      BY <3>3, <3>4
  <2> QED
    BY <2>1, <2>2
<1>14. Holds(into, p, M)
  BY <1>8, <1>11, <1>12, <1>13 DEF Holds
<1> QED
  BY <1>3, <1>5, <1>14 DEF into, M, n

(* A record is taken out.                                                  *)
LEMMA RemoveHolds ==
  ASSUME NEW recs, NEW p, NEW L, Holds(recs, p, L), NEW i \in 1..Len(recs)
  PROVE  Holds(RemoveAt(recs, i), p, Without(L, <<p, recs[i].id>>))
<1> DEFINE N == Len(recs)
           left == RemoveAt(recs, i)
           id == <<p, recs[i].id>>
           M == Without(L, id)
<1>1. /\ recs \in Seq(Rec) /\ N \in Nat
      /\ \A k \in 1..N :
           /\ recs[k].id \in Nat /\ recs[k].id \in 1..MaxBlocks
           /\ <<p, recs[k].id>> \in DOMAIN L /\ L[<<p, recs[k].id>>] = recs[k].data
      /\ \A k, l \in 1..N : k < l => recs[k].id < recs[l].id
  BY RecFields DEF Holds, IdsAscending
<1>2. /\ left \in Seq(Rec) /\ Len(left) = N - 1
      /\ \A k \in 1..(N - 1) : left[k] = IF k < i THEN recs[k] ELSE recs[k + 1]
  BY <1>1, RemoveAtElements
<1> HIDE DEF left
<1>3. i \in 1..N /\ i \in Nat
  OBVIOUS
<1>4. \A n \in 1..MaxBlocks :
        <<p, n>> \in DOMAIN L => \E k \in 1..N : recs[k].id = n
  BY DEF Holds
<1>5. /\ DOMAIN M = DOMAIN L \ {id} /\ \A j \in DOMAIN L \ {id} : M[j] = L[j]
  BY DEF Without
<1> HIDE DEF N, M
<1>6. \A k \in 1..(N - 1) :
        /\ k < i => k \in 1..N /\ left[k] = recs[k]
        /\ k >= i => k + 1 \in 1..N /\ left[k] = recs[k + 1] /\ k + 1 > i
  BY <1>1, <1>2, <1>3
<1>7. ASSUME NEW k \in 1..N, k # i PROVE recs[k].id # recs[i].id
  <2>1. k < i \/ i < k
    BY <1>1, <1>3, <1>7
  <2>2. k < i => recs[k].id < recs[i].id
    BY <1>1, <1>3
  <2>3. i < k => recs[i].id < recs[k].id
    BY <1>1, <1>3
  <2>4. recs[k].id \in Nat /\ recs[i].id \in Nat
    BY <1>1, <1>3
  <2> QED
    BY <2>1, <2>2, <2>3, <2>4
<1>8. IdsAscending(left)
  <2> SUFFICES ASSUME NEW k \in 1..(N - 1), NEW l \in 1..(N - 1), k < l
               PROVE  left[k].id < left[l].id
    BY <1>2 DEF IdsAscending
  <2>1. k \in Nat /\ l \in Nat /\ k + 1 < l + 1 /\ k < l + 1
    BY <1>1
  <2>2. CASE l < i
    <3>1. k < i
      BY <1>3, <2>1, <2>2
    <3> QED
      BY <1>1, <1>6, <2>2, <3>1
  <2>3. CASE k < i /\ l >= i
    <3>1. k \in 1..N /\ left[k] = recs[k] /\ l + 1 \in 1..N /\ left[l] = recs[l + 1]
      BY <1>6, <2>3
    <3> QED
      BY <1>1, <2>1, <3>1
  <2>4. CASE k >= i
    <3>1. l >= i
      BY <1>3, <2>1, <2>4
    <3>2. k + 1 \in 1..N /\ left[k] = recs[k + 1] /\ l + 1 \in 1..N /\ left[l] = recs[l + 1]
      BY <1>6, <2>4, <3>1
    <3> QED
      BY <1>1, <2>1, <3>2
  <2>5. l < i \/ (k < i /\ l >= i) \/ k >= i
    BY <1>3, <2>1
  <2> QED
    BY <2>2, <2>3, <2>4, <2>5
<1>9. ASSUME NEW k \in 1..(N - 1)
      PROVE  /\ left[k].id \in 1..MaxBlocks /\ <<p, left[k].id>> \in DOMAIN M
             /\ M[<<p, left[k].id>>] = left[k].data
  <2>1. k \in Nat
    BY <1>1
  <2>2. \E l \in 1..N : left[k] = recs[l] /\ l # i
    <3>1. CASE k < i
      BY <1>3, <1>6, <2>1, <3>1
    <3>2. CASE k >= i
      BY <1>3, <1>6, <2>1, <3>2
    <3> QED
      BY <1>3, <2>1, <3>1, <3>2
  <2>3. PICK l \in 1..N : left[k] = recs[l] /\ l # i
    BY <2>2
  <2>4. <<p, recs[l].id>> # id
    BY <1>7, <2>3
  <2> QED
    BY <1>1, <1>5, <2>3, <2>4
<1>10. ASSUME NEW m \in 1..MaxBlocks, <<p, m>> \in DOMAIN M
       PROVE  \E k \in 1..(N - 1) : left[k].id = m
  <2>1. m # recs[i].id /\ <<p, m>> \in DOMAIN L
    BY <1>5, <1>10
  <2>2. PICK l \in 1..N : recs[l].id = m
    BY <1>4, <2>1
  <2>3. l # i /\ l \in Nat
    BY <1>1, <2>1, <2>2
  <2>4. CASE l < i
    <3>1. l \in 1..(N - 1)
      BY <1>1, <1>3, <2>4
    <3> QED
      BY <1>6, <2>2, <2>4, <3>1
  <2>5. CASE l > i
    <3>1. l - 1 \in 1..(N - 1) /\ l - 1 >= i /\ (l - 1) + 1 = l
      BY <1>1, <1>3, <2>5
    <3> QED
      BY <1>6, <2>2, <3>1
  <2> QED
    BY <1>3, <2>3, <2>4, <2>5
<1>11. Holds(left, p, M)
  BY <1>2, <1>8, <1>9, <1>10 DEF Holds
<1> QED
  BY <1>11 DEF left, M

(* What a page holds depends on its own ids only.                          *)
LEMMA SameHolds ==
  ASSUME NEW recs, NEW p, NEW L, NEW M, Holds(recs, p, L),
         \A n \in 1..MaxBlocks :
           /\ <<p, n>> \in DOMAIN M <=> <<p, n>> \in DOMAIN L
           /\ <<p, n>> \in DOMAIN L => M[<<p, n>>] = L[<<p, n>>]
  PROVE  Holds(recs, p, M)
BY DEF Holds

-----------------------------------------------------------------------------
(***************************************************************************)
(* The invariant. Every page is used for one thing: for small records, all *)
(* of which it holds, in the cache or else in the file; for a part of one  *)
(* big record, in the file; as a free page. Only a free page, or one past  *)
(* the end, is handed out. A page that is cached and not modified is as in *)
(* the file, so that emptying the cache loses nothing.                     *)
(***************************************************************************)
SmallPages == {i[1] : i \in {j \in DOMAIN live : j[2] # 0}}

HoldsPage(page, p, L) ==
  /\ Holds(page.recs, p, L)
  /\ page.used \in Nat /\ Occupied(page.recs) <= page.used /\ page.used <= MaxBlocks

(* The pages of a free run, and of data stored under an id.                *)
Extent(r) == r.page..(r.page + r.size - 1)
DataPages(i, d) == IF i[2] = 0 THEN i[1]..(i[1] + Run(d) - 1) ELSE {i[1]}

LiveInv ==
  /\ fileEnd \in 1..(MaxPages + 1)
  /\ \A i \in DOMAIN live :
       i \in Ids /\ live[i] \in Data /\ DataPages(i, live[i]) \subseteq 1..(fileEnd - 1)
  /\ \A i, j \in DOMAIN live :
       i # j /\ i[2] = 0 => DataPages(i, live[i]) \cap DataPages(j, live[j]) = {}

FreeInv ==
  /\ reusable \in Seq([page : Nat, size : Nat])
  /\ \A k \in 1..Len(reusable) :
       /\ Extent(reusable[k]) \subseteq 1..(fileEnd - 1)
       /\ \A i \in DOMAIN live : Extent(reusable[k]) \cap DataPages(i, live[i]) = {}
       /\ \A l \in 1..Len(reusable) : l # k => Extent(reusable[k]) \cap Extent(reusable[l]) = {}

CacheInv ==
  /\ DOMAIN cache \subseteq SmallPages /\ modified \subseteq DOMAIN cache
  /\ \A p \in DOMAIN cache \ modified : cache[p] = disk[p]
  /\ lastPut \in {0} \cup DOMAIN cache /\ lastDel \in {0} \cup DOMAIN cache

HeldInv ==
  /\ \A p \in SmallPages : HoldsPage(Page(p), p, live)
  /\ \A i \in DOMAIN live : i[2] = 0 =>
       \A k \in 1..Run(live[i]) : disk[i[1] + k - 1] = BigPage(live[i], k)

DataInv == LiveInv /\ FreeInv /\ CacheInv /\ HeldInv

LEMMA FreeTypes ==
  ASSUME FreeInv
  PROVE  /\ Len(reusable) \in Nat
         /\ \A k \in 1..Len(reusable) :
              reusable[k].page \in Nat /\ reusable[k].size \in Nat
<1> DEFINE R == [page : Nat, size : Nat]
<1>1. reusable \in Seq(R)
  BY DEF FreeInv
<1>2. \A r \in R : r.page \in Nat /\ r.size \in Nat
  OBVIOUS
<1> HIDE DEF R
<1>3. Len(reusable) \in Nat /\ \A k \in 1..Len(reusable) : reusable[k] \in R
  BY <1>1
<1> QED
  BY <1>2, <1>3

(* A run that is chosen is long enough.                                    *)
LEMMA FitIsFree ==
  ASSUME FreeInv, NEW size \in Nat
  PROVE  \/ Fit(size) = 0
         \/ /\ Fit(size) \in 1..Len(reusable) /\ Fit(size) # 0
            /\ reusable[Fit(size)].size >= size
<1> DEFINE same   == {i \in DOMAIN reusable : reusable[i].size = size}
           longer == {i \in DOMAIN reusable : reusable[i].size > size}
<1>1. DOMAIN reusable = 1..Len(reusable)
  BY DEF FreeInv
<1>2. /\ same \in SUBSET Nat /\ longer \in SUBSET Nat
      /\ \A i \in same \cup longer :
           i \in 1..Len(reusable) /\ i # 0 /\ reusable[i].size >= size
  BY <1>1, FreeTypes
<1>3. Fit(size) = IF same # {} THEN Min(same)
                  ELSE IF longer # {} THEN Min(longer) ELSE 0
  BY DEF Fit
<1> HIDE DEF same, longer
<1>4. same # {} => Min(same) \in same
  BY <1>2, MinIsLeast
<1>5. longer # {} => Min(longer) \in longer
  BY <1>2, MinIsLeast
<1> QED
  BY <1>2, <1>3, <1>4, <1>5

(* What is left of the free runs from when the pages taken are handed out. *)
Carved(left, from, taken) ==
  \A k \in 1..Len(left) :
    /\ Extent(left[k]) \cap taken = {}
    /\ \E m \in 1..Len(from) : Extent(left[k]) \subseteq Extent(from[m])
    /\ \A l \in 1..Len(left) : l # k => Extent(left[k]) \cap Extent(left[l]) = {}

(* What is handed out was free, and is so no longer.                       *)
LEMMA AllocateFree ==
  ASSUME DataInv, NEW size \in Nat \ {0}, Allocate(size)
  PROVE  LET p == Allocated(size)
             taken == p..(p + size - 1)
         IN  /\ p \in Nat \ {0} /\ fileEnd \in Nat
             /\ fileEnd' \in 1..(MaxPages + 1) /\ fileEnd <= fileEnd'
             /\ taken \subseteq 1..(fileEnd' - 1)
             /\ \A i \in DOMAIN live : taken \cap DataPages(i, live[i]) = {}
             /\ reusable' \in Seq([page : Nat, size : Nat])
             /\ Carved(reusable', reusable, taken)
<1> DEFINE p == Allocated(size)
           taken == p..(p + size - 1)
           R == [page : Nat, size : Nat]
           N == Len(reusable)
           i == Fit(size)
<1>1. /\ fileEnd \in 1..(MaxPages + 1) /\ fileEnd \in Nat /\ MaxPages \in Nat
      /\ \A j \in DOMAIN live : DataPages(j, live[j]) \subseteq 1..(fileEnd - 1)
  BY WordDataAssumption DEF DataInv, LiveInv
<1>2. /\ N \in Nat /\ reusable \in Seq(R)
      /\ \A k \in 1..N : reusable[k].page \in Nat /\ reusable[k].size \in Nat
  BY FreeTypes DEF DataInv, FreeInv
<1>3. \A k \in 1..N :
       /\ Extent(reusable[k]) \subseteq 1..(fileEnd - 1)
       /\ \A j \in DOMAIN live : Extent(reusable[k]) \cap DataPages(j, live[j]) = {}
       /\ \A l \in 1..N : l # k => Extent(reusable[k]) \cap Extent(reusable[l]) = {}
  BY DEF DataInv, FreeInv
<1>4. i = 0 \/ (i \in 1..N /\ i # 0 /\ reusable[i].size >= size)
  BY FitIsFree DEF DataInv
<1>5. CASE i = 0
  <2>1. /\ p = fileEnd /\ fileEnd + size - 1 <= MaxPages /\ fileEnd' = fileEnd + size
        /\ reusable' = reusable
    BY <1>5 DEF Allocate, Allocated
  <2> HIDE DEF p, i
  <2>2. /\ p \in Nat \ {0} /\ fileEnd' \in 1..(MaxPages + 1) /\ fileEnd <= fileEnd'
        /\ taken \subseteq 1..(fileEnd' - 1)
    BY <1>1, <2>1
  <2>3. taken \cap 1..(fileEnd - 1) = {}
    BY <1>1, <2>1
  <2> HIDE DEF taken, N, R
  <2>4. \A j \in DOMAIN live : taken \cap DataPages(j, live[j]) = {}
    BY <1>1, <2>3
  <2>5. \A k \in 1..N : Extent(reusable'[k]) = Extent(reusable[k])
    BY <2>1 DEF Extent
  <2>6. \A k \in 1..N :
         /\ Extent(reusable'[k]) \cap taken = {}
         /\ \E m \in 1..N : Extent(reusable'[k]) \subseteq Extent(reusable[m])
         /\ \A l \in 1..N : l # k => Extent(reusable'[k]) \cap Extent(reusable'[l]) = {}
    BY <1>3, <2>3, <2>5
  <2>7. Carved(reusable', reusable, taken)
    BY <2>1, <2>6 DEF Carved, N
  <2> QED
    BY <1>1, <1>2, <2>1, <2>2, <2>4, <2>7 DEF taken, p, R
<1>6. CASE i # 0 /\ reusable[i].size = size
  <2>1. p = reusable[i].page /\ fileEnd' = fileEnd /\ reusable' = RemoveAt(reusable, i)
    BY <1>6 DEF Allocate, Allocated
  <2> HIDE DEF p, i
  <2>2. i \in 1..N /\ taken = Extent(reusable[i]) /\ p \in Nat
    BY <1>2, <1>4, <1>6, <2>1 DEF Extent
  <2>3. p \in taken
    BY <1>6, <2>1, <2>2
  <2>4. p \in Nat \ {0} /\ taken \subseteq 1..(fileEnd - 1)
    <3> HIDE DEF taken
    <3>1. taken \subseteq 1..(fileEnd - 1)
      BY <1>3, <2>2
    <3>2. p \in 1..(fileEnd - 1)
      BY <2>3, <3>1
    <3> QED
      BY <1>1, <3>1, <3>2
  <2>5. /\ RemoveAt(reusable, i) \in Seq(R) /\ Len(RemoveAt(reusable, i)) = N - 1
        /\ \A k \in 1..(N - 1) :
             RemoveAt(reusable, i)[k] = IF k < i THEN reusable[k] ELSE reusable[k + 1]
    <3> HIDE DEF R
    <3> QED
      BY <1>2, <2>2, RemoveAtElements
  <2> HIDE DEF taken, N, R
  <2>6. \A k \in 1..(N - 1) : Extent(reusable'[k]) = IF k < i THEN Extent(reusable[k]) ELSE Extent(reusable[k + 1])
    BY <2>1, <2>5 DEF Extent
  <2> DEFINE to(k) == IF k < i THEN k ELSE k + 1
  <2>7. \A k \in 1..(N - 1) : to(k) \in 1..N /\ to(k) # i
    BY <1>2, <2>2
  <2>8. \A k, l \in 1..(N - 1) : l # k => to(l) # to(k)
    BY <1>2, <2>2
  <2>9. \A k \in 1..(N - 1) : Extent(reusable'[k]) = Extent(reusable[to(k)])
    BY <2>6
  <2> HIDE DEF to
  <2>10. \A k \in 1..(N - 1) :
         /\ Extent(reusable'[k]) \cap taken = {}
         /\ \E m \in 1..N : Extent(reusable'[k]) \subseteq Extent(reusable[m])
         /\ \A l \in 1..(N - 1) : l # k => Extent(reusable'[k]) \cap Extent(reusable'[l]) = {}
    BY <1>3, <2>2, <2>7, <2>8, <2>9
  <2>11. \A j \in DOMAIN live : taken \cap DataPages(j, live[j]) = {}
    BY <1>3, <2>2
  <2>12. Carved(reusable', reusable, taken)
    <3>1. Len(reusable') = N - 1
      BY <2>1, <2>5
    <3> QED
      BY <2>10, <3>1 DEF Carved, N
  <2> QED
    BY <1>1, <2>1, <2>4, <2>5, <2>11, <2>12 DEF taken, p, R
<1>7. CASE i # 0 /\ reusable[i].size # size
  <2> DEFINE r == reusable[i]
             q == [page |-> r.page + size, size |-> r.size - size]
  <2>1. p = r.page /\ fileEnd' = fileEnd /\ reusable' = [reusable EXCEPT ![i] = q]
    BY <1>7 DEF Allocate, Allocated
  <2> HIDE DEF p, i
  <2>2. /\ i \in 1..N /\ r.page \in Nat /\ r.size \in Nat /\ r.size > size
        /\ p \in Nat
    BY <1>2, <1>4, <1>7, <2>1
  <2>3. /\ q \in R /\ q.page = p + size /\ q.size = r.size - size
    BY <2>1, <2>2
  <2> HIDE DEF q, R
  <2>4. /\ reusable' \in Seq(R) /\ Len(reusable') = N
        /\ \A k \in 1..N : reusable'[k] = IF k = i THEN q ELSE reusable[k]
    BY <1>2, <2>1, <2>2, <2>3
  <2>5. Extent(reusable[i]) = p..(p + r.size - 1)
    BY <2>1, <2>2 DEF Extent
  <2>6. Extent(reusable'[i]) = (p + size)..(p + r.size - 1)
    <3>0. reusable'[i].page = p + size /\ reusable'[i].size = r.size - size
      BY <2>2, <2>3, <2>4
    <3>1. Extent(reusable'[i]) = (p + size)..((p + size) + (r.size - size) - 1)
      <4> HIDE DEF r
      <4> QED
        BY <3>0 DEF Extent
    <3>2. (p + size) + (r.size - size) - 1 = p + r.size - 1
      BY <2>2
    <3> QED
      BY <3>1, <3>2
  <2> HIDE DEF r
  <2>7. /\ taken \subseteq Extent(reusable[i]) /\ Extent(reusable'[i]) \subseteq Extent(reusable[i])
        /\ taken \cap Extent(reusable'[i]) = {} /\ p \in Extent(reusable[i])
    BY <2>2, <2>5, <2>6
  <2>8. p \in Nat \ {0} /\ taken \subseteq 1..(fileEnd - 1)
    <3> HIDE DEF taken
    <3>1. Extent(reusable[i]) \subseteq 1..(fileEnd - 1)
      BY <1>3, <2>2
    <3>2. p \in 1..(fileEnd - 1) /\ taken \subseteq 1..(fileEnd - 1)
      BY <2>7, <3>1
    <3> QED
      BY <1>1, <3>2
  <2> HIDE DEF taken, N
  <2>9. \A k \in 1..N : k # i => Extent(reusable'[k]) = Extent(reusable[k])
    BY <2>4 DEF Extent
  <2>10. \A k \in 1..N : Extent(reusable'[k]) \subseteq Extent(reusable[k])
    BY <2>7, <2>9
  <2>11. \A k \in 1..N :
         /\ Extent(reusable'[k]) \cap taken = {}
         /\ \E m \in 1..N : Extent(reusable'[k]) \subseteq Extent(reusable[m])
         /\ \A l \in 1..N : l # k => Extent(reusable'[k]) \cap Extent(reusable'[l]) = {}
    <3> TAKE k \in 1..N
    <3>1. Extent(reusable'[k]) \cap taken = {}
      BY <1>3, <2>2, <2>7, <2>9
    <3>2. \A l \in 1..N : l # k => Extent(reusable'[k]) \cap Extent(reusable'[l]) = {}
      BY <1>3, <2>10
    <3> QED
      BY <2>10, <3>1, <3>2
  <2>12. \A j \in DOMAIN live : taken \cap DataPages(j, live[j]) = {}
    BY <1>3, <2>2, <2>7
  <2>13. Carved(reusable', reusable, taken)
    BY <2>4, <2>11 DEF Carved, N
  <2> QED
    BY <1>1, <2>1, <2>4, <2>8, <2>12, <2>13 DEF taken, p, R
<1> QED
  BY <1>5, <1>6, <1>7

-----------------------------------------------------------------------------
(***************************************************************************)
(* Data stored and deleted.                                                *)
(***************************************************************************)
LEMMA WithFacts ==
  ASSUME NEW f, NEW x, NEW v
  PROVE  /\ DOMAIN With(f, x, v) = DOMAIN f \cup {x} /\ With(f, x, v)[x] = v
         /\ \A y \in DOMAIN f : y # x => With(f, x, v)[y] = f[y]
         /\ DOMAIN Without(f, x) = DOMAIN f \ {x}
         /\ \A y \in DOMAIN f : y # x => Without(f, x)[y] = f[y]
BY DEF With, Without

LEMMA LiveFacts ==
  ASSUME DataInv, NEW i \in DOMAIN live
  PROVE  /\ i[1] \in PageNumbers /\ i[1] \in Nat /\ i[2] \in 0..MaxBlocks
         /\ i = <<i[1], i[2]>> /\ i[1] \in 1..(fileEnd - 1) /\ live[i] \in Data
         /\ i[1] \in DataPages(i, live[i])
         /\ DataPages(i, live[i]) \subseteq 1..(fileEnd - 1)
         /\ 1..(fileEnd - 1) \subseteq PageNumbers
         /\ i[2] # 0 => i[1] \in SmallPages /\ i[2] \in 1..MaxBlocks
<1>1. i \in Ids /\ live[i] \in Data /\ DataPages(i, live[i]) \subseteq 1..(fileEnd - 1)
  BY DEF DataInv, LiveInv
<1>2. i[1] \in PageNumbers /\ i[2] \in 0..MaxBlocks /\ i = <<i[1], i[2]>>
  BY <1>1 DEF Ids
<1>3. MaxPages \in Nat /\ MaxBlocks \in Nat /\ fileEnd \in 1..(MaxPages + 1)
  BY WordDataAssumption DEF DataInv, LiveInv
<1>4. i[1] \in Nat
  BY <1>2, <1>3 DEF PageNumbers
<1>5. Run(live[i]) \in Nat /\ Run(live[i]) >= 1
  BY <1>1, SizeFacts
<1>6. i[1] \in DataPages(i, live[i])
  BY <1>4, <1>5 DEF DataPages
<1>7. 1..(fileEnd - 1) \subseteq PageNumbers
  BY <1>3 DEF PageNumbers
<1>8. i[2] # 0 => i[1] \in SmallPages /\ i[2] \in 1..MaxBlocks
  BY <1>2, <1>3 DEF SmallPages
<1> QED
  BY <1>1, <1>2, <1>4, <1>6, <1>7, <1>8

LEMMA SmallFacts ==
  ASSUME DataInv, NEW p \in SmallPages
  PROVE  /\ p \in 1..(fileEnd - 1) /\ p \in PageNumbers
         /\ \A i \in DOMAIN live : i[2] = 0 => p \notin DataPages(i, live[i])
         /\ \A k \in 1..Len(reusable) : p \notin Extent(reusable[k])
<1>1. PICK j \in DOMAIN live : j[2] # 0 /\ p = j[1]
  BY DEF SmallPages
<1>2. p \in DataPages(j, live[j]) /\ p \in 1..(fileEnd - 1) /\ p \in PageNumbers
  BY <1>1, LiveFacts
<1>3. \A i \in DOMAIN live : i[2] = 0 => p \notin DataPages(i, live[i])
  BY <1>1, <1>2 DEF DataInv, LiveInv
<1>4. \A k \in 1..Len(reusable) : p \notin Extent(reusable[k])
  BY <1>2 DEF DataInv, FreeInv
<1> QED
  BY <1>2, <1>3, <1>4

LEMMA MorePages ==
  ASSUME NEW a \in Nat, NEW b \in Nat, a <= b
  PROVE  1..(a - 1) \subseteq 1..(b - 1)
OBVIOUS

(* A file of no more than the pages there are has only their numbers.      *)
LEMMA PagesWithin ==
  ASSUME NEW a \in Nat, NEW b \in Nat, a <= b + 1
  PROVE  1..(a - 1) \subseteq 1..b
OBVIOUS

(* Data is stored under a new id, in pages shared with no big record.      *)
LEMMA LiveAfterPut ==
  ASSUME DataInv, NEW id \in Ids, id \notin DOMAIN live, NEW d \in Data,
         live' = With(live, id, d),
         fileEnd \in Nat, fileEnd' \in 1..(MaxPages + 1), fileEnd <= fileEnd',
         DataPages(id, d) \subseteq 1..(fileEnd' - 1),
         \A i \in DOMAIN live :
           i[2] = 0 \/ id[2] = 0 => DataPages(id, d) \cap DataPages(i, live[i]) = {}
  PROVE  LiveInv'
<1>1. /\ DOMAIN live' = DOMAIN live \cup {id} /\ live'[id] = d
      /\ \A i \in DOMAIN live : live'[i] = live[i]
  BY DEF With
<1>2. 1..(fileEnd - 1) \subseteq 1..(fileEnd' - 1)
  <2>1. fileEnd' \in Nat
    BY WordDataAssumption
  <2> QED
    BY <2>1, MorePages
<1>3. ASSUME NEW i \in DOMAIN live'
      PROVE  i \in Ids /\ live'[i] \in Data
             /\ DataPages(i, live'[i]) \subseteq 1..(fileEnd' - 1)
  BY <1>1, <1>2 DEF DataInv, LiveInv
<1>4. ASSUME NEW i \in DOMAIN live', NEW j \in DOMAIN live', i # j, i[2] = 0
      PROVE  DataPages(i, live'[i]) \cap DataPages(j, live'[j]) = {}
  <2>1. CASE i \in DOMAIN live /\ j \in DOMAIN live
    BY <1>1, <1>4, <2>1 DEF DataInv, LiveInv
  <2>2. CASE i = id
    BY <1>1, <1>4, <2>2
  <2>3. CASE j = id
    BY <1>1, <1>4, <2>3
  <2> QED
    BY <1>1, <2>1, <2>2, <2>3
<1> QED
  BY <1>3, <1>4 DEF LiveInv

LEMMA LiveAfterDel ==
  ASSUME DataInv, NEW i \in DOMAIN live, live' = Without(live, i), fileEnd' = fileEnd
  PROVE  LiveInv'
<1>1. /\ DOMAIN live' = DOMAIN live \ {i}
      /\ \A j \in DOMAIN live \ {i} : live'[j] = live[j]
  BY DEF Without
<1> QED
  BY <1>1 DEF DataInv, LiveInv

(* The pages handed out for new data are free no longer.                   *)
LEMMA FreeAfterAllocate ==
  ASSUME DataInv, NEW id, NEW d, live' = With(live, id, d), id \notin DOMAIN live,
         fileEnd \in Nat, fileEnd' \in Nat, fileEnd <= fileEnd',
         reusable' \in Seq([page : Nat, size : Nat]),
         Carved(reusable', reusable, DataPages(id, d))
  PROVE  FreeInv'
<1>1. /\ DOMAIN live' = DOMAIN live \cup {id} /\ live'[id] = d
      /\ \A i \in DOMAIN live : live'[i] = live[i]
  BY DEF With
<1>2. 1..(fileEnd - 1) \subseteq 1..(fileEnd' - 1)
  BY MorePages
<1>3. ASSUME NEW k \in 1..Len(reusable')
      PROVE  /\ Extent(reusable'[k]) \subseteq 1..(fileEnd' - 1)
             /\ \A i \in DOMAIN live' : Extent(reusable'[k]) \cap DataPages(i, live'[i]) = {}
             /\ \A l \in 1..Len(reusable') :
                  l # k => Extent(reusable'[k]) \cap Extent(reusable'[l]) = {}
  <2>1. PICK m \in 1..Len(reusable) : Extent(reusable'[k]) \subseteq Extent(reusable[m])
    BY DEF Carved
  <2>2. /\ Extent(reusable[m]) \subseteq 1..(fileEnd - 1)
        /\ \A i \in DOMAIN live : Extent(reusable[m]) \cap DataPages(i, live[i]) = {}
    BY DEF DataInv, FreeInv
  <2>3. Extent(reusable'[k]) \cap DataPages(id, d) = {}
    BY DEF Carved
  <2>4. \A l \in 1..Len(reusable') :
          l # k => Extent(reusable'[k]) \cap Extent(reusable'[l]) = {}
    BY DEF Carved
  <2>5. ASSUME NEW i \in DOMAIN live'
        PROVE  Extent(reusable'[k]) \cap DataPages(i, live'[i]) = {}
    <3>1. CASE i = id
      BY <1>1, <2>3, <3>1
    <3>2. CASE i # id
      BY <1>1, <2>1, <2>2, <3>2
    <3> QED
      BY <3>1, <3>2
  <2> QED
    BY <1>2, <2>1, <2>2, <2>4, <2>5
<1> QED
  BY <1>3 DEF FreeInv

(* The pages of deleted data are free.                                     *)
LEMMA FreeAfterRemember ==
  ASSUME DataInv, NEW i \in DOMAIN live, live' = Without(live, i), fileEnd' = fileEnd,
         NEW size \in Nat, Remember(i[1], size),
         Extent([page |-> i[1], size |-> size]) = DataPages(i, live[i]),
         \A j \in DOMAIN live \ {i} : DataPages(i, live[i]) \cap DataPages(j, live[j]) = {}
  PROVE  FreeInv'
<1> DEFINE R == [page : Nat, size : Nat]
           r == [page |-> i[1], size |-> size]
           N == Len(reusable)
<1>1. /\ DOMAIN live' = DOMAIN live \ {i}
      /\ \A j \in DOMAIN live \ {i} : live'[j] = live[j]
  BY DEF Without
<1>2. /\ N \in Nat /\ reusable \in Seq(R)
  BY FreeTypes DEF DataInv, FreeInv
<1>3. r \in R
  BY LiveFacts
<1>4. reusable' = reusable \/ reusable' = Append(reusable, r)
  BY DEF Remember
<1>5. Extent(r) = DataPages(i, live[i])
  OBVIOUS
<1> HIDE DEF r, R
<1>6. CASE reusable' = reusable
  BY <1>1, <1>6 DEF DataInv, FreeInv
<1>7. CASE reusable' = Append(reusable, r)
  <2>1. /\ reusable' \in Seq(R) /\ Len(reusable') = N + 1 /\ reusable'[N + 1] = r
        /\ \A k \in 1..N : reusable'[k] = reusable[k]
    BY <1>2, <1>3, <1>7
  <2>2. 1..(N + 1) = 1..N \cup {N + 1} /\ N + 1 \notin 1..N
    BY <1>2
  <2>3. \A k \in 1..N :
         /\ Extent(reusable[k]) \subseteq 1..(fileEnd - 1)
         /\ \A j \in DOMAIN live : Extent(reusable[k]) \cap DataPages(j, live[j]) = {}
         /\ \A l \in 1..N : l # k => Extent(reusable[k]) \cap Extent(reusable[l]) = {}
    BY DEF DataInv, FreeInv
  <2> HIDE DEF N
  <2>4. ASSUME NEW k \in 1..(N + 1)
        PROVE  /\ Extent(reusable'[k]) \subseteq 1..(fileEnd - 1)
               /\ \A j \in DOMAIN live' : Extent(reusable'[k]) \cap DataPages(j, live'[j]) = {}
               /\ \A l \in 1..(N + 1) :
                    l # k => Extent(reusable'[k]) \cap Extent(reusable'[l]) = {}
    <3>1. CASE k \in 1..N
      <4>1. \A l \in 1..N : l # k => Extent(reusable'[k]) \cap Extent(reusable'[l]) = {}
        BY <2>1, <2>3, <3>1
      <4>2. Extent(reusable'[k]) \cap Extent(reusable'[N + 1]) = {}
        BY <1>5, <2>1, <2>3, <3>1
      <4> QED
        BY <1>1, <2>1, <2>2, <2>3, <3>1, <4>1, <4>2
    <3>2. CASE k = N + 1
      <4>1. Extent(reusable'[k]) = DataPages(i, live[i])
        BY <1>5, <2>1, <3>2
      <4>2. DataPages(i, live[i]) \subseteq 1..(fileEnd - 1)
        BY DEF DataInv, LiveInv
      <4>3. \A l \in 1..N : Extent(reusable'[k]) \cap Extent(reusable'[l]) = {}
        BY <2>1, <2>3, <4>1
      <4> QED
        BY <1>1, <2>2, <3>2, <4>1, <4>2, <4>3
    <3> QED
      BY <2>2, <3>1, <3>2
  <2> QED
    BY <2>1, <2>4 DEF FreeInv, R
<1> QED
  BY <1>4, <1>6, <1>7

(* A page is not touched by what happens to the ids of another.            *)
LEMMA OtherPage ==
  ASSUME NEW page, NEW q, NEW L, HoldsPage(page, q, L), NEW id, id[1] # q, NEW d
  PROVE  HoldsPage(page, q, With(L, id, d)) /\ HoldsPage(page, q, Without(L, id))
<1>1. \A n \in 1..MaxBlocks : <<q, n>> # id
  OBVIOUS
<1>2. Holds(page.recs, q, L)
  BY DEF HoldsPage
<1>3. Holds(page.recs, q, With(L, id, d))
  <2> DEFINE M == With(L, id, d)
  <2>1. \A n \in 1..MaxBlocks :
          /\ <<q, n>> \in DOMAIN M <=> <<q, n>> \in DOMAIN L
          /\ <<q, n>> \in DOMAIN L => M[<<q, n>>] = L[<<q, n>>]
    BY <1>1 DEF With
  <2> HIDE DEF M
  <2>2. Holds(page.recs, q, M)
    BY <1>2, <2>1, SameHolds
  <2> QED
    BY <2>2 DEF M
<1>4. Holds(page.recs, q, Without(L, id))
  <2> DEFINE M == Without(L, id)
  <2>1. \A n \in 1..MaxBlocks :
          /\ <<q, n>> \in DOMAIN M <=> <<q, n>> \in DOMAIN L
          /\ <<q, n>> \in DOMAIN L => M[<<q, n>>] = L[<<q, n>>]
    BY <1>1 DEF Without
  <2> HIDE DEF M
  <2>2. Holds(page.recs, q, M)
    BY <1>2, <2>1, SameHolds
  <2> QED
    BY <2>2 DEF M
<1> QED
  BY <1>3, <1>4 DEF HoldsPage

(* Writing the modified pages to the file changes no page, where a long    *)
(* has four bytes.                                                         *)
LEMMA FlushedPages ==
  ASSUME DataInv, LongBytes = 4
  PROVE  /\ \A p \in PageNumbers : Flushed[p] = Page(p)
         /\ \A p \in PageNumbers : p \notin SmallPages => Flushed[p] = disk[p]
BY DEF DataInv, CacheInv, Flushed, ReadBack, Page

-----------------------------------------------------------------------------
(***************************************************************************)
(* Each operation preserves the invariant; a Put stores its data under an  *)
(* id that was not in use.                                                 *)
(***************************************************************************)
Stores(d) == \E id \in Ids : id \notin DOMAIN live /\ live' = With(live, id, d)

PageAt(c, f, p) == IF p \in DOMAIN c THEN c[p] ELSE f[p]

(* HeldInv of the next state.                                              *)
LEMMA HeldNext ==
  ASSUME \A q \in SmallPages' : HoldsPage(PageAt(cache', disk', q), q, live'),
         \A i \in DOMAIN live' : i[2] = 0 =>
           \A k \in 1..Run(live'[i]) : disk'[i[1] + k - 1] = BigPage(live'[i], k)
  PROVE  HeldInv'
BY DEF HeldInv, Page, PageAt

(* A page that takes a record more.                                        *)
LEMMA PagePut ==
  ASSUME NEW page, NEW p, NEW L, HoldsPage(page, p, L), NEW d \in Data,
         Blocks(d) <= MaxBlocks - page.used
  PROVE  LET n == NewNumber(page.recs)
         IN  /\ n \in 1..MaxBlocks /\ <<p, n>> \notin DOMAIN L
             /\ HoldsPage(SmallPage(page.used + Blocks(d), Inserted(page.recs, d)),
                          p, With(L, <<p, n>>, d))
<1> DEFINE recs == page.recs
           used == page.used
           n == NewNumber(recs)
           new == Inserted(recs, d)
           r == [id |-> n, data |-> d]
<1>1. /\ Holds(recs, p, L) /\ used \in Nat /\ Occupied(recs) <= used /\ used <= MaxBlocks
      /\ MaxBlocks \in Nat
  BY WordDataAssumption DEF HoldsPage
<1>2. /\ recs \in Seq(Rec) /\ IdsAscending(recs)
      /\ \A k \in 1..Len(recs) : recs[k].id >= 1
  <2> HIDE DEF recs
  <2>1. /\ recs \in Seq(Rec) /\ IdsAscending(recs)
        /\ \A k \in 1..Len(recs) : recs[k].id \in 1..MaxBlocks
    BY <1>1 DEF Holds
  <2>2. \A m \in 1..MaxBlocks : m >= 1
    BY <1>1
  <2> QED
    BY <2>1, <2>2
<1>3. Blocks(d) \in Nat /\ Blocks(d) >= 1 /\ Blocks(d) <= MaxBlocks - used
  BY SizeFacts
<1>4. Len(recs) \in Nat /\ Occupied(recs) \in Nat /\ Len(recs) <= Occupied(recs)
  BY <1>2, OccupiedLength
<1>5. Place(recs) \in 1..(Len(recs) + 1) /\ n = Place(recs)
  BY <1>2, FirstGap
<1> HIDE DEF recs, used, n
<1>6. n <= MaxBlocks /\ n \in Nat
  BY <1>1, <1>3, <1>4, <1>5
<1>7. /\ n \in 1..MaxBlocks /\ <<p, n>> \notin DOMAIN L
      /\ Holds(new, p, With(L, <<p, n>>, d))
  BY <1>1, <1>6, InsertHolds DEF n
<1>8. r \in Rec /\ r.data = d /\ new = InsertAt(recs, Place(recs), r)
  BY <1>6 DEF Rec, Inserted, n
<1> HIDE DEF r, new
<1>9. Occupied(new) = Occupied(recs) + Blocks(d)
  BY <1>2, <1>5, <1>8, OccupiedInsert
<1>10. /\ used + Blocks(d) \in Nat /\ Occupied(new) <= used + Blocks(d)
       /\ used + Blocks(d) <= MaxBlocks
  BY <1>1, <1>3, <1>4, <1>9
<1>11. HoldsPage(SmallPage(used + Blocks(d), new), p, With(L, <<p, n>>, d))
  BY <1>7, <1>10 DEF HoldsPage, SmallPage
<1> QED
  BY <1>7, <1>11 DEF recs, used, n, new

LEMMA PutInPageStep ==
  ASSUME DataInv, NEW d \in Data, PutInPage(d)
  PROVE  DataInv' /\ Stores(d)
<1> DEFINE p == Target(d)
           page == cache[p]
           n == NewNumber(page.recs)
           id == <<p, n>>
           page2 == SmallPage(page.used + Blocks(d), Inserted(page.recs, d))
<1>1. p # 0 /\ p \in DOMAIN cache /\ Blocks(d) <= MaxBlocks - page.used
  BY DEF PutInPage, Target, Room, DataInv, CacheInv
<1>2. p \in SmallPages /\ HoldsPage(page, p, live)
  BY <1>1 DEF DataInv, CacheInv, HeldInv, Page
<1>3. /\ n \in 1..MaxBlocks /\ id \notin DOMAIN live
      /\ HoldsPage(page2, p, With(live, id, d))
  BY <1>1, <1>2, PagePut
<1>4. /\ cache' = [cache EXCEPT ![p] = page2] /\ modified' = modified \cup {p}
      /\ live' = With(live, id, d)
      /\ disk' = disk /\ reusable' = reusable /\ fileEnd' = fileEnd
      /\ lastPut' = lastPut /\ lastDel' = lastDel
  BY DEF PutInPage
<1> HIDE DEF p, page, n, page2
<1>5. id \in Ids /\ id[2] # 0 /\ id[1] = p /\ DataPages(id, d) = {p}
  BY <1>2, <1>3, SmallFacts, WordDataAssumption DEF Ids, DataPages
<1>6. /\ p \in 1..(fileEnd - 1)
      /\ \A i \in DOMAIN live : i[2] = 0 => p \notin DataPages(i, live[i])
      /\ \A k \in 1..Len(reusable) : p \notin Extent(reusable[k])
  BY <1>2, SmallFacts
<1>7. /\ DOMAIN live' = DOMAIN live \cup {id} /\ live'[id] = d
      /\ \A i \in DOMAIN live : live'[i] = live[i]
  BY <1>3, <1>4 DEF With
<1> HIDE DEF id
<1>8. LiveInv'
  <2>1. fileEnd \in Nat /\ fileEnd \in 1..(MaxPages + 1) /\ fileEnd <= fileEnd
    BY WordDataAssumption DEF DataInv, LiveInv
  <2> QED
    BY <1>3, <1>4, <1>5, <1>6, <2>1, LiveAfterPut
<1>9. FreeInv'
  <2>1. ASSUME NEW k \in 1..Len(reusable), NEW i \in DOMAIN live'
        PROVE  Extent(reusable[k]) \cap DataPages(i, live'[i]) = {}
    <3>1. CASE i = id
      BY <1>5, <1>6, <1>7, <3>1
    <3>2. CASE i # id
      BY <1>7, <3>2 DEF DataInv, FreeInv
    <3> QED
      BY <3>1, <3>2
  <2> QED
    BY <1>4, <2>1 DEF DataInv, FreeInv
<1>10. SmallPages' = SmallPages
  BY <1>2, <1>5, <1>7 DEF SmallPages
<1>11. DOMAIN cache' = DOMAIN cache /\ cache'[p] = page2
       /\ \A q \in DOMAIN cache : q # p => cache'[q] = cache[q]
  BY <1>1, <1>4
<1>12. CacheInv'
  BY <1>1, <1>4, <1>10, <1>11 DEF DataInv, CacheInv
<1>13. \A q \in SmallPages' : HoldsPage(PageAt(cache', disk', q), q, live')
  <2> SUFFICES ASSUME NEW q \in SmallPages
               PROVE  HoldsPage(PageAt(cache', disk', q), q, live')
    BY <1>10
  <2>1. CASE q = p
    BY <1>1, <1>3, <1>4, <1>11, <2>1 DEF PageAt
  <2>2. CASE q # p
    <3>1. PageAt(cache', disk', q) = Page(q)
      BY <1>4, <1>11, <2>2 DEF PageAt, Page
    <3>2. HoldsPage(Page(q), q, live)
      BY DEF DataInv, HeldInv
    <3>3. HoldsPage(Page(q), q, With(live, id, d))
      BY <1>5, <2>2, <3>2, OtherPage
    <3> QED
      BY <1>4, <3>1, <3>3
  <2> QED
    BY <2>1, <2>2
<1>14. \A i \in DOMAIN live' : i[2] = 0 =>
         \A k \in 1..Run(live'[i]) : disk'[i[1] + k - 1] = BigPage(live'[i], k)
  BY <1>4, <1>5, <1>7 DEF DataInv, HeldInv
<1>15. HeldInv'
  BY <1>13, <1>14, HeldNext
<1> QED
  BY <1>3, <1>4, <1>5, <1>8, <1>9, <1>12, <1>15 DEF DataInv, Stores

LEMMA PutInNewPageStep ==
  ASSUME DataInv, LongBytes = 4, NEW d \in Data, PutInNewPage(d)
  PROVE  DataInv' /\ Stores(d)
<1> DEFINE p == Allocated(1)
           n == NewNumber(<<>>)
           id == <<p, n>>
           flush == counter % CacheSize = 0
           page2 == SmallPage(Blocks(d), Inserted(<<>>, d))
<1>1. /\ p \in Nat \ {0} /\ fileEnd \in Nat
      /\ fileEnd' \in 1..(MaxPages + 1) /\ fileEnd <= fileEnd'
      /\ p \in 1..(fileEnd' - 1)
      /\ \A i \in DOMAIN live : p \notin DataPages(i, live[i])
      /\ reusable' \in Seq([page : Nat, size : Nat])
      /\ Carved(reusable', reusable, {p})
  <2>1. Allocate(1) /\ 1 \in Nat \ {0}
    BY DEF PutInNewPage
  <2> DEFINE taken == p..(p + 1 - 1)
  <2>2. /\ p \in Nat \ {0} /\ fileEnd \in Nat
        /\ fileEnd' \in 1..(MaxPages + 1) /\ fileEnd <= fileEnd'
        /\ taken \subseteq 1..(fileEnd' - 1)
        /\ \A i \in DOMAIN live : taken \cap DataPages(i, live[i]) = {}
        /\ reusable' \in Seq([page : Nat, size : Nat])
        /\ Carved(reusable', reusable, taken)
    BY <2>1, AllocateFree
  <2>3. taken = {p}
    <3> HIDE DEF p
    <3> QED
      BY <2>2
  <2> HIDE DEF taken, p
  <2> QED
    BY <2>2, <2>3
<1>2. p \notin SmallPages
  <2>1. \A i \in DOMAIN live : i[1] # p
    <3> HIDE DEF p
    <3> QED
      BY <1>1, LiveFacts
  <2> HIDE DEF p
  <2> QED
    BY <2>1 DEF SmallPages
<1>3. HoldsPage(SmallPage(0, <<>>), p, live)
  <2>1. \A m \in 1..MaxBlocks : <<p, m>> \notin DOMAIN live
    <3>1. \A i \in DOMAIN live : i[1] # p
      <4> HIDE DEF p
      <4> QED
        BY <1>1, LiveFacts
    <3> HIDE DEF p
    <3> QED
      BY <3>1
  <2>2. Holds(<<>>, p, live)
    BY <2>1 DEF Holds, IdsAscending
  <2> HIDE DEF p
  <2> QED
    BY <2>2, OccupiedEmpty, WordDataAssumption DEF HoldsPage, SmallPage
<1>4. Blocks(d) \in Nat /\ Blocks(d) <= MaxBlocks - 0 /\ 0 + Blocks(d) = Blocks(d)
  BY SizeFacts, WordDataAssumption DEF PutInNewPage, IsBig
<1>5. /\ n \in 1..MaxBlocks /\ id \notin DOMAIN live
      /\ HoldsPage(page2, p, With(live, id, d))
  <2> DEFINE page == SmallPage(0, <<>>)
  <2>1. page.used = 0 /\ page.recs = <<>>
    BY DEF SmallPage
  <2> HIDE DEF page
  <2>2. LET m == NewNumber(page.recs)
        IN  /\ m \in 1..MaxBlocks /\ <<p, m>> \notin DOMAIN live
            /\ HoldsPage(SmallPage(page.used + Blocks(d), Inserted(page.recs, d)),
                         p, With(live, <<p, m>>, d))
    <3>1. HoldsPage(page, p, live) /\ Blocks(d) <= MaxBlocks - page.used
      BY <1>3, <1>4, <2>1 DEF page
    <3> HIDE DEF p
    <3> QED
      BY <3>1, PagePut
  <2> QED
    BY <1>4, <2>1, <2>2
<1>6. /\ disk' = IF flush THEN Flushed ELSE disk
      /\ cache' = With(IF flush THEN Empty ELSE cache, p, page2)
      /\ modified' = (IF flush THEN {} ELSE modified) \cup {p}
      /\ lastDel' = IF flush THEN 0 ELSE lastDel
      /\ lastPut' = p /\ live' = With(live, id, d)
  BY DEF PutInNewPage
<1> HIDE DEF p, n, page2, flush
<1>7. /\ id \in Ids /\ id[2] # 0 /\ id[1] = p /\ DataPages(id, d) = {p}
      /\ p \in PageNumbers
  BY <1>1, <1>5, WordDataAssumption DEF Ids, DataPages, PageNumbers
<1>8. /\ DOMAIN live' = DOMAIN live \cup {id} /\ live'[id] = d
      /\ \A i \in DOMAIN live : live'[i] = live[i]
  BY <1>5, <1>6 DEF With
<1> HIDE DEF id
<1>9. LiveInv'
  BY <1>1, <1>5, <1>6, <1>7, LiveAfterPut
<1>10. FreeInv'
  <2>1. fileEnd' \in Nat
    BY <1>1, WordDataAssumption
  <2> QED
    BY <1>1, <1>5, <1>6, <1>7, <2>1, FreeAfterAllocate
<1>11. SmallPages' = SmallPages \cup {p}
  BY <1>7, <1>8 DEF SmallPages
<1>12. p \notin DOMAIN cache
  BY <1>2 DEF DataInv, CacheInv
<1>13. /\ DOMAIN cache' = (IF flush THEN {} ELSE DOMAIN cache) \cup {p}
       /\ cache'[p] = page2
       /\ ~flush => \A q \in DOMAIN cache : q # p => cache'[q] = cache[q]
  BY <1>6 DEF With, Empty
<1>14. CacheInv'
  BY <1>6, <1>11, <1>12, <1>13 DEF DataInv, CacheInv
<1>15. \A q \in SmallPages : PageAt(cache', disk', q) = Page(q)
  <2> TAKE q \in SmallPages
  <2>1. q # p /\ q \in PageNumbers
    BY <1>2, SmallFacts
  <2>2. CASE flush
    BY <1>6, <1>13, <2>1, <2>2, FlushedPages DEF PageAt
  <2>3. CASE ~flush
    BY <1>6, <1>13, <2>1, <2>3 DEF PageAt, Page
  <2> QED
    BY <2>2, <2>3
<1>16. \A q \in SmallPages' : HoldsPage(PageAt(cache', disk', q), q, live')
  <2> SUFFICES ASSUME NEW q \in SmallPages \cup {p}
               PROVE  HoldsPage(PageAt(cache', disk', q), q, live')
    BY <1>11
  <2>1. CASE q = p
    BY <1>5, <1>6, <1>13, <2>1 DEF PageAt, id
  <2>2. CASE q # p
    <3>1. HoldsPage(Page(q), q, live)
      BY <2>2 DEF DataInv, HeldInv
    <3>2. HoldsPage(Page(q), q, With(live, id, d))
      BY <1>7, <2>2, <3>1, OtherPage
    <3> QED
      BY <1>6, <1>15, <2>2, <3>2
  <2> QED
    BY <2>1, <2>2
<1>17. \A i \in DOMAIN live' : i[2] = 0 =>
         \A k \in 1..Run(live'[i]) : disk'[i[1] + k - 1] = BigPage(live'[i], k)
  <2> SUFFICES ASSUME NEW i \in DOMAIN live, i[2] = 0, NEW k \in 1..Run(live[i])
               PROVE  disk'[i[1] + k - 1] = BigPage(live[i], k)
    BY <1>7, <1>8
  <2> DEFINE q == i[1] + k - 1
  <2>1. disk[q] = BigPage(live[i], k)
    BY DEF DataInv, HeldInv
  <2>2. q \in DataPages(i, live[i])
    <3>1. i[1] \in Nat /\ Run(live[i]) \in Nat
      BY LiveFacts, SizeFacts
    <3> QED
      BY <3>1 DEF DataPages
  <2> HIDE DEF q
  <2>3. q \in PageNumbers /\ q \notin SmallPages
    BY <2>2, LiveFacts, SmallFacts
  <2>4. disk'[q] = disk[q]
    BY <1>6, <2>3, FlushedPages
  <2> QED
    BY <2>1, <2>4 DEF q
<1>18. HeldInv'
  BY <1>16, <1>17, HeldNext
<1> QED
  BY <1>5, <1>6, <1>7, <1>9, <1>10, <1>14, <1>18 DEF DataInv, Stores

LEMMA PutBigStep ==
  ASSUME DataInv, NEW d \in Data, PutBig(d)
  PROVE  DataInv' /\ Stores(d)
<1> DEFINE p == Allocated(Run(d))
           id == <<p, 0>>
           taken == p..(p + Run(d) - 1)
<1>1. Run(d) \in Nat \ {0} /\ Run(d) \in Nat /\ Run(d) >= 1
  BY SizeFacts
<1>2. /\ p \in Nat \ {0} /\ fileEnd \in Nat
      /\ fileEnd' \in 1..(MaxPages + 1) /\ fileEnd <= fileEnd'
      /\ taken \subseteq 1..(fileEnd' - 1)
      /\ \A i \in DOMAIN live : taken \cap DataPages(i, live[i]) = {}
      /\ reusable' \in Seq([page : Nat, size : Nat])
      /\ Carved(reusable', reusable, taken)
  <2>1. Allocate(Run(d))
    BY DEF PutBig
  <2> QED
    BY <1>1, <2>1, AllocateFree
<1>3. /\ live' = With(live, id, d)
      /\ disk' = [q \in PageNumbers |-> IF q \in taken THEN BigPage(d, q - p + 1) ELSE disk[q]]
      /\ cache' = cache /\ modified' = modified
      /\ lastPut' = lastPut /\ lastDel' = lastDel
  BY DEF PutBig
<1> HIDE DEF p
<1>4. p \in taken
  BY <1>1, <1>2
<1>5. DataPages(id, d) = taken
  BY DEF DataPages
<1> HIDE DEF taken
<1>6. id \notin DOMAIN live
  BY <1>2, <1>4, LiveFacts
<1>7. 1..(fileEnd' - 1) \subseteq PageNumbers
  <2>1. fileEnd' \in Nat /\ MaxPages \in Nat /\ fileEnd' <= MaxPages + 1
    BY <1>2, WordDataAssumption
  <2> QED
    BY <2>1, PagesWithin DEF PageNumbers
<1>8. id \in Ids /\ id[2] = 0 /\ id[1] = p
  <2>1. p \in PageNumbers
    BY <1>2, <1>4, <1>7
  <2> QED
    BY <2>1, WordDataAssumption DEF Ids
<1>9. /\ DOMAIN live' = DOMAIN live \cup {id} /\ live'[id] = d
      /\ \A i \in DOMAIN live : live'[i] = live[i]
  BY <1>3, <1>6 DEF With
<1> HIDE DEF id
<1>10. LiveInv'
  BY <1>2, <1>3, <1>5, <1>6, <1>8, LiveAfterPut
<1>11. FreeInv'
  <2>1. fileEnd' \in Nat
    BY <1>2, WordDataAssumption
  <2> QED
    BY <1>2, <1>3, <1>5, <1>6, <2>1, FreeAfterAllocate
<1>12. SmallPages' = SmallPages
  BY <1>8, <1>9 DEF SmallPages
<1>13. \A i \in DOMAIN live : i[1] \notin taken
  BY <1>2, LiveFacts
<1>14. \A q \in SmallPages : q \notin taken /\ q \in PageNumbers
  BY <1>13, SmallFacts DEF SmallPages
<1>15. \A q \in SmallPages : disk'[q] = disk[q]
  BY <1>3, <1>14
<1>16. CacheInv'
  BY <1>3, <1>12, <1>15 DEF DataInv, CacheInv
<1>17. \A q \in SmallPages' : HoldsPage(PageAt(cache', disk', q), q, live')
  <2> SUFFICES ASSUME NEW q \in SmallPages
               PROVE  HoldsPage(PageAt(cache', disk', q), q, live')
    BY <1>12
  <2>1. PageAt(cache', disk', q) = Page(q)
    BY <1>3, <1>15 DEF PageAt, Page
  <2>2. HoldsPage(Page(q), q, live) /\ id[1] # q
    BY <1>4, <1>8, <1>14 DEF DataInv, HeldInv
  <2>3. HoldsPage(Page(q), q, With(live, id, d))
    BY <2>2, OtherPage
  <2> QED
    BY <1>3, <2>1, <2>3
<1>18. \A i \in DOMAIN live' : i[2] = 0 =>
         \A k \in 1..Run(live'[i]) : disk'[i[1] + k - 1] = BigPage(live'[i], k)
  <2> SUFFICES ASSUME NEW i \in DOMAIN live', i[2] = 0, NEW k \in 1..Run(live'[i])
               PROVE  disk'[i[1] + k - 1] = BigPage(live'[i], k)
    OBVIOUS
  <2> DEFINE q == i[1] + k - 1
  <2>1. CASE i = id
    <3>1. i[1] = p /\ live'[i] = d /\ k \in 1..Run(d)
      BY <1>8, <1>9, <2>1
    <3>2. q \in taken /\ q - p + 1 = k
      BY <1>1, <1>2, <3>1 DEF taken
    <3> HIDE DEF q
    <3>3. q \in PageNumbers
      BY <1>2, <1>7, <3>2
    <3>4. disk'[q] = BigPage(d, k)
      BY <1>3, <3>2, <3>3
    <3> QED
      BY <3>1, <3>4 DEF q
  <2>2. CASE i # id
    <3>1. i \in DOMAIN live /\ live'[i] = live[i]
      BY <1>9, <2>2
    <3>2. disk[q] = BigPage(live[i], k)
      BY <3>1 DEF DataInv, HeldInv
    <3>3. q \in DataPages(i, live[i])
      <4>1. i[1] \in Nat /\ Run(live[i]) \in Nat /\ k \in 1..Run(live[i])
        BY <3>1, LiveFacts, SizeFacts
      <4> QED
        BY <4>1 DEF DataPages
    <3> HIDE DEF q
    <3>4. q \in PageNumbers /\ q \notin taken
      BY <1>2, <3>1, <3>3, LiveFacts
    <3>5. disk'[q] = disk[q]
      BY <1>3, <3>4
    <3> QED
      BY <3>1, <3>2, <3>5 DEF q
  <2> QED
    BY <2>1, <2>2
<1>19. HeldInv'
  BY <1>17, <1>18, HeldNext
<1> QED
  BY <1>3, <1>6, <1>8, <1>10, <1>11, <1>16, <1>19 DEF DataInv, Stores

(* A page that is read into the cache is as it was.                        *)
LEMMA GetStep ==
  ASSUME DataInv, NEW i \in DOMAIN live, Get(i)
  PROVE  DataInv' /\ live' = live
<1> DEFINE p == i[1]
<1>1. /\ p \in SmallPages /\ cache' = With(cache, p, Page(p))
      /\ disk' = disk /\ modified' = modified /\ lastPut' = lastPut /\ lastDel' = lastDel
      /\ reusable' = reusable /\ fileEnd' = fileEnd /\ live' = live
  BY LiveFacts DEF Get
<1> HIDE DEF p
<1>2. /\ DOMAIN cache' = DOMAIN cache \cup {p} /\ cache'[p] = Page(p)
      /\ \A q \in DOMAIN cache : cache'[q] = cache[q]
  BY <1>1 DEF With, Page
<1>3. LiveInv' /\ FreeInv' /\ SmallPages' = SmallPages
  BY <1>1 DEF DataInv, LiveInv, FreeInv, SmallPages
<1>4. CacheInv'
  BY <1>1, <1>2, <1>3 DEF DataInv, CacheInv, Page
<1>5. \A q \in SmallPages : PageAt(cache', disk', q) = Page(q)
  BY <1>1, <1>2 DEF PageAt, Page
<1>6. HeldInv'
  <2>1. \A q \in SmallPages' : HoldsPage(PageAt(cache', disk', q), q, live')
    BY <1>1, <1>3, <1>5 DEF DataInv, HeldInv
  <2>2. \A j \in DOMAIN live' : j[2] = 0 =>
          \A k \in 1..Run(live'[j]) : disk'[j[1] + k - 1] = BigPage(live'[j], k)
    BY <1>1 DEF DataInv, HeldInv
  <2> QED
    BY <2>1, <2>2, HeldNext
<1> QED
  BY <1>1, <1>3, <1>4, <1>6 DEF DataInv

LEMMA ReopenStep ==
  ASSUME DataInv, LongBytes = 4, Reopen
  PROVE  DataInv' /\ live' = live
<1>1. /\ disk' = Flushed /\ cache' = Empty /\ modified' = {}
      /\ lastPut' = 0 /\ lastDel' = 0 /\ reusable' = <<>>
      /\ fileEnd' = fileEnd /\ live' = live /\ DOMAIN cache' = {}
  BY DEF Reopen, Empty
<1>2. LiveInv' /\ SmallPages' = SmallPages
  BY <1>1 DEF DataInv, LiveInv, SmallPages
<1>3. FreeInv'
  BY <1>1 DEF FreeInv
<1>4. CacheInv'
  BY <1>1 DEF CacheInv
<1>5. \A q \in SmallPages : PageAt(cache', disk', q) = Page(q)
  BY <1>1, FlushedPages, SmallFacts DEF PageAt
<1>6. \A q \in SmallPages' : HoldsPage(PageAt(cache', disk', q), q, live')
  BY <1>1, <1>2, <1>5 DEF DataInv, HeldInv
<1>7. \A i \in DOMAIN live' : i[2] = 0 =>
         \A k \in 1..Run(live'[i]) : disk'[i[1] + k - 1] = BigPage(live'[i], k)
  <2> SUFFICES ASSUME NEW i \in DOMAIN live, i[2] = 0, NEW k \in 1..Run(live[i])
               PROVE  disk'[i[1] + k - 1] = BigPage(live[i], k)
    BY <1>1
  <2> DEFINE q == i[1] + k - 1
  <2>1. disk[q] = BigPage(live[i], k)
    BY DEF DataInv, HeldInv
  <2>2. q \in DataPages(i, live[i])
    <3>1. i[1] \in Nat /\ Run(live[i]) \in Nat
      BY LiveFacts, SizeFacts
    <3> QED
      BY <3>1 DEF DataPages
  <2> HIDE DEF q
  <2>3. q \in PageNumbers /\ q \notin SmallPages
    BY <2>2, LiveFacts, SmallFacts
  <2>4. disk'[q] = disk[q]
    BY <1>1, <2>3, FlushedPages
  <2> QED
    BY <2>1, <2>4 DEF q
<1>8. HeldInv'
  BY <1>6, <1>7, HeldNext
<1> QED
  BY <1>1, <1>2, <1>3, <1>4, <1>8 DEF DataInv

LEMMA DelBigStep ==
  ASSUME DataInv, NEW i \in DOMAIN live, DelBig(i)
  PROVE  DataInv' /\ live' = Without(live, i)
<1>1. /\ i[2] = 0 /\ live' = Without(live, i) /\ disk' = disk /\ cache' = cache
      /\ modified' = modified /\ lastPut' = lastPut /\ lastDel' = lastDel
      /\ fileEnd' = fileEnd
  BY DEF DelBig
<1>2. /\ i[1] \in Nat /\ Run(live[i]) \in Nat /\ Run(live[i]) >= 1
      /\ 1 \in 1..Run(live[i]) /\ i[1] + 1 - 1 = i[1]
  BY LiveFacts, SizeFacts
<1>3. Remember(i[1], Run(live[i]))
  <2>1. disk[i[1]] = BigPage(live[i], 1)
    <3>1. disk[i[1] + 1 - 1] = BigPage(live[i], 1)
      BY <1>1, <1>2 DEF DataInv, HeldInv
    <3> QED
      BY <1>2, <3>1
  <2>2. disk[i[1]].recs[1].data = live[i]
    BY <2>1 DEF BigPage
  <2> QED
    BY <2>2 DEF DelBig
<1>4. Extent([page |-> i[1], size |-> Run(live[i])]) = DataPages(i, live[i])
  BY <1>1 DEF Extent, DataPages
<1>5. \A j \in DOMAIN live \ {i} : DataPages(i, live[i]) \cap DataPages(j, live[j]) = {}
  BY <1>1 DEF DataInv, LiveInv
<1>6. LiveInv' /\ FreeInv'
  BY <1>1, <1>2, <1>3, <1>4, <1>5, LiveAfterDel, FreeAfterRemember
<1>7. /\ DOMAIN live' = DOMAIN live \ {i}
      /\ \A j \in DOMAIN live \ {i} : live'[j] = live[j]
  BY <1>1 DEF Without
<1>8. SmallPages' = SmallPages
  BY <1>1, <1>7 DEF SmallPages
<1>9. CacheInv'
  BY <1>1, <1>8 DEF DataInv, CacheInv
<1>10. \A q \in SmallPages' : HoldsPage(PageAt(cache', disk', q), q, live')
  <2> SUFFICES ASSUME NEW q \in SmallPages
               PROVE  HoldsPage(PageAt(cache', disk', q), q, live')
    BY <1>8
  <2>1. PageAt(cache', disk', q) = Page(q)
    BY <1>1 DEF PageAt, Page
  <2>2. HoldsPage(Page(q), q, live) /\ i[1] # q
    BY <1>1, SmallFacts, LiveFacts DEF DataInv, HeldInv
  <2>3. HoldsPage(Page(q), q, Without(live, i))
    BY <2>2, OtherPage
  <2> QED
    BY <1>1, <2>1, <2>3
<1>11. \A j \in DOMAIN live' : j[2] = 0 =>
         \A k \in 1..Run(live'[j]) : disk'[j[1] + k - 1] = BigPage(live'[j], k)
  BY <1>1, <1>7 DEF DataInv, HeldInv
<1>12. HeldInv'
  BY <1>10, <1>11, HeldNext
<1> QED
  BY <1>1, <1>6, <1>9, <1>12 DEF DataInv

(* A page that loses a record.                                             *)
LEMMA PageDel ==
  ASSUME NEW page, NEW p, NEW L, HoldsPage(page, p, L), NEW k \in 1..Len(page.recs)
  PROVE  HoldsPage(SmallPage(page.used - FreedBlocks(page.recs[k].data),
                            RemoveAt(page.recs, k)),
                   p, Without(L, <<p, page.recs[k].id>>))
<1> DEFINE recs == page.recs
           used == page.used
           left == RemoveAt(recs, k)
           d == recs[k].data
<1>1. /\ Holds(recs, p, L) /\ used \in Nat /\ Occupied(recs) <= used /\ used <= MaxBlocks
      /\ MaxBlocks \in Nat
  BY WordDataAssumption DEF HoldsPage
<1>2. recs \in Seq(Rec)
  BY <1>1 DEF Holds
<1>3. d \in Data
  BY <1>2, RecFields
<1>4. k \in 1..Len(recs)
  OBVIOUS
<1> HIDE DEF recs, used
<1>5. /\ Blocks(d) \in Nat /\ FreedBlocks(d) \in Nat /\ FreedBlocks(d) <= Blocks(d)
  BY <1>3, SizeFacts
<1>6. Occupied(recs) = Occupied(left) + Blocks(d)
  BY <1>2, <1>4, OccupiedRemove
<1>7. Holds(left, p, Without(L, <<p, recs[k].id>>))
  BY <1>1, <1>4, RemoveHolds
<1>8. Occupied(left) \in Nat
  <2>1. left \in Seq(Rec)
    BY <1>7 DEF Holds
  <2> QED
    BY <2>1, OccupiedLength
<1> HIDE DEF d, left
<1>9. /\ used - FreedBlocks(d) \in Nat /\ Occupied(left) <= used - FreedBlocks(d)
      /\ used - FreedBlocks(d) <= MaxBlocks
  BY <1>1, <1>5, <1>6, <1>8
<1>10. HoldsPage(SmallPage(used - FreedBlocks(d), left), p, Without(L, <<p, recs[k].id>>))
  BY <1>7, <1>9 DEF HoldsPage, SmallPage
<1> QED
  BY <1>10 DEF recs, used, left, d

LEMMA DelInPageStep ==
  ASSUME DataInv, NEW i \in DOMAIN live, DelInPage(i)
  PROVE  DataInv' /\ live' = Without(live, i)
<1> DEFINE p == i[1]
           page == Page(p)
           recs == page.recs
           found == {k \in DOMAIN recs : recs[k].id = i[2]}
<1>1. /\ i[2] # 0 /\ i = <<p, i[2]>> /\ p \in SmallPages /\ p \in Nat
      /\ i[2] \in 1..MaxBlocks /\ live' = Without(live, i)
      /\ disk' = disk /\ fileEnd' = fileEnd
  BY LiveFacts DEF DelInPage
<1>2. HoldsPage(page, p, live)
  BY <1>1 DEF DataInv, HeldInv
<1>3. /\ recs \in Seq(Rec) /\ Len(recs) \in Nat /\ DOMAIN recs = 1..Len(recs)
      /\ IdsAscending(recs)
      /\ \A k \in 1..Len(recs) :
           /\ recs[k].id \in Nat /\ recs[k].id \in 1..MaxBlocks
           /\ <<p, recs[k].id>> \in DOMAIN live
      /\ \A n \in 1..MaxBlocks :
           <<p, n>> \in DOMAIN live => \E k \in 1..Len(recs) : recs[k].id = n
  <2>1. Holds(recs, p, live)
    BY <1>2 DEF HoldsPage
  <2> HIDE DEF p, page, recs
  <2>2. /\ recs \in Seq(Rec) /\ IdsAscending(recs)
        /\ \A k \in 1..Len(recs) :
             recs[k].id \in 1..MaxBlocks /\ <<p, recs[k].id>> \in DOMAIN live
        /\ \A n \in 1..MaxBlocks :
             <<p, n>> \in DOMAIN live => \E k \in 1..Len(recs) : recs[k].id = n
    BY <2>1 DEF Holds
  <2>3. /\ Len(recs) \in Nat /\ DOMAIN recs = 1..Len(recs)
        /\ \A k \in 1..Len(recs) : recs[k].id \in Nat
    BY <2>2, RecFields
  <2> QED
    BY <2>2, <2>3
<1>a. found # {}
  BY <1>1, <1>3
<1>4. PICK k \in DOMAIN recs :
        /\ recs[k].id = i[2]
        /\ IF Len(recs) = 1
           THEN /\ Remember(p, 1)
                /\ lastPut' = LastPutWithout(p)
                /\ lastDel' = 0
                /\ cache' = Without(cache, p)
                /\ modified' = modified \ {p}
           ELSE /\ cache' = With(cache, p,
                     SmallPage(page.used - FreedBlocks(recs[k].data), RemoveAt(recs, k)))
                /\ modified' = modified \cup {p}
                /\ lastDel' = p
                /\ lastPut' = lastPut /\ reusable' = reusable
  BY <1>a DEF DelInPage
<1> HIDE DEF p, page, recs, found
<1>5. k \in 1..Len(recs) /\ i = <<p, recs[k].id>> /\ DataPages(i, live[i]) = {p}
  BY <1>1, <1>3, <1>4 DEF DataPages, p
<1>6. /\ DOMAIN live' = DOMAIN live \ {i}
      /\ \A j \in DOMAIN live \ {i} : live'[j] = live[j]
  BY <1>1 DEF Without
<1>7. /\ p \in 1..(fileEnd - 1) /\ p \in PageNumbers
      /\ \A j \in DOMAIN live : j[2] = 0 => p \notin DataPages(j, live[j]) /\ j[1] # p
      /\ \A l \in 1..Len(reusable) : p \notin Extent(reusable[l])
  BY <1>1, SmallFacts, LiveFacts
<1>8. LiveInv'
  BY <1>1, LiveAfterDel
<1>9. \A q \in SmallPages : q # p => HoldsPage(Page(q), q, live')
  <2> TAKE q \in SmallPages
  <2>1. HoldsPage(Page(q), q, live)
    BY DEF DataInv, HeldInv
  <2>2. q # p => i[1] # q
    BY DEF p
  <2> QED
    BY <1>1, <2>1, <2>2, OtherPage
<1>10. \A j \in DOMAIN live' : j[2] = 0 =>
         \A l \in 1..Run(live'[j]) : disk'[j[1] + l - 1] = BigPage(live'[j], l)
  BY <1>1, <1>6 DEF DataInv, HeldInv
<1>11. CASE Len(recs) = 1
  <2>1. /\ Remember(p, 1) /\ lastPut' = LastPutWithout(p) /\ lastDel' = 0
        /\ cache' = Without(cache, p) /\ modified' = modified \ {p}
    BY <1>4, <1>11
  <2>2. \A j \in DOMAIN live \ {i} : j[1] # p
    <3> SUFFICES ASSUME NEW j \in DOMAIN live, j # i, j[1] = p PROVE FALSE
      OBVIOUS
    <3>1. j[2] # 0
      BY <1>7
    <3>2. j = <<p, j[2]>> /\ j[2] \in 1..MaxBlocks
      BY <3>1, LiveFacts
    <3>3. PICK l \in 1..Len(recs) : recs[l].id = j[2]
      BY <1>3, <3>2
    <3>4. l = k
      BY <1>5, <1>11
    <3> QED
      BY <1>5, <3>2, <3>3, <3>4
  <2>3. FreeInv'
    <3>1. Extent([page |-> i[1], size |-> 1]) = DataPages(i, live[i])
      <4>1. p..(p + 1 - 1) = {p}
        BY <1>1
      <4> QED
        BY <1>5, <4>1 DEF Extent, p
    <3>2. \A j \in DOMAIN live \ {i} : DataPages(i, live[i]) \cap DataPages(j, live[j]) = {}
      <4> TAKE j \in DOMAIN live \ {i}
      <4>1. CASE j[2] = 0
        BY <1>5, <1>7, <4>1
      <4>2. CASE j[2] # 0
        BY <1>5, <2>2, <4>2 DEF DataPages
      <4> QED
        BY <4>1, <4>2
    <3>3. 1 \in Nat /\ Remember(i[1], 1)
      BY <2>1 DEF p
    <3> QED
      BY <1>1, <3>1, <3>2, <3>3, FreeAfterRemember
  <2>4. SmallPages' = SmallPages \ {p}
    <3>1. SmallPages' = {j[1] : j \in {x \in DOMAIN live \ {i} : x[2] # 0}}
      BY <1>6 DEF SmallPages
    <3> QED
      BY <2>2, <3>1 DEF SmallPages, p
  <2>5. /\ DOMAIN cache' = DOMAIN cache \ {p}
        /\ \A q \in DOMAIN cache \ {p} : cache'[q] = cache[q]
    BY <2>1 DEF Without
  <2>6. CacheInv'
    BY <1>1, <2>1, <2>4, <2>5 DEF DataInv, CacheInv, LastPutWithout
  <2>7. \A q \in SmallPages' : HoldsPage(PageAt(cache', disk', q), q, live')
    <3> SUFFICES ASSUME NEW q \in SmallPages, q # p
                 PROVE  HoldsPage(PageAt(cache', disk', q), q, live')
      BY <2>4
    <3>1. PageAt(cache', disk', q) = Page(q)
      BY <1>1, <2>5 DEF PageAt, Page
    <3> QED
      BY <1>9, <3>1
  <2>8. HeldInv'
    BY <1>10, <2>7, HeldNext
  <2> QED
    BY <1>1, <1>8, <2>3, <2>6, <2>8 DEF DataInv
<1>12. CASE Len(recs) # 1
  <2> DEFINE page2 == SmallPage(page.used - FreedBlocks(recs[k].data), RemoveAt(recs, k))
  <2>1. /\ cache' = With(cache, p, page2) /\ modified' = modified \cup {p}
        /\ lastDel' = p /\ lastPut' = lastPut /\ reusable' = reusable
    BY <1>4, <1>12
  <2>2. HoldsPage(page2, p, live')
    BY <1>1, <1>2, <1>5, PageDel DEF recs
  <2> HIDE DEF page2
  <2>3. FreeInv'
    BY <1>1, <1>6, <2>1 DEF DataInv, FreeInv
  <2>4. SmallPages' = SmallPages
    <3> DEFINE l == IF k = 1 THEN 2 ELSE 1
               j == <<p, recs[l].id>>
    <3>1. l \in 1..Len(recs) /\ l # k /\ (l < k \/ k < l)
      BY <1>3, <1>5, <1>12
    <3> HIDE DEF l
    <3>2. recs[l].id # recs[k].id
      <4>1. recs[l].id < recs[k].id \/ recs[k].id < recs[l].id
        BY <1>3, <1>5, <3>1 DEF IdsAscending
      <4>2. recs[l].id \in Nat /\ recs[k].id \in Nat
        BY <1>3, <1>5, <3>1
      <4> QED
        BY <4>1, <4>2
    <3>3. j \in DOMAIN live /\ j # i /\ j[1] = p /\ j[2] # 0
      <4>1. recs[l].id # 0 /\ j \in DOMAIN live
        BY <1>3, <3>1
      <4> QED
        BY <1>5, <3>2, <4>1
    <3> HIDE DEF j
    <3>4. SmallPages' = {x[1] : x \in {x \in DOMAIN live \ {i} : x[2] # 0}}
      BY <1>6 DEF SmallPages
    <3>5. SmallPages' \subseteq SmallPages /\ p \in SmallPages'
      BY <3>3, <3>4 DEF SmallPages
    <3>6. ASSUME NEW q \in SmallPages PROVE q \in SmallPages'
      <4>1. PICK x \in DOMAIN live : x[2] # 0 /\ q = x[1]
        BY DEF SmallPages
      <4>2. CASE x = i
        BY <3>5, <4>1, <4>2 DEF p
      <4>3. CASE x # i
        BY <3>4, <4>1, <4>3
      <4> QED
        BY <4>2, <4>3
    <3> QED
      BY <3>5, <3>6
  <2>5. /\ DOMAIN cache' = DOMAIN cache \cup {p} /\ cache'[p] = page2
        /\ \A q \in DOMAIN cache : q # p => cache'[q] = cache[q]
    BY <2>1 DEF With
  <2>6. CacheInv'
    BY <1>1, <2>1, <2>4, <2>5 DEF DataInv, CacheInv
  <2>7. \A q \in SmallPages' : HoldsPage(PageAt(cache', disk', q), q, live')
    <3> SUFFICES ASSUME NEW q \in SmallPages
                 PROVE  HoldsPage(PageAt(cache', disk', q), q, live')
      BY <2>4
    <3>1. CASE q = p
      BY <2>2, <2>5, <3>1 DEF PageAt
    <3>2. CASE q # p
      <4>1. PageAt(cache', disk', q) = Page(q)
        BY <1>1, <2>5, <3>2 DEF PageAt, Page
      <4> QED
        BY <1>9, <3>2, <4>1
    <3> QED
      BY <3>1, <3>2
  <2>8. HeldInv'
    BY <1>10, <2>7, HeldNext
  <2> QED
    BY <1>1, <1>8, <2>3, <2>6, <2>8 DEF DataInv
<1> QED
  BY <1>11, <1>12

-----------------------------------------------------------------------------
LEMMA DataStarts == DataInit => DataInv /\ live = Empty
<1> SUFFICES ASSUME DataInit PROVE DataInv
  BY DEF DataInit
<1> USE DEF DataInit, Empty
<1>1. DOMAIN live = {} /\ DOMAIN cache = {}
  OBVIOUS
<1>2. SmallPages = {}
  BY <1>1 DEF SmallPages
<1>3. LiveInv
  BY <1>1, WordDataAssumption DEF LiveInv
<1>4. FreeInv
  BY DEF FreeInv
<1> QED
  BY <1>1, <1>2, <1>3, <1>4 DEF DataInv, CacheInv, HeldInv

(* A step stores new data, deletes some, or leaves what is stored alone.   *)
LEMMA DataStep ==
  ASSUME DataInv, LongBytes = 4, [DataNext]_dataVars
  PROVE  /\ DataInv'
         /\ \/ live' = live
            \/ \E d \in Data : Stores(d)
            \/ \E i \in DOMAIN live : live' = Without(live, i)
<1>1. CASE \E d \in Data : PutInPage(d)
  BY <1>1, PutInPageStep
<1>2. CASE \E d \in Data : PutInNewPage(d)
  BY <1>2, PutInNewPageStep
<1>3. CASE \E d \in Data : PutBig(d)
  BY <1>3, PutBigStep
<1>4. CASE \E i \in DOMAIN live : Get(i)
  BY <1>4, GetStep
<1>5. CASE \E i \in DOMAIN live : DelInPage(i)
  BY <1>5, DelInPageStep
<1>6. CASE \E i \in DOMAIN live : DelBig(i)
  BY <1>6, DelBigStep
<1>7. CASE Reopen
  BY <1>7, ReopenStep
<1>8. CASE UNCHANGED dataVars
  BY <1>8 DEF dataVars, DataInv, LiveInv, FreeInv, CacheInv, HeldInv, SmallPages, Page
<1> QED
  BY <1>1, <1>2, <1>3, <1>4, <1>5, <1>6, <1>7, <1>8 DEF DataNext

LEMMA DataInvAlways ==
  ASSUME LongBytes = 4
  PROVE  DataSpec => []DataInv
<1>1. DataInv /\ [DataNext]_dataVars => DataInv'
  BY DataStep
<1> QED
  BY <1>1, DataStarts, PTL DEF DataSpec

LEMMA DataInvGivesSound == DataInv => PagesSound
<1> SUFFICES ASSUME DataInv PROVE PagesSound
  OBVIOUS
<1>1. /\ DOMAIN reusable = 1..Len(reusable)
      /\ \A k \in DOMAIN reusable : FreePages(k) = Extent(reusable[k])
      /\ \A i \in DOMAIN live : LivePages(i) = DataPages(i, live[i])
  BY DEF DataInv, FreeInv, FreePages, Extent, LivePages, DataPages
<1>2. DOMAIN cache \subseteq SmallPages
  BY DEF DataInv, CacheInv
<1>3. PagesDisjoint
  <2>1. ASSUME NEW k \in DOMAIN reusable
        PROVE  /\ FreePages(k) \cap DOMAIN cache = {}
               /\ \A i \in DOMAIN live : FreePages(k) \cap LivePages(i) = {}
               /\ \A l \in DOMAIN reusable \ {k} : FreePages(k) \cap FreePages(l) = {}
    <3>1. FreePages(k) \cap DOMAIN cache = {}
      BY <1>1, <1>2, SmallFacts
    <3>2. /\ \A i \in DOMAIN live : FreePages(k) \cap LivePages(i) = {}
          /\ \A l \in DOMAIN reusable \ {k} : FreePages(k) \cap FreePages(l) = {}
      BY <1>1 DEF DataInv, FreeInv
    <3> QED
      BY <3>1, <3>2
  <2>2. ASSUME NEW i \in DOMAIN live, i[2] = 0
        PROVE  /\ LivePages(i) \cap DOMAIN cache = {}
               /\ \A j \in DOMAIN live \ {i} : LivePages(i) \cap LivePages(j) = {}
    <3>1. LivePages(i) \cap DOMAIN cache = {}
      BY <1>1, <1>2, <2>2, SmallFacts
    <3>2. \A j \in DOMAIN live \ {i} : LivePages(i) \cap LivePages(j) = {}
      BY <1>1, <2>2 DEF DataInv, LiveInv
    <3> QED
      BY <3>1, <3>2
  <2> QED
    BY <2>1, <2>2 DEF PagesDisjoint
<1>4. NumbersAscending
  <2> SUFFICES ASSUME NEW p \in SmallPages
               PROVE  LET recs == Page(p).recs
                      IN  /\ {recs[k].id : k \in DOMAIN recs} =
                               {n \in 1..MaxBlocks : <<p, n>> \in DOMAIN live}
                          /\ \A k, l \in DOMAIN recs : k < l => recs[k].id < recs[l].id
    BY <1>2 DEF NumbersAscending, SmallPages
  <2> DEFINE recs == Page(p).recs
  <2>1. Holds(recs, p, live)
    BY DEF DataInv, HeldInv, HoldsPage
  <2> HIDE DEF recs
  <2>2. DOMAIN recs = 1..Len(recs) /\ \A k, l \in DOMAIN recs : k < l => recs[k].id < recs[l].id
    BY <2>1 DEF Holds, IdsAscending
  <2>3. {recs[k].id : k \in DOMAIN recs} = {n \in 1..MaxBlocks : <<p, n>> \in DOMAIN live}
    BY <2>1, <2>2 DEF Holds
  <2> QED
    BY <2>2, <2>3 DEF recs
<1>5. UsedCovers
  <2> SUFFICES ASSUME NEW p \in DOMAIN cache
               PROVE  Occupied(cache[p].recs) <= cache[p].used /\ cache[p].used <= MaxBlocks
    BY DEF UsedCovers
  <2>1. HoldsPage(Page(p), p, live) /\ Page(p) = cache[p]
    BY <1>2 DEF DataInv, HeldInv, Page
  <2> QED
    BY <2>1 DEF HoldsPage
<1>6. LastPagesCached
  BY DEF LastPagesCached, DataInv, CacheInv
<1> QED
  BY <1>3, <1>4, <1>5, <1>6 DEF PagesSound

(* Where a long has four bytes, the file of word data is sound whatever is *)
(* stored, found and deleted, and however sessions follow: no page is used *)
(* twice, and the counts and numbers a page is searched by are right       *)
(* (worddata.c).                                                           *)
THEOREM PagesSoundAlways ==
  ASSUME LongBytes = 4
  PROVE  DataSpec => []PagesSound
BY DataInvAlways, DataInvGivesSound, PTL

-----------------------------------------------------------------------------
(***************************************************************************)
(* What is found under an id.                                              *)
(***************************************************************************)
LEMMA FoundIsStored ==
  ASSUME DataInv, NEW i \in DOMAIN live
  PROVE  Found(i) = {live[i]}
<1>1. /\ i[1] \in Nat /\ live[i] \in Data /\ i = <<i[1], i[2]>>
      /\ DataPages(i, live[i]) \subseteq PageNumbers
  BY LiveFacts
<1>2. CASE i[2] = 0
  <2>1. ASSUME NEW k \in 1..Run(live[i])
        PROVE  i[1] + k - 1 \in PageNumbers /\ disk[i[1] + k - 1] = BigPage(live[i], k)
    <3>1. i[1] + k - 1 \in DataPages(i, live[i])
      BY <1>1, <1>2, SizeFacts DEF DataPages
    <3> QED
      BY <1>1, <1>2, <3>1 DEF DataInv, HeldInv
  <2>2. ASSUME NEW d \in Data,
               \A k \in 1..Run(d) :
                 i[1] + k - 1 \in PageNumbers /\ disk[i[1] + k - 1] = BigPage(d, k)
        PROVE  d = live[i]
    <3>1. 1 \in 1..Run(d) /\ 1 \in 1..Run(live[i])
      BY <1>1, SizeFacts
    <3>2. BigPage(d, 1) = BigPage(live[i], 1)
      BY <2>1, <2>2, <3>1
    <3>3. BigPage(d, 1).recs[1].data = d /\ BigPage(live[i], 1).recs[1].data = live[i]
      BY DEF BigPage
    <3> QED
      BY <3>2, <3>3
  <2> QED
    BY <1>1, <1>2, <2>1, <2>2 DEF Found
<1>3. CASE i[2] # 0
  <2> DEFINE recs == Page(i[1]).recs
  <2>1. i[1] \in SmallPages /\ i[2] \in 1..MaxBlocks
    BY <1>3, LiveFacts
  <2>2. Holds(recs, i[1], live)
    BY <2>1 DEF DataInv, HeldInv, HoldsPage
  <2>3. Found(i) = {r.data : r \in {r \in Range(recs) : r.id = i[2]}}
    BY <1>3 DEF Found
  <2> HIDE DEF recs
  <2>4. PICK k \in 1..Len(recs) : recs[k].id = i[2]
    BY <1>1, <2>1, <2>2 DEF Holds
  <2>5. recs[k].data = live[i]
    BY <1>1, <2>2, <2>4 DEF Holds
  <2>6. DOMAIN recs = 1..Len(recs)
    BY <2>2 DEF Holds
  <2>7. ASSUME NEW l \in 1..Len(recs), recs[l].id = i[2] PROVE recs[l].data = live[i]
    BY <1>1, <2>2, <2>7 DEF Holds
  <2>8. recs[k] \in Range(recs) /\ \A r \in Range(recs) : \E l \in 1..Len(recs) : r = recs[l]
    BY <2>6 DEF Range
  <2> QED
    BY <2>3, <2>4, <2>5, <2>7, <2>8
<1> QED
  BY <1>2, <1>3

(* What the store's clients find, and what they stored: one map.           *)
FoundMap == [i \in DOMAIN live |-> Found(i)]
KeptMap  == [i \in DOMAIN live |-> {live[i]}]
LEMMA FoundIsKept == DataInv => FoundMap = KeptMap
  BY FoundIsStored DEF FoundMap, KeptMap

(* WORDDATA_Put, WORDDATA_Get and WORDDATA_Del keep data under its id,     *)
(* where a long has four bytes: a Put gives an id that is not in use, a    *)
(* Del takes away its own data only, and everything else done to pages,    *)
(* cache and free pages leaves what is found under every id alone          *)
(* (worddata.c).                                                           *)
THEOREM WordDataImplementsIdStore ==
  ASSUME LongBytes = 4
  PROVE  DataSpec => ImplementsIdStore
<1> DEFINE map == [i \in DOMAIN live |-> Found(i)]
           kept == [i \in DOMAIN live |-> {live[i]}]
<1>1. (DataInv => FoundMap = KeptMap)'
  BY FoundIsKept, PTL
<1>2. DataInit => Store!Init
  <2> SUFFICES ASSUME DataInit PROVE map = [i \in {} |-> {}]
    BY DEF Store!Init
  <2>1. DOMAIN live = {}
    BY DEF DataInit, Empty
  <2> QED
    BY <2>1
<1>3. ASSUME DataInv, DataInv', [DataNext]_dataVars
      PROVE  [UNCHANGED dataVars \/ Store!Next]_map
  <2>1. map = kept /\ map' = kept'
    BY <1>1, <1>3, FoundIsKept DEF FoundMap, KeptMap
  <2>2. \/ live' = live
        \/ \E d \in Data : Stores(d)
        \/ \E i \in DOMAIN live : live' = Without(live, i)
    BY <1>3, DataStep
  <2>3. CASE live' = live
    BY <2>1, <2>3
  <2>4. CASE \E d \in Data : Stores(d)
    <3>1. PICK d \in Data, id \in Ids : id \notin DOMAIN live /\ live' = With(live, id, d)
      BY <2>4 DEF Stores
    <3>2. kept' = [j \in DOMAIN kept \cup {id} |-> IF j = id THEN {d} ELSE kept[j]]
      BY <3>1 DEF With
    <3>3. Store!Put(id, {d})
      BY <2>1, <3>1, <3>2 DEF Store!Put
    <3>4. Store!Next
      BY <3>3 DEF Store!Next
    <3> QED
      BY <3>4
  <2>5. CASE \E i \in DOMAIN live : live' = Without(live, i)
    <3>1. PICK i \in DOMAIN live : live' = Without(live, i)
      BY <2>5
    <3>2. kept' = [j \in DOMAIN kept \ {i} |-> kept[j]]
      BY <3>1 DEF Without
    <3>3. Store!Del(i) /\ i \in Ids
      BY <1>3, <2>1, <3>2 DEF Store!Del, DataInv, LiveInv
    <3>4. Store!Next
      BY <3>3 DEF Store!Next
    <3> QED
      BY <3>4
  <2> QED
    BY <2>2, <2>3, <2>4, <2>5
<1> QED
  BY <1>2, <1>3, DataInvAlways, PTL DEF DataSpec, ImplementsIdStore

-----------------------------------------------------------------------------
(* Arrays.  Where an element is, and nothing else.                         *)
SlotNos == 0..(Slots - 1)
ArrayPage == [next : Nat, slots : [SlotNos -> Nat]]

(* What is divided is known from the quotient and the remainder.           *)
LEMMA Division ==
  ASSUME NEW n \in Nat, NEW d \in Nat \ {0}
  PROVE  n \div d \in Nat /\ n % d \in 0..(d - 1)
<1>1. n \div d \in Nat
  OBVIOUS
<1>2. n % d \in 0..(d - 1)
  OBVIOUS
<1> QED
  BY <1>1, <1>2

LEMMA DivisionOnce ==
  ASSUME NEW n \in Nat, NEW m \in Nat, NEW d \in Nat \ {0},
         n \div d = m \div d, n % d = m % d
  PROVE  n = m
<1> DEFINE q == d * (n \div d)
<1>1. n % d = n - d * (n \div d) /\ m % d = m - d * (m \div d)
  OBVIOUS
<1>2. q \in Int
  BY Division
<1>3. n - q = m - q
  BY <1>1
<1> HIDE DEF q
<1> QED
  BY <1>2, <1>3

(* An element has a place.                                                 *)
LEMMA PlaceOf ==
  ASSUME NEW i \in Nat
  PROVE  PageIndex(i) \in SlotNos /\ Hashed(i) \in SlotNos /\ PageReads(i) \in Nat
<1>1. Slots \in Nat \ {0}
  BY ArrayAssumption
<1>2. i \div Slots \in Nat
  BY <1>1, Division
<1>3. PageIndex(i) \in SlotNos
  BY <1>1, Division DEF PageIndex, SlotNos
<1>4. Hashed(i) \in SlotNos
  BY <1>1, <1>2, Division DEF Hashed, SlotNos
<1>5. PageReads(i) \in Nat
  BY <1>1, <1>2, Division DEF PageReads
<1> QED
  BY <1>3, <1>4, <1>5

(* And no two have the same one.                                           *)
LEMMA PlacesDiffer ==
  ASSUME NEW i \in Nat, NEW j \in Nat,
         PageIndex(i) = PageIndex(j), Hashed(i) = Hashed(j), PageReads(i) = PageReads(j)
  PROVE  i = j
<1>1. Slots \in Nat \ {0}
  BY ArrayAssumption
<1>2. i \div Slots \in Nat /\ j \div Slots \in Nat
  BY <1>1, Division
<1>3. i \div Slots = j \div Slots
  BY <1>1, <1>2, DivisionOnce DEF PageReads, Hashed
<1> QED
  BY <1>1, <1>3, DivisionOnce DEF PageIndex

-----------------------------------------------------------------------------
(* The chains of one array in pages P with the root r.  Links go upwards.  *)
Upward(P) ==
  \A p \in 1..Len(P) : P[p].next = 0 \/ (p < P[p].next /\ P[p].next <= Len(P))

PagesChained(c, P, r) ==
  /\ c \in [SlotNos -> Seq(Nat)] /\ r \in 1..Len(P)
  /\ \A s \in SlotNos : \A k \in 1..Len(c[s]) :
       /\ c[s][k] \in 1..Len(P)
       /\ P[c[s][k]].next = IF k = Len(c[s]) THEN 0 ELSE c[s][k + 1]
  /\ \A s \in SlotNos : P[r].slots[s] = IF Len(c[s]) = 0 THEN 0 ELSE c[s][1]

(* No page is twice in the chains, or the root too.                        *)
Apart(c, r) ==
  \A s, t \in SlotNos : \A k \in 1..Len(c[s]) :
    /\ c[s][k] # r
    /\ \A l \in 1..Len(c[t]) : c[s][k] = c[t][l] => s = t /\ k = l

Owns(c, r, p) == p = r \/ \E s \in SlotNos : \E k \in 1..Len(c[s]) : p = c[s][k]

(* What a page's number stands for in ChainFrom.                           *)
Follows(f, P) ==
  /\ DOMAIN f = {0} \cup DOMAIN P
  /\ \A p \in {0} \cup DOMAIN P : f[p] = IF p = 0 THEN <<>> ELSE <<p>> \o f[P[p].next]

(* Upward links end: there is a function that follows them.                *)
LEMMA FollowsExists ==
  ASSUME NEW P \in Seq(ArrayPage), Upward(P)
  PROVE  /\ \A p \in DOMAIN P : P[p].next \in {0} \cup DOMAIN P
         /\ \E f : Follows(f, P)
<1> DEFINE N == Len(P)
           Up(n) == {0} \cup (N + 1 - n)..N
           Good(n) == \E f : /\ DOMAIN f = Up(n)
                             /\ \A p \in Up(n) : f[p] = IF p = 0 THEN <<>> ELSE <<p>> \o f[P[p].next]
           G == {n \in 0..N : Good(n)}
<1>1. N \in Nat /\ DOMAIN P = 1..N
  OBVIOUS
<1>0. \A p \in 1..N : P[p].next \in Nat /\ (P[p].next = 0 \/ (p < P[p].next /\ P[p].next <= N))
  <2>1. \A x \in ArrayPage : x.next \in Nat
    BY DEF ArrayPage
  <2>2. \A p \in 1..N : P[p] \in ArrayPage
    OBVIOUS
  <2> QED
    BY <2>1, <2>2 DEF Upward
<1>2. 0 \in G
  <2>1. Up(0) = {0}
    BY <1>1
  <2>2. DOMAIN [p \in {0} |-> <<>>] = {0} /\ [p \in {0} |-> <<>>][0] = <<>>
    OBVIOUS
  <2>3. Good(0)
    BY <2>1, <2>2
  <2> QED
    BY <1>1, <2>3
<1>3. ASSUME NEW n \in 0..(N - 1), n \in G PROVE n + 1 \in G
  <2>1. PICK f : /\ DOMAIN f = Up(n)
                 /\ \A p \in Up(n) : f[p] = IF p = 0 THEN <<>> ELSE <<p>> \o f[P[p].next]
    BY <1>3
  <2> DEFINE q == N - n
             g == [p \in Up(n + 1) |-> IF p = q THEN <<q>> \o f[P[q].next] ELSE f[p]]
  <2>2. q \in 1..N /\ Up(n + 1) = Up(n) \cup {q} /\ q \notin Up(n) /\ q # 0
    <3> HIDE DEF N
    <3>1. q \in 1..N /\ q # 0 /\ N + 1 - (n + 1) = q /\ N + 1 - n = q + 1
      BY <1>1
    <3>2. q..N = {q} \cup (q + 1)..N /\ q \notin (q + 1)..N
      BY <1>1, <3>1
    <3> QED
      BY <3>1, <3>2
  <2>3. \A p \in Up(n + 1) : p # 0 => P[p].next \in Up(n)
    <3> HIDE DEF N
    <3>1. \A p \in Up(n + 1) : p # 0 => p \in 1..N /\ p >= N - n
      BY <1>1
    <3>2. \A p \in 1..N : p >= N - n /\ p < P[p].next => P[p].next >= N + 1 - n
      BY <1>0, <1>1
    <3> QED
      BY <1>0, <1>1, <3>1, <3>2
  <2>4. DOMAIN g = Up(n + 1)
    OBVIOUS
  <2>5. ASSUME NEW p \in Up(n + 1)
        PROVE  g[p] = IF p = 0 THEN <<>> ELSE <<p>> \o g[P[p].next]
    <3> HIDE DEF Up
    <3>1. p # 0 => g[P[p].next] = f[P[p].next]
      BY <2>2, <2>3
    <3>2. CASE p = q
      BY <2>2, <3>1, <3>2
    <3>3. CASE p # q
      <4>1. g[p] = f[p] /\ p \in Up(n)
        BY <2>2, <3>3
      <4> HIDE DEF g
      <4> QED
        BY <2>1, <3>1, <4>1
    <3> QED
      BY <3>2, <3>3
  <2>6. Good(n + 1)
    <3> HIDE DEF g, Up
    <3> QED
      BY <2>4, <2>5
  <2> HIDE DEF Good, Up
  <2> QED
    BY <2>6
<1>4. N \in G
  <2> HIDE DEF G, N
  <2>1. \A n \in 0..N : n \in G
    BY <1>1, <1>2, <1>3, UpTo
  <2> QED
    BY <1>1, <2>1
<1>5. PICK f : /\ DOMAIN f = Up(N)
               /\ \A p \in Up(N) : f[p] = IF p = 0 THEN <<>> ELSE <<p>> \o f[P[p].next]
  BY <1>4
<1>6. Up(N) = {0} \cup DOMAIN P
  BY <1>1
<1>7. \A p \in DOMAIN P : P[p].next \in {0} \cup DOMAIN P
  BY <1>0, <1>1
<1> HIDE DEF Up, N, G, Good
<1>8. Follows(f, P)
  BY <1>5, <1>6 DEF Follows
<1> QED
  BY <1>7, <1>8

(* PagesFrom is such a function.                                           *)
LEMMA PagesFollow ==
  ASSUME NEW P \in Seq(ArrayPage), Upward(P)
  PROVE  \E f : Follows(f, P) /\ \A p : PagesFrom(P, p) = f[p]
<1> DEFINE D == {0} \cup DOMAIN P
           f == CHOOSE g : g = [p \in D |-> IF p = 0 THEN <<>> ELSE <<p>> \o g[P[p].next]]
<1>1. PICK h : Follows(h, P)
  BY FollowsExists
<1>2. \E g : g = [p \in D |-> IF p = 0 THEN <<>> ELSE <<p>> \o g[P[p].next]]
  <2> DEFINE g == [p \in D |-> h[p]]
  <2>1. ASSUME NEW p \in D
        PROVE  h[p] = IF p = 0 THEN <<>> ELSE <<p>> \o g[P[p].next]
    <3>1. p # 0 => P[p].next \in D
      BY FollowsExists
    <3>2. p # 0 => g[P[p].next] = h[P[p].next]
      BY <3>1
    <3>3. h[p] = IF p = 0 THEN <<>> ELSE <<p>> \o h[P[p].next]
      BY <1>1 DEF Follows
    <3> HIDE DEF g
    <3> QED
      BY <3>2, <3>3
  <2>2. g = [p \in D |-> IF p = 0 THEN <<>> ELSE <<p>> \o g[P[p].next]]
    BY <2>1
  <2> HIDE DEF g
  <2> QED
    BY <2>2
<1>3. f = [p \in D |-> IF p = 0 THEN <<>> ELSE <<p>> \o f[P[p].next]]
  BY <1>2
<1>4. \A p : PagesFrom(P, p) = f[p]
  BY DEF PagesFrom
<1> HIDE DEF f
<1>5. Follows(f, P)
  BY <1>3 DEF Follows
<1> QED
  BY <1>4, <1>5

(* An element in front of the rest behind it.                              *)
LEMMA RestPrefixed ==
  ASSUME NEW d \in Seq(Nat), NEW k \in 1..Len(d), k # Len(d)
  PROVE  <<d[k]>> \o SubSeq(d, k + 1, Len(d)) = SubSeq(d, k, Len(d))
OBVIOUS

LEMMA OneElement ==
  ASSUME NEW e \in Seq(Nat), NEW x \in Nat, Len(e) = 1, e[1] = x
  PROVE  e = <<x>>
OBVIOUS

LEMMA OnlyElement ==
  ASSUME NEW d \in Seq(Nat), NEW k \in 1..Len(d)
  PROVE  SubSeq(d, k, k) = <<d[k]>>
<1>1. /\ SubSeq(d, k, k) \in Seq(Nat) /\ Len(SubSeq(d, k, k)) = 1
      /\ SubSeq(d, k, k)[1] = d[k] /\ d[k] \in Nat
  OBVIOUS
<1> QED
  BY <1>1, OneElement

(* It gives the rest of a chain from any of its pages on.                  *)
LEMMA ChainFollowed ==
  ASSUME NEW P \in Seq(ArrayPage), Upward(P), NEW c, NEW r, PagesChained(c, P, r),
         NEW s \in SlotNos
  PROVE  PagesFrom(P, P[r].slots[s]) = c[s]
<1>1. PICK f : Follows(f, P) /\ \A p : PagesFrom(P, p) = f[p]
  BY PagesFollow
<1> DEFINE d == c[s]
           L == Len(d)
           G == {n \in 0..L : n = 0 \/ f[d[L + 1 - n]] = SubSeq(d, L + 1 - n, L)}
<1>2. /\ d \in Seq(Nat) /\ L \in Nat
      /\ \A k \in 1..L : /\ d[k] \in 1..Len(P) /\ d[k] # 0
                         /\ P[d[k]].next = IF k = L THEN 0 ELSE d[k + 1]
  <2>1. d \in Seq(Nat) /\ L \in Nat
    BY DEF PagesChained
  <2>2. \A k \in 1..L : d[k] \in 1..Len(P) /\ P[d[k]].next = IF k = L THEN 0 ELSE d[k + 1]
    BY DEF PagesChained
  <2> QED
    BY <2>1, <2>2
<1>3. f[0] = <<>> /\ \A p \in 1..Len(P) : p # 0 => f[p] = <<p>> \o f[P[p].next]
  <2>1. DOMAIN P = 1..Len(P)
    OBVIOUS
  <2> QED
    BY <1>1, <2>1 DEF Follows
<1> HIDE DEF d, L
<1>4. 0 \in G
  BY <1>2
<1>5. ASSUME NEW n \in 0..(L - 1), n \in G PROVE n + 1 \in G
  <2> DEFINE k == L - n
  <2>0. n + 1 \in 0..L
    BY <1>2
  <2>1. k \in 1..L /\ L + 1 - (n + 1) = k /\ k \in Nat
    BY <1>2
  <2>2. f[d[k]] = <<d[k]>> \o f[P[d[k]].next]
    BY <1>2, <1>3, <2>1
  <2>3. CASE n = 0
    <3>1. k = L /\ P[d[k]].next = 0
      BY <1>2, <2>1, <2>3
    <3>2. f[d[k]] = <<d[k]>> \o <<>>
      BY <1>3, <2>2, <3>1
    <3>3. SubSeq(d, k, L) = <<d[k]>>
      BY <1>2, <2>1, <3>1, OnlyElement DEF L
    <3>4. <<d[k]>> \o <<>> = <<d[k]>>
      <4>1. d[k] \in Nat
        BY <1>2, <2>1
      <4> QED
        BY <4>1
    <3>5. f[d[L + 1 - (n + 1)]] = SubSeq(d, L + 1 - (n + 1), L)
      BY <2>1, <3>2, <3>3, <3>4
    <3> QED
      BY <2>0, <3>5
  <2>4. CASE n # 0
    <3>1. f[d[k + 1]] = SubSeq(d, k + 1, L) /\ k # L /\ L + 1 - n = k + 1
      BY <1>2, <1>5, <2>1, <2>4
    <3>2. f[d[k]] = <<d[k]>> \o SubSeq(d, k + 1, L)
      BY <1>2, <2>1, <2>2, <3>1
    <3>3. <<d[k]>> \o SubSeq(d, k + 1, L) = SubSeq(d, k, L)
      BY <1>2, <2>1, <3>1, RestPrefixed DEF L
    <3>4. f[d[L + 1 - (n + 1)]] = SubSeq(d, L + 1 - (n + 1), L)
      BY <2>1, <3>2, <3>3
    <3> QED
      BY <2>0, <3>4
  <2> QED
    BY <2>3, <2>4
<1>6. L \in G
  <2> HIDE DEF G
  <2>1. \A n \in 0..L : n \in G
    BY <1>2, <1>4, <1>5, UpTo
  <2> QED
    BY <1>2, <2>1
<1>7. P[r].slots[s] = IF L = 0 THEN 0 ELSE d[1]
  BY DEF PagesChained, d, L
<1>8. CASE L = 0
  <2>1. d = <<>>
    BY <1>2, <1>8 DEF L
  <2> QED
    BY <1>1, <1>3, <1>7, <1>8, <2>1 DEF d
<1>9. CASE L # 0
  <2>1. f[d[1]] = SubSeq(d, 1, L) /\ L + 1 - L = 1
    BY <1>2, <1>6, <1>9
  <2>2. SubSeq(d, 1, L) = d
    BY <1>2 DEF L
  <2> QED
    BY <1>1, <1>7, <1>9, <2>1, <2>2 DEF d
<1> QED
  BY <1>8, <1>9

-----------------------------------------------------------------------------
(* An element put: the chain is made long enough, and the slot set.        *)
Lack(d, n) == IF n > Len(d) THEN n - Len(d) ELSE 0

Lengthened(e, d, n, N) ==
  /\ e \in Seq(Nat) /\ Len(e) = Len(d) + Lack(d, n)
  /\ \A k \in 1..Len(e) : e[k] = IF k <= Len(d) THEN d[k] ELSE N + (k - Len(d))

NextPut(Q, P, d, n) ==
  \A p \in 1..Len(Q) :
    Q[p].next =
      IF p > Len(P) THEN (IF p = Len(Q) THEN 0 ELSE p + 1)
      ELSE IF Lack(d, n) # 0 /\ Len(d) # 0 /\ p = d[Len(d)] THEN Len(P) + 1
      ELSE P[p].next

SlotsPut(Q, P, d, e, r, i, v) ==
  \A p \in 1..Len(Q), x \in SlotNos :
    Q[p].slots[x] =
      IF p = e[PageReads(i) + 1] /\ x = PageIndex(i) THEN v
      ELSE IF p > Len(P) THEN 0
      ELSE IF Lack(d, PageReads(i) + 1) # 0 /\ Len(d) = 0 /\ p = r /\ x = Hashed(i) THEN Len(P) + 1
      ELSE P[p].slots[x]

PutPages(Q, P, d, e, r, i, v) ==
  /\ Q \in Seq(ArrayPage) /\ Len(Q) = Len(P) + Lack(d, PageReads(i) + 1)
  /\ Lengthened(e, d, PageReads(i) + 1, Len(P))
  /\ NextPut(Q, P, d, PageReads(i) + 1)
  /\ SlotsPut(Q, P, d, e, r, i, v)

(* What an element reads from the chains.                                  *)
ValueAt(c, P, j) ==
  IF PageReads(j) < Len(c[Hashed(j)])
  THEN P[c[Hashed(j)][PageReads(j) + 1]].slots[PageIndex(j)]
  ELSE 0

(* The chains are then those of before, one of them longer.                *)
LongerChains(g, c, Q, P, r, i, v) ==
  /\ PagesChained(g, Q, r) /\ Apart(g, r) /\ Upward(Q)
  /\ \A j \in Nat : ValueAt(g, Q, j) = IF j = i THEN v ELSE ValueAt(c, P, j)
  /\ \A p : Owns(g, r, p) => Owns(c, r, p) \/ p \in (Len(P) + 1)..Len(Q)

LEMMA ChainsPut ==
  ASSUME NEW P \in Seq(ArrayPage), NEW c, NEW r, PagesChained(c, P, r), Apart(c, r), Upward(P),
         NEW i \in Nat, NEW v \in Nat, NEW e, NEW Q,
         PutPages(Q, P, c[Hashed(i)], e, r, i, v)
  PROVE  LongerChains([c EXCEPT ![Hashed(i)] = e], c, Q, P, r, i, v)
<1> DEFINE h == Hashed(i)
           n == PageReads(i) + 1
           d == c[h]
           N == Len(P)
           m == Lack(d, n)
           g == [c EXCEPT ![h] = e]
<1>1. h \in SlotNos /\ n \in Nat /\ n >= 1 /\ PageReads(i) \in Nat /\ PageIndex(i) \in SlotNos
  <2>1. PageIndex(i) \in SlotNos /\ Hashed(i) \in SlotNos /\ PageReads(i) \in Nat
    BY PlaceOf
  <2> QED
    BY <2>1
<1>21. c \in [SlotNos -> Seq(Nat)]
  BY DEF PagesChained
<1>2. /\ r \in 1..N /\ N \in Nat
      /\ \A s \in SlotNos : Len(c[s]) \in Nat
      /\ \A s \in SlotNos : \A k \in 1..Len(c[s]) : c[s][k] \in 1..N
  BY <1>21 DEF PagesChained
<1>3. /\ Len(d) \in Nat /\ m \in Nat /\ n <= Len(d) + m
      /\ m # 0 => n = Len(d) + m
      /\ \A k \in 1..Len(d) : d[k] \in 1..N
  BY <1>1, <1>2 DEF Lack
<1>22. e \in Seq(Nat) /\ Q \in Seq(ArrayPage)
  BY DEF PutPages, Lengthened
<1>4. /\ Len(Q) = N + m /\ Len(Q) \in Nat /\ Len(e) = Len(d) + m /\ Len(e) \in Nat
      /\ \A k \in 1..Len(d) : e[k] = d[k]
      /\ \A k \in (Len(d) + 1)..Len(e) : e[k] = N + (k - Len(d))
  <2>1. Lengthened(e, d, n, N) /\ Q \in Seq(ArrayPage) /\ Len(Q) = N + m
    BY DEF PutPages
  <2>2. e \in Seq(Nat) /\ Len(e) = Len(d) + m
    BY <2>1 DEF Lengthened
  <2>3. \A k \in 1..Len(e) : e[k] = IF k <= Len(d) THEN d[k] ELSE N + (k - Len(d))
    BY <2>1 DEF Lengthened
  <2> HIDE DEF d, m, N, n
  <2>4. \A k \in 1..Len(d) : k \in 1..Len(e) /\ k <= Len(d)
    BY <1>3, <2>2
  <2>5. \A k \in (Len(d) + 1)..Len(e) : k \in 1..Len(e) /\ ~(k <= Len(d))
    BY <1>3, <2>2
  <2> QED
    BY <1>22, <2>1, <2>2, <2>3, <2>4, <2>5
<1>5. NextPut(Q, P, d, n) /\ SlotsPut(Q, P, d, e, r, i, v)
  BY DEF PutPages
<1>6. \A s \in SlotNos : \A k \in 1..Len(c[s]) :
        P[c[s][k]].next = IF k = Len(c[s]) THEN 0 ELSE c[s][k + 1]
  BY DEF PagesChained
<1>7. \A s \in SlotNos : P[r].slots[s] = IF Len(c[s]) = 0 THEN 0 ELSE c[s][1]
  BY DEF PagesChained
<1>23. \A s \in SlotNos : \A k \in 1..Len(c[s]) : c[s][k] # r
  BY DEF Apart
<1>8. \A s, t \in SlotNos : \A k \in 1..Len(c[s]) : \A l \in 1..Len(c[t]) :
        c[s][k] = c[t][l] => s = t /\ k = l
  BY DEF Apart
<1>24. /\ \A k, l \in 1..Len(d) : d[k] = d[l] => k = l
       /\ \A k \in 1..Len(d) : d[k] # r
       /\ \A s \in SlotNos : s # h =>
            \A k \in 1..Len(c[s]), l \in 1..Len(d) : c[s][k] # d[l]
  <2> HIDE DEF h
  <2> QED
    BY <1>1, <1>8, <1>23, Zenon
<1>9. \A p \in 1..N : P[p].next \in Nat /\ (P[p].next = 0 \/ (p < P[p].next /\ P[p].next <= N))
  <2>1. \A x \in ArrayPage : x.next \in Nat
    BY DEF ArrayPage
  <2>2. \A p \in 1..N : P[p] \in ArrayPage
    OBVIOUS
  <2> QED
    BY <2>1, <2>2 DEF Upward
<1>10. /\ g \in [SlotNos -> Seq(Nat)] /\ g[h] = e
       /\ \A s \in SlotNos : s # h => g[s] = c[s]
       /\ c[h] = d
  BY <1>1, <1>21, <1>22
<1> HIDE DEF g, N, h, n, m, d
<1>11. ASSUME NEW k \in 1..Len(e) PROVE e[k] \in 1..(N + m)
  <2>1. CASE k <= Len(d)
    BY <1>2, <1>3, <1>4, <2>1
  <2>2. CASE k > Len(d)
    <3>1. k \in (Len(d) + 1)..Len(e)
      BY <1>3, <2>2
    <3>2. e[k] = N + (k - Len(d))
      BY <1>4, <3>1
    <3> QED
      BY <1>2, <1>3, <1>4, <2>2, <3>2
  <2> QED
    BY <1>3, <2>1, <2>2
<1>12. \A p \in 1..N : p \in 1..Len(Q) /\ ~(p > N)
  BY <1>2, <1>3, <1>4
<1>13. Upward(Q)
  <2> SUFFICES ASSUME NEW p \in 1..Len(Q)
               PROVE  Q[p].next = 0 \/ (p < Q[p].next /\ Q[p].next <= Len(Q))
    BY DEF Upward
  <2>1. CASE p > N
    BY <1>2, <1>3, <1>4, <1>5, <2>1 DEF NextPut, N, m, d
  <2>2. CASE p \in 1..N
    <3>1. (Q[p].next = N + 1 /\ m # 0) \/ Q[p].next = P[p].next
      BY <1>5, <1>12, <2>2 DEF NextPut, N, m, d
    <3> QED
      BY <1>2, <1>3, <1>4, <1>9, <2>2, <3>1
  <2> QED
    BY <1>2, <1>3, <1>4, <2>1, <2>2
<1>14. ASSUME NEW s \in SlotNos, NEW k \in 1..Len(g[s])
       PROVE  /\ g[s][k] \in 1..Len(Q)
              /\ Q[g[s][k]].next = IF k = Len(g[s]) THEN 0 ELSE g[s][k + 1]
  <2>1. CASE s # h
    <3>1. g[s] = c[s] /\ c[s][k] \in 1..N /\ k \in 1..Len(c[s])
      BY <1>2, <1>10, <1>14, <2>1
    <3>2. ~(Len(d) # 0 /\ c[s][k] = d[Len(d)])
      BY <1>3, <1>24, <2>1, <3>1
    <3>3. Q[c[s][k]].next = P[c[s][k]].next
      BY <1>5, <1>12, <3>1, <3>2 DEF NextPut, N, d
    <3> QED
      BY <1>6, <1>12, <3>1, <3>3
  <2>2. CASE s = h
    <3>1. g[s] = e /\ k \in 1..Len(e)
      BY <1>10, <1>14, <2>2
    <3>2. CASE k <= Len(d)
      <4>1. k \in 1..Len(d) /\ e[k] = d[k] /\ d[k] \in 1..N
        BY <1>3, <1>4, <3>1, <3>2
      <4>2. P[d[k]].next = IF k = Len(d) THEN 0 ELSE d[k + 1]
        BY <1>1, <1>6, <1>10, <4>1
      <4>3. CASE k = Len(d) /\ m # 0
        <5>1. Q[e[k]].next = N + 1
          BY <1>5, <1>12, <4>1, <4>3 DEF NextPut, N, m, d
        <5>2. k + 1 \in (Len(d) + 1)..Len(e) /\ k + 1 - Len(d) = 1
          BY <1>3, <1>4, <4>1, <4>3
        <5>3. e[k + 1] = N + (k + 1 - Len(d)) /\ k # Len(e)
          <6>1. e[k + 1] = N + (k + 1 - Len(d))
            BY <1>4, <5>2
          <6>2. k # Len(e)
            BY <1>3, <1>4, <4>1, <4>3
          <6> QED
            BY <6>1, <6>2
        <5> QED
          BY <1>12, <3>1, <4>1, <5>1, <5>2, <5>3
      <4>4. CASE k = Len(d) /\ m = 0
        <5>1. Q[e[k]].next = 0
          BY <1>5, <1>12, <4>1, <4>2, <4>4 DEF NextPut, N, m, d
        <5> QED
          BY <1>3, <1>4, <1>12, <3>1, <4>1, <4>4, <5>1
      <4>5. CASE k # Len(d)
        <5>1. d[k] # d[Len(d)] /\ Len(d) \in 1..Len(d)
          BY <1>3, <1>24, <4>1, <4>5
        <5>2. Q[e[k]].next = d[k + 1]
          BY <1>5, <1>12, <4>1, <4>2, <4>5, <5>1 DEF NextPut, N, d
        <5>3. k + 1 \in 1..Len(d) /\ e[k + 1] = d[k + 1] /\ k # Len(e)
          BY <1>3, <1>4, <4>1, <4>5
        <5> QED
          BY <1>12, <3>1, <4>1, <5>2, <5>3
      <4> QED
        BY <4>3, <4>4, <4>5
    <3>3. CASE k > Len(d)
      <4>1. e[k] = N + (k - Len(d)) /\ e[k] > N /\ e[k] \in 1..Len(Q) /\ (e[k] = Len(Q) <=> k = Len(e))
        <5>1. k \in (Len(d) + 1)..Len(e)
          BY <1>3, <3>1, <3>3
        <5> QED
          BY <1>2, <1>3, <1>4, <3>1, <5>1
      <4>2. Q[e[k]].next = IF e[k] = Len(Q) THEN 0 ELSE e[k] + 1
        BY <1>5, <4>1 DEF NextPut, N, d
      <4>3. k # Len(e) => e[k + 1] = e[k] + 1
        <5>1. k # Len(e) => k + 1 \in (Len(d) + 1)..Len(e)
          BY <1>3, <3>1, <3>3
        <5>2. k # Len(e) => e[k + 1] = N + (k + 1 - Len(d))
          BY <1>4, <5>1
        <5> QED
          BY <1>2, <1>3, <3>1, <4>1, <5>2
      <4> QED
        BY <3>1, <4>1, <4>2, <4>3
    <3> QED
      BY <1>3, <1>4, <3>1, <3>2, <3>3
  <2> QED
    BY <2>1, <2>2
<1>15. n \in 1..Len(e) /\ e[n] # r
  <2>1. n \in 1..Len(e)
    BY <1>1, <1>3, <1>4
  <2>2. CASE n <= Len(d)
    <3>1. n \in 1..Len(d) /\ e[n] = d[n]
      BY <1>1, <1>3, <1>4, <2>2
    <3> QED
      BY <1>24, <2>1, <3>1
  <2>3. CASE n > Len(d)
    <3>1. n \in (Len(d) + 1)..Len(e)
      BY <1>3, <1>4, <2>1, <2>3
    <3>2. e[n] = N + (n - Len(d))
      BY <1>4, <3>1
    <3>3. N \in Nat /\ n \in Nat /\ Len(d) \in Nat /\ r <= N
      BY <1>1, <1>2, <1>3
    <3>4. N + (n - Len(d)) > N
      BY <2>3, <3>3
    <3> QED
      BY <1>2, <2>1, <3>2, <3>3, <3>4
  <2> QED
    BY <1>1, <1>3, <2>1, <2>2, <2>3
<1>16. ASSUME NEW s \in SlotNos
       PROVE  Q[r].slots[s] = IF Len(g[s]) = 0 THEN 0 ELSE g[s][1]
  <2>1. r \in 1..Len(Q) /\ ~(r > N) /\ P[r].slots[s] = IF Len(c[s]) = 0 THEN 0 ELSE c[s][1]
    BY <1>2, <1>7, <1>12, <1>16
  <2>2. CASE s # h
    <3>1. Q[r].slots[s] = P[r].slots[s]
      BY <1>5, <1>15, <2>1, <2>2 DEF SlotsPut, N, h, n, d
    <3> QED
      BY <1>10, <2>1, <2>2, <3>1
  <2>3. CASE s = h /\ Len(d) # 0
    <3>1. Q[r].slots[s] = P[r].slots[s]
      BY <1>5, <1>15, <2>1, <2>3 DEF SlotsPut, N, h, n, d
    <3>2. e[1] = d[1] /\ Len(e) # 0
      BY <1>3, <1>4, <2>3
    <3> QED
      BY <1>10, <2>1, <2>3, <3>1, <3>2
  <2>4. CASE s = h /\ Len(d) = 0
    <3>1. m # 0 /\ Len(e) # 0 /\ 1 \in (Len(d) + 1)..Len(e)
      BY <1>1, <1>3, <1>4, <2>4
    <3>2. e[1] = N + 1
      BY <1>2, <1>4, <2>4, <3>1
    <3>3. Q[r].slots[s] = N + 1
      BY <1>5, <1>15, <2>1, <2>4, <3>1 DEF SlotsPut, N, h, n, m, d
    <3> QED
      BY <1>10, <2>4, <3>1, <3>2, <3>3
  <2> QED
    BY <2>2, <2>3, <2>4
<1>17. PagesChained(g, Q, r)
  <2>1. r \in 1..Len(Q)
    BY <1>2, <1>12
  <2> QED
    BY <1>10, <1>14, <1>16, <2>1 DEF PagesChained
<1>18. Apart(g, r)
  <2>1. ASSUME NEW s \in SlotNos, NEW k \in 1..Len(g[s])
        PROVE  \/ k \in 1..Len(c[s]) /\ g[s][k] = c[s][k] /\ g[s][k] \in 1..N
               \/ s = h /\ k > Len(d) /\ g[s][k] = N + (k - Len(d)) /\ g[s][k] > N
    <3>1. CASE s # h
      BY <1>2, <1>10, <2>1, <3>1
    <3>2. CASE s = h /\ k <= Len(d)
      BY <1>3, <1>4, <1>10, <2>1, <3>2
    <3>3. CASE s = h /\ k > Len(d)
      <4>1. k \in (Len(d) + 1)..Len(e)
        BY <1>3, <1>4, <1>10, <2>1, <3>3
      <4> QED
        BY <1>2, <1>3, <1>4, <1>10, <3>3, <4>1
    <3> QED
      BY <1>3, <1>4, <1>10, <2>1, <3>1, <3>2, <3>3
  <2>2. ASSUME NEW s \in SlotNos, NEW k \in 1..Len(g[s]) PROVE g[s][k] # r
    <3>1. CASE k \in 1..Len(c[s]) /\ g[s][k] = c[s][k]
      BY <1>23, <3>1
    <3>2. CASE g[s][k] > N
      BY <1>2, <3>2
    <3> QED
      BY <2>1, <3>1, <3>2
  <2>3. ASSUME NEW s \in SlotNos, NEW t \in SlotNos, NEW k \in 1..Len(g[s]),
               NEW l \in 1..Len(g[t]), g[s][k] = g[t][l]
        PROVE  s = t /\ k = l
    <3>1. CASE g[s][k] \in 1..N
      <4>1. k \in 1..Len(c[s]) /\ g[s][k] = c[s][k] /\ l \in 1..Len(c[t]) /\ g[t][l] = c[t][l]
        BY <1>2, <2>1, <2>3, <3>1
      <4>2. c[s][k] = c[t][l]
        BY <2>3, <4>1
      <4> QED
        BY <1>8, <4>1, <4>2, Zenon
    <3>2. CASE g[s][k] \notin 1..N
      <4>1. /\ s = h /\ g[s][k] = N + (k - Len(d)) /\ t = h /\ g[t][l] = N + (l - Len(d))
        BY <2>1, <2>3, <3>2
      <4>2. k \in Int /\ l \in Int
        OBVIOUS
      <4> QED
        BY <1>2, <1>3, <2>3, <4>1, <4>2
    <3> QED
      BY <3>1, <3>2
  <2> QED
    BY <2>2, <2>3 DEF Apart
<1>19. ASSUME NEW j \in Nat
       PROVE  ValueAt(g, Q, j) = IF j = i THEN v ELSE ValueAt(c, P, j)
  <2> DEFINE s == Hashed(j)
             k == PageReads(j) + 1
             x == PageIndex(j)
  <2>1. s \in SlotNos /\ k \in Nat /\ k >= 1 /\ x \in SlotNos /\ PageReads(j) \in Nat
    <3>1. PageIndex(j) \in SlotNos /\ Hashed(j) \in SlotNos /\ PageReads(j) \in Nat
      BY PlaceOf
    <3> QED
      BY <3>1
  <2>2. ValueAt(g, Q, j) = IF k <= Len(g[s]) THEN Q[g[s][k]].slots[x] ELSE 0
    BY <1>10, <2>1 DEF ValueAt
  <2>3. ValueAt(c, P, j) = IF k <= Len(c[s]) THEN P[c[s][k]].slots[x] ELSE 0
    BY <1>2, <2>1 DEF ValueAt
  <2>4. s = h /\ k = n /\ x = PageIndex(i) => j = i
    BY <2>1, <1>1, PlacesDiffer DEF h, n
  <2>5. CASE j = i
    <3>1. s = h /\ k = n /\ x = PageIndex(i)
      BY <2>5 DEF h, n
    <3>2. Q[e[n]].slots[x] = v
      BY <1>5, <1>4, <1>11, <1>15, <2>1, <3>1 DEF SlotsPut, n, d
    <3> QED
      BY <1>10, <1>15, <2>1, <2>2, <2>5, <3>1, <3>2
  <2> HIDE DEF s, k, x
  <2>6. CASE j # i /\ k \in 1..Len(g[s])
    <3>1. g[s][k] \in 1..Len(Q)
      BY <1>14, <2>1, <2>6
    <3>2. ~(g[s][k] = e[n] /\ x = PageIndex(i))
      <4>1. SUFFICES ASSUME g[s][k] = e[n] PROVE s = h /\ k = n
        BY <2>4, <2>6
      <4>2. g[s][k] = g[h][n] /\ n \in 1..Len(g[h])
        BY <1>10, <1>15, <4>1
      <4>3. \A s1, s2 \in SlotNos : \A k1 \in 1..Len(g[s1]) : \A k2 \in 1..Len(g[s2]) :
              g[s1][k1] = g[s2][k2] => s1 = s2 /\ k1 = k2
        BY <1>18 DEF Apart
      <4> QED
        BY <1>1, <2>1, <2>6, <4>2, <4>3, Zenon
    <3>3. g[s][k] # r
      BY <1>18, <2>1, <2>6 DEF Apart
    <3>4. Q[g[s][k]].slots[x] = IF g[s][k] > N THEN 0 ELSE P[g[s][k]].slots[x]
      BY <1>5, <2>1, <3>1, <3>2, <3>3 DEF SlotsPut, N, n, d
    <3>5. CASE s # h
      <4>1. g[s] = c[s] /\ g[s][k] \in 1..N
        BY <1>2, <1>10, <2>1, <2>6, <3>5
      <4>2. ~(g[s][k] > N) /\ k <= Len(g[s])
        <5>1. ~(g[s][k] > N)
          BY <1>12, <4>1
        <5>2. k <= Len(g[s])
          BY <2>6
        <5> QED
          BY <5>1, <5>2
      <4>3. Q[g[s][k]].slots[x] = P[c[s][k]].slots[x]
        BY <3>4, <4>1, <4>2
      <4>4. k <= Len(c[s])
        BY <4>1, <4>2
      <4>5. ValueAt(g, Q, j) = Q[g[s][k]].slots[x]
        BY <2>2, <4>2
      <4>6. ValueAt(c, P, j) = P[c[s][k]].slots[x]
        BY <2>3, <4>4
      <4> QED
        BY <2>6, <4>3, <4>5, <4>6
    <3>6. CASE s = h /\ k <= Len(d)
      <4>1. g[s][k] = c[s][k] /\ g[s][k] \in 1..N /\ Len(d) = Len(c[s])
        <5>1. g[s] = e /\ c[s] = d
          BY <1>10, <3>6
        <5>2. k \in 1..Len(d)
          BY <1>3, <2>6, <3>6
        <5> QED
          BY <1>3, <1>4, <5>1, <5>2
      <4>2. ~(g[s][k] > N) /\ k <= Len(g[s])
        <5>1. ~(g[s][k] > N)
          BY <1>12, <4>1
        <5>2. k <= Len(g[s])
          BY <2>6
        <5> QED
          BY <5>1, <5>2
      <4>3. Q[g[s][k]].slots[x] = P[c[s][k]].slots[x]
        BY <3>4, <4>1, <4>2
      <4>4. k <= Len(c[s])
        BY <3>6, <4>1
      <4>5. ValueAt(g, Q, j) = Q[g[s][k]].slots[x]
        BY <2>2, <4>2
      <4>6. ValueAt(c, P, j) = P[c[s][k]].slots[x]
        BY <2>3, <4>4
      <4> QED
        BY <2>6, <4>3, <4>5, <4>6
    <3>7. CASE s = h /\ k > Len(d)
      <4>1. g[s][k] > N /\ Len(d) = Len(c[s])
        <5>1. g[s] = e /\ c[s] = d
          BY <1>10, <3>7
        <5>2. k \in (Len(d) + 1)..Len(e)
          BY <1>3, <1>4, <2>6, <3>7, <5>1
        <5>3. g[s][k] = N + (k - Len(d))
          BY <1>4, <5>1, <5>2
        <5>4. N \in Nat /\ Len(d) \in Nat /\ k \in Int
          BY <1>2, <1>3, <5>2
        <5>5. N + (k - Len(d)) > N
          BY <3>7, <5>4
        <5> QED
          BY <5>1, <5>3, <5>5
      <4> QED
        BY <1>3, <2>1, <2>2, <2>3, <2>6, <3>4, <3>7, <4>1
    <3> QED
      BY <1>3, <2>1, <3>5, <3>6, <3>7
  <2>7. CASE j # i /\ k \notin 1..Len(g[s])
    <3>1. Len(c[s]) <= Len(g[s]) /\ Len(g[s]) \in Nat
      <4>1. CASE s # h
        BY <1>2, <1>10, <2>1, <4>1
      <4>2. CASE s = h
        BY <1>3, <1>4, <1>10, <4>2
      <4> QED
        BY <4>1, <4>2
    <3> QED
      BY <1>2, <2>1, <2>2, <2>3, <2>7, <3>1
  <2> QED
    BY <2>5, <2>6, <2>7
<1>20. ASSUME NEW p, Owns(g, r, p)
       PROVE  Owns(c, r, p) \/ p \in (N + 1)..Len(Q)
  <2>1. CASE p = r
    BY <2>1 DEF Owns
  <2>2. CASE p # r
    <3>1. PICK s \in SlotNos : \E k \in 1..Len(g[s]) : p = g[s][k]
      BY <1>20, <2>2 DEF Owns
    <3>2. PICK k \in 1..Len(g[s]) : p = g[s][k]
      BY <3>1
    <3>3. p \in 1..Len(Q)
      BY <1>14, <3>2
    <3>4. CASE s # h
      BY <1>10, <3>2, <3>4 DEF Owns
    <3>5. CASE s = h /\ k <= Len(d)
      <4>1. k \in 1..Len(c[s]) /\ p = c[s][k]
        BY <1>3, <1>4, <1>10, <3>2, <3>5
      <4> QED
        BY <4>1 DEF Owns
    <3>6. CASE s = h /\ k > Len(d)
      <4>1. k \in (Len(d) + 1)..Len(e)
        BY <1>3, <1>4, <1>10, <3>2, <3>6
      <4> QED
        BY <1>2, <1>3, <1>4, <1>10, <3>2, <3>3, <3>6, <4>1
    <3> QED
      BY <1>3, <1>4, <1>10, <3>2, <3>4, <3>5, <3>6
  <2> QED
    BY <2>1, <2>2
<1> QED
  BY <1>13, <1>17, <1>18, <1>19, <1>20 DEF LongerChains, g, h, N

-----------------------------------------------------------------------------
(* The chains of an array that other pages of the file leave alone.        *)
LEMMA ChainsLeft ==
  ASSUME NEW P \in Seq(ArrayPage), NEW Q \in Seq(ArrayPage), Len(P) <= Len(Q),
         NEW c, NEW r, PagesChained(c, P, r),
         \A p \in 1..Len(P) : Owns(c, r, p) => Q[p] = P[p]
  PROVE  PagesChained(c, Q, r) /\ \A j \in Nat : ValueAt(c, Q, j) = ValueAt(c, P, j)
<1>1. r \in 1..Len(P) /\ Q[r] = P[r]
  BY DEF PagesChained, Owns
<1>2. ASSUME NEW s \in SlotNos, NEW k \in 1..Len(c[s])
      PROVE  c[s][k] \in 1..Len(P) /\ Q[c[s][k]] = P[c[s][k]]
  <2>1. c[s][k] \in 1..Len(P)
    BY DEF PagesChained
  <2> QED
    BY <2>1 DEF Owns
<1>3. \A p \in 1..Len(P) : p \in 1..Len(Q)
  OBVIOUS
<1>4. PagesChained(c, Q, r)
  <2>1. \A s \in SlotNos : \A k \in 1..Len(c[s]) :
          /\ c[s][k] \in 1..Len(Q)
          /\ Q[c[s][k]].next = IF k = Len(c[s]) THEN 0 ELSE c[s][k + 1]
    <3>1. \A s \in SlotNos : \A k \in 1..Len(c[s]) :
            P[c[s][k]].next = IF k = Len(c[s]) THEN 0 ELSE c[s][k + 1]
      BY DEF PagesChained
    <3> QED
      BY <1>2, <1>3, <3>1
  <2>2. \A s \in SlotNos : Q[r].slots[s] = IF Len(c[s]) = 0 THEN 0 ELSE c[s][1]
    BY <1>1 DEF PagesChained
  <2>3. c \in [SlotNos -> Seq(Nat)] /\ r \in 1..Len(Q)
    BY <1>1, <1>3 DEF PagesChained
  <2> QED
    BY <2>1, <2>2, <2>3 DEF PagesChained
<1>5. ASSUME NEW j \in Nat PROVE ValueAt(c, Q, j) = ValueAt(c, P, j)
  <2>1. Hashed(j) \in SlotNos /\ PageReads(j) \in Nat
    BY PlaceOf
  <2>2. CASE PageReads(j) < Len(c[Hashed(j)])
    <3>1. Len(c[Hashed(j)]) \in Nat
      BY <2>1 DEF PagesChained
    <3>2. PageReads(j) + 1 \in 1..Len(c[Hashed(j)])
      BY <2>1, <2>2, <3>1
    <3> QED
      BY <1>2, <2>1, <2>2, <3>2 DEF ValueAt
  <2>3. CASE ~(PageReads(j) < Len(c[Hashed(j)]))
    BY <2>3 DEF ValueAt
  <2> QED
    BY <2>2, <2>3
<1> QED
  BY <1>4, <1>5

-----------------------------------------------------------------------------
(* The invariant: each array has chains of its own, its cache has only     *)
(* pages of these, and what they hold is what was put.                     *)
ArrayTypes ==
  /\ arrayFile \in Seq(ArrayPage)
  /\ DOMAIN arrayCache = Arrays /\ DOMAIN arrayRoot = Arrays
  /\ \A a \in Arrays :
       /\ DOMAIN arrayCache[a] \subseteq 1..Len(arrayFile)
       /\ \A p \in DOMAIN arrayCache[a] : arrayCache[a][p] \in ArrayPage
  /\ arrayGiven \in [Arrays -> [Elements -> Nat]]

ArrayOf(a, c) ==
  /\ PagesChained(c[a], PagesOf(a), arrayRoot[a])
  /\ Apart(c[a], arrayRoot[a])
  /\ \A p \in DOMAIN arrayCache[a] : Owns(c[a], arrayRoot[a], p)
  /\ \A i \in Elements : ValueAt(c[a], PagesOf(a), i) = arrayGiven[a][i]

Disjoint(c) ==
  \A a, b \in Arrays : \A p :
    Owns(c[a], arrayRoot[a], p) /\ Owns(c[b], arrayRoot[b], p) => a = b

ArrayChains(c) == (\A a \in Arrays : ArrayOf(a, c)) /\ Disjoint(c)

ArrayInv ==
  /\ ArrayTypes
  /\ \A a \in Arrays : Upward(PagesOf(a))
  /\ \E c : ArrayChains(c)

(* Pages some of which are changed in a cache.                             *)
LEMMA Overlaid ==
  ASSUME NEW F \in Seq(ArrayPage), NEW C, DOMAIN C \subseteq 1..Len(F),
         \A p \in DOMAIN C : C[p] \in ArrayPage,
         NEW P, P = [p \in DOMAIN F |-> IF p \in DOMAIN C THEN C[p] ELSE F[p]]
  PROVE  /\ P \in Seq(ArrayPage) /\ Len(P) = Len(F)
         /\ \A p \in 1..Len(F) : P[p] = IF p \in DOMAIN C THEN C[p] ELSE F[p]
<1>1. DOMAIN F = 1..Len(F) /\ Len(F) \in Nat
  OBVIOUS
<1>2. ASSUME NEW p \in 1..Len(F) PROVE F[p] \in ArrayPage
  OBVIOUS
<1>3. P = [p \in 1..Len(F) |-> IF p \in DOMAIN C THEN C[p] ELSE F[p]]
  BY <1>1
<1>4. \A p \in 1..Len(F) : P[p] \in ArrayPage
  BY <1>2, <1>3
<1> QED
  BY <1>1, <1>3, <1>4

(* The pages as an array has them, before and after a step.                *)
LEMMA PagesAre ==
  ASSUME ArrayTypes, NEW a \in Arrays
  PROVE  /\ PagesOf(a) \in Seq(ArrayPage) /\ Len(PagesOf(a)) = Len(arrayFile)
         /\ \A p \in 1..Len(arrayFile) : PagesOf(a)[p] = PageOf(a, p)
<1>1. /\ arrayFile \in Seq(ArrayPage) /\ DOMAIN arrayCache[a] \subseteq 1..Len(arrayFile)
      /\ \A p \in DOMAIN arrayCache[a] : arrayCache[a][p] \in ArrayPage
  BY DEF ArrayTypes
<1>2. PagesOf(a) = [p \in DOMAIN arrayFile |->
                     IF p \in DOMAIN arrayCache[a] THEN arrayCache[a][p] ELSE arrayFile[p]]
  BY DEF PagesOf, PageOf
<1> QED
  BY <1>1, <1>2, Overlaid DEF PageOf

LEMMA PagesAreAfter ==
  ASSUME ArrayTypes', NEW a \in Arrays
  PROVE  /\ PagesOf(a)' \in Seq(ArrayPage) /\ Len(PagesOf(a)') = Len(arrayFile')
         /\ \A p \in 1..Len(arrayFile') : PagesOf(a)'[p] = PageOf(a, p)'
<1>1. /\ arrayFile' \in Seq(ArrayPage) /\ DOMAIN arrayCache'[a] \subseteq 1..Len(arrayFile')
      /\ \A p \in DOMAIN arrayCache'[a] : arrayCache'[a][p] \in ArrayPage
  BY DEF ArrayTypes
<1>2. PagesOf(a)' = [p \in DOMAIN arrayFile' |->
                      IF p \in DOMAIN arrayCache'[a] THEN arrayCache'[a][p] ELSE arrayFile'[p]]
  BY DEF PagesOf, PageOf
<1> QED
  BY <1>1, <1>2, Overlaid DEF PageOf

(* So a chain read is the chain, and an element read what was put.         *)
LEMMA ArrayInvHolds ==
  ASSUME ArrayInv
  PROVE  ArrayHolds
<1>1. PICK c : ArrayChains(c)
  BY DEF ArrayInv
<1> SUFFICES ASSUME NEW a \in Arrays, NEW i \in Elements
             PROVE  GetElement(a, i) = arrayGiven[a][i]
  BY DEF ArrayHolds
<1> DEFINE P == PagesOf(a)
           s == Hashed(i)
<1>2. i \in Nat /\ s \in SlotNos /\ PageIndex(i) \in SlotNos /\ PageReads(i) \in Nat
  <2>1. i \in Nat
    BY ArrayAssumption
  <2> QED
    BY <2>1, PlaceOf
<1>3. /\ PagesChained(c[a], P, arrayRoot[a]) /\ ValueAt(c[a], P, i) = arrayGiven[a][i]
      /\ ArrayTypes /\ Upward(P)
  BY <1>1 DEF ArrayChains, ArrayOf, ArrayInv
<1>4. /\ P \in Seq(ArrayPage) /\ Len(P) = Len(arrayFile)
      /\ \A p \in 1..Len(P) : P[p] = PageOf(a, p)
  BY <1>3, PagesAre
<1> HIDE DEF P
<1>5. arrayRoot[a] \in 1..Len(P)
  BY <1>3 DEF PagesChained
<1>6. ChainOf(a, s) = c[a][s]
  <2>1. PageOf(a, arrayRoot[a]) = P[arrayRoot[a]]
    BY <1>4, <1>5
  <2>2. PagesFrom(P, P[arrayRoot[a]].slots[s]) = c[a][s]
    BY <1>2, <1>3, <1>4, ChainFollowed
  <2> QED
    BY <2>1, <2>2 DEF ChainOf, P
<1>7. Len(c[a][s]) \in Nat /\ \A k \in 1..Len(c[a][s]) : c[a][s][k] \in 1..Len(P)
  BY <1>2, <1>3 DEF PagesChained
<1>8. CASE PageReads(i) < Len(c[a][s])
  <2>1. PageReads(i) + 1 \in 1..Len(c[a][s]) /\ ~(Len(c[a][s]) <= PageReads(i))
    BY <1>2, <1>7, <1>8
  <2>2. P[c[a][s][PageReads(i) + 1]] = PageOf(a, c[a][s][PageReads(i) + 1])
    BY <1>4, <1>7, <2>1
  <2>3. ValueAt(c[a], P, i) = P[c[a][s][PageReads(i) + 1]].slots[PageIndex(i)]
    BY <1>8 DEF ValueAt
  <2> QED
    BY <1>3, <1>6, <2>1, <2>2, <2>3 DEF GetElement
<1>9. CASE ~(PageReads(i) < Len(c[a][s]))
  <2>1. Len(c[a][s]) <= PageReads(i)
    BY <1>2, <1>7, <1>9
  <2>2. ValueAt(c[a], P, i) = 0
    BY <1>9 DEF ValueAt
  <2> QED
    BY <1>3, <1>6, <2>1, <2>2 DEF GetElement
<1> QED
  BY <1>8, <1>9

(* An unused page.                                                         *)
LEMMA BlankPage ==
  /\ Blank \in ArrayPage /\ Blank.next = 0
  /\ \A s \in SlotNos : Blank.slots[s] = 0
  /\ \A x \in ArrayPage, p \in Nat : WithNext(x, p) \in ArrayPage
  /\ \A x \in ArrayPage, s \in SlotNos, v \in Nat : WithSlot(x, s, v) \in ArrayPage
<1>1. \A x \in ArrayPage : x.next \in Nat /\ x.slots \in [SlotNos -> Nat]
  BY DEF ArrayPage
<1>2. \A n \in Nat, f \in [SlotNos -> Nat] : [next |-> n, slots |-> f] \in ArrayPage
  BY DEF ArrayPage
<1>3. Blank = [next |-> 0, slots |-> [s \in SlotNos |-> 0]]
  BY DEF Blank, SlotNos
<1>4. [s \in SlotNos |-> 0] \in [SlotNos -> Nat]
  OBVIOUS
<1>5. Blank \in ArrayPage
  BY <1>2, <1>3, <1>4
<1>6. \A x \in ArrayPage, p \in Nat : WithNext(x, p) \in ArrayPage
  BY <1>1, <1>2 DEF WithNext
<1>7. \A x \in ArrayPage, s \in SlotNos, v \in Nat : WithSlot(x, s, v) \in ArrayPage
  <2> SUFFICES ASSUME NEW x \in ArrayPage, NEW s \in SlotNos, NEW v \in Nat
               PROVE  WithSlot(x, s, v) \in ArrayPage
    OBVIOUS
  <2>1. [x.slots EXCEPT ![s] = v] \in [SlotNos -> Nat]
    BY <1>1
  <2> QED
    BY <1>1, <1>2, <2>1 DEF WithSlot
<1> QED
  BY <1>3, <1>5, <1>6, <1>7

(* At first each array has a root, and nothing else.                       *)
LEMMA ArrayInvInit ==
  ASSUME ArrayInit
  PROVE  ArrayInv
<1> DEFINE order == SetToSeq(Arrays)
           n == Cardinality(Arrays)
<1>1. n \in Nat /\ order \in [1..n -> Arrays] /\ IsInjective(order)
      /\ \A a \in Arrays : \E k \in 1..n : order[k] = a
  <2>1. n \in Nat /\ ExistsBijection(1..n, Arrays)
    BY ArrayAssumption, FS_CardinalityType
  <2>2. \E f \in [1..n -> Arrays] : IsInjective(f)
    BY <2>1 DEF ExistsBijection, Bijection, Injection
  <2>3. order \in [1..n -> Arrays] /\ IsInjective(order)
    BY <2>2 DEF SetToSeq
  <2> HIDE DEF order
  <2>4. order \in Injection(1..n, Arrays)
    BY <2>3 DEF Injection
  <2>5. IsFiniteSet(1..n) /\ Cardinality(1..n) = n
    BY <2>1, FS_Interval
  <2>6. order \in Surjection(1..n, Arrays)
    BY <2>4, <2>5, ArrayAssumption, FS_Injection
  <2>7. \A a \in Arrays : \E k \in 1..n : order[k] = a
    BY <2>6 DEF Surjection
  <2> QED
    BY <2>1, <2>3, <2>7
<1>2. /\ arrayFile = [k \in DOMAIN order |-> Blank]
      /\ arrayRoot = [a \in Arrays |-> CHOOSE k \in DOMAIN order : order[k] = a]
      /\ arrayCache = [a \in Arrays |-> <<>>]
      /\ arrayGiven = [a \in Arrays |-> [i \in Elements |-> 0]]
  BY DEF ArrayInit
<1> HIDE DEF order, n
<1>3. DOMAIN order = 1..n
  BY <1>1
<1>4. /\ arrayFile \in Seq(ArrayPage) /\ Len(arrayFile) = n
      /\ \A p \in 1..n : arrayFile[p] = Blank
  <2> DEFINE f == [k \in 1..n |-> Blank]
  <2>1. f \in [1..n -> ArrayPage] /\ \A p \in 1..n : f[p] = Blank
    BY BlankPage
  <2>2. arrayFile = f
    BY <1>2, <1>3
  <2>3. n \in Nat
    BY <1>1
  <2> HIDE DEF f
  <2>4. f \in Seq(ArrayPage) /\ Len(f) = n
    BY <2>1, <2>3
  <2> QED
    BY <2>1, <2>2, <2>4
<1>5. ASSUME NEW a \in Arrays
      PROVE  arrayRoot[a] \in 1..n /\ order[arrayRoot[a]] = a
  <2>1. \E k \in 1..n : order[k] = a
    BY <1>1
  <2>2. arrayRoot[a] = CHOOSE k \in 1..n : order[k] = a
    BY <1>2, <1>3
  <2> QED
    BY <2>1, <2>2
<1>6. \A a \in Arrays : DOMAIN arrayCache[a] = {}
  BY <1>2
<1>7. ArrayTypes
  <2>1. arrayGiven \in [Arrays -> [Elements -> Nat]]
    BY <1>2
  <2>2. DOMAIN arrayCache = Arrays /\ DOMAIN arrayRoot = Arrays
    BY <1>2
  <2> QED
    BY <1>4, <1>6, <2>1, <2>2 DEF ArrayTypes
<1>8. ASSUME NEW a \in Arrays
      PROVE  /\ PagesOf(a) \in Seq(ArrayPage) /\ Len(PagesOf(a)) = n
             /\ \A p \in 1..n : PagesOf(a)[p] = Blank
  <2>1. \A p \in 1..n : PageOf(a, p) = Blank
    BY <1>4, <1>6 DEF PageOf
  <2> QED
    BY <1>4, <1>7, <2>1, PagesAre
<1>9. ASSUME NEW a \in Arrays PROVE Upward(PagesOf(a))
  BY <1>8, BlankPage DEF Upward
<1> DEFINE c == [a \in Arrays |-> [s \in SlotNos |-> <<>>]]
<1>10. ASSUME NEW a \in Arrays
       PROVE  /\ c[a] \in [SlotNos -> Seq(Nat)]
              /\ \A s \in SlotNos : c[a][s] = <<>> /\ Len(c[a][s]) = 0
  OBVIOUS
<1> HIDE DEF c
<1>11. ASSUME NEW a \in Arrays PROVE ArrayOf(a, c)
  <2>1. PagesChained(c[a], PagesOf(a), arrayRoot[a])
    <3>1. \A s \in SlotNos : PagesOf(a)[arrayRoot[a]].slots[s] = 0
      BY <1>5, <1>8, BlankPage
    <3> QED
      BY <1>5, <1>8, <1>10, <3>1 DEF PagesChained
  <2>2. Apart(c[a], arrayRoot[a])
    BY <1>10 DEF Apart
  <2>3. ASSUME NEW i \in Elements PROVE ValueAt(c[a], PagesOf(a), i) = arrayGiven[a][i]
    <3>1. Hashed(i) \in SlotNos /\ PageReads(i) \in Nat
      BY ArrayAssumption, PlaceOf
    <3>2. ~(PageReads(i) < Len(c[a][Hashed(i)]))
      BY <1>10, <3>1
    <3>3. arrayGiven[a][i] = 0
      BY <1>2
    <3> QED
      BY <3>2, <3>3 DEF ValueAt
  <2> QED
    BY <1>6, <2>1, <2>2, <2>3 DEF ArrayOf
<1>12. Disjoint(c)
  <2> SUFFICES ASSUME NEW a \in Arrays, NEW b \in Arrays, NEW p,
                      Owns(c[a], arrayRoot[a], p), Owns(c[b], arrayRoot[b], p)
               PROVE  a = b
    BY DEF Disjoint
  <2>1. p = arrayRoot[a] /\ p = arrayRoot[b]
    BY <1>10 DEF Owns
  <2> QED
    BY <1>5, <2>1
<1> QED
  BY <1>7, <1>9, <1>11, <1>12 DEF ArrayInv, ArrayChains

-----------------------------------------------------------------------------
(* An array closed and opened again has the same pages; the other's pages  *)
(* in the file are left alone.                                             *)
LEMMA ArrayInvReopen ==
  ASSUME ArrayInv, NEW a \in Arrays, ReopenArray(a)
  PROVE  ArrayInv'
<1>1. PICK c : ArrayChains(c)
  BY DEF ArrayInv
<1>2. /\ arrayFile' = PagesOf(a) /\ arrayCache' = [arrayCache EXCEPT ![a] = <<>>]
      /\ arrayRoot' = arrayRoot /\ arrayGiven' = arrayGiven
  BY DEF ReopenArray
<1>3. ArrayTypes
  BY DEF ArrayInv
<1> DEFINE N == Len(arrayFile)
<1>4. /\ PagesOf(a) \in Seq(ArrayPage) /\ Len(PagesOf(a)) = N
      /\ \A p \in 1..N : PagesOf(a)[p] = PageOf(a, p)
  BY <1>3, PagesAre
<1>5. /\ arrayFile' \in Seq(ArrayPage) /\ Len(arrayFile') = N /\ N \in Nat
      /\ \A p \in 1..N : arrayFile'[p] = PageOf(a, p)
  <2>1. N \in Nat
    BY <1>3 DEF ArrayTypes
  <2> QED
    BY <1>2, <1>4, <2>1
<1>6. /\ DOMAIN arrayCache' = Arrays /\ DOMAIN arrayCache'[a] = {}
      /\ \A b \in Arrays : b # a => arrayCache'[b] = arrayCache[b]
  BY <1>2, <1>3 DEF ArrayTypes
<1>7. ArrayTypes'
  <2>1. \A b \in Arrays :
          /\ DOMAIN arrayCache'[b] \subseteq 1..N
          /\ \A p \in DOMAIN arrayCache'[b] : arrayCache'[b][p] \in ArrayPage
    BY <1>3, <1>6 DEF ArrayTypes
  <2> QED
    BY <1>2, <1>3, <1>5, <1>6, <2>1 DEF ArrayTypes
<1>8. ASSUME NEW b \in Arrays
      PROVE  /\ PagesOf(b) \in Seq(ArrayPage) /\ Len(PagesOf(b)) = N
             /\ PagesOf(b)' \in Seq(ArrayPage) /\ Len(PagesOf(b)') = N
             /\ \A p \in 1..N : PagesOf(b)'[p] = PageOf(b, p)' /\ PagesOf(b)[p] = PageOf(b, p)
  <2>1. /\ PagesOf(b) \in Seq(ArrayPage) /\ Len(PagesOf(b)) = N
        /\ \A p \in 1..N : PagesOf(b)[p] = PageOf(b, p)
    BY <1>3, PagesAre
  <2>2. /\ PagesOf(b)' \in Seq(ArrayPage) /\ Len(PagesOf(b)') = Len(arrayFile')
        /\ \A p \in 1..Len(arrayFile') : PagesOf(b)'[p] = PageOf(b, p)'
    BY <1>7, PagesAreAfter
  <2> QED
    BY <1>5, <2>1, <2>2
<1>9. ASSUME NEW b \in Arrays, NEW p \in 1..N
      PROVE  /\ PageOf(b, p)' = PageOf(b, p) \/ PageOf(b, p)' = PageOf(a, p)
             /\ Owns(c[b], arrayRoot[b], p) => PageOf(b, p)' = PageOf(b, p)
  <2>1. CASE b = a
    BY <1>5, <1>6, <2>1 DEF PageOf
  <2>2. CASE b # a
    <3>1. CASE p \in DOMAIN arrayCache[b]
      BY <1>6, <2>2, <3>1 DEF PageOf
    <3>2. CASE p \notin DOMAIN arrayCache[b]
      <4>1. PageOf(b, p)' = PageOf(a, p) /\ PageOf(b, p) = arrayFile[p]
        BY <1>5, <1>6, <2>2, <3>2 DEF PageOf
      <4>2. Owns(c[b], arrayRoot[b], p) => p \notin DOMAIN arrayCache[a]
        BY <1>1, <2>2 DEF ArrayChains, ArrayOf, Disjoint
      <4>3. p \notin DOMAIN arrayCache[a] => PageOf(a, p) = arrayFile[p]
        BY DEF PageOf
      <4> QED
        BY <4>1, <4>2, <4>3
    <3> QED
      BY <3>1, <3>2
  <2> QED
    BY <2>1, <2>2
<1> HIDE DEF N
<1>10. ASSUME NEW b \in Arrays PROVE Upward(PagesOf(b)')
  <2>1. Upward(PagesOf(a)) /\ Upward(PagesOf(b))
    BY DEF ArrayInv
  <2>2. ASSUME NEW p \in 1..N
        PROVE  PagesOf(b)'[p] = PagesOf(a)[p] \/ PagesOf(b)'[p] = PagesOf(b)[p]
    BY <1>8, <1>9
  <2> QED
    BY <1>8, <2>1, <2>2 DEF Upward
<1>11. ASSUME NEW b \in Arrays PROVE ArrayOf(b, c)'
  <2>1. ArrayOf(b, c)
    BY <1>1 DEF ArrayChains
  <2>2. \A p \in 1..N : Owns(c[b], arrayRoot[b], p) => PagesOf(b)'[p] = PagesOf(b)[p]
    BY <1>8, <1>9
  <2>3. /\ PagesChained(c[b], PagesOf(b)', arrayRoot[b])
        /\ \A j \in Nat : ValueAt(c[b], PagesOf(b)', j) = ValueAt(c[b], PagesOf(b), j)
    <3>1. Len(PagesOf(b)) <= Len(PagesOf(b)')
      BY <1>5, <1>8 DEF N
    <3> QED
      BY <1>8, <2>1, <2>2, <3>1, ChainsLeft DEF ArrayOf
  <2>4. \A p \in DOMAIN arrayCache'[b] : Owns(c[b], arrayRoot[b], p)
    BY <1>6, <2>1 DEF ArrayOf
  <2>5. \A i \in Elements : ValueAt(c[b], PagesOf(b)', i) = arrayGiven[b][i]
    BY <2>1, <2>3, ArrayAssumption DEF ArrayOf
  <2> QED
    BY <1>2, <2>1, <2>3, <2>4, <2>5 DEF ArrayOf
<1>12. Disjoint(c)'
  BY <1>1, <1>2 DEF ArrayChains, Disjoint
<1> QED
  BY <1>7, <1>10, <1>11, <1>12 DEF ArrayInv, ArrayChains

-----------------------------------------------------------------------------
(* The pages taken at the end of the file.                                 *)
Taken(new, N, m) == new \in Seq(Nat) /\ Len(new) = m /\ \A k \in 1..m : new[k] = N + k

LEMMA PagesTaken ==
  ASSUME NEW N \in Nat, NEW m \in Nat, NEW new, Taken(new, N, m)
  PROVE  /\ (new = <<>> <=> m = 0) /\ ToSet(new) = (N + 1)..(N + m)
         /\ m # 0 => new[1] = N + 1 /\ Last(new) = N + m
<1>1. new \in Seq(Nat) /\ Len(new) = m /\ \A k \in 1..m : new[k] = N + k
  BY DEF Taken
<1>2. DOMAIN new = 1..m
  BY <1>1
<1>3. ToSet(new) = (N + 1)..(N + m)
  <2>1. ASSUME NEW x \in ToSet(new) PROVE x \in (N + 1)..(N + m)
    <3>1. PICK k \in 1..m : x = new[k]
      BY <1>2 DEF ToSet
    <3> QED
      BY <1>1, <3>1
  <2>2. ASSUME NEW x \in (N + 1)..(N + m) PROVE x \in ToSet(new)
    <3>1. x - N \in 1..m /\ x = N + (x - N)
      OBVIOUS
    <3>2. new[x - N] = x
      BY <1>1, <3>1
    <3> QED
      BY <1>2, <3>1, <3>2 DEF ToSet
  <2> QED
    BY <2>1, <2>2
<1>4. new = <<>> <=> m = 0
  BY <1>1
<1>5. m # 0 => new[1] = N + 1 /\ Last(new) = N + m
  BY <1>1 DEF Last
<1> QED
  BY <1>3, <1>4, <1>5

(* One sequence behind another.                                            *)
LEMMA BehindAnother ==
  ASSUME NEW S, NEW d \in Seq(S), NEW b \in Seq(S)
  PROVE  /\ d \o b \in Seq(S) /\ Len(d \o b) = Len(d) + Len(b)
         /\ \A k \in 1..Len(d \o b) : (d \o b)[k] = IF k <= Len(d) THEN d[k] ELSE b[k - Len(d)]
OBVIOUS

(* A page as a cache has it.                                               *)
Overlay(C, F, p) == IF p \in DOMAIN C THEN C[p] ELSE F[p]

(* The file with blank pages behind it.                                    *)
LEMMA FileLonger ==
  ASSUME NEW F \in Seq(ArrayPage), NEW m \in Nat, NEW b \in Seq(ArrayPage), Len(b) = m,
         \A k \in 1..m : b[k] = Blank
  PROVE  /\ F \o b \in Seq(ArrayPage) /\ Len(F \o b) = Len(F) + m
         /\ \A p \in 1..Len(F) : (F \o b)[p] = F[p]
         /\ \A p \in (Len(F) + 1)..(Len(F) + m) : (F \o b)[p] = Blank
OBVIOUS

(* The fields of a page changed.                                           *)
LEMMA NextChanged ==
  ASSUME NEW x \in ArrayPage, NEW p \in Nat
  PROVE  /\ WithNext(x, p) \in ArrayPage
         /\ WithNext(x, p).next = p /\ WithNext(x, p).slots = x.slots
<1>1. WithNext(x, p) \in ArrayPage
  BY BlankPage
<1>2. WithNext(x, p).next = p /\ WithNext(x, p).slots = x.slots
  BY DEF WithNext
<1> QED
  BY <1>1, <1>2

IsWithSlot(y, x, s, v) ==
  /\ y \in ArrayPage /\ y.next = x.next
  /\ \A t \in SlotNos : y.slots[t] = IF t = s THEN v ELSE x.slots[t]

LEMMA SlotChanged ==
  ASSUME NEW x \in ArrayPage, NEW s \in SlotNos, NEW v \in Nat
  PROVE  IsWithSlot(WithSlot(x, s, v), x, s, v)
<1>1. WithSlot(x, s, v) \in ArrayPage
  BY BlankPage
<1>2. x.slots \in [SlotNos -> Nat]
  BY DEF ArrayPage
<1>3. WithSlot(x, s, v).slots = [x.slots EXCEPT ![s] = v]
  BY DEF WithSlot
<1>4. WithSlot(x, s, v).next = x.next
  BY DEF WithSlot
<1> QED
  BY <1>1, <1>2, <1>3, <1>4 DEF IsWithSlot

(* What a put does to the pages of its array, page by page: L are the      *)
(* pages after the new ones are linked, Q after the slot is set.           *)
LinkedPages(L, P, d, m, r, h) ==
  \A p \in 1..(Len(P) + m) :
    L[p] = IF p > Len(P) THEN WithNext(Blank, IF p = Len(P) + m THEN 0 ELSE p + 1)
           ELSE IF m # 0 /\ Len(d) # 0 /\ p = d[Len(d)] THEN WithNext(P[p], Len(P) + 1)
           ELSE IF m # 0 /\ Len(d) = 0 /\ p = r THEN WithSlot(P[p], h, Len(P) + 1)
           ELSE P[p]

LEMMA LinkedFields ==
  ASSUME NEW P \in Seq(ArrayPage), NEW d, NEW m \in Nat, NEW r, NEW h \in SlotNos,
         NEW L, LinkedPages(L, P, d, m, r, h), NEW p \in 1..(Len(P) + m)
  PROVE  /\ L[p] \in ArrayPage
         /\ L[p].next = IF p > Len(P) THEN (IF p = Len(P) + m THEN 0 ELSE p + 1)
                        ELSE IF m # 0 /\ Len(d) # 0 /\ p = d[Len(d)] THEN Len(P) + 1
                        ELSE P[p].next
         /\ \A x \in SlotNos :
              L[p].slots[x] = IF p > Len(P) THEN 0
                              ELSE IF m # 0 /\ Len(d) = 0 /\ p = r /\ x = h THEN Len(P) + 1
                              ELSE P[p].slots[x]
<1> DEFINE N == Len(P)
<1>1. N \in Nat /\ N + 1 \in Nat /\ p \in Nat /\ p + 1 \in Nat /\ 0 \in Nat
  OBVIOUS
<1>2. p \in 1..N => P[p] \in ArrayPage
  OBVIOUS
<1>3. p > N \/ p \in 1..N
  OBVIOUS
<1>4. p \in 1..N => ~(p > N)
  BY <1>1
<1>5. L[p] = IF p > N THEN WithNext(Blank, IF p = N + m THEN 0 ELSE p + 1)
             ELSE IF m # 0 /\ Len(d) # 0 /\ p = d[Len(d)] THEN WithNext(P[p], N + 1)
             ELSE IF m # 0 /\ Len(d) = 0 /\ p = r THEN WithSlot(P[p], h, N + 1)
             ELSE P[p]
  BY DEF LinkedPages
<1> HIDE DEF N
<1>6. CASE p > N
  <2> DEFINE q == IF p = N + m THEN 0 ELSE p + 1
  <2>1. q \in Nat
    BY <1>1
  <2>2. L[p] = WithNext(Blank, q)
    BY <1>5, <1>6
  <2> HIDE DEF q
  <2>3. L[p] \in ArrayPage /\ L[p].next = q /\ L[p].slots = Blank.slots
    <3>1. Blank \in ArrayPage
      BY BlankPage
    <3>2. /\ WithNext(Blank, q) \in ArrayPage
          /\ WithNext(Blank, q).next = q /\ WithNext(Blank, q).slots = Blank.slots
      BY ONLY <2>1, <3>1, NextChanged
    <3> QED
      BY <2>2, <3>2
  <2>4. \A x \in SlotNos : L[p].slots[x] = 0
    BY <2>3, BlankPage
  <2> QED
    BY <1>6, <2>3, <2>4 DEF q, N
<1>7. CASE p \in 1..N /\ m # 0 /\ Len(d) # 0 /\ p = d[Len(d)]
  <2>1. L[p] = WithNext(P[p], N + 1)
    BY <1>4, <1>5, <1>7
  <2>2. L[p] \in ArrayPage /\ L[p].next = N + 1 /\ L[p].slots = P[p].slots
    <3>1. P[p] \in ArrayPage
      BY <1>2, <1>7
    <3>2. /\ WithNext(P[p], N + 1) \in ArrayPage
          /\ WithNext(P[p], N + 1).next = N + 1 /\ WithNext(P[p], N + 1).slots = P[p].slots
      BY ONLY <1>1, <3>1, NextChanged
    <3> QED
      BY <2>1, <3>2
  <2> QED
    BY <1>4, <1>7, <2>2 DEF N
<1>8. CASE p \in 1..N /\ m # 0 /\ Len(d) = 0 /\ p = r
  <2>1. L[p] = WithSlot(P[p], h, N + 1)
    BY <1>4, <1>5, <1>8
  <2>2. L[p] \in ArrayPage /\ L[p].next = P[p].next
        /\ \A x \in SlotNos : L[p].slots[x] = IF x = h THEN N + 1 ELSE P[p].slots[x]
    <3>1. P[p] \in ArrayPage
      BY <1>2, <1>8
    <3>2. IsWithSlot(WithSlot(P[p], h, N + 1), P[p], h, N + 1)
      BY <1>1, <3>1, SlotChanged, Zenon
    <3> QED
      BY <2>1, <3>2 DEF IsWithSlot
  <2> QED
    BY <1>4, <1>8, <2>2 DEF N
<1>9. CASE p \in 1..N /\ ~(m # 0 /\ Len(d) # 0 /\ p = d[Len(d)]) /\ ~(m # 0 /\ Len(d) = 0 /\ p = r)
  BY <1>2, <1>4, <1>5, <1>9 DEF N
<1> QED
  BY <1>3, <1>6, <1>7, <1>8, <1>9

LEMMA PutFields ==
  ASSUME NEW P \in Seq(ArrayPage), NEW d, NEW e, NEW r, NEW i \in Nat, NEW v \in Nat,
         Lengthened(e, d, PageReads(i) + 1, Len(P)),
         Len(d) \in Nat, NEW L, LinkedPages(L, P, d, Lack(d, PageReads(i) + 1), r, Hashed(i)),
         NEW Q \in Seq(ArrayPage), Len(Q) = Len(P) + Lack(d, PageReads(i) + 1),
         \A p \in 1..Len(Q) :
           Q[p] = IF p = e[PageReads(i) + 1] THEN WithSlot(L[p], PageIndex(i), v) ELSE L[p]
  PROVE  PutPages(Q, P, d, e, r, i, v)
<1> DEFINE n == PageReads(i) + 1
           m == Lack(d, n)
           N == Len(P)
<1>1. PageIndex(i) \in SlotNos /\ Hashed(i) \in SlotNos /\ PageReads(i) \in Nat
  BY PlaceOf
<1>2. m \in Nat /\ N \in Nat
  BY <1>1 DEF Lack
<1>3. ASSUME NEW p \in 1..Len(Q)
      PROVE  /\ L[p] \in ArrayPage
             /\ L[p].next = IF p > N THEN (IF p = N + m THEN 0 ELSE p + 1)
                            ELSE IF m # 0 /\ Len(d) # 0 /\ p = d[Len(d)] THEN N + 1
                            ELSE P[p].next
             /\ \A x \in SlotNos :
                  L[p].slots[x] = IF p > N THEN 0
                                  ELSE IF m # 0 /\ Len(d) = 0 /\ p = r /\ x = Hashed(i) THEN N + 1
                                  ELSE P[p].slots[x]
  <2>1. p \in 1..(N + m)
    OBVIOUS
  <2>2. LinkedPages(L, P, d, m, r, Hashed(i))
    OBVIOUS
  <2> HIDE DEF m, n
  <2> QED
    BY <1>1, <1>2, <2>1, <2>2, LinkedFields
<1>4. ASSUME NEW p \in 1..Len(Q)
      PROVE  /\ Q[p].next = L[p].next
             /\ \A x \in SlotNos :
                  Q[p].slots[x] = IF p = e[n] /\ x = PageIndex(i) THEN v ELSE L[p].slots[x]
  <2>1. L[p] \in ArrayPage
    BY <1>3
  <2>2. CASE p = e[n]
    <3>1. Q[p] = WithSlot(L[p], PageIndex(i), v)
      BY <2>2
    <3>2. IsWithSlot(WithSlot(L[p], PageIndex(i), v), L[p], PageIndex(i), v)
      BY <1>1, <2>1, SlotChanged, Zenon
    <3> QED
      BY <2>2, <3>1, <3>2 DEF IsWithSlot
  <2>3. CASE p # e[n]
    BY <2>3
  <2> QED
    BY <2>2, <2>3
<1>5. Len(Q) = N + m
  OBVIOUS
<1> HIDE DEF N, m
<1>6. NextPut(Q, P, d, n)
  BY <1>3, <1>4, <1>5 DEF NextPut, N, m
<1>7. SlotsPut(Q, P, d, e, r, i, v)
  BY <1>3, <1>4, <1>5 DEF SlotsPut, N, m
<1> QED
  BY <1>6, <1>7 DEF PutPages, N, m

(* The new pages linked: to each other, and to the last of the chain or    *)
(* to the root.                                                            *)
LinkPage(d, r) == IF Len(d) # 0 THEN d[Len(d)] ELSE r

LinkIs(link, P, d, r, h) ==
  /\ DOMAIN link = {LinkPage(d, r)}
  /\ Len(d) # 0 => link[LinkPage(d, r)] = WithNext(P[LinkPage(d, r)], Len(P) + 1)
  /\ Len(d) = 0 => link[LinkPage(d, r)] = WithSlot(P[LinkPage(d, r)], h, Len(P) + 1)

LinksMade(F, C, P, d, r, h, m, new, link, K, G, L) ==
  /\ P \in Seq(ArrayPage) /\ DOMAIN C \subseteq 1..Len(P)
  /\ \A p \in 1..Len(P) : P[p] = Overlay(C, F, p)
  /\ d \in Seq(Nat) /\ \A k \in 1..Len(d) : d[k] \in 1..Len(P)
  /\ r \in 1..Len(P) /\ h \in SlotNos /\ m \in Nat
  /\ Taken(new, Len(P), m)
  /\ m # 0 => LinkIs(link, P, d, r, h)
  /\ K = IF new = <<>> THEN C ELSE Changed(Changed(C, link), Unused(new))
  /\ \A p \in 1..Len(P) : G[p] = F[p]
  /\ \A p \in 1..(Len(P) + m) : L[p] = Overlay(K, G, p)

LEMMA LinksPut ==
  ASSUME NEW F, NEW C, NEW P, NEW d, NEW r, NEW h, NEW m, NEW new, NEW link, NEW K, NEW G,
         NEW L, LinksMade(F, C, P, d, r, h, m, new, link, K, G, L)
  PROVE  /\ LinkedPages(L, P, d, m, r, h)
         /\ DOMAIN K = IF m = 0 THEN DOMAIN C
                       ELSE DOMAIN C \cup {LinkPage(d, r)} \cup (Len(P) + 1)..(Len(P) + m)
         /\ LinkPage(d, r) \in 1..Len(P)
<1> DEFINE N == Len(P)
<1>10. /\ P \in Seq(ArrayPage) /\ DOMAIN C \subseteq 1..N
       /\ \A p \in 1..N : P[p] = Overlay(C, F, p)
       /\ \A k \in 1..Len(d) : d[k] \in 1..N
       /\ r \in 1..N /\ m \in Nat /\ Taken(new, N, m)
       /\ K = IF new = <<>> THEN C ELSE Changed(Changed(C, link), Unused(new))
       /\ \A p \in 1..N : G[p] = F[p]
  BY DEF LinksMade
<1>1. N \in Nat /\ Len(d) \in Nat /\ (d = <<>> <=> Len(d) = 0)
  <2>1. d \in Seq(Nat) /\ P \in Seq(ArrayPage)
    BY DEF LinksMade
  <2> QED
    BY <2>1
<1>2. LinkPage(d, r) \in 1..N
  BY <1>1, <1>10 DEF LinkPage
<1>3. /\ (new = <<>> <=> m = 0) /\ ToSet(new) = (N + 1)..(N + m)
      /\ m # 0 => Last(new) = N + m
  BY <1>1, <1>10, PagesTaken
<1>4. \A p \in 1..N : Overlay(C, G, p) = P[p]
  BY <1>10 DEF Overlay
<1>5. \A p \in 1..(N + m) : L[p] = Overlay(K, G, p)
  BY DEF LinksMade
<1>6. m # 0 => LinkIs(link, P, d, r, h)
  BY DEF LinksMade
<1>7. /\ DOMAIN Unused(new) = (N + 1)..(N + m)
      /\ m # 0 => \A p \in (N + 1)..(N + m) :
           Unused(new)[p] = WithNext(Blank, IF p = N + m THEN 0 ELSE p + 1)
  BY <1>3 DEF Unused
<1> HIDE DEF N
<1>8. CASE m = 0
  <2>1. K = C
    BY <1>3, <1>8, <1>10
  <2>2. LinkedPages(L, P, d, m, r, h)
    <3>1. \A p \in 1..(N + m) : p \in 1..N /\ ~(p > N)
      BY <1>1, <1>8
    <3> QED
      BY <1>4, <1>5, <1>8, <2>1, <3>1 DEF LinkedPages, N
  <2> QED
    BY <1>2, <1>8, <2>1, <2>2 DEF N
<1>9. CASE m # 0
  <2>1. K = Changed(Changed(C, link), Unused(new))
    BY <1>3, <1>9, <1>10
  <2>2. DOMAIN K = DOMAIN C \cup {LinkPage(d, r)} \cup (N + 1)..(N + m)
    <3>1. DOMAIN Changed(C, link) = DOMAIN C \cup {LinkPage(d, r)}
      BY <1>6, <1>9 DEF LinkIs, Changed
    <3>2. DOMAIN K = DOMAIN Changed(C, link) \cup DOMAIN Unused(new)
      BY <2>1 DEF Changed
    <3> QED
      BY <1>7, <3>1, <3>2
  <2>3. ASSUME NEW p \in 1..(N + m)
        PROVE  Overlay(K, G, p) = IF p \in (N + 1)..(N + m) THEN Unused(new)[p]
                                  ELSE IF p = LinkPage(d, r) THEN link[p]
                                  ELSE Overlay(C, G, p)
    <3>1. Overlay(K, G, p) = IF p \in DOMAIN Unused(new) THEN Unused(new)[p]
                             ELSE Overlay(Changed(C, link), G, p)
      BY <2>1 DEF Changed, Overlay
    <3>2. Overlay(Changed(C, link), G, p) = IF p \in DOMAIN link THEN link[p] ELSE Overlay(C, G, p)
      BY DEF Changed, Overlay
    <3>3. DOMAIN link = {LinkPage(d, r)}
      BY <1>6, <1>9 DEF LinkIs
    <3> QED
      BY <1>7, <3>1, <3>2, <3>3
  <2>4. ASSUME NEW p \in 1..(N + m)
        PROVE  L[p] = IF p > N THEN WithNext(Blank, IF p = N + m THEN 0 ELSE p + 1)
                      ELSE IF m # 0 /\ Len(d) # 0 /\ p = d[Len(d)] THEN WithNext(P[p], N + 1)
                      ELSE IF m # 0 /\ Len(d) = 0 /\ p = r THEN WithSlot(P[p], h, N + 1)
                      ELSE P[p]
    <3>1. L[p] = Overlay(K, G, p)
      BY <1>5
    <3>2. CASE p > N
      <4>1. p \in (N + 1)..(N + m)
        BY <1>1, <3>2
      <4> QED
        BY <1>7, <1>9, <2>3, <3>1, <3>2, <4>1
    <3>3. CASE ~(p > N) /\ p = LinkPage(d, r)
      <4>1. p \notin (N + 1)..(N + m)
        BY <1>1, <3>3
      <4>2. L[p] = link[p]
        BY <2>3, <3>1, <3>3, <4>1
      <4> QED
        BY <1>6, <1>9, <3>3, <4>2 DEF LinkPage, LinkIs, N
    <3>4. CASE ~(p > N) /\ p # LinkPage(d, r)
      <4>1. p \notin (N + 1)..(N + m) /\ p \in 1..N
        BY <1>1, <3>4
      <4>2. L[p] = P[p]
        BY <1>4, <2>3, <3>1, <3>4, <4>1
      <4> QED
        BY <3>4, <4>2 DEF LinkPage
    <3> QED
      BY <3>2, <3>3, <3>4
  <2>5. LinkedPages(L, P, d, m, r, h)
    BY <2>4 DEF LinkedPages, N
  <2> QED
    BY <1>2, <1>9, <2>2, <2>5 DEF N
<1> QED
  BY <1>8, <1>9

(* What a put does to the file and the cache of its array.                 *)
FilePut(a, d, i) ==
  LET m == Lack(d, PageReads(i) + 1)
  IN  /\ arrayFile' \in Seq(ArrayPage) /\ Len(arrayFile') = Len(arrayFile) + m
      /\ \A p \in 1..Len(arrayFile) : arrayFile'[p] = arrayFile[p]
      /\ \A p \in (Len(arrayFile) + 1)..(Len(arrayFile) + m) : arrayFile'[p] = Blank
      /\ DOMAIN arrayCache' = Arrays /\ arrayRoot' = arrayRoot
      /\ \A b \in Arrays : b # a => arrayCache'[b] = arrayCache[b]

LEMMA ElementPut ==
  ASSUME ArrayTypes, NEW a \in Arrays, Upward(PagesOf(a)), NEW i \in Elements, NEW v \in Nat,
         NEW c, PagesChained(c, PagesOf(a), arrayRoot[a]), PutElement(a, i, v)
  PROVE  \E e :
           /\ FilePut(a, c[Hashed(i)], i)
           /\ PutPages(PagesOf(a)', PagesOf(a), c[Hashed(i)], e, arrayRoot[a], i, v)
           /\ DOMAIN arrayCache'[a] \subseteq 1..Len(arrayFile')
           /\ \A p \in DOMAIN arrayCache'[a] :
                /\ arrayCache'[a][p] \in ArrayPage
                /\ \/ p \in DOMAIN arrayCache[a] \/ p = arrayRoot[a]
                   \/ \E k \in 1..Len(e) : p = e[k]
<1> DEFINE P == PagesOf(a)
           N == Len(P)
           r == arrayRoot[a]
           h == Hashed(i)
           d == c[h]
           n == PageReads(i) + 1
           m == Lack(d, n)
           new == NewPages(a, i)
           e == d \o new
           link == Linked(a, i, new[1])
           K == IF new = <<>> THEN arrayCache[a]
                ELSE Changed(Changed(arrayCache[a], link), Unused(new))
           x == PageIndex(i)
           L == [p \in 1..(N + m) |-> Overlay(K, arrayFile', p)]
           page == Overlay(K, arrayFile, e[n])
<1>1. i \in Nat /\ x \in SlotNos /\ h \in SlotNos /\ PageReads(i) \in Nat /\ n \in Nat /\ n >= 1
  <2>1. i \in Nat
    BY ArrayAssumption
  <2>2. PageIndex(i) \in SlotNos /\ Hashed(i) \in SlotNos /\ PageReads(i) \in Nat
    BY <2>1, PlaceOf
  <2> QED
    BY <2>1, <2>2
<1>2. /\ P \in Seq(ArrayPage) /\ N = Len(arrayFile) /\ N \in Nat
      /\ \A p \in 1..N : P[p] = PageOf(a, p) /\ P[p] = Overlay(arrayCache[a], arrayFile, p)
  <2>1. /\ PagesOf(a) \in Seq(ArrayPage) /\ Len(PagesOf(a)) = Len(arrayFile)
        /\ \A p \in 1..Len(arrayFile) : PagesOf(a)[p] = PageOf(a, p)
    BY PagesAre
  <2>2. Len(arrayFile) \in Nat
    BY DEF ArrayTypes
  <2> QED
    BY <2>1, <2>2 DEF PageOf, Overlay
<1> HIDE DEF P, N
<1>3. /\ d \in Seq(Nat) /\ Len(d) \in Nat /\ r \in 1..N
      /\ \A k \in 1..Len(d) : d[k] \in 1..N
  <2>1. d \in Seq(Nat) /\ r \in 1..N /\ \A k \in 1..Len(d) : d[k] \in 1..N
    BY <1>1 DEF PagesChained, P, N
  <2> QED
    BY <2>1
<1>4. ChainOf(a, h) = d
  <2>1. PageOf(a, r) = P[r]
    BY <1>2, <1>3
  <2>2. PagesFrom(P, P[r].slots[h]) = d
    BY <1>1, <1>2, ChainFollowed DEF P
  <2> QED
    BY <2>1, <2>2 DEF ChainOf, P
<1> HIDE DEF d, h, x
<1>5. m \in Nat /\ n <= Len(d) + m /\ Lacking(a, i) = m
  <2>1. m \in Nat /\ n <= Len(d) + m
    BY <1>1, <1>3 DEF Lack
  <2>2. Lacking(a, i) = IF Len(d) > PageReads(i) THEN 0 ELSE n - Len(d)
    BY <1>1, <1>3, <1>4 DEF Lacking, h
  <2>3. Lacking(a, i) = m
    BY <1>1, <1>3, <2>2 DEF Lack
  <2> QED
    BY <2>1, <2>3
<1> HIDE DEF m, n
<1>6. Taken(new, N, m)
  <2>1. new = [k \in 1..m |-> N + k] /\ m \in Nat /\ N \in Nat
    BY <1>2, <1>5 DEF NewPages
  <2> HIDE DEF new
  <2> QED
    BY ONLY <2>1 DEF Taken
<1> HIDE DEF new
<1>7. /\ new \in Seq(Nat) /\ Len(new) = m /\ (new = <<>> <=> m = 0)
      /\ \A k \in 1..m : new[k] = N + k
      /\ m # 0 => new[1] = N + 1
  <2>1. (new = <<>> <=> m = 0) /\ (m # 0 => new[1] = N + 1)
    BY <1>2, <1>5, <1>6, PagesTaken
  <2> QED
    BY <1>6, <2>1 DEF Taken
<1>8. /\ e \in Seq(Nat) /\ Len(e) = Len(d) + m
      /\ \A k \in 1..Len(e) : e[k] = IF k <= Len(d) THEN d[k] ELSE N + (k - Len(d))
  <2>1. e \in Seq(Nat) /\ Len(e) = Len(d) + Len(new)
    BY <1>3, <1>7, BehindAnother
  <2>2. \A k \in 1..Len(e) : e[k] = IF k <= Len(d) THEN d[k] ELSE new[k - Len(d)]
    BY <1>3, <1>7, BehindAnother
  <2> HIDE DEF e
  <2>3. \A k \in 1..Len(e) : ~(k <= Len(d)) => k - Len(d) \in 1..m
    BY <1>3, <1>5, <1>7, <2>1
  <2> QED
    BY <1>7, <2>1, <2>2, <2>3
<1>9. /\ arrayFile' = arrayFile \o [k \in 1..m |-> Blank]
      /\ arrayCache' = [arrayCache EXCEPT ![a] =
                          Changed(K, [p \in {e[n]} |-> WithSlot(page, x, v)])]
      /\ arrayRoot' = arrayRoot
  <2>1. (ChainOf(a, Hashed(i)) \o new)[PageReads(i) + 1] = e[n]
    BY <1>4 DEF h, n
  <2> QED
    BY <1>7, <2>1 DEF PutElement, Overlay, new, x
<1>10. m # 0 => LinkIs(link, P, d, r, h)
  <2>1. link = IF d # <<>> THEN [p \in {Last(d)} |-> WithNext(PageOf(a, p), new[1])]
               ELSE [p \in {r} |-> WithSlot(PageOf(a, p), h, new[1])]
    BY <1>4 DEF Linked, h
  <2>2. (d # <<>> <=> Len(d) # 0) /\ Last(d) = d[Len(d)]
    BY <1>3 DEF Last
  <2> HIDE DEF link
  <2>3. CASE Len(d) # 0
    <3>1. LinkPage(d, r) = d[Len(d)] /\ d[Len(d)] \in 1..N
      BY <1>3, <2>3 DEF LinkPage
    <3>2. link = [p \in {d[Len(d)]} |-> WithNext(PageOf(a, p), new[1])]
      BY <2>1, <2>2, <2>3
    <3>3. DOMAIN link = {d[Len(d)]} /\ link[d[Len(d)]] = WithNext(PageOf(a, d[Len(d)]), new[1])
      BY <3>2
    <3> QED
      BY <1>2, <1>7, <2>3, <3>1, <3>3 DEF LinkIs, N
  <2>4. CASE Len(d) = 0
    <3>1. LinkPage(d, r) = r
      BY <2>4 DEF LinkPage
    <3>2. link = [p \in {r} |-> WithSlot(PageOf(a, p), h, new[1])]
      BY <2>1, <2>2, <2>4
    <3>3. DOMAIN link = {r} /\ link[r] = WithSlot(PageOf(a, r), h, new[1])
      BY <3>2
    <3> QED
      BY <1>2, <1>3, <1>7, <2>4, <3>1, <3>3 DEF LinkIs, N
  <2> QED
    BY <2>3, <2>4
<1> HIDE DEF e, page, link
<1>11. K = IF new = <<>> THEN arrayCache[a]
           ELSE Changed(Changed(arrayCache[a], link), Unused(new))
  OBVIOUS
<1> HIDE DEF K
<1>12. /\ arrayFile' \in Seq(ArrayPage) /\ Len(arrayFile') = N + m
       /\ \A p \in 1..N : arrayFile'[p] = arrayFile[p]
       /\ \A p \in (N + 1)..(N + m) : arrayFile'[p] = Blank
  <2>1. arrayFile \in Seq(ArrayPage)
    BY DEF ArrayTypes
  <2> DEFINE b == [k \in 1..m |-> Blank]
  <2>2. b \in Seq(ArrayPage) /\ Len(b) = m /\ \A k \in 1..m : b[k] = Blank
    BY <1>5, BlankPage
  <2>3. arrayFile' = arrayFile \o b
    BY <1>9
  <2> HIDE DEF b
  <2> QED
    BY <1>2, <1>5, <2>1, <2>2, <2>3, FileLonger
<1>13. /\ LinkedPages(L, P, d, m, r, h)
       /\ DOMAIN K = IF m = 0 THEN DOMAIN arrayCache[a]
                     ELSE DOMAIN arrayCache[a] \cup {LinkPage(d, r)} \cup (N + 1)..(N + m)
       /\ LinkPage(d, r) \in 1..N
  <2>1. arrayFile \in Seq(ArrayPage) /\ DOMAIN arrayCache[a] \subseteq 1..N
    BY <1>2 DEF ArrayTypes
  <2>2. \A p \in 1..(N + m) : L[p] = Overlay(K, arrayFile', p)
    OBVIOUS
  <2> HIDE DEF L
  <2>3. LinksMade(arrayFile, arrayCache[a], P, d, r, h, m, new, link, K, arrayFile', L)
    BY <1>1, <1>2, <1>3, <1>5, <1>6, <1>10, <1>11, <1>12, <2>1, <2>2 DEF LinksMade, N
  <2> QED
    BY <1>2, <2>3, LinksPut DEF N
<1>14. n \in 1..Len(e) /\ e[n] \in 1..(N + m)
  <2>1. n \in 1..Len(e)
    BY <1>1, <1>3, <1>5, <1>8
  <2>4. n \in Nat /\ N \in Nat /\ m \in Nat /\ Len(d) \in Nat /\ n <= Len(d) + m
    BY <1>1, <1>2, <1>3, <1>5
  <2>2. CASE n <= Len(d)
    <3>1. n \in 1..Len(d) /\ e[n] = d[n]
      BY <1>1, <1>3, <1>8, <2>1, <2>2
    <3>2. d[n] \in 1..N
      BY <1>3, <3>1
    <3>3. d[n] \in 1..(N + m)
      BY ONLY <2>4, <3>2
    <3> QED
      BY <2>1, <3>1, <3>3
  <2>3. CASE ~(n <= Len(d))
    <3>1. e[n] = N + (n - Len(d))
      BY <1>8, <2>1, <2>3
    <3>2. N + (n - Len(d)) \in 1..(N + m)
      BY ONLY <2>4, <2>3
    <3> QED
      BY <2>1, <3>1, <3>2
  <2> QED
    BY <2>1, <2>2, <2>3
<1>15. page = L[e[n]]
  <2>1. L[e[n]] = Overlay(K, arrayFile', e[n])
    BY <1>14
  <2>2. CASE e[n] \in DOMAIN K
    BY <2>1, <2>2 DEF page, Overlay
  <2>3. CASE e[n] \notin DOMAIN K
    <3>1. e[n] \in 1..N
      BY <1>2, <1>5, <1>13, <1>14, <2>3
    <3> QED
      BY <1>12, <2>1, <2>3, <3>1 DEF page, Overlay
  <2> QED
    BY <2>2, <2>3
<1>16. /\ arrayCache'[a] = Changed(K, [p \in {e[n]} |-> WithSlot(page, x, v)])
       /\ DOMAIN arrayCache' = Arrays
       /\ \A b \in Arrays : b # a => arrayCache'[b] = arrayCache[b]
  BY <1>9 DEF ArrayTypes
<1> DEFINE slot == [p \in {e[n]} |-> WithSlot(page, x, v)]
           Q == PagesOf(a)'
<1>17. /\ DOMAIN arrayCache'[a] = DOMAIN K \cup {e[n]}
       /\ \A p \in 1..(N + m) :
            Overlay(arrayCache'[a], arrayFile', p) =
              IF p = e[n] THEN WithSlot(L[p], x, v) ELSE L[p]
  <2>1. DOMAIN slot = {e[n]} /\ slot[e[n]] = WithSlot(page, x, v)
    OBVIOUS
  <2>2. arrayCache'[a] = Changed(K, slot)
    BY <1>16
  <2>3. \A p \in 1..(N + m) : L[p] = Overlay(K, arrayFile', p)
    OBVIOUS
  <2> HIDE DEF slot, L
  <2>4. DOMAIN arrayCache'[a] = DOMAIN K \cup {e[n]}
    BY <2>1, <2>2 DEF Changed
  <2>5. ASSUME NEW p \in 1..(N + m)
        PROVE  Overlay(arrayCache'[a], arrayFile', p) =
                 IF p = e[n] THEN WithSlot(L[p], x, v) ELSE L[p]
    <3>1. Overlay(Changed(K, slot), arrayFile', p) =
            IF p \in DOMAIN slot THEN slot[p] ELSE Overlay(K, arrayFile', p)
      BY DEF Changed, Overlay
    <3> QED
      BY <1>15, <2>1, <2>2, <2>3, <3>1
  <2> QED
    BY <2>4, <2>5
<1> HIDE DEF L, slot
<1>18. DOMAIN arrayCache'[a] \subseteq 1..(N + m)
  <2>1. DOMAIN arrayCache[a] \subseteq 1..N
    BY <1>2 DEF ArrayTypes
  <2> QED
    BY <1>2, <1>5, <1>13, <1>14, <1>17, <2>1
<1>19. ASSUME NEW p \in 1..(N + m)
       PROVE  (IF p = e[n] THEN WithSlot(L[p], x, v) ELSE L[p]) \in ArrayPage
  <2>1. L[p] \in ArrayPage
    BY <1>1, <1>2, <1>3, <1>5, <1>13, LinkedFields DEF N
  <2>2. WithSlot(L[p], x, v) \in ArrayPage
    BY <1>1, <2>1, BlankPage
  <2> QED
    BY <2>1, <2>2
<1>20. ASSUME NEW p \in DOMAIN arrayCache'[a]
       PROVE  /\ arrayCache'[a][p] \in ArrayPage
              /\ \/ p \in DOMAIN arrayCache[a] \/ p = r
                 \/ \E k \in 1..Len(e) : p = e[k]
  <2>1. p \in 1..(N + m) /\ arrayCache'[a][p] = Overlay(arrayCache'[a], arrayFile', p)
    BY <1>18 DEF Overlay
  <2>2. arrayCache'[a][p] \in ArrayPage
    BY <1>17, <1>19, <2>1
  <2>3. \/ p \in DOMAIN arrayCache[a] \/ p = e[n]
        \/ m # 0 /\ p = LinkPage(d, r)
        \/ m # 0 /\ p \in (N + 1)..(N + m)
    BY <1>13, <1>17
  <2>4. CASE p = e[n]
    BY <1>14, <2>2, <2>4
  <2>5. CASE p = LinkPage(d, r)
    <3>1. CASE Len(d) = 0
      BY <2>2, <2>5, <3>1 DEF LinkPage
    <3>2. CASE Len(d) # 0
      <4>1. Len(d) \in 1..Len(e) /\ e[Len(d)] = d[Len(d)]
        BY <1>3, <1>5, <1>8, <3>2
      <4> QED
        BY <2>2, <2>5, <3>2, <4>1 DEF LinkPage
    <3> QED
      BY <3>1, <3>2
  <2>6. CASE p \in (N + 1)..(N + m)
    <3>1. Len(d) + (p - N) \in 1..Len(e) /\ ~(Len(d) + (p - N) <= Len(d))
          /\ p = N + ((Len(d) + (p - N)) - Len(d))
      <4>1. p - N \in 1..m
        BY <1>2, <1>5, <2>6
      <4> QED
        BY <1>2, <1>3, <1>5, <1>8, <2>6, <4>1
    <3>2. e[Len(d) + (p - N)] = p
      BY <1>8, <3>1
    <3> QED
      BY <2>2, <3>1, <3>2
  <2> QED
    BY <2>2, <2>3, <2>4, <2>5, <2>6
<1>21. /\ Q \in Seq(ArrayPage) /\ Len(Q) = N + m
       /\ \A p \in 1..Len(Q) : Q[p] = IF p = e[n] THEN WithSlot(L[p], x, v) ELSE L[p]
  <2> DEFINE F == arrayFile'
             C == arrayCache'[a]
  <2>1. F \in Seq(ArrayPage) /\ Len(F) = N + m /\ DOMAIN C \subseteq 1..Len(F)
        /\ \A p \in DOMAIN C : C[p] \in ArrayPage
    BY <1>12, <1>18, <1>20
  <2>2. Q = [p \in DOMAIN F |-> IF p \in DOMAIN C THEN C[p] ELSE F[p]]
    BY DEF PagesOf, PageOf
  <2>3. \A p \in 1..(N + m) : (IF p \in DOMAIN C THEN C[p] ELSE F[p])
          = IF p = e[n] THEN WithSlot(L[p], x, v) ELSE L[p]
    BY <1>17 DEF Overlay
  <2> HIDE DEF Q, F, C
  <2>4. Q \in Seq(ArrayPage) /\ Len(Q) = Len(F)
        /\ \A p \in 1..Len(F) : Q[p] = IF p \in DOMAIN C THEN C[p] ELSE F[p]
    BY <2>1, <2>2, Overlaid
  <2> QED
    BY <2>1, <2>3, <2>4
<1> HIDE DEF Q
<1>22. Lengthened(e, d, n, N)
  BY <1>8 DEF Lengthened, m
<1>23. PutPages(Q, P, d, e, r, i, v)
  <2>1. LinkedPages(L, P, d, Lack(d, PageReads(i) + 1), r, Hashed(i))
    BY <1>13 DEF m, n, h
  <2>2. Lengthened(e, d, PageReads(i) + 1, Len(P))
    BY <1>22 DEF n, N
  <2>3. Len(Q) = Len(P) + Lack(d, PageReads(i) + 1)
    BY <1>21 DEF m, n, N
  <2>4. \A p \in 1..Len(Q) :
          Q[p] = IF p = e[PageReads(i) + 1] THEN WithSlot(L[p], PageIndex(i), v) ELSE L[p]
    BY <1>21 DEF n, x
  <2> QED
    BY <1>1, <1>2, <1>3, <1>21, <2>1, <2>2, <2>3, <2>4, PutFields
<1>24. FilePut(a, d, i)
  BY <1>2, <1>9, <1>12, <1>16 DEF FilePut, m, n
<1> QED
  BY <1>12, <1>18, <1>20, <1>23, <1>24 DEF P, Q, d, h

(* A chain made longer still has its pages.                                *)
LEMMA OwnsLonger ==
  ASSUME NEW c \in [SlotNos -> Seq(Nat)], NEW h \in SlotNos, NEW n \in Nat, NEW N, NEW e,
         Lengthened(e, c[h], n, N), NEW r, NEW p
  PROVE  /\ Owns(c, r, p) => Owns([c EXCEPT ![h] = e], r, p)
         /\ \A k \in 1..Len(e) : Owns([c EXCEPT ![h] = e], r, e[k])
<1> DEFINE g == [c EXCEPT ![h] = e]
<1>1. g[h] = e /\ \A s \in SlotNos : s # h => g[s] = c[s]
  OBVIOUS
<1>2. /\ Len(c[h]) \in Nat /\ Len(e) = Len(c[h]) + Lack(c[h], n)
      /\ \A k \in 1..Len(e) : k <= Len(c[h]) => e[k] = c[h][k]
  BY DEF Lengthened
<1>3. Lack(c[h], n) \in Nat
  BY <1>2 DEF Lack
<1> HIDE DEF g
<1>4. \A k \in 1..Len(c[h]) : k \in 1..Len(e) /\ e[k] = c[h][k]
  BY <1>2, <1>3
<1>5. ASSUME Owns(c, r, p) PROVE Owns(g, r, p)
  <2>1. CASE p = r
    BY <2>1 DEF Owns
  <2>2. CASE p # r
    <3>1. PICK s \in SlotNos : \E k \in 1..Len(c[s]) : p = c[s][k]
      BY <1>5, <2>2 DEF Owns
    <3>2. CASE s = h
      BY <1>1, <1>4, <3>1, <3>2 DEF Owns
    <3>3. CASE s # h
      BY <1>1, <3>1, <3>3 DEF Owns
    <3> QED
      BY <3>2, <3>3
  <2> QED
    BY <2>1, <2>2
<1>6. \A k \in 1..Len(e) : Owns(g, r, e[k])
  BY <1>1 DEF Owns
<1> QED
  BY <1>5, <1>6 DEF g

(* An element put leaves the chains those of before, one of them longer,   *)
(* and the other arrays their pages.                                       *)
LEMMA ArrayInvPut ==
  ASSUME ArrayInv, NEW a \in Arrays, NEW i \in Elements, NEW v \in Values[i],
         PutElement(a, i, v)
  PROVE  ArrayInv'
<1> DEFINE h == Hashed(i)
           n == PageReads(i) + 1
           N == Len(arrayFile)
<1>1. PICK c : ArrayChains(c)
  BY DEF ArrayInv
<1>2. v \in Nat /\ i \in Nat /\ h \in SlotNos /\ n \in Nat
  <2>1. v \in Nat /\ i \in Nat
    BY ArrayAssumption
  <2>2. Hashed(i) \in SlotNos /\ PageReads(i) \in Nat
    BY <2>1, PlaceOf
  <2> QED
    BY <2>1, <2>2
<1>3. ASSUME NEW b \in Arrays
      PROVE  /\ PagesChained(c[b], PagesOf(b), arrayRoot[b]) /\ Apart(c[b], arrayRoot[b])
             /\ \A p \in DOMAIN arrayCache[b] : Owns(c[b], arrayRoot[b], p)
             /\ \A j \in Elements : ValueAt(c[b], PagesOf(b), j) = arrayGiven[b][j]
             /\ Upward(PagesOf(b))
  BY <1>1 DEF ArrayChains, ArrayOf, ArrayInv
<1>4. ArrayTypes
  BY DEF ArrayInv
<1>5. PICK e :
        /\ FilePut(a, c[a][h], i)
        /\ PutPages(PagesOf(a)', PagesOf(a), c[a][h], e, arrayRoot[a], i, v)
        /\ DOMAIN arrayCache'[a] \subseteq 1..Len(arrayFile')
        /\ \A p \in DOMAIN arrayCache'[a] :
             /\ arrayCache'[a][p] \in ArrayPage
             /\ \/ p \in DOMAIN arrayCache[a] \/ p = arrayRoot[a]
                \/ \E k \in 1..Len(e) : p = e[k]
  BY <1>2, <1>3, <1>4, ElementPut
<1> DEFINE g == [c[a] EXCEPT ![h] = e]
           m == Lack(c[a][h], n)
<1>6. c[a] \in [SlotNos -> Seq(Nat)]
  BY <1>3 DEF PagesChained
<1>7. m \in Nat /\ N \in Nat
  <2>1. Len(c[a][h]) \in Nat
    BY <1>2, <1>6
  <2>2. N \in Nat
    BY <1>4 DEF ArrayTypes
  <2> QED
    BY <1>2, <2>1, <2>2 DEF Lack
<1>8. /\ arrayFile' \in Seq(ArrayPage) /\ Len(arrayFile') = N + m
      /\ \A p \in 1..N : arrayFile'[p] = arrayFile[p]
      /\ \A p \in (N + 1)..(N + m) : arrayFile'[p] = Blank
      /\ DOMAIN arrayCache' = Arrays /\ arrayRoot' = arrayRoot
      /\ \A b \in Arrays : b # a => arrayCache'[b] = arrayCache[b]
  BY <1>5 DEF FilePut
<1>9. ASSUME NEW b \in Arrays
      PROVE  PagesOf(b) \in Seq(ArrayPage) /\ Len(PagesOf(b)) = N
             /\ \A p \in 1..N : PagesOf(b)[p] = PageOf(b, p)
  BY <1>4, PagesAre
<1>10. /\ PagesChained(g, PagesOf(a)', arrayRoot[a]) /\ Apart(g, arrayRoot[a]) /\ Upward(PagesOf(a)')
       /\ \A j \in Nat : ValueAt(g, PagesOf(a)', j) = IF j = i THEN v ELSE ValueAt(c[a], PagesOf(a), j)
       /\ \A p : Owns(g, arrayRoot[a], p) => Owns(c[a], arrayRoot[a], p) \/ p \in (N + 1)..(N + m)
  <2>1. Len(PagesOf(a)') = N + m
    BY <1>5, <1>9 DEF PutPages
  <2>2. LongerChains(g, c[a], PagesOf(a)', PagesOf(a), arrayRoot[a], i, v)
    <3>1. /\ PagesOf(a) \in Seq(ArrayPage) /\ i \in Nat /\ v \in Nat
          /\ PagesChained(c[a], PagesOf(a), arrayRoot[a]) /\ Apart(c[a], arrayRoot[a])
          /\ Upward(PagesOf(a))
      BY <1>2, <1>3, <1>9
    <3>2. PutPages(PagesOf(a)', PagesOf(a), c[a][Hashed(i)], e, arrayRoot[a], i, v)
      BY <1>5
    <3> QED
      BY <3>1, <3>2, ChainsPut
  <2> HIDE DEF m, g
  <2> QED
    BY <1>9, <2>1, <2>2 DEF LongerChains
<1>11. arrayGiven' \in [Arrays -> [Elements -> Nat]]
       /\ \A b \in Arrays, j \in Elements :
            arrayGiven'[b][j] = IF b = a /\ j = i THEN v ELSE arrayGiven[b][j]
  <2>1. arrayGiven \in [Arrays -> [Elements -> Nat]]
    BY <1>4 DEF ArrayTypes
  <2>2. arrayGiven' = [arrayGiven EXCEPT ![a] = [arrayGiven[a] EXCEPT ![i] = v]]
    BY <2>1 DEF PutElement
  <2> QED
    BY <1>2, <2>1, <2>2
<1> HIDE DEF m, n, g, N, h
<1>12. ArrayTypes'
  <2>1. ASSUME NEW b \in Arrays
        PROVE  /\ DOMAIN arrayCache'[b] \subseteq 1..Len(arrayFile')
               /\ \A p \in DOMAIN arrayCache'[b] : arrayCache'[b][p] \in ArrayPage
    <3>1. CASE b = a
      BY <1>5, <3>1
    <3>2. CASE b # a
      <4>1. arrayCache'[b] = arrayCache[b]
        BY <1>8, <3>2
      <4>2. /\ DOMAIN arrayCache[b] \subseteq 1..N
            /\ \A p \in DOMAIN arrayCache[b] : arrayCache[b][p] \in ArrayPage
        BY <1>4 DEF ArrayTypes, N
      <4>3. 1..N \subseteq 1..(N + m)
        BY <1>7
      <4> QED
        BY <1>8, <4>1, <4>2, <4>3
    <3> QED
      BY <3>1, <3>2
  <2>2. DOMAIN arrayRoot' = Arrays
    BY <1>4, <1>8 DEF ArrayTypes
  <2> QED
    BY <1>8, <1>11, <2>1, <2>2 DEF ArrayTypes
<1>13. ASSUME NEW b \in Arrays, b # a
       PROVE  /\ PagesOf(b)' \in Seq(ArrayPage) /\ Len(PagesOf(b)') = N + m
              /\ \A p \in 1..N : PagesOf(b)'[p] = PagesOf(b)[p]
              /\ \A p \in (N + 1)..(N + m) : PagesOf(b)'[p] = Blank
  <2>1. /\ PagesOf(b)' \in Seq(ArrayPage) /\ Len(PagesOf(b)') = Len(arrayFile')
        /\ \A p \in 1..Len(arrayFile') : PagesOf(b)'[p] = PageOf(b, p)'
    BY <1>12, PagesAreAfter
  <2>2. arrayCache'[b] = arrayCache[b] /\ DOMAIN arrayCache[b] \subseteq 1..N
    BY <1>4, <1>8, <1>13 DEF ArrayTypes, N
  <2>3. ASSUME NEW p \in 1..N PROVE PageOf(b, p)' = PagesOf(b)[p]
    <3>1. PagesOf(b)[p] = PageOf(b, p) /\ arrayFile'[p] = arrayFile[p]
      BY <1>8, <1>9
    <3> QED
      BY <2>2, <3>1 DEF PageOf
  <2>4. ASSUME NEW p \in (N + 1)..(N + m) PROVE PageOf(b, p)' = Blank
    <3>1. p \notin 1..N
      BY <1>7
    <3> QED
      BY <1>8, <2>2, <3>1 DEF PageOf
  <2>5. /\ \A p \in 1..N : p \in 1..(N + m)
        /\ \A p \in (N + 1)..(N + m) : p \in 1..(N + m)
    BY <1>7
  <2> QED
    BY <1>8, <2>1, <2>3, <2>4, <2>5
<1>14. ASSUME NEW b \in Arrays PROVE Upward(PagesOf(b)')
  <2>1. CASE b = a
    BY <1>10, <2>1
  <2>2. CASE b # a
    <3> DEFINE P == PagesOf(b)
               Q == PagesOf(b)'
    <3>1. Len(Q) = N + m /\ Len(P) = N
      BY <1>9, <1>13, <2>2
    <3>2. ASSUME NEW p \in 1..(N + m)
          PROVE  Q[p].next = 0 \/ (p < Q[p].next /\ Q[p].next <= N + m)
      <4>1. CASE p \in 1..N
        <5>1. Q[p] = P[p]
          BY <1>13, <2>2, <4>1
        <5>2. P[p].next = 0 \/ (p < P[p].next /\ P[p].next <= N)
          BY <1>3, <3>1, <4>1 DEF Upward
        <5>3. P[p].next \in Nat
          <6>1. P[p] \in ArrayPage
            BY <1>9, <3>1, <4>1
          <6> QED
            BY <6>1 DEF ArrayPage
        <5> HIDE DEF P, Q
        <5> QED
          BY <1>7, <5>1, <5>2, <5>3
      <4>2. CASE p \in (N + 1)..(N + m)
        <5>1. Q[p] = Blank
          BY <1>13, <2>2, <4>2
        <5> QED
          BY <5>1, BlankPage
      <4> QED
        BY <1>7, <4>1, <4>2
    <3> QED
      BY <3>1, <3>2 DEF Upward
  <2> QED
    BY <2>1, <2>2
<1> DEFINE cc == [b \in Arrays |-> IF b = a THEN g ELSE c[b]]
<1>15. cc[a] = g /\ \A b \in Arrays : b # a => cc[b] = c[b]
  OBVIOUS
<1> HIDE DEF cc
<1>16. ArrayOf(a, cc)'
  <2>1. ASSUME NEW p \in DOMAIN arrayCache'[a] PROVE Owns(g, arrayRoot[a], p)
    <3>1. Lengthened(e, c[a][h], n, Len(PagesOf(a)))
      BY <1>5 DEF PutPages, n
    <3>2. /\ Owns(c[a], arrayRoot[a], p) => Owns(g, arrayRoot[a], p)
          /\ \A k \in 1..Len(e) : Owns(g, arrayRoot[a], e[k])
      BY <1>2, <1>6, <3>1, OwnsLonger DEF g
    <3>3. Owns(g, arrayRoot[a], arrayRoot[a])
      BY DEF Owns
    <3>4. p \in DOMAIN arrayCache[a] \/ p = arrayRoot[a] \/ \E k \in 1..Len(e) : p = e[k]
      BY <1>5
    <3> QED
      BY <1>3, <3>2, <3>3, <3>4
  <2>2. ASSUME NEW j \in Elements PROVE ValueAt(g, PagesOf(a)', j) = arrayGiven'[a][j]
    <3>1. j \in Nat
      BY ArrayAssumption
    <3> QED
      BY <1>3, <1>10, <1>11, <3>1
  <2> QED
    BY <1>8, <1>10, <1>15, <2>1, <2>2 DEF ArrayOf
<1>17. ASSUME NEW b \in Arrays, b # a PROVE ArrayOf(b, cc)'
  <2>1. /\ PagesChained(c[b], PagesOf(b)', arrayRoot[b])
        /\ \A j \in Nat : ValueAt(c[b], PagesOf(b)', j) = ValueAt(c[b], PagesOf(b), j)
    <3>1. Len(PagesOf(b)) <= Len(PagesOf(b)')
      BY <1>7, <1>9, <1>13, <1>17
    <3>2. \A p \in 1..Len(PagesOf(b)) : PagesOf(b)'[p] = PagesOf(b)[p]
      BY <1>9, <1>13, <1>17
    <3> QED
      BY <1>3, <1>9, <1>13, <1>17, <3>1, <3>2, ChainsLeft
  <2>2. ASSUME NEW j \in Elements PROVE ValueAt(c[b], PagesOf(b)', j) = arrayGiven'[b][j]
    <3>1. j \in Nat
      BY ArrayAssumption
    <3> QED
      BY <1>3, <1>11, <1>17, <2>1, <3>1
  <2>3. \A p \in DOMAIN arrayCache'[b] : Owns(c[b], arrayRoot[b], p)
    BY <1>3, <1>8, <1>17
  <2> QED
    BY <1>3, <1>8, <1>15, <1>17, <2>1, <2>2, <2>3 DEF ArrayOf
<1>18. Disjoint(cc)'
  <2>1. ASSUME NEW b \in Arrays, b # a, NEW p, Owns(g, arrayRoot[a], p),
               Owns(c[b], arrayRoot[b], p)
        PROVE  FALSE
    <3>1. p \in 1..N
      <4>1. PagesChained(c[b], PagesOf(b), arrayRoot[b]) /\ Len(PagesOf(b)) = N
        BY <1>3, <1>9
      <4> QED
        BY <2>1, <4>1 DEF PagesChained, Owns
    <3>2. Owns(c[a], arrayRoot[a], p)
      BY <1>7, <1>10, <2>1, <3>1
    <3> QED
      BY <1>1, <2>1, <3>2 DEF ArrayChains, Disjoint
  <2>2. ASSUME NEW b \in Arrays, NEW b2 \in Arrays, NEW p,
               Owns(cc[b], arrayRoot[b], p), Owns(cc[b2], arrayRoot[b2], p)
        PROVE  b = b2
    <3>1. CASE b = a /\ b2 # a
      BY <1>15, <2>1, <2>2, <3>1
    <3>2. CASE b # a /\ b2 = a
      BY <1>15, <2>1, <2>2, <3>2
    <3>3. CASE b # a /\ b2 # a
      BY <1>1, <1>15, <2>2, <3>3 DEF ArrayChains, Disjoint
    <3> QED
      BY <3>1, <3>2, <3>3
  <2> QED
    BY <1>8, <2>2 DEF Disjoint
<1>19. \A b \in Arrays : ArrayOf(b, cc)'
  BY <1>16, <1>17
<1> QED
  BY <1>12, <1>14, <1>18, <1>19 DEF ArrayInv, ArrayChains

LEMMA ArrayInvNext ==
  ASSUME ArrayInv, [ArrayNext]_arrayVars
  PROVE  ArrayInv'
<1>1. CASE ArrayNext
  BY <1>1, ArrayInvPut, ArrayInvReopen DEF ArrayNext
<1>2. CASE UNCHANGED arrayVars
  <2>1. arrayFile' = arrayFile /\ arrayCache' = arrayCache /\ arrayRoot' = arrayRoot
        /\ arrayGiven' = arrayGiven
    BY <1>2 DEF arrayVars
  <2>2. ArrayTypes'
    BY <2>1 DEF ArrayInv, ArrayTypes
  <2>3. \A a \in Arrays : PagesOf(a)' = PagesOf(a)
    BY <2>1 DEF PagesOf, PageOf
  <2>4. \A a \in Arrays : Upward(PagesOf(a)')
    BY <2>3 DEF ArrayInv
  <2>5. PICK c : ArrayChains(c)
    BY DEF ArrayInv
  <2>6. ArrayChains(c)'
    BY <2>1, <2>3, <2>5 DEF ArrayChains, ArrayOf, Disjoint
  <2> QED
    BY <2>2, <2>4, <2>6 DEF ArrayInv
<1> QED
  BY <1>1, <1>2

(* An element of an array is what was put there last: in whatever order    *)
(* the elements are put, whichever pages the other arrays take in between  *)
(* at the end of the file, and whenever an array is closed and opened      *)
(* again (ARRAY_Put, ARRAY_Get, ARRAY_Close, ARRAY_Open).                  *)
THEOREM ArrayHoldsAlways == ArraySpec => []ArrayHolds
<1>1. ArrayInit => ArrayInv
  BY ArrayInvInit
<1>2. ArrayInv /\ [ArrayNext]_arrayVars => ArrayInv'
  BY ArrayInvNext
<1>3. ArrayInv => ArrayHolds
  BY ArrayInvHolds
<1> QED
  BY <1>1, <1>2, <1>3, PTL DEF ArraySpec

-----------------------------------------------------------------------------
(***************************************************************************)
(* Texts and values of properties are sequences of characters.             *)
(***************************************************************************)
Chars == STRING \cup {Space}
Cells == Seq(Chars)

(* Nothing, or something that does not end in white space.                 *)
Ended(s) == s = <<>> \/ Last(s) \notin White

LEMMA CharsOfProperties ==
  /\ Space \in Chars /\ Space \in White /\ Control \subseteq White
  /\ Texts \subseteq Cells
<1>1. Space \in Chars
  BY DEF Chars
<1>2. Space \in White /\ Control \subseteq White
  BY DEF White
<1>3. Texts \subseteq Cells
  <2>1. ASSUME NEW X, NEW Y, X \subseteq Y PROVE Seq(X) \subseteq Seq(Y)
    BY <2>1
  <2>2. STRING \subseteq Chars
    BY Zenon DEF Chars
  <2>3. Seq(STRING) \subseteq Seq(Chars)
    <3> DEFINE X == STRING
    <3>1. X \subseteq Chars
      BY <2>2
    <3> HIDE DEF X
    <3>2. Seq(X) \subseteq Seq(Chars)
      BY <2>1, <3>1
    <3> QED
      BY Zenon, <3>2 DEF X
  <2> QED
    BY Zenon, <2>3, PropsAssumption DEF Cells
<1> QED
  BY <1>1, <1>2, <1>3

LEMMA PropsAre ==
  /\ Props \in Seq(PropSet) /\ \A p \in PropSet : \E i \in 1..Len(Props) : p = Props[i]
  /\ MaxLen \in [PropSet -> Nat] /\ Numbers \subseteq PropSet
<1>1. Props \in Seq(PropSet) /\ MaxLen \in [PropSet -> Nat] /\ Numbers \subseteq PropSet
  BY PropsAssumption
<1>2. DOMAIN Props = 1..Len(Props)
  BY <1>1
<1> QED
  BY <1>1, <1>2 DEF PropSet

(* A sequence that is longer by one element.                               *)
LEMMA OneMore ==
  ASSUME NEW X, NEW s \in Seq(X), NEW x \in X
  PROVE  /\ Append(s, x) \in Seq(X) /\ Len(Append(s, x)) = Len(s) + 1
         /\ Append(s, x)[Len(s) + 1] = x /\ Append(s, x) # <<>>
         /\ \A i \in 1..Len(s) : Append(s, x)[i] = s[i]
OBVIOUS

LEMMA PartOf ==
  ASSUME NEW X, NEW s \in Seq(X), NEW a \in 1..(Len(s) + 1), NEW b \in 0..Len(s), a <= b + 1
  PROVE  /\ SubSeq(s, a, b) \in Seq(X) /\ Len(SubSeq(s, a, b)) = b - a + 1
         /\ \A i \in 1..(b - a + 1) : SubSeq(s, a, b)[i] = s[a + i - 1]
OBVIOUS

LEMMA Joint ==
  ASSUME NEW X, NEW s \in Seq(X), NEW t \in Seq(X)
  PROVE  /\ s \o t \in Seq(X) /\ Len(s \o t) = Len(s) + Len(t)
         /\ \A i \in 1..Len(s) : (s \o t)[i] = s[i]
         /\ \A i \in 1..Len(t) : (s \o t)[Len(s) + i] = t[i]
<1>1. s \o t \in Seq(X) /\ Len(s \o t) = Len(s) + Len(t)
  OBVIOUS
<1>2. \A i \in 1..Len(s) : (s \o t)[i] = s[i]
  OBVIOUS
<1>3. ASSUME NEW i \in 1..Len(t) PROVE (s \o t)[Len(s) + i] = t[i]
  <2>1. Len(s) + i \in 1..(Len(s) + Len(t)) /\ ~(Len(s) + i <= Len(s)) /\ Len(s) + i - Len(s) = i
    OBVIOUS
  <2> QED
    BY <2>1
<1> QED
  BY <1>1, <1>2, <1>3

LEMMA JointOne ==
  ASSUME NEW X, NEW s \in Seq(X), NEW x \in X
  PROVE  s \o <<x>> = Append(s, x)
OBVIOUS

LEMMA EqualSeqs ==
  ASSUME NEW X, NEW s \in Seq(X), NEW t \in Seq(X), Len(s) = Len(t),
         \A i \in 1..Len(s) : s[i] = t[i]
  PROVE  s = t
OBVIOUS

(* The greatest number of a set.                                           *)
LEMMA GreatestNatural ==
  ASSUME NEW N \in Nat, NEW S \in SUBSET (0..N), S # {}
  PROVE  Max(S) \in S /\ \A y \in S : Max(S) >= y
<1> DEFINE B == {u \in 0..N : \A y \in S : y <= u}
<1>1. B \in SUBSET Nat /\ N \in B
  OBVIOUS
<1>2. PICK u \in B : \A m \in B : u <= m
  <2> HIDE DEF B
  <2> QED
    BY <1>1, LeastNatural
<1>3. u \in S
  <2>1. CASE u = 0
    <3>1. PICK y \in S : TRUE
      OBVIOUS
    <3> QED
      BY <1>2, <2>1, <3>1
  <2>2. CASE u # 0 /\ u \notin S
    <3>1. u - 1 \in 0..N /\ \A y \in S : y <= u - 1
      BY <1>2, <2>2
    <3> QED
      BY <1>2, <3>1
  <2> QED
    BY <2>1, <2>2
<1>4. \A y \in S : u >= y
  BY <1>2
<1>5. \E x \in S : \A y \in S : x >= y
  BY <1>3, <1>4
<1> QED
  BY <1>5 DEF Max

LEMMA LeastIs ==
  ASSUME NEW S \in SUBSET Nat, S # {}
  PROVE  Min(S) \in S /\ \A y \in S : Min(S) <= y
<1>1. \E x \in S : \A y \in S : x <= y
  BY LeastNatural
<1> QED
  BY <1>1 DEF Min

LEMMA GreaterOfTwo ==
  ASSUME NEW m \in Nat, NEW n \in Nat
  PROVE  Max({m, n}) = IF m >= n THEN m ELSE n
<1> DEFINE S == {m, n}
           N == m + n
<1>1. N \in Nat /\ S \in SUBSET (0..N) /\ S # {}
  OBVIOUS
<1>2. Max(S) \in S /\ \A y \in S : Max(S) >= y
  <2> HIDE DEF S, N
  <2> QED
    BY <1>1, GreatestNatural
<1> QED
  BY <1>2

-----------------------------------------------------------------------------
(***************************************************************************)
(* What EncodeProperty makes of a text does not end in white space.        *)
(***************************************************************************)
LEMMA TrimmedIs ==
  ASSUME NEW text \in Cells
  PROVE  Trimmed(text) \in Cells /\ Ended(Trimmed(text))
<1> DEFINE ink == {i \in DOMAIN text : text[i] \notin White}
           N == Len(text)
<1>0. DOMAIN text = 1..N /\ N \in Nat
  BY DEF Cells
<1>1. CASE ink = {}
  <2>1. Trimmed(text) = <<>>
    BY <1>1 DEF Trimmed
  <2> QED
    BY <2>1 DEF Cells, Ended
<1>2. CASE ink # {}
  <2>1. Trimmed(text) = SubSeq(text, Min(ink), Max(ink))
    BY <1>2 DEF Trimmed
  <2>2. ink \in SUBSET (1..N)
    BY <1>0
  <2>3. ink \in SUBSET (0..N) /\ ink \in SUBSET Nat
    BY <1>0, <2>2
  <2>4. \A i \in ink : text[i] \notin White
    OBVIOUS
  <2> DEFINE a == Min(ink)
             b == Max(ink)
             t == SubSeq(text, a, b)
  <2> HIDE DEF ink
  <2>5. a \in ink /\ b \in ink /\ a <= b
    BY <1>0, <1>2, <2>3, GreatestNatural, LeastIs
  <2>6. a \in 1..N /\ b \in 1..N /\ a <= b
    BY <2>2, <2>5
  <2> HIDE DEF a, b
  <2>7. a \in 1..(N + 1) /\ b \in 0..N /\ a <= b + 1 /\ b - a + 1 \in 1..(b - a + 1)
        /\ a + (b - a + 1) - 1 = b
    BY <1>0, <2>6
  <2>8. t \in Cells /\ Len(t) = b - a + 1 /\ t[b - a + 1] = text[b]
    BY <2>7, PartOf DEF Cells
  <2>9. Last(t) \notin White
    BY <2>4, <2>5, <2>8 DEF Last
  <2> QED
    BY <2>1, <2>8, <2>9 DEF Ended, a, b, t
<1> QED
  BY <1>1, <1>2

LEMMA CopiedIs ==
  ASSUME NEW done \in Cells, NEW c \in Chars
  PROVE  Copied(done, c) \in Cells
<1>1. Append(done, c) \in Cells /\ Append(done, Space) \in Cells
  BY CharsOfProperties DEF Cells
<1> QED
  BY <1>1 DEF Copied

LEMMA StrippedIs ==
  ASSUME NEW text \in Cells, Ended(text)
  PROVE  Stripped(text) \in Cells /\ Ended(Stripped(text))
<1> DEFINE N == Len(text)
           T == Cells
           done[n \in 0..N] == IF n = 0 THEN <<>> ELSE Copied(done[n - 1], text[n])
           next == [i \in 1..N |-> [s \in T |-> Copied(s, text[i])]]
<1>1. Stripped(text) = done[N]
  BY DEF Stripped
<1>2. N \in Nat /\ <<>> \in T /\ \A i \in 1..N : text[i] \in Chars
  BY DEF Cells
<1>3. next \in [1..N -> [T -> T]]
  <2> HIDE DEF T, N
  <2>1. ASSUME NEW i \in 1..N, NEW s \in T PROVE Copied(s, text[i]) \in T
    BY <1>2, CopiedIs DEF T
  <2> QED
    BY <2>1
<1>4. PICK g : FoldOf(g, N, T, <<>>, next)
  <2> HIDE DEF next, N, T
  <2> QED
    BY <1>2, <1>3, FoldExists
<1>5. g \in [0..N -> T] /\ g[0] = <<>>
  <2> HIDE DEF next, N, T, done
  <2> QED
    BY <1>4 DEF FoldOf
<1>6. ASSUME NEW i \in 1..N PROVE g[i] = Copied(g[i - 1], text[i])
  <2>1. g[i] = next[i][g[i - 1]]
    <3> HIDE DEF next, N, T, done
    <3> QED
      BY <1>4 DEF FoldOf
  <2>2. i - 1 \in 0..N
    <3> HIDE DEF N
    <3> QED
      BY <1>2
  <2>3. g[i - 1] \in T
    <3> HIDE DEF N, T
    <3> QED
      BY <1>5, <2>2
  <2>4. next[i][g[i - 1]] = Copied(g[i - 1], text[i])
    <3> HIDE DEF N, T
    <3> QED
      BY <2>3
  <2> QED
    BY <2>1, <2>4
<1>7. g = [i \in 0..N |-> IF i = 0 THEN <<>> ELSE Copied(g[i - 1], text[i])]
  <2> HIDE DEF N, T, next, done
  <2> DEFINE h == [i \in 0..N |-> IF i = 0 THEN <<>> ELSE Copied(g[i - 1], text[i])]
  <2>1. \A i \in 0..N : i = 0 \/ i \in 1..N
    BY <1>2
  <2>2. \A i \in 0..N : g[i] = h[i]
    BY <1>5, <1>6, <2>1
  <2> QED
    BY <1>5, <2>2
<1>8. done = [i \in 0..N |-> IF i = 0 THEN <<>> ELSE Copied(done[i - 1], text[i])]
  <2> HIDE DEF N
  <2> QED
    BY <1>7
<1>9. done[0] = <<>> /\ \A i \in 1..N : done[i] = Copied(done[i - 1], text[i])
  <2> HIDE DEF done, N
  <2>1. \A i \in 0..N : done[i] = IF i = 0 THEN <<>> ELSE Copied(done[i - 1], text[i])
    BY Zenon, <1>8
  <2>2. 0 \in 0..N /\ \A i \in 1..N : i \in 0..N /\ i # 0
    BY <1>2
  <2> QED
    BY <2>1, <2>2
<1> HIDE DEF done, next, N
<1> DEFINE S == {n \in 0..N : done[n] \in T}
<1>10. 0 \in S
  BY <1>2, <1>9
<1>11. ASSUME NEW n \in 0..(N - 1), n \in S PROVE n + 1 \in S
  <2>1. n + 1 \in 1..N /\ (n + 1) - 1 = n /\ n + 1 \in 0..N
    BY <1>2
  <2>2. done[n + 1] = Copied(done[n], text[n + 1]) /\ text[n + 1] \in Chars
    BY <1>2, <1>9, <2>1
  <2>3. done[n + 1] \in T
    BY <1>11, <2>2, CopiedIs
  <2> QED
    BY <2>1, <2>3
<1>12. \A n \in 0..N : n \in S
  <2> HIDE DEF S
  <2> QED
    BY <1>2, <1>10, <1>11, UpTo
<1>13. CASE N = 0
  <2>1. done[N] = <<>>
    BY <1>9, <1>13
  <2> QED
    BY <1>1, <1>2, <2>1 DEF Ended
<1>14. CASE N # 0
  <2>1. N \in 1..N /\ N - 1 \in 0..N
    BY <1>2, <1>14
  <2>2. done[N - 1] \in T
    BY <1>12, <2>1
  <2>3. text # <<>>
    BY <1>14 DEF N
  <2>4. text[N] \notin Control /\ text[N] \in Chars /\ text[N] \notin White
    BY <1>2, <2>1, <2>3, CharsOfProperties DEF Ended, Last, N
  <2>5. done[N] = Append(done[N - 1], text[N])
    BY <1>9, <2>1, <2>4 DEF Copied
  <2>6. done[N] \in Cells /\ Last(done[N]) = text[N]
    BY <2>2, <2>4, <2>5, OneMore DEF Last, Cells
  <2> QED
    BY <1>1, <2>4, <2>6 DEF Ended
<1> QED
  BY <1>13, <1>14

LEMMA EncodedIs ==
  ASSUME NEW p, NEW text \in Texts
  PROVE  EncodeProperty(p, text) \in Cells /\ Ended(EncodeProperty(p, text))
<1>1. text \in Cells
  BY CharsOfProperties
<1>2. Trimmed(text) \in Cells /\ Ended(Trimmed(text))
  BY <1>1, TrimmedIs
<1>3. Stripped(Trimmed(text)) \in Cells /\ Ended(Stripped(Trimmed(text)))
  BY <1>2, StrippedIs
<1>4. <<>> \in Cells /\ Ended(<<>>)
  BY DEF Cells, Ended
<1> QED
  BY <1>2, <1>3, <1>4 DEF EncodeProperty

-----------------------------------------------------------------------------
(***************************************************************************)
(* What was given for a property, text by text.                            *)
(***************************************************************************)
LEMMA WithIsText ==
  ASSUME NEW p, NEW all \in Cells, NEW text \in Cells, Ended(all), Ended(text)
  PROVE  JoinedWith(p, all, text) \in Cells /\ Ended(JoinedWith(p, all, text))
<1>1. CASE text # <<>> /\ all # <<>> /\ p \notin Numbers
  <2> DEFINE u == all \o <<Space>>
             s == u \o text
  <2>1. <<Space>> \in Cells /\ Len(<<Space>>) = 1
    BY CharsOfProperties DEF Cells
  <2>2. u \in Cells
    BY <2>1, Joint DEF Cells
  <2> HIDE DEF u
  <2>3. Len(text) \in 1..Len(text) /\ Len(u) \in Nat
    BY <1>1, <2>2 DEF Cells
  <2>4. s \in Cells /\ Len(s) = Len(u) + Len(text) /\ s[Len(u) + Len(text)] = text[Len(text)]
    BY <2>2, <2>3, Joint DEF Cells
  <2> HIDE DEF s
  <2>5. Ended(s)
    BY <1>1, <2>4 DEF Ended, Last
  <2>6. JoinedWith(p, all, text) = s
    BY <1>1 DEF JoinedWith, s, u
  <2> QED
    BY <2>4, <2>5, <2>6
<1>2. CASE ~(text # <<>> /\ all # <<>> /\ p \notin Numbers)
  BY <1>2 DEF JoinedWith
<1> QED
  BY <1>1, <1>2

(* all is the recursive function of Joined.                                *)
JoinedBy(all, p, texts) ==
  /\ all \in [0..Len(texts) -> Cells]
  /\ all[0] = <<>>
  /\ \A i \in 1..Len(texts) : all[i] = JoinedWith(p, all[i - 1], EncodeProperty(p, texts[i]))

LEMMA JoinedIs ==
  ASSUME NEW p, NEW texts \in Seq(Texts)
  PROVE  /\ \E all : JoinedBy(all, p, texts) /\ Joined(p, texts) = all[Len(texts)]
         /\ Joined(p, texts) \in Cells /\ Ended(Joined(p, texts))
<1> DEFINE N == Len(texts)
           T == {s \in Cells : Ended(s)}
           all[n \in 0..N] == IF n = 0 THEN <<>>
                               ELSE JoinedWith(p, all[n - 1], EncodeProperty(p, texts[n]))
           next == [i \in 1..N |-> [s \in T |-> JoinedWith(p, s, EncodeProperty(p, texts[i]))]]
<1>1. Joined(p, texts) = all[N]
  BY DEF Joined
<1>2. N \in Nat /\ <<>> \in T /\ \A i \in 1..N : texts[i] \in Texts
  BY DEF Cells, Ended
<1>3. next \in [1..N -> [T -> T]]
  <2>1. ASSUME NEW i \in 1..N, NEW s \in T
        PROVE  JoinedWith(p, s, EncodeProperty(p, texts[i])) \in T
    <3>1. texts[i] \in Texts
      BY <1>2
    <3> QED
      BY <3>1, EncodedIs, WithIsText
  <2> HIDE DEF T, N
  <2> QED
    BY <2>1
<1>4. PICK g : FoldOf(g, N, T, <<>>, next)
  <2> HIDE DEF next, N, T
  <2> QED
    BY <1>2, <1>3, FoldExists
<1>5. g \in [0..N -> T] /\ g[0] = <<>>
  <2> HIDE DEF next, N, T, all
  <2> QED
    BY <1>4 DEF FoldOf
<1>6. ASSUME NEW i \in 1..N PROVE g[i] = JoinedWith(p, g[i - 1], EncodeProperty(p, texts[i]))
  <2>1. g[i] = next[i][g[i - 1]]
    <3> HIDE DEF next, N, T, all
    <3> QED
      BY <1>4 DEF FoldOf
  <2>2. i - 1 \in 0..N
    <3> HIDE DEF N
    <3> QED
      BY <1>2
  <2>3. g[i - 1] \in T
    <3> HIDE DEF N, T
    <3> QED
      BY <1>5, <2>2
  <2>4. next[i][g[i - 1]] = JoinedWith(p, g[i - 1], EncodeProperty(p, texts[i]))
    <3> HIDE DEF N, T
    <3> QED
      BY <2>3
  <2> QED
    BY <2>1, <2>4
<1>7. g = [i \in 0..N |-> IF i = 0 THEN <<>>
                          ELSE JoinedWith(p, g[i - 1], EncodeProperty(p, texts[i]))]
  <2> HIDE DEF N, T, next, all
  <2> DEFINE h == [i \in 0..N |-> IF i = 0 THEN <<>>
                                 ELSE JoinedWith(p, g[i - 1], EncodeProperty(p, texts[i]))]
  <2>1. \A i \in 0..N : i = 0 \/ i \in 1..N
    BY <1>2
  <2>2. \A i \in 0..N : g[i] = h[i]
    BY <1>5, <1>6, <2>1
  <2> QED
    BY <1>5, <2>2
<1>8. all = [i \in 0..N |-> IF i = 0 THEN <<>>
                            ELSE JoinedWith(p, all[i - 1], EncodeProperty(p, texts[i]))]
  <2> HIDE DEF N
  <2> QED
    BY <1>7
<1>9. all[0] = <<>>
      /\ \A i \in 1..N : all[i] = JoinedWith(p, all[i - 1], EncodeProperty(p, texts[i]))
  <2> HIDE DEF all, N
  <2>1. \A i \in 0..N : all[i] = IF i = 0 THEN <<>>
                                 ELSE JoinedWith(p, all[i - 1], EncodeProperty(p, texts[i]))
    BY Zenon, <1>8
  <2>2. 0 \in 0..N /\ \A i \in 1..N : i \in 0..N /\ i # 0
    BY <1>2
  <2> QED
    BY <2>1, <2>2
<1>9a. all = [i \in 0..N |-> all[i]]
  <2> DEFINE op(i) == IF i = 0 THEN <<>>
                      ELSE JoinedWith(p, all[i - 1], EncodeProperty(p, texts[i]))
  <2> HIDE DEF all, N, next, T
  <2>1. all = [i \in 0..N |-> op(i)]
    BY Zenon, <1>8
  <2> HIDE DEF op
  <2> QED
    BY <2>1
<1> HIDE DEF all, next, N
<1> DEFINE S == {n \in 0..N : all[n] \in T}
<1>10. 0 \in S
  BY <1>2, <1>9
<1>11. ASSUME NEW n \in 0..(N - 1), n \in S PROVE n + 1 \in S
  <2>1. n + 1 \in 1..N /\ (n + 1) - 1 = n /\ n + 1 \in 0..N
    BY <1>2
  <2>2. all[n + 1] = JoinedWith(p, all[n], EncodeProperty(p, texts[n + 1])) /\ texts[n + 1] \in Texts
    BY <1>2, <1>9, <2>1
  <2>3. all[n] \in T
    BY <1>11
  <2>4. all[n + 1] \in T
    BY <2>2, <2>3, EncodedIs, WithIsText
  <2> QED
    BY <2>1, <2>4
<1>12. \A n \in 0..N : n \in S
  <2> HIDE DEF S
  <2> QED
    BY <1>2, <1>10, <1>11, UpTo
<1>13. \A n \in 0..N : all[n] \in Cells
  BY <1>12
<1>14. JoinedBy(all, p, texts)
  <2>1. all \in [0..N -> Cells]
    BY <1>9a, <1>13
  <2> QED
    BY <1>9, <2>1 DEF JoinedBy, N
<1>15. N \in 0..N
  BY <1>2
<1>16. all[N] \in T
  BY <1>12, <1>15
<1> QED
  BY <1>1, <1>14, <1>16 DEF N

LEMMA JoinedNone == ASSUME NEW p PROVE Joined(p, <<>>) = <<>>
<1>1. <<>> \in Seq(Texts) /\ Len(<<>>) = 0
  OBVIOUS
<1>2. PICK all : JoinedBy(all, p, <<>>) /\ Joined(p, <<>>) = all[Len(<<>>)]
  BY <1>1, JoinedIs
<1> QED
  BY <1>1, <1>2 DEF JoinedBy

LEMMA JoinedMore ==
  ASSUME NEW p, NEW texts \in Seq(Texts), NEW text \in Texts
  PROVE  Joined(p, Append(texts, text)) = JoinedWith(p, Joined(p, texts), EncodeProperty(p, text))
<1> DEFINE N == Len(texts)
           more == Append(texts, text)
<1>1. /\ more \in Seq(Texts) /\ Len(more) = N + 1 /\ N \in Nat /\ more[N + 1] = text
      /\ \A i \in 1..N : more[i] = texts[i]
  BY OneMore
<1> HIDE DEF more
<1>2. PICK a : JoinedBy(a, p, texts) /\ Joined(p, texts) = a[Len(texts)]
  BY JoinedIs
<1>3. PICK b : JoinedBy(b, p, more) /\ Joined(p, more) = b[Len(more)]
  BY <1>1, JoinedIs
<1>4. a[0] = b[0]
  BY <1>2, <1>3 DEF JoinedBy
<1> HIDE DEF N
<1> DEFINE S == {n \in 0..N : a[n] = b[n]}
<1>5. 0 \in S
  BY <1>1, <1>4
<1>6. ASSUME NEW n \in 0..(N - 1), n \in S PROVE n + 1 \in S
  <2>1. n + 1 \in 1..N /\ n + 1 \in 1..Len(more) /\ (n + 1) - 1 = n /\ n + 1 \in 0..N
    BY <1>1
  <2>2. a[n + 1] = JoinedWith(p, a[n], EncodeProperty(p, texts[n + 1]))
    BY <1>2, <2>1 DEF JoinedBy, N
  <2>3. b[n + 1] = JoinedWith(p, b[n], EncodeProperty(p, more[n + 1]))
    BY <1>3, <2>1 DEF JoinedBy
  <2>4. more[n + 1] = texts[n + 1] /\ a[n] = b[n]
    BY <1>1, <1>6, <2>1
  <2>5. a[n + 1] = b[n + 1]
    BY <2>2, <2>3, <2>4
  <2> QED
    BY <2>1, <2>5
<1>7. \A n \in 0..N : n \in S
  <2> HIDE DEF S
  <2> QED
    BY <1>1, <1>5, <1>6, UpTo
<1>8. a[N] = b[N]
  BY <1>1, <1>7
<1>9. b[N + 1] = JoinedWith(p, b[N], EncodeProperty(p, text))
  <2>1. N + 1 \in 1..Len(more) /\ (N + 1) - 1 = N
    BY <1>1
  <2>2. b[N + 1] = JoinedWith(p, b[N], EncodeProperty(p, more[N + 1]))
    BY <1>3, <2>1 DEF JoinedBy
  <2> QED
    BY <1>1, <2>2
<1> QED
  BY <1>1, <1>2, <1>3, <1>8, <1>9 DEF more, N

-----------------------------------------------------------------------------
(***************************************************************************)
(* A value that is cut to the length of its property.                      *)
(***************************************************************************)
LEMMA BeginningIs ==
  ASSUME NEW s \in Cells, NEW n \in Nat
  PROVE  /\ Beginning(n, s) \in Cells
         /\ Len(Beginning(n, s)) = IF n < Len(s) THEN n ELSE Len(s)
         /\ \A i \in 1..Len(Beginning(n, s)) : Beginning(n, s)[i] = s[i]
<1>1. CASE n < Len(s)
  <2> DEFINE t == SubSeq(s, 1, n)
  <2>1. 1 \in 1..(Len(s) + 1) /\ n \in 0..Len(s) /\ 1 <= n + 1 /\ n - 1 + 1 = n
        /\ \A i \in 1..n : 1 + i - 1 = i
    BY <1>1 DEF Cells
  <2>2. t \in Cells /\ Len(t) = n /\ \A i \in 1..n : t[i] = s[i]
    BY <2>1, PartOf DEF Cells
  <2>3. Beginning(n, s) = t
    BY <1>1 DEF Beginning
  <2> QED
    BY <1>1, <2>2, <2>3
<1>2. CASE ~(n < Len(s))
  BY <1>2 DEF Beginning
<1> QED
  BY <1>1, <1>2

LEMMA SameBeginning ==
  ASSUME NEW s \in Cells, NEW t \in Cells, NEW n \in Nat, n <= Len(s), n <= Len(t),
         \A i \in 1..n : s[i] = t[i]
  PROVE  Beginning(n, s) = Beginning(n, t)
<1> DEFINE a == Beginning(n, s)
           b == Beginning(n, t)
<1>1. a \in Cells /\ b \in Cells /\ Len(a) = n /\ Len(b) = n
      /\ \A i \in 1..n : a[i] = s[i] /\ b[i] = t[i]
  <2>1. Len(s) \in Nat /\ Len(t) \in Nat
    BY DEF Cells
  <2> QED
    BY <2>1, BeginningIs
<1> HIDE DEF a, b
<1>2. a = b
  BY <1>1, EqualSeqs DEF Cells
<1> QED
  BY <1>2 DEF a, b

LEMMA CutIs ==
  ASSUME NEW p \in PropSet, NEW s \in Cells
  PROVE  Cut(p, s) \in Cells /\ (Cut(p, s) = <<>> <=> s = <<>>)
<1>1. MaxLen[p] \in Nat
  BY PropsAre
<1>2. CASE p \notin Numbers /\ MaxLen[p] > 0
  <2>1. Cut(p, s) = Beginning(MaxLen[p], s)
    BY <1>2 DEF Cut
  <2>2. /\ Beginning(MaxLen[p], s) \in Cells
        /\ Len(Beginning(MaxLen[p], s)) = IF MaxLen[p] < Len(s) THEN MaxLen[p] ELSE Len(s)
    BY <1>1, BeginningIs
  <2>3. \A t \in Cells : Len(t) \in Nat /\ (t = <<>> <=> Len(t) = 0)
    BY DEF Cells
  <2> QED
    BY <1>1, <1>2, <2>1, <2>2, <2>3
<1>3. CASE ~(p \notin Numbers /\ MaxLen[p] > 0)
  BY <1>3 DEF Cut
<1> QED
  BY <1>2, <1>3

(* v is the value of all, which are the texts joined: as far as it may be  *)
(* long, or without the separator that would come last.                    *)
Held(p, all, v) ==
  \/ v = Cut(p, all)
  \/ v # <<>> /\ Last(v) \notin White /\ Cut(p, all) = Append(v, Space)

LEMMA HeldIsMeant ==
  ASSUME NEW p \in PropSet, NEW texts, NEW v, Held(p, Joined(p, texts), v)
  PROVE  Meant(p, texts, v, MaxLen[p])
<1>1. MaxLen[p] \in Nat
  BY PropsAre
<1>2. Cut(p, Joined(p, texts)) = IF p \in Numbers \/ MaxLen[p] = 0 THEN Joined(p, texts)
                                 ELSE Beginning(MaxLen[p], Joined(p, texts))
  BY <1>1 DEF Cut
<1> QED
  BY <1>2 DEF Held, Meant

LEMMA HeldNone ==
  ASSUME NEW p \in PropSet
  PROVE  Held(p, Joined(p, <<>>), <<>>)
<1>1. <<>> \in Cells
  BY DEF Cells
<1>2. Cut(p, <<>>) = <<>>
  BY <1>1, CutIs
<1> QED
  BY <1>2, JoinedNone DEF Held

(* Nothing is held of nothing only.                                        *)
LEMMA HeldNothing ==
  ASSUME NEW p \in PropSet, NEW all \in Cells, NEW v \in Cells, Held(p, all, v)
  PROVE  v = <<>> <=> all = <<>>
<1>1. CASE v = Cut(p, all)
  BY <1>1, CutIs
<1>2. CASE v # <<>> /\ Cut(p, all) = Append(v, Space)
  <2>1. Append(v, Space) # <<>>
    BY CharsOfProperties, OneMore DEF Cells
  <2> QED
    BY <1>2, <2>1, CutIs
<1> QED
  BY <1>1, <1>2 DEF Held

(* A text is appended to the value of a string that has one.               *)
LEMMA HeldAppended ==
  ASSUME NEW p \in PropSet, p \notin Numbers, NEW all \in Cells, all # <<>>, Ended(all),
         NEW v \in Cells, v # <<>>, Held(p, all, v), NEW e \in Cells, e # <<>>
  PROVE  LET space == IF Last(v) \in White THEN <<>> ELSE <<Space>>
             full == MaxLen[p] > 0 /\ Len(v) + Len(space) >= MaxLen[p]
             w == IF full THEN v ELSE Cut(p, v \o space \o e)
         IN  w \in Cells /\ Held(p, all \o <<Space>> \o e, w)
<1> DEFINE space == IF Last(v) \in White THEN <<>> ELSE <<Space>>
           limit == MaxLen[p]
           full == limit > 0 /\ Len(v) + Len(space) >= limit
           w == IF full THEN v ELSE Cut(p, v \o space \o e)
           u == all \o <<Space>>
           more == all \o <<Space>> \o e
<1>1. limit \in Nat
  BY PropsAre
<1>2. /\ <<Space>> \in Cells /\ Len(<<Space>>) = 1 /\ <<Space>>[1] = Space
      /\ Len(all) \in Nat \ {0} /\ Len(v) \in Nat \ {0} /\ Len(e) \in Nat \ {0}
  BY CharsOfProperties DEF Cells
<1>3. /\ u \in Cells /\ Len(u) = Len(all) + 1 /\ \A i \in 1..Len(all) : u[i] = all[i]
      /\ u[Len(all) + 1] = Space
  <2>1. u = Append(all, Space)
    BY CharsOfProperties, JointOne DEF Cells
  <2> HIDE DEF u
  <2> QED
    BY <2>1, CharsOfProperties, OneMore DEF Cells
<1>4. more = u \o e
  OBVIOUS
<1> HIDE DEF u, more
<1>5. /\ more \in Cells /\ Len(more) = Len(all) + 1 + Len(e)
      /\ \A i \in 1..Len(u) : more[i] = u[i]
  <2>1. u \in Seq(Chars) /\ e \in Seq(Chars)
    BY <1>3 DEF Cells
  <2>2. /\ u \o e \in Seq(Chars) /\ Len(u \o e) = Len(u) + Len(e)
        /\ \A i \in 1..Len(u) : (u \o e)[i] = u[i]
    BY <2>1, Joint
  <2> QED
    BY <1>3, <1>4, <2>2 DEF Cells
<1>6. \A i \in 1..Len(all) : more[i] = all[i]
  <2>1. \A i \in 1..Len(all) : i \in 1..Len(u)
    BY <1>2, <1>3
  <2> QED
    BY <1>3, <1>5, <2>1
<1>7. more[Len(all) + 1] = Space
  <2>1. Len(all) + 1 \in 1..Len(u)
    BY <1>2, <1>3
  <2> QED
    BY <1>3, <1>5, <2>1
<1>8. Last(all) \notin White
  BY DEF Ended
(* The separator is not left out of what was joined before.                *)
<1>9. limit = 0 \/ Len(all) <= limit => v = all
  <2>1. ASSUME limit = 0 \/ Len(all) <= limit PROVE Cut(p, all) = all
    BY <1>1, <1>2, <2>1 DEF Cut, Beginning
  <2>2. Last(Append(v, Space)) = Space
    <3>1. Append(v, Space)[Len(v) + 1] = Space /\ Len(Append(v, Space)) = Len(v) + 1
      BY CharsOfProperties, OneMore DEF Cells
    <3> QED
      BY <3>1 DEF Last
  <2>3. all # Append(v, Space)
    BY <1>8, <2>2, CharsOfProperties
  <2> QED
    BY <2>1, <2>3 DEF Held
<1>10. CASE limit = 0
  <2>1. v = all /\ ~full
    BY <1>9, <1>10
  <2>2. space = <<Space>>
    BY <1>8, <2>1
  <2>3. w = Cut(p, more)
    BY <2>1, <2>2 DEF more
  <2>4. Cut(p, more) \in Cells
    BY <1>5, CutIs
  <2> HIDE DEF w
  <2>5. w \in Cells /\ Held(p, more, w)
    BY <2>3, <2>4 DEF Held
  <2> QED
    BY <2>5 DEF w, more
<1>11. CASE limit # 0 /\ Len(all) <= limit
  <2>1. v = all /\ space = <<Space>> /\ Len(space) = 1
    BY <1>2, <1>8, <1>9, <1>11
  <2>2. CASE ~full
    <3>1. w = Cut(p, more)
      BY <2>1, <2>2 DEF more
    <3>2. Cut(p, more) \in Cells
      BY <1>5, CutIs
    <3> HIDE DEF w
    <3>3. w \in Cells /\ Held(p, more, w)
      BY <3>1, <3>2 DEF Held
    <3> QED
      BY <3>3 DEF w, more
  <2>3. CASE full /\ Len(all) = limit
    <3>1. Beginning(limit, more) = Beginning(limit, all)
      <4>1. limit <= Len(all) /\ limit <= Len(more)
        BY <1>1, <1>2, <1>5, <2>3
      <4>2. \A i \in 1..limit : more[i] = all[i]
        BY <1>6, <2>3
      <4> QED
        BY <1>1, <1>5, <4>1, <4>2, SameBeginning
    <3>2. Beginning(limit, all) = all
      BY <2>3 DEF Beginning
    <3>3. w = v /\ Cut(p, more) = v
      BY <1>1, <1>11, <2>1, <2>3, <3>1, <3>2 DEF Cut
    <3> HIDE DEF w
    <3>4. w \in Cells /\ Held(p, more, w)
      BY <3>3 DEF Held
    <3> QED
      BY <3>4 DEF w, more
  <2>4. CASE full /\ Len(all) # limit
    <3>1. limit = Len(all) + 1
      BY <1>1, <1>2, <1>11, <2>1, <2>4
    <3> DEFINE b == Beginning(limit, more)
               c == Append(all, Space)
    <3>2. b \in Cells /\ Len(b) = limit /\ \A i \in 1..limit : b[i] = more[i]
      BY <1>1, <1>2, <1>5, <3>1, BeginningIs
    <3>3. c \in Cells /\ Len(c) = Len(all) + 1 /\ c[Len(all) + 1] = Space
          /\ \A i \in 1..Len(all) : c[i] = all[i]
      BY CharsOfProperties, OneMore DEF Cells
    <3>4. Cut(p, more) = b
      BY <1>1, <1>11 DEF Cut
    <3> HIDE DEF b, c
    <3>5. \A i \in 1..Len(b) : b[i] = c[i]
      <4>1. ASSUME NEW i \in 1..Len(b) PROVE b[i] = c[i]
        <5>1. i \in 1..Len(all) \/ i = Len(all) + 1
          BY <1>2, <3>1, <3>2
        <5> QED
          BY <1>6, <1>7, <3>1, <3>2, <3>3, <5>1
      <4> QED
        BY <4>1
    <3>6. b = c
      BY <3>1, <3>2, <3>3, <3>5, EqualSeqs DEF Cells
    <3>7. w = v
      BY <2>4
    <3> HIDE DEF w
    <3>8. w \in Cells /\ Held(p, more, w)
      BY <1>8, <2>1, <3>4, <3>6, <3>7 DEF Held, c
    <3> QED
      BY <3>8 DEF w, more
  <2> QED
    BY <2>2, <2>3, <2>4
<1>12. CASE limit # 0 /\ Len(all) > limit
  <2>1. Cut(p, all) = Beginning(limit, all)
    BY <1>1, <1>12 DEF Cut
  <2>2. Cut(p, more) = Cut(p, all)
    <3>1. Beginning(limit, more) = Beginning(limit, all)
      <4>1. limit <= Len(all) /\ limit <= Len(more) /\ \A i \in 1..limit : i \in 1..Len(all)
        BY <1>1, <1>2, <1>5, <1>12
      <4>2. \A i \in 1..limit : more[i] = all[i]
        BY <1>6, <4>1
      <4> QED
        BY <1>1, <1>5, <4>1, <4>2, SameBeginning
    <3> QED
      BY <1>1, <1>12, <2>1, <3>1 DEF Cut
  <2>3. Len(Cut(p, all)) = limit
    BY <1>1, <1>12, <2>1, BeginningIs
  <2>4. full
    <3>1. Len(space) \in Nat
      <4>1. space = <<>> \/ space = <<Space>>
        OBVIOUS
      <4>2. Len(<<>>) = 0
        OBVIOUS
      <4> HIDE DEF space
      <4> QED
        BY <1>2, <4>1, <4>2
    <3>2. CASE v = Cut(p, all)
      BY <1>1, <1>2, <1>12, <2>3, <3>1, <3>2
    <3>3. CASE Last(v) \notin White /\ Cut(p, all) = Append(v, Space)
      <4>1. space = <<Space>> /\ Len(space) = 1
        BY <1>2, <3>3
      <4>2. Len(Append(v, Space)) = Len(v) + 1
        BY CharsOfProperties, OneMore DEF Cells
      <4> QED
        BY <1>1, <1>2, <1>12, <2>3, <3>3, <4>1, <4>2
    <3> QED
      BY <3>2, <3>3 DEF Held
  <2>5. w = v
    BY <2>4
  <2> HIDE DEF w
  <2>6. w \in Cells /\ Held(p, more, w)
    BY <2>2, <2>5 DEF Held
  <2> QED
    BY <2>6 DEF w, more
<1> QED
  BY <1>1, <1>2, <1>10, <1>11, <1>12

(* AddDocProperty keeps the value that of the texts given.                 *)
LEMMA HeldAdded ==
  ASSUME NEW properties \in [PropSet -> Cells], NEW p \in PropSet, NEW texts \in Seq(Texts),
         NEW text \in Texts, Held(p, Joined(p, texts), properties[p])
  PROVE  LET new == AddDocProperty(properties, p, text)
         IN  /\ new \in [PropSet -> Cells]
             /\ Held(p, Joined(p, Append(texts, text)), new[p])
             /\ \A q \in PropSet : q # p => new[q] = properties[q]
<1> DEFINE v == properties[p]
           e == EncodeProperty(p, text)
           all == Joined(p, texts)
           w == IF v = <<>> THEN CreateProperty(p, text)
                ELSE IF p \in Numbers THEN v ELSE AppendProperty(p, v, text)
           new == AddDocProperty(properties, p, text)
<1>1. new = [properties EXCEPT ![p] = w]
  BY DEF AddDocProperty
<1>2. v \in Cells /\ Held(p, all, v)
  OBVIOUS
<1>3. all \in Cells /\ Ended(all)
  BY JoinedIs
<1>4. e \in Cells /\ Ended(e)
  BY EncodedIs
<1>5. v = <<>> <=> all = <<>>
  BY <1>2, <1>3, HeldNothing
<1> DEFINE more == JoinedWith(p, all, e)
<1>6. Joined(p, Append(texts, text)) = more
  BY JoinedMore
<1>7. CreateProperty(p, text) = Cut(p, e)
  BY DEF CreateProperty
<1>8. AppendProperty(p, v, text) =
        LET space == IF Last(v) \in White THEN <<>> ELSE <<Space>>
            full == MaxLen[p] > 0 /\ Len(v) + Len(space) >= MaxLen[p]
        IN  IF e = <<>> THEN v ELSE IF full THEN v ELSE Cut(p, v \o space \o e)
  BY DEF AppendProperty
<1>9. w \in Cells /\ Held(p, more, w)
  <2> HIDE DEF e, all, v, new
  <2>1. CASE e = <<>>
    <3>1. more = all
      BY <2>1 DEF JoinedWith
    <3>2. Cut(p, <<>>) = <<>>
      BY <1>4, <2>1, CutIs
    <3>3. w = v
      BY <1>7, <1>8, <2>1, <3>2
    <3> QED
      BY <1>2, <3>1, <3>3
  <2>2. CASE e # <<>> /\ v = <<>>
    <3>1. more = e /\ w = Cut(p, e)
      BY <1>5, <1>7, <2>2 DEF JoinedWith
    <3> QED
      BY <1>4, <3>1, CutIs DEF Held
  <2>3. CASE e # <<>> /\ v # <<>> /\ p \in Numbers
    <3>1. more = all /\ w = v
      BY <1>5, <2>3 DEF JoinedWith
    <3> QED
      BY <1>2, <3>1
  <2>4. CASE e # <<>> /\ v # <<>> /\ p \notin Numbers
    <3>1. more = all \o <<Space>> \o e
      BY <1>5, <2>4 DEF JoinedWith
    <3> DEFINE space == IF Last(v) \in White THEN <<>> ELSE <<Space>>
               full == MaxLen[p] > 0 /\ Len(v) + Len(space) >= MaxLen[p]
               x == IF full THEN v ELSE Cut(p, v \o space \o e)
    <3>2. w = x
      BY <1>8, <2>4
    <3>3. x \in Cells /\ Held(p, all \o <<Space>> \o e, x)
      BY <1>2, <1>3, <1>4, <1>5, <2>4, HeldAppended
    <3> QED
      BY <3>1, <3>2, <3>3
  <2> QED
    BY <2>1, <2>2, <2>3, <2>4
<1> HIDE DEF w, more
<1>10. new \in [PropSet -> Cells] /\ new[p] = w
  BY <1>1, <1>9
<1>11. \A q \in PropSet : q # p => new[q] = properties[q]
  BY <1>1
<1> QED
  BY <1>6, <1>9, <1>10, <1>11

-----------------------------------------------------------------------------
(***************************************************************************)
(* The property file.                                                      *)
(***************************************************************************)
Rows == [PropSet -> Nat]
Outputs == [file : Seq(Cells), at : Nat, places : Rows]

LEMMA OutputIs ==
  ASSUME NEW file \in Seq(Cells), NEW place \in Nat, NEW places \in Rows
  PROVE  /\ Output(file, place, places) \in Outputs
         /\ Output(file, place, places).file = file
         /\ Output(file, place, places).at = place
         /\ Output(file, place, places).places = places
BY DEF Output, Outputs

LEMMA OutputFields ==
  ASSUME NEW w \in Outputs
  PROVE  w.file \in Seq(Cells) /\ w.at \in Nat /\ w.places \in Rows
BY DEF Outputs

LEMMA ReplacedIs ==
  ASSUME NEW X, NEW s \in Seq(X), NEW x \in X, NEW i
  PROVE  [s EXCEPT ![i] = x] \in Seq(X)
<1> DEFINE t == [s EXCEPT ![i] = x]
           n == Len(s)
<1>1. n \in Nat /\ s \in [1..n -> X]
  OBVIOUS
<1> HIDE DEF n
<1>2. t \in [1..n -> X]
  BY <1>1
<1> HIDE DEF t
<1>3. t \in Seq(X)
  BY <1>1, <1>2
<1> QED
  BY <1>3 DEF t

LEMMA WritePropertyIs ==
  ASSUME document \in [PropSet -> Cells], NEW w \in Outputs, NEW p \in PropSet
  PROVE  WriteProperty(w, p) \in Outputs
<1> DEFINE file == IF w.at > Len(w.file) THEN Append(w.file, document[p])
                   ELSE [w.file EXCEPT ![w.at] = document[p]]
           places == [w.places EXCEPT ![p] = w.at]
<1>1. w.file \in Seq(Cells) /\ w.at \in Nat /\ w.places \in Rows /\ document[p] \in Cells
  BY OutputFields
<1>2. Append(w.file, document[p]) \in Seq(Cells)
      /\ [w.file EXCEPT ![w.at] = document[p]] \in Seq(Cells)
  <2> HIDE DEF Cells
  <2> QED
    BY <1>1, OneMore, ReplacedIs
<1>3. places \in Rows /\ w.at + 1 \in Nat
  BY <1>1 DEF Rows
<1>4. file \in Seq(Cells)
  BY <1>2
<1> HIDE DEF file, places
<1>5. Output(file, w.at + 1, places) \in Outputs
  BY <1>3, <1>4, OutputIs
<1> QED
  BY <1>5 DEF WriteProperty, file, places

(* out is what propFile has become when the properties ps of the document  *)
(* were written: the file is longer, and each of ps that has a value has a *)
(* place where the value stands.                                           *)
Wrote(out, ps) ==
  /\ out \in Outputs /\ out.at = Len(out.file) + 1
  /\ Len(propFile) <= Len(out.file)
  /\ \A i \in 1..Len(propFile) : out.file[i] = propFile[i]
  /\ \A p \in PropSet :
       \/ out.places[p] = 0 /\ (p \in ps => document[p] = <<>>)
       \/ out.places[p] \in 1..Len(out.file) /\ out.file[out.places[p]] = document[p]

LEMMA WroteMore ==
  ASSUME document \in [PropSet -> Cells], propFile \in Seq(Cells),
         NEW w, NEW ps, Wrote(w, ps), NEW p \in PropSet
  PROVE  Wrote(WriteProperty(w, p), ps \cup {p})
<1>1. /\ w \in Outputs /\ w.at = Len(w.file) + 1 /\ Len(propFile) <= Len(w.file)
      /\ \A i \in 1..Len(propFile) : w.file[i] = propFile[i]
  BY DEF Wrote
<1>2. w.file \in Seq(Cells) /\ w.at \in Nat /\ w.places \in Rows /\ document[p] \in Cells
  BY <1>1, OutputFields
<1>3. Len(w.file) \in Nat /\ Len(propFile) \in Nat
  BY <1>2
<1>4. ASSUME NEW q \in PropSet
      PROVE  \/ w.places[q] = 0 /\ (q \in ps => document[q] = <<>>)
             \/ w.places[q] \in 1..Len(w.file) /\ w.file[w.places[q]] = document[q]
  BY DEF Wrote
<1>5. CASE document[p] = <<>>
  <2>1. WriteProperty(w, p) = w
    BY <1>5 DEF WriteProperty
  <2>2. \A q \in PropSet :
          \/ w.places[q] = 0 /\ (q \in ps \cup {p} => document[q] = <<>>)
          \/ w.places[q] \in 1..Len(w.file) /\ w.file[w.places[q]] = document[q]
    BY <1>4, <1>5
  <2> QED
    BY <1>1, <2>1, <2>2 DEF Wrote
<1>6. CASE document[p] # <<>>
  <2> DEFINE file == Append(w.file, document[p])
             places == [w.places EXCEPT ![p] = w.at]
             out == Output(file, w.at + 1, places)
  <2>1. WriteProperty(w, p) = out
    BY <1>1, <1>3, <1>6 DEF WriteProperty
  <2>2. /\ file \in Seq(Cells) /\ Len(file) = Len(w.file) + 1
        /\ file[Len(w.file) + 1] = document[p]
        /\ \A i \in 1..Len(w.file) : file[i] = w.file[i]
    BY <1>2, OneMore
  <2>3. /\ places \in Rows /\ places[p] = Len(w.file) + 1 /\ w.at + 1 \in Nat
        /\ \A q \in PropSet : q # p => places[q] = w.places[q]
    BY <1>1, <1>2 DEF Rows
  <2> HIDE DEF file, places
  <2>4. out \in Outputs /\ out.file = file /\ out.at = w.at + 1 /\ out.places = places
    BY <2>2, <2>3, OutputIs
  <2> HIDE DEF out
  <2>5. out.at = Len(out.file) + 1 /\ Len(propFile) <= Len(out.file)
    BY <1>1, <1>3, <2>2, <2>4
  <2>6. \A i \in 1..Len(propFile) : out.file[i] = propFile[i]
    <3>1. \A i \in 1..Len(propFile) : i \in 1..Len(w.file)
      BY <1>1, <1>3
    <3> QED
      BY <1>1, <2>2, <2>4, <3>1
  <2>7. ASSUME NEW q \in PropSet
        PROVE  \/ places[q] = 0 /\ (q \in ps \cup {p} => document[q] = <<>>)
               \/ places[q] \in 1..Len(file) /\ file[places[q]] = document[q]
    <3>1. CASE q = p
      <4>1. places[q] \in 1..Len(file)
        BY <1>3, <2>2, <2>3, <3>1
      <4> QED
        BY <2>2, <2>3, <3>1, <4>1
    <3>2. CASE q # p
      <4>1. places[q] = w.places[q]
        BY <2>3, <3>2
      <4>2. CASE w.places[q] = 0 /\ (q \in ps => document[q] = <<>>)
        BY <3>2, <4>1, <4>2
      <4>3. CASE w.places[q] \in 1..Len(w.file) /\ w.file[w.places[q]] = document[q]
        <5>1. places[q] \in 1..Len(w.file) /\ places[q] \in 1..Len(file)
          BY <1>3, <2>2, <4>1, <4>3
        <5> QED
          BY <2>2, <4>1, <4>3, <5>1
      <4> QED
        BY <1>4, <4>2, <4>3
    <3> QED
      BY <3>1, <3>2
  <2>8. \A q \in PropSet :
          \/ out.places[q] = 0 /\ (q \in ps \cup {p} => document[q] = <<>>)
          \/ out.places[q] \in 1..Len(out.file) /\ out.file[out.places[q]] = document[q]
    BY <2>4, <2>7
  <2> QED
    BY <2>1, <2>4, <2>5, <2>6, <2>8 DEF Wrote
<1> QED
  BY <1>5, <1>6

LEMMA AllWrittenIs ==
  ASSUME document \in [PropSet -> Cells], propFile \in Seq(Cells), at = Len(propFile) + 1
  PROVE  Wrote(AllWritten, PropSet)
<1> DEFINE N == Len(Props)
           T == Outputs
           none == Output(propFile, at, NoPlaces)
           w[n \in 0..N] == IF n = 0 THEN none ELSE WriteProperty(w[n - 1], Props[n])
           next == [i \in 1..N |-> [s \in T |-> WriteProperty(s, Props[i])]]
<1>0. AllWritten = w[N]
  BY DEF AllWritten
<1>1. NoPlaces \in Rows /\ at \in Nat /\ \A p \in PropSet : NoPlaces[p] = 0
  BY DEF NoPlaces, Rows
<1>2. /\ N \in Nat /\ \A i \in 1..N : Props[i] \in PropSet
      /\ none \in T /\ none.file = propFile /\ none.at = at /\ none.places = NoPlaces
  BY <1>1, OutputIs, PropsAre
<1> HIDE DEF none
<1>3. next \in [1..N -> [T -> T]]
  <2> HIDE DEF T, N
  <2>1. ASSUME NEW i \in 1..N, NEW s \in T PROVE WriteProperty(s, Props[i]) \in T
    BY <1>2, WritePropertyIs DEF T
  <2> QED
    BY <2>1
<1>4. PICK g : FoldOf(g, N, T, none, next)
  <2> HIDE DEF next, N, T
  <2> QED
    BY <1>2, <1>3, FoldExists
<1>5. g \in [0..N -> T] /\ g[0] = none
  <2> HIDE DEF next, N, T, w
  <2> QED
    BY <1>4 DEF FoldOf
<1>6. ASSUME NEW i \in 1..N PROVE g[i] = WriteProperty(g[i - 1], Props[i])
  <2>1. g[i] = next[i][g[i - 1]]
    <3> HIDE DEF next, N, T, w
    <3> QED
      BY <1>4 DEF FoldOf
  <2>2. i - 1 \in 0..N
    <3> HIDE DEF N
    <3> QED
      BY <1>2
  <2>3. g[i - 1] \in T
    <3> HIDE DEF N, T
    <3> QED
      BY <1>5, <2>2
  <2>4. next[i][g[i - 1]] = WriteProperty(g[i - 1], Props[i])
    <3> HIDE DEF N, T
    <3> QED
      BY <2>3
  <2> QED
    BY <2>1, <2>4
<1>7. g = [i \in 0..N |-> IF i = 0 THEN none ELSE WriteProperty(g[i - 1], Props[i])]
  <2> HIDE DEF N, T, next, w
  <2> DEFINE h == [i \in 0..N |-> IF i = 0 THEN none ELSE WriteProperty(g[i - 1], Props[i])]
  <2>1. \A i \in 0..N : i = 0 \/ i \in 1..N
    BY <1>2
  <2>2. \A i \in 0..N : g[i] = h[i]
    BY <1>5, <1>6, <2>1
  <2> QED
    BY <1>5, <2>2
<1>8. w = [i \in 0..N |-> IF i = 0 THEN none ELSE WriteProperty(w[i - 1], Props[i])]
  <2> HIDE DEF N
  <2> QED
    BY <1>7
<1>9. w[0] = none /\ \A i \in 1..N : w[i] = WriteProperty(w[i - 1], Props[i])
  <2> HIDE DEF w, N
  <2>1. \A i \in 0..N : w[i] = IF i = 0 THEN none ELSE WriteProperty(w[i - 1], Props[i])
    BY Zenon, <1>8
  <2>2. 0 \in 0..N /\ \A i \in 1..N : i \in 0..N /\ i # 0
    BY <1>2
  <2> QED
    BY <2>1, <2>2
<1> HIDE DEF w, next, N
<1> DEFINE Those(n) == {Props[i] : i \in 1..n}
           Good(n) == Wrote(w[n], Those(n))
           S == {n \in 0..N : Good(n)}
<1>10. 0 \in S
  <2>1. Those(0) = {}
    OBVIOUS
  <2>2. Len(propFile) \in Nat
    OBVIOUS
  <2> HIDE DEF Those
  <2>3. Wrote(none, Those(0))
    BY <1>1, <1>2, <2>1, <2>2 DEF Wrote
  <2>4. Good(0)
    BY <1>9, <2>3
  <2> HIDE DEF Good
  <2> QED
    BY <1>2, <2>4
<1>11. ASSUME NEW n \in 0..(N - 1), n \in S PROVE n + 1 \in S
  <2>1. n + 1 \in 1..N /\ (n + 1) - 1 = n /\ n + 1 \in 0..N /\ n \in Nat
    BY <1>2
  <2>2. w[n + 1] = WriteProperty(w[n], Props[n + 1]) /\ Props[n + 1] \in PropSet
    BY <1>2, <1>9, <2>1
  <2>3. Those(n + 1) = Those(n) \cup {Props[n + 1]}
    <3>1. \A i : i \in 1..(n + 1) <=> i \in 1..n \/ i = n + 1
      BY <2>1
    <3> QED
      BY <3>1
  <2> HIDE DEF Those
  <2>4. Wrote(w[n], Those(n))
    BY <1>11
  <2>5. Good(n + 1)
    BY <2>2, <2>3, <2>4, WroteMore
  <2> HIDE DEF Good
  <2> QED
    BY <2>1, <2>5
<1>12. \A n \in 0..N : n \in S
  <2> HIDE DEF S
  <2> QED
    BY <1>2, <1>10, <1>11, UpTo
<1>13. Good(N)
  <2>1. N \in 0..N
    BY <1>2
  <2> QED
    BY <1>12, <2>1
<1>14. Those(N) = PropSet
  BY <1>2, PropsAre DEF N
<1> HIDE DEF Those
<1> QED
  BY <1>0, <1>13, <1>14

-----------------------------------------------------------------------------
(***************************************************************************)
(* The invariant: while an index is open the file is written behind its    *)
(* last value; the places of every document that is done are in the file,  *)
(* with the values of its texts; and those of the document at hand are the *)
(* values of its texts so far.                                             *)
(***************************************************************************)
Done == IF indexing = "parsing" THEN filenum - 1 ELSE filenum
CellAt(file, place) == IF place = 0 THEN <<>> ELSE file[place]

PropTypes ==
  /\ incremental \in BOOLEAN /\ indexing \in {"closed", "ready", "parsing"}
  /\ propFile \in Seq(Cells) /\ at \in Nat /\ positions \in Seq(Rows)
  /\ filenum \in Nat /\ header \in Nat /\ session \in Nat \ {0}
  /\ document \in [PropSet -> Cells]
  /\ given \in Seq([PropSet -> Seq(Texts)]) /\ Len(given) = filenum

PropCounts ==
  /\ indexing = "parsing" => filenum >= 1
  /\ indexing # "closed" => at = Len(propFile) + 1
  /\ Done <= Len(positions)
  /\ ~incremental => session = 1 /\ Len(positions) = Done
  /\ header <= Done
  /\ indexing = "closed" => header = filenum

DoneHeld ==
  \A f \in 1..Done : \A p \in PropSet :
    /\ positions[f][p] <= Len(propFile)
    /\ Held(p, Joined(p, given[f][p]), CellAt(propFile, positions[f][p]))

DocumentHeld ==
  indexing = "parsing" => \A p \in PropSet : Held(p, Joined(p, given[filenum][p]), document[p])

PropInv == PropTypes /\ PropCounts /\ DoneHeld /\ DocumentHeld

-----------------------------------------------------------------------------
LEMMA PropInitially == PropInit => PropInv
<1> SUFFICES ASSUME PropInit PROVE PropInv
  OBVIOUS
<1>1. NoProperties \in [PropSet -> Cells]
  BY DEF NoProperties, Cells
<1>2. PropTypes
  BY <1>1 DEF PropInit, PropTypes
<1>3. Done = 0 /\ Len(propFile) = 0 /\ Len(positions) = 0
  BY DEF PropInit, Done
<1>4. PropCounts
  BY <1>3 DEF PropInit, PropCounts
<1>5. DoneHeld
  BY <1>3 DEF DoneHeld
<1>6. DocumentHeld
  BY DEF PropInit, DocumentHeld
<1> QED
  BY <1>2, <1>4, <1>5, <1>6 DEF PropInv

(* What is kept when nothing that was written changes.                     *)
LEMMA SameHeld ==
  ASSUME DoneHeld, Done' \in Nat, Done \in Nat, Done' <= Done,
         propFile' = propFile, positions' = positions,
         \A f \in 1..Done' : given'[f] = given[f]
  PROVE  DoneHeld'
<1>1. \A f \in 1..Done' : f \in 1..Done
  OBVIOUS
<1>2. ASSUME NEW f \in 1..Done', NEW p \in PropSet
      PROVE  /\ positions'[f][p] <= Len(propFile')
             /\ Held(p, Joined(p, given'[f][p]), CellAt(propFile', positions'[f][p]))
  <2>1. f \in 1..Done
    BY <1>1
  <2>2. /\ positions[f][p] <= Len(propFile)
        /\ Held(p, Joined(p, given[f][p]), CellAt(propFile, positions[f][p]))
    BY <2>1 DEF DoneHeld
  <2> QED
    BY <2>2
<1> QED
  BY <1>2 DEF DoneHeld

LEMMA DoneIsNat ==
  ASSUME PropInv
  PROVE  /\ Done \in Nat /\ Done <= filenum /\ filenum <= Done + 1
         /\ indexing = "parsing" => Done = filenum - 1
         /\ indexing # "parsing" => Done = filenum
BY DEF PropInv, PropTypes, PropCounts, Done

LEMMA GivenTypes ==
  ASSUME PropInv
  PROVE  /\ NoProperties \in [PropSet -> Cells]
         /\ NoProperties \in [PropSet -> Seq(Texts)]
         /\ \A p \in PropSet : NoProperties[p] = <<>>
         /\ given \in Seq([PropSet -> Seq(Texts)]) /\ Len(given) = filenum /\ filenum \in Nat
BY DEF NoProperties, Cells, PropInv, PropTypes

LEMMA StartDocumentKeeps == ASSUME PropInv, StartDocument PROVE PropInv'
<1>1. /\ indexing = "ready" /\ filenum' = filenum + 1 /\ indexing' = "parsing"
      /\ document' = NoProperties /\ given' = Append(given, NoProperties) /\ at' = at
      /\ UNCHANGED <<incremental, propFile, positions, header, session>>
  BY DEF StartDocument, AfterRead
<1>2. filenum \in Nat /\ Done = filenum /\ Done' = filenum /\ Done' \in Nat
  BY <1>1, DoneIsNat DEF PropInv, PropTypes, Done
<1>3. /\ given' \in Seq([PropSet -> Seq(Texts)]) /\ Len(given') = filenum + 1
      /\ given'[filenum + 1] = NoProperties /\ \A f \in 1..filenum : given'[f] = given[f]
  <2> DEFINE more == Append(given, NoProperties)
             X == [PropSet -> Seq(Texts)]
  <2>1. NoProperties \in X /\ given \in Seq(X) /\ Len(given) = filenum
    BY GivenTypes
  <2> HIDE DEF X
  <2>2. /\ more \in Seq(X) /\ Len(more) = Len(given) + 1 /\ more[Len(given) + 1] = NoProperties
        /\ \A f \in 1..Len(given) : more[f] = given[f]
    BY <2>1, OneMore
  <2>3. given' = more
    BY <1>1
  <2> HIDE DEF more
  <2> QED
    BY <2>1, <2>2, <2>3 DEF X
<1>4. PropTypes'
  BY <1>1, <1>2, <1>3, GivenTypes DEF PropInv, PropTypes
<1>5. PropCounts'
  BY <1>1, <1>2 DEF PropInv, PropCounts
<1>6. DoneHeld'
  BY <1>1, <1>2, <1>3, SameHeld DEF PropInv
<1>7. DocumentHeld'
  <2>1. \A p \in PropSet : given'[filenum'][p] = <<>> /\ document'[p] = <<>>
    BY <1>1, <1>3, GivenTypes
  <2>2. \A p \in PropSet : Held(p, Joined(p, given'[filenum'][p]), document'[p])
    BY <2>1, HeldNone
  <2> QED
    BY <2>2 DEF DocumentHeld
<1> QED
  BY <1>4, <1>5, <1>6, <1>7 DEF PropInv

LEMMA AddKeeps ==
  ASSUME PropInv, NEW p \in PropSet, NEW text \in Texts, Add(p, text)
  PROVE  PropInv'
<1> DEFINE texts == given[filenum]
           added == [texts EXCEPT ![p] = Append(texts[p], text)]
           X == [PropSet -> Seq(Texts)]
<1>1. /\ indexing = "parsing" /\ document' = AddDocProperty(document, p, text)
      /\ given' = [given EXCEPT ![filenum] = added]
      /\ UNCHANGED <<incremental, propFile, at, positions, filenum, header, session, indexing>>
  BY DEF Add
<1>2. filenum \in Nat /\ filenum >= 1 /\ filenum \in 1..filenum /\ Done = filenum - 1 /\ Done' = Done
      /\ Done \in Nat
  BY <1>1, DoneIsNat DEF PropInv, PropTypes, PropCounts, Done
<1>3. given \in [1..filenum -> X] /\ Len(given) = filenum /\ texts \in X
  <2>1. given \in Seq(X) /\ Len(given) = filenum
    BY GivenTypes
  <2> HIDE DEF X
  <2> QED
    BY <1>2, <2>1
<1> HIDE DEF texts
<1>4. Append(texts[p], text) \in Seq(Texts)
  BY <1>3
<1>5. added \in X /\ added[p] = Append(texts[p], text)
      /\ \A q \in PropSet : q # p => added[q] = texts[q]
  <2> DEFINE t == Append(texts[p], text)
  <2> HIDE DEF t
  <2> QED
    BY <1>3, <1>4 DEF t
<1> HIDE DEF added
<1>6. given' \in Seq(X) /\ Len(given') = filenum
      /\ given'[filenum] = added /\ \A f \in 1..(filenum - 1) : given'[f] = given[f]
  <2> HIDE DEF X
  <2> DEFINE g == [given EXCEPT ![filenum] = added]
  <2>1. g \in [1..filenum -> X] /\ g[filenum] = added
    BY <1>2, <1>3, <1>5
  <2>2. \A f \in 1..(filenum - 1) : f \in 1..filenum /\ f # filenum
    BY <1>2
  <2>3. \A f \in 1..(filenum - 1) : g[f] = given[f]
    BY <1>3, <2>2
  <2>4. given' = g
    BY <1>1
  <2> HIDE DEF g
  <2>5. g \in Seq(X) /\ Len(g) = filenum
    BY <1>2, <2>1
  <2> QED
    BY <2>1, <2>3, <2>4, <2>5
<1>7. document \in [PropSet -> Cells] /\ Held(p, Joined(p, texts[p]), document[p])
      /\ \A q \in PropSet : Held(q, Joined(q, texts[q]), document[q])
  BY <1>1 DEF PropInv, PropTypes, DocumentHeld, texts
<1>8. /\ document' \in [PropSet -> Cells]
      /\ Held(p, Joined(p, Append(texts[p], text)), document'[p])
      /\ \A q \in PropSet : q # p => document'[q] = document[q]
  <2>1. texts[p] \in Seq(Texts)
    BY <1>3
  <2> QED
    BY <1>1, <1>7, <2>1, HeldAdded
<1>9. PropTypes'
  BY <1>1, <1>2, <1>6, <1>8 DEF PropInv, PropTypes
<1>10. PropCounts'
  BY <1>1, <1>2 DEF PropInv, PropCounts
<1>11. DoneHeld'
  <2>1. Done' <= Done
    BY <1>2
  <2> QED
    BY <1>1, <1>2, <1>6, <2>1, SameHeld DEF PropInv
<1>12. DocumentHeld'
  <2>1. given'[filenum'] = added
    BY <1>1, <1>6
  <2>2. ASSUME NEW q \in PropSet
        PROVE  Held(q, Joined(q, added[q]), document'[q])
    <3>1. CASE q = p
      BY <1>5, <1>8, <3>1
    <3>2. CASE q # p
      BY <1>5, <1>7, <1>8, <3>2
    <3> QED
      BY <3>1, <3>2
  <2> QED
    BY <2>1, <2>2 DEF DocumentHeld
<1> QED
  BY <1>9, <1>10, <1>11, <1>12 DEF PropInv

LEMMA AbortKeeps == ASSUME PropInv, Abort PROVE PropInv'
<1>1. /\ indexing = "parsing" /\ filenum' = filenum - 1 /\ given' = Front(given)
      /\ document' = NoProperties /\ indexing' = "ready"
      /\ UNCHANGED <<incremental, propFile, at, positions, header, session>>
  BY DEF Abort
<1>2. filenum \in Nat /\ filenum >= 1 /\ Done = filenum - 1 /\ Done' = Done /\ Done \in Nat
  BY <1>1, DoneIsNat DEF PropInv, PropTypes, PropCounts, Done
<1>3. given' \in Seq([PropSet -> Seq(Texts)]) /\ Len(given') = filenum - 1
      /\ \A f \in 1..(filenum - 1) : given'[f] = given[f]
  <2> DEFINE X == [PropSet -> Seq(Texts)]
             g == SubSeq(given, 1, filenum - 1)
  <2>1. given \in Seq(X) /\ Len(given) = filenum
    BY GivenTypes
  <2> HIDE DEF X
  <2>2. 1 \in 1..(Len(given) + 1) /\ filenum - 1 \in 0..Len(given) /\ 1 <= (filenum - 1) + 1
        /\ (filenum - 1) - 1 + 1 = filenum - 1 /\ \A i \in 1..(filenum - 1) : 1 + i - 1 = i
    BY <1>2, <2>1
  <2>3. g \in Seq(X) /\ Len(g) = filenum - 1 /\ \A i \in 1..(filenum - 1) : g[i] = given[i]
    BY <2>1, <2>2, PartOf
  <2>4. given' = g
    BY <1>1, <2>1 DEF Front
  <2> HIDE DEF g
  <2> QED
    BY <2>3, <2>4 DEF X
<1>4. PropTypes'
  BY <1>1, <1>2, <1>3, GivenTypes DEF PropInv, PropTypes
<1>5. PropCounts'
  BY <1>1, <1>2 DEF PropInv, PropCounts
<1>6. DoneHeld'
  <2>1. Done' <= Done
    BY <1>2
  <2> QED
    BY <1>1, <1>2, <1>3, <2>1, SameHeld DEF PropInv
<1>7. DocumentHeld'
  BY <1>1 DEF DocumentHeld
<1> QED
  BY <1>4, <1>5, <1>6, <1>7 DEF PropInv

LEMMA CloseKeeps == ASSUME PropInv, Close PROVE PropInv'
<1>1. /\ indexing = "ready" /\ header' = filenum /\ indexing' = "closed"
      /\ UNCHANGED <<incremental, propFile, at, positions, filenum, session, document, given>>
  BY DEF Close
<1>2. filenum \in Nat /\ Done = filenum /\ Done' = Done /\ Done' <= Done
  BY <1>1, DoneIsNat DEF PropInv, PropTypes, Done
<1>3. PropTypes'
  BY <1>1, <1>2 DEF PropInv, PropTypes
<1>4. PropCounts'
  BY <1>1, <1>2 DEF PropInv, PropCounts
<1>5. DoneHeld'
  BY <1>1, <1>2, SameHeld DEF PropInv
<1>6. DocumentHeld'
  BY <1>1 DEF DocumentHeld
<1> QED
  BY <1>3, <1>4, <1>5, <1>6 DEF PropInv

LEMMA OpenKeeps == ASSUME PropInv, Open PROVE PropInv'
<1>1. /\ incremental /\ indexing = "closed" /\ session' = session + 1 /\ indexing' = "ready"
      /\ at' = Len(propFile) + 1 /\ filenum' = header
      /\ UNCHANGED <<incremental, propFile, positions, header, document, given>>
  BY DEF Open
<1>2. header = filenum /\ filenum \in Nat /\ Done = filenum /\ Done' = Done /\ Done' <= Done
  BY <1>1, DoneIsNat DEF PropInv, PropTypes, PropCounts, Done
<1>3. Len(propFile) \in Nat /\ session \in Nat
  BY DEF PropInv, PropTypes
<1>4. PropTypes'
  BY <1>1, <1>2, <1>3 DEF PropInv, PropTypes
<1>5. PropCounts'
  BY <1>1, <1>2 DEF PropInv, PropCounts
<1>6. DoneHeld'
  BY <1>1, <1>2, SameHeld DEF PropInv
<1>7. DocumentHeld'
  BY <1>1 DEF DocumentHeld
<1> QED
  BY <1>4, <1>5, <1>6, <1>7 DEF PropInv

(* The row of the document is written to the table.                        *)
LEMMA RowWritten ==
  ASSUME positions \in Seq(Rows), filenum \in Nat, filenum >= 1, filenum - 1 <= Len(positions),
         ~incremental => Len(positions) = filenum - 1, NEW places \in Rows
  PROVE  LET rows == WritePropPositions(places)
         IN  /\ rows \in Seq(Rows) /\ filenum <= Len(rows)
             /\ ~incremental => Len(rows) = filenum
             /\ rows[filenum] = places
             /\ \A f \in 1..(filenum - 1) : rows[f] = positions[f]
<1> DEFINE rows == WritePropPositions(places)
           n == Len(positions)
<1>0. n \in Nat /\ \A i \in 1..n : positions[i] \in Rows
  OBVIOUS
<1>1. CASE incremental
  <2> DEFINE m == Max({filenum, Len(positions)})
             row(i) == IF i = filenum THEN places
                       ELSE IF i \in DOMAIN positions THEN positions[i] ELSE NoPlaces
             t == [i \in 1..m |-> row(i)]
  <2>1. m \in Nat /\ m >= filenum /\ m >= n
    BY <1>0, GreaterOfTwo
  <2>2. DOMAIN positions = 1..n
    OBVIOUS
  <2>3. NoPlaces \in Rows
    BY DEF NoPlaces, Rows
  <2>4. \A i \in 1..m : row(i) \in Rows
    BY <1>0, <2>2, <2>3
  <2>5. rows = t
    BY <1>1 DEF WritePropPositions, WithRow
  <2>6. filenum \in 1..m /\ \A f \in 1..(filenum - 1) : f \in 1..m /\ f # filenum /\ f \in 1..n
    <3> HIDE DEF m, n, t, rows, row
    <3>1. filenum \in 1..m
      BY <2>1
    <3>2. filenum - 1 <= n
      BY DEF n
    <3>3. ASSUME NEW f \in 1..(filenum - 1) PROVE f \in 1..m /\ f # filenum /\ f \in 1..n
      BY <1>0, <2>1, <3>2
    <3> QED
      BY <3>1, <3>3
  <2>7. row(filenum) = places /\ \A f \in 1..(filenum - 1) : row(f) = positions[f]
    BY <2>2, <2>6
  <2> HIDE DEF m, row
  <2>8. t[filenum] = places /\ \A f \in 1..(filenum - 1) : t[f] = positions[f]
    BY <2>6, <2>7
  <2>9. t \in [1..m -> Rows]
    BY <2>4
  <2> HIDE DEF t, rows
  <2>10. t \in Seq(Rows) /\ Len(t) = m
    BY <2>1, <2>9
  <2>11. /\ rows \in Seq(Rows) /\ filenum <= Len(rows)
         /\ ~incremental => Len(rows) = filenum
         /\ rows[filenum] = places
         /\ \A f \in 1..(filenum - 1) : rows[f] = positions[f]
    BY <1>1, <2>1, <2>5, <2>8, <2>10
  <2> QED
    BY <2>11 DEF rows
<1>2. CASE ~incremental
  <2>1. n = filenum - 1
    BY <1>2
  <2> DEFINE t == Append(positions, places)
  <2>2. /\ t \in Seq(Rows) /\ Len(t) = n + 1 /\ t[n + 1] = places
        /\ \A i \in 1..n : t[i] = positions[i]
    BY OneMore
  <2>3. rows = t
    BY <1>2 DEF WritePropPositions
  <2> HIDE DEF t, rows, n
  <2>4. /\ rows \in Seq(Rows) /\ filenum <= Len(rows)
        /\ ~incremental => Len(rows) = filenum
        /\ rows[filenum] = places
        /\ \A f \in 1..(filenum - 1) : rows[f] = positions[f]
    BY <2>1, <2>2, <2>3
  <2> QED
    BY <2>4 DEF rows
<1> QED
  BY <1>1, <1>2

LEMMA WriteKeeps == ASSUME PropInv, WritePropertiesToDisk PROVE PropInv'
<1> DEFINE out == AllWritten
           rows == WritePropPositions(AllWritten.places)
<1>1. /\ indexing = "parsing" /\ propFile' = out.file /\ at' = out.at /\ positions' = rows
      /\ document' = NoProperties /\ indexing' = "ready"
      /\ UNCHANGED <<incremental, filenum, header, session, given>>
  BY DEF WritePropertiesToDisk
<1>2. /\ document \in [PropSet -> Cells] /\ propFile \in Seq(Cells) /\ at = Len(propFile) + 1
      /\ positions \in Seq(Rows)
  BY <1>1 DEF PropInv, PropTypes, PropCounts
<1>3. Wrote(out, PropSet)
  BY <1>2, AllWrittenIs
<1>4. filenum \in Nat /\ filenum >= 1 /\ Done = filenum - 1 /\ Done' = filenum
  BY <1>1, DoneIsNat DEF PropInv, PropTypes, PropCounts, Done
<1>5. filenum - 1 <= Len(positions) /\ (~incremental => Len(positions) = filenum - 1)
  BY <1>4 DEF PropInv, PropCounts
<1>6. out \in Outputs /\ out.at = Len(out.file) + 1 /\ Len(propFile) <= Len(out.file)
      /\ \A i \in 1..Len(propFile) : out.file[i] = propFile[i]
  BY <1>3 DEF Wrote
<1>7. out.file \in Seq(Cells) /\ out.at \in Nat /\ out.places \in Rows
  BY <1>6, OutputFields
<1>8. /\ rows \in Seq(Rows) /\ filenum <= Len(rows)
      /\ ~incremental => Len(rows) = filenum
      /\ rows[filenum] = out.places
      /\ \A f \in 1..(filenum - 1) : rows[f] = positions[f]
  BY <1>2, <1>4, <1>5, <1>7, RowWritten
<1>9. \A p \in PropSet :
        \/ out.places[p] = 0 /\ document[p] = <<>>
        \/ out.places[p] \in 1..Len(out.file) /\ out.file[out.places[p]] = document[p]
  BY <1>3 DEF Wrote
<1> HIDE DEF out, rows
<1>10. PropTypes'
  BY <1>1, <1>7, <1>8, GivenTypes DEF PropInv, PropTypes
<1>11. PropCounts'
  <2>1. header \in Nat /\ header <= filenum - 1 /\ (~incremental => session = 1)
    BY <1>4 DEF PropInv, PropTypes, PropCounts
  <2>2. header <= filenum
    BY <1>4, <2>1
  <2> QED
    BY <1>1, <1>4, <1>6, <1>8, <2>1, <2>2 DEF PropCounts
<1>12. ASSUME NEW f \in 1..Done', NEW p \in PropSet
       PROVE  /\ positions'[f][p] <= Len(propFile')
              /\ Held(p, Joined(p, given'[f][p]), CellAt(propFile', positions'[f][p]))
  <2>1. Len(propFile) \in Nat /\ Len(out.file) \in Nat
    BY <1>2, <1>7
  <2>2. CASE f = filenum
    <3>1. positions'[f][p] = out.places[p] /\ given'[f] = given[filenum]
      BY <1>1, <1>8, <2>2
    <3>2. Held(p, Joined(p, given[filenum][p]), document[p])
      BY <1>1 DEF PropInv, DocumentHeld
    <3>3. out.places[p] <= Len(out.file) /\ CellAt(out.file, out.places[p]) = document[p]
      <4>1. CASE out.places[p] = 0 /\ document[p] = <<>>
        BY <2>1, <4>1 DEF CellAt
      <4>2. CASE out.places[p] \in 1..Len(out.file) /\ out.file[out.places[p]] = document[p]
        <5>1. out.places[p] <= Len(out.file) /\ out.places[p] # 0
          BY <2>1, <4>2
        <5> QED
          BY <4>2, <5>1 DEF CellAt
      <4> QED
        BY <1>9, <4>1, <4>2
    <3> QED
      BY <1>1, <3>1, <3>2, <3>3
  <2>3. CASE f # filenum
    <3>1. f \in 1..(filenum - 1) /\ f \in 1..Done /\ f \in 1..Len(positions)
      BY <1>2, <1>4, <1>5, <2>3
    <3>2. positions'[f] = positions[f] /\ given'[f] = given[f]
      BY <1>1, <1>8, <3>1
    <3>3. /\ positions[f][p] <= Len(propFile)
          /\ Held(p, Joined(p, given[f][p]), CellAt(propFile, positions[f][p]))
      BY <3>1 DEF PropInv, DoneHeld
    <3>4. positions[f][p] \in Nat
      <4>1. positions[f] \in Rows
        BY <1>2, <3>1
      <4> QED
        BY <4>1 DEF Rows
    <3>5. CellAt(out.file, positions[f][p]) = CellAt(propFile, positions[f][p])
      <4>1. CASE positions[f][p] = 0
        BY <4>1 DEF CellAt
      <4>2. CASE positions[f][p] # 0
        <5>1. positions[f][p] \in 1..Len(propFile)
          BY <2>1, <3>3, <3>4, <4>2
        <5> QED
          BY <1>6, <4>2, <5>1 DEF CellAt
      <4> QED
        BY <4>1, <4>2
    <3>6. positions[f][p] <= Len(out.file)
      BY <1>6, <2>1, <3>3, <3>4
    <3> QED
      BY <1>1, <3>2, <3>3, <3>5, <3>6
  <2> QED
    BY <2>2, <2>3
<1>13. DoneHeld'
  BY <1>12 DEF DoneHeld
<1>14. DocumentHeld'
  BY <1>1 DEF DocumentHeld
<1> QED
  BY <1>10, <1>11, <1>13, <1>14 DEF PropInv

LEMMA CrashKeeps == ASSUME PropInv, Crash PROVE PropInv'
<1>1. PICK n \in 0..Len(propFile), rows \in {header, Len(positions)} :
        /\ \A f \in 1..header, p \in PropSet : positions[f][p] <= n
        /\ rows >= header
        /\ propFile' = SubSeq(propFile, 1, n)
        /\ positions' = SubSeq(positions, 1, rows)
  BY DEF Crash
<1>2. /\ session > 1 /\ indexing' = "closed" /\ filenum' = header
      /\ document' = NoProperties /\ given' = SubSeq(given, 1, header)
      /\ UNCHANGED <<incremental, at, header, session>>
  BY DEF Crash
<1>3. /\ propFile \in Seq(Cells) /\ positions \in Seq(Rows) /\ header \in Nat /\ session \in Nat
      /\ Len(propFile) \in Nat /\ Len(positions) \in Nat
  BY DEF PropInv, PropTypes
<1>4. /\ Done \in Nat /\ header <= Done /\ Done <= filenum /\ Done <= Len(positions)
      /\ Done' = header /\ filenum \in Nat
  BY <1>2, DoneIsNat DEF PropInv, PropTypes, PropCounts, Done
<1>5. incremental
  BY <1>2, <1>3 DEF PropInv, PropTypes, PropCounts
<1>6. rows \in Nat /\ rows <= Len(positions) /\ n \in Nat
  BY <1>1, <1>3, <1>4
<1>7. propFile' \in Seq(Cells) /\ Len(propFile') = n /\ \A i \in 1..n : propFile'[i] = propFile[i]
  <2> DEFINE s == SubSeq(propFile, 1, n)
  <2>1. 1 \in 1..(Len(propFile) + 1) /\ n \in 0..Len(propFile) /\ 1 <= n + 1 /\ n - 1 + 1 = n
        /\ \A i \in 1..n : 1 + i - 1 = i
    BY <1>3, <1>6
  <2>2. s \in Seq(Cells) /\ Len(s) = n /\ \A i \in 1..n : s[i] = propFile[i]
    BY <1>3, <2>1, PartOf
  <2> HIDE DEF s
  <2>3. propFile' = s
    BY <1>1 DEF s
  <2> QED
    BY <2>2, <2>3
<1>8. positions' \in Seq(Rows) /\ Len(positions') = rows
      /\ \A i \in 1..rows : positions'[i] = positions[i]
  <2> DEFINE s == SubSeq(positions, 1, rows)
  <2>1. 1 \in 1..(Len(positions) + 1) /\ rows \in 0..Len(positions) /\ 1 <= rows + 1
        /\ rows - 1 + 1 = rows /\ \A i \in 1..rows : 1 + i - 1 = i
    BY <1>3, <1>6
  <2>2. s \in Seq(Rows) /\ Len(s) = rows /\ \A i \in 1..rows : s[i] = positions[i]
    BY <1>3, <2>1, PartOf
  <2> HIDE DEF s
  <2>3. positions' = s
    BY <1>1 DEF s
  <2> QED
    BY <2>2, <2>3
<1>9. given' \in Seq([PropSet -> Seq(Texts)]) /\ Len(given') = header
      /\ \A f \in 1..header : given'[f] = given[f]
  <2> DEFINE X == [PropSet -> Seq(Texts)]
             s == SubSeq(given, 1, header)
  <2>1. given \in Seq(X) /\ Len(given) = filenum
    BY GivenTypes
  <2> HIDE DEF X
  <2>2. 1 \in 1..(Len(given) + 1) /\ header \in 0..Len(given) /\ 1 <= header + 1
        /\ header - 1 + 1 = header /\ \A i \in 1..header : 1 + i - 1 = i
    BY <1>3, <1>4, <2>1
  <2>3. s \in Seq(X) /\ Len(s) = header /\ \A i \in 1..header : s[i] = given[i]
    BY <2>1, <2>2, PartOf
  <2> HIDE DEF s
  <2>4. given' = s
    BY <1>2 DEF s
  <2> QED
    BY <2>3, <2>4 DEF X
<1>10. PropTypes'
  BY <1>2, <1>3, <1>7, <1>8, <1>9, GivenTypes DEF PropInv, PropTypes
<1>11. PropCounts'
  BY <1>1, <1>2, <1>3, <1>4, <1>5, <1>8 DEF PropInv, PropCounts
<1>12. ASSUME NEW f \in 1..Done', NEW p \in PropSet
       PROVE  /\ positions'[f][p] <= Len(propFile')
              /\ Held(p, Joined(p, given'[f][p]), CellAt(propFile', positions'[f][p]))
  <2>1. f \in 1..header /\ f \in 1..Done /\ f \in 1..rows /\ f \in 1..Len(positions)
    BY <1>1, <1>3, <1>4, <1>6
  <2>2. positions'[f] = positions[f] /\ given'[f] = given[f]
    BY <1>8, <1>9, <2>1
  <2>3. positions[f][p] <= n
    BY <1>1, <2>1
  <2>4. Held(p, Joined(p, given[f][p]), CellAt(propFile, positions[f][p]))
    BY <2>1 DEF PropInv, DoneHeld
  <2>5. positions[f][p] \in Nat
    <3>1. positions[f] \in Rows
      BY <1>3, <2>1
    <3> QED
      BY <3>1 DEF Rows
  <2>6. CellAt(propFile', positions[f][p]) = CellAt(propFile, positions[f][p])
    <3>1. CASE positions[f][p] = 0
      BY <3>1 DEF CellAt
    <3>2. CASE positions[f][p] # 0
      <4>1. positions[f][p] \in 1..n
        BY <1>6, <2>3, <2>5, <3>2
      <4> QED
        BY <1>7, <3>2, <4>1 DEF CellAt
    <3> QED
      BY <3>1, <3>2
  <2> QED
    BY <1>7, <2>2, <2>3, <2>4, <2>6
<1>13. DoneHeld'
  BY <1>12 DEF DoneHeld
<1>14. DocumentHeld'
  BY <1>2 DEF DocumentHeld
<1> QED
  BY <1>10, <1>11, <1>13, <1>14 DEF PropInv

LEMMA PropStep == PropInv /\ [PropNext]_propVars => PropInv'
<1> SUFFICES ASSUME PropInv, [PropNext]_propVars PROVE PropInv'
  OBVIOUS
<1>1. CASE StartDocument
  BY <1>1, StartDocumentKeeps
<1>2. CASE \E p \in PropSet, text \in Texts : Add(p, text)
  BY <1>2, AddKeeps
<1>3. CASE Abort
  BY <1>3, AbortKeeps
<1>4. CASE WritePropertiesToDisk
  BY <1>4, WriteKeeps
<1>5. CASE Close
  BY <1>5, CloseKeeps
<1>6. CASE Open
  BY <1>6, OpenKeeps
<1>7. CASE Crash
  BY <1>7, CrashKeeps
<1>8. CASE UNCHANGED propVars
  BY <1>8 DEF propVars, PropInv, PropTypes, PropCounts, DoneHeld, DocumentHeld, Done
<1> QED
  BY <1>1, <1>2, <1>3, <1>4, <1>5, <1>6, <1>7, <1>8 DEF PropNext

LEMMA PropInvShows == PropInv => PropertiesKept
<1> SUFFICES ASSUME PropInv PROVE PropertiesKept
  OBVIOUS
<1>1. ASSUME NEW f \in 1..Done, NEW p \in PropSet
      PROVE  /\ Meant(p, given[f][p], ReadProperty(f, p, 0), MaxLen[p])
             /\ ReadProperty(f, p, 1) = IF p \in Numbers THEN ReadProperty(f, p, 0)
                                        ELSE Beginning(1, ReadProperty(f, p, 0))
  <2>1. Held(p, Joined(p, given[f][p]), CellAt(propFile, positions[f][p]))
    BY DEF PropInv, DoneHeld
  <2>2. ReadProperty(f, p, 0) = CellAt(propFile, positions[f][p])
    BY DEF ReadProperty, CellAt
  <2>3. Beginning(1, <<>>) = <<>>
    BY DEF Beginning
  <2>4. ReadProperty(f, p, 1) = IF p \in Numbers THEN ReadProperty(f, p, 0)
                                ELSE Beginning(1, ReadProperty(f, p, 0))
    BY <2>3 DEF ReadProperty
  <2> QED
    BY <2>1, <2>2, <2>4, HeldIsMeant
<1> QED
  BY <1>1 DEF PropertiesKept, Done

(* Every document that was written shows the values it was given and no    *)
(* others, through documents that are aborted, sessions that are cut short *)
(* and file numbers that are given again: ReadSingleDocPropertiesFromDisk  *)
(* of docprop.c, for any properties, lengths, texts, documents and         *)
(* sessions.                                                               *)
THEOREM PropertiesKeptAlways == PropSpec => []PropertiesKept
<1>1. PropInit => PropInv
  BY PropInitially
<1>2. PropInv /\ [PropNext]_propVars => PropInv'
  BY PropStep
<1>3. PropInv => PropertiesKept
  BY PropInvShows
<1> QED
  BY <1>1, <1>2, <1>3, PTL DEF PropSpec

-----------------------------------------------------------------------------
(***************************************************************************)
(* The order of words.                                                     *)
(***************************************************************************)
LEMMA LesserOfTwo ==
  ASSUME NEW m \in Nat, NEW n \in Nat
  PROVE  Min({m, n}) = IF m <= n THEN m ELSE n
<1> DEFINE S == {m, n}
<1>1. S \in SUBSET Nat /\ S # {}
  OBVIOUS
<1>2. Min(S) \in S /\ \A y \in S : Min(S) <= y
  <2> HIDE DEF S
  <2> QED
    BY <1>1, LeastIs
<1> QED
  BY <1>2

Agree(v, w, n) == \A i \in 1..n : v[i] = w[i]

LEMMA PrefixIs ==
  ASSUME NEW v \in Seq(Nat), NEW w \in Seq(Nat)
  PROVE  IsPrefix(v, w) <=> Len(v) <= Len(w) /\ Agree(v, w, Len(v))
<1>0. Len(v) \in Nat /\ Len(w) \in Nat
  OBVIOUS
<1>1. ASSUME Len(v) <= Len(w)
      PROVE  SubSeq(v, 1, Len(v)) = SubSeq(w, 1, Len(v)) <=> Agree(v, w, Len(v))
  <2> DEFINE n == Len(v)
             a == SubSeq(v, 1, n)
             b == SubSeq(w, 1, n)
  <2>1. /\ 1 \in 1..(Len(v) + 1) /\ 1 \in 1..(Len(w) + 1) /\ n \in 0..Len(v) /\ n \in 0..Len(w)
        /\ 1 <= n + 1 /\ n - 1 + 1 = n /\ \A i \in 1..n : 1 + i - 1 = i
    BY <1>0, <1>1
  <2>2. a \in Seq(Nat) /\ Len(a) = n /\ \A i \in 1..n : a[i] = v[i]
    BY <2>1, PartOf
  <2>3. b \in Seq(Nat) /\ Len(b) = n /\ \A i \in 1..n : b[i] = w[i]
    BY <2>1, PartOf
  <2> HIDE DEF a, b, n
  <2>4. a = b <=> \A i \in 1..n : a[i] = b[i]
    BY <2>2, <2>3, EqualSeqs
  <2>5. a = b <=> Agree(v, w, n)
    BY <2>2, <2>3, <2>4 DEF Agree
  <2> QED
    BY <2>5 DEF a, b, n
<1> QED
  BY <1>1 DEF IsPrefix

LessAt(v, w, i) == i \in 1..Len(v) /\ i \in 1..Len(w) /\ v[i] < w[i] /\ Agree(v, w, i - 1)

LEMMA LessIs ==
  ASSUME NEW v \in Seq(Nat), NEW w \in Seq(Nat)
  PROVE  Less(v, w) <=> \/ Len(v) < Len(w) /\ Agree(v, w, Len(v))
                        \/ \E i : LessAt(v, w, i)
<1>1. DOMAIN v = 1..Len(v) /\ DOMAIN w = 1..Len(w) /\ Len(v) \in Nat /\ Len(w) \in Nat
  OBVIOUS
<1>2. IsStrictPrefix(v, w) <=> Len(v) < Len(w) /\ Agree(v, w, Len(v))
  <2>1. ASSUME Len(v) = Len(w), Agree(v, w, Len(v)) PROVE v = w
    BY <2>1, EqualSeqs DEF Agree
  <2>2. IsPrefix(v, w) <=> Len(v) <= Len(w) /\ Agree(v, w, Len(v))
    BY PrefixIs
  <2>3. ASSUME Len(v) < Len(w) PROVE v # w
    BY <1>1, <2>3
  <2>4. Len(v) <= Len(w) <=> Len(v) < Len(w) \/ Len(v) = Len(w)
    <3>1. Len(v) \in Nat /\ Len(w) \in Nat
      OBVIOUS
    <3>2. \A m, n \in Nat : m <= n <=> m < n \/ m = n
      OBVIOUS
    <3> QED
      BY <3>1, <3>2
  <2> QED
    BY <2>1, <2>2, <2>3, <2>4 DEF IsStrictPrefix
<1>3. (\E i \in DOMAIN v \cap DOMAIN w : v[i] < w[i] /\ \A j \in 1..(i - 1) : v[j] = w[j])
        <=> \E i : LessAt(v, w, i)
  BY <1>1 DEF LessAt, Agree
<1> QED
  BY <1>2, <1>3 DEF Less

(* Of two words only one is less than the other.                           *)
LEMMA LessOneWay ==
  ASSUME NEW v \in Seq(Nat), NEW w \in Seq(Nat), Less(v, w)
  PROVE  ~Less(w, v) /\ v # w
<1>0. /\ Len(v) \in Nat /\ Len(w) \in Nat
      /\ \A i \in 1..Len(v) : v[i] \in Nat
      /\ \A i \in 1..Len(w) : w[i] \in Nat
  OBVIOUS
<1>1. CASE Len(v) < Len(w) /\ Agree(v, w, Len(v))
  <2>1. ASSUME NEW i, LessAt(w, v, i) PROVE FALSE
    BY <1>0, <1>1, <2>1 DEF LessAt, Agree
  <2> QED
    BY <1>0, <1>1, <2>1, LessIs
<1>2. CASE \E i : LessAt(v, w, i)
  <2>1. PICK i : LessAt(v, w, i)
    BY <1>2
  <2>2. i \in 1..Len(v) /\ i \in 1..Len(w) /\ i \in Nat /\ v[i] < w[i]
        /\ v[i] \in Nat /\ w[i] \in Nat /\ \A j \in 1..(i - 1) : v[j] = w[j]
    BY <1>0, <2>1 DEF LessAt, Agree
  <2>3. ~Agree(w, v, Len(w))
    BY <2>2 DEF Agree
  <2>4. ASSUME NEW j, LessAt(w, v, j) PROVE FALSE
    <3>1. j \in 1..Len(v) /\ j \in 1..Len(w) /\ j \in Nat /\ w[j] < v[j]
          /\ v[j] \in Nat /\ w[j] \in Nat /\ \A k \in 1..(j - 1) : w[k] = v[k]
      BY <1>0, <2>4 DEF LessAt, Agree
    <3>2. CASE j < i
      <4>1. j \in 1..(i - 1)
        BY <2>2, <3>1, <3>2
      <4> QED
        BY <2>2, <3>1, <4>1
    <3>3. CASE i < j
      <4>1. i \in 1..(j - 1)
        BY <2>2, <3>1, <3>3
      <4> QED
        BY <2>2, <3>1, <4>1
    <3>4. CASE i = j
      BY <2>2, <3>1, <3>4
    <3> QED
      BY <2>2, <3>1, <3>2, <3>3, <3>4
  <2> QED
    BY <2>2, <2>3, <2>4, LessIs
<1> QED
  BY <1>1, <1>2, LessIs

(* The words that begin like another follow each other.                    *)
LEMMA PrefixedTogether ==
  ASSUME NEW p \in Seq(Nat), NEW u \in Seq(Nat), NEW v \in Seq(Nat), NEW w \in Seq(Nat),
         IsPrefix(p, u), IsPrefix(p, w), Less(u, v), Less(v, w)
  PROVE  IsPrefix(p, v)
<1>0. /\ Len(p) \in Nat /\ Len(u) \in Nat /\ Len(v) \in Nat /\ Len(w) \in Nat
      /\ Len(p) <= Len(u) /\ Len(p) <= Len(w)
      /\ \A i \in 1..Len(p) : p[i] = u[i] /\ p[i] = w[i]
      /\ \A i \in 1..Len(p) : p[i] \in Nat
      /\ \A i \in 1..Len(v) : v[i] \in Nat
  BY PrefixIs DEF Agree
<1>1. CASE Len(u) < Len(v) /\ Agree(u, v, Len(u))
  <2>1. \A i \in 1..Len(p) : i \in 1..Len(u)
    BY <1>0
  <2>2. \A i \in 1..Len(p) : p[i] = v[i]
    BY <1>0, <1>1, <2>1 DEF Agree
  <2>3. Len(p) <= Len(v)
    BY <1>0, <1>1
  <2> QED
    BY <2>2, <2>3, PrefixIs DEF Agree
<1>2. CASE \E i : LessAt(u, v, i)
  <2>1. PICK i : LessAt(u, v, i)
    BY <1>2
  <2>2. i \in 1..Len(u) /\ i \in 1..Len(v) /\ i \in Nat /\ u[i] < v[i]
        /\ \A j \in 1..(i - 1) : u[j] = v[j]
    BY <1>0, <2>1 DEF LessAt, Agree
  <2>3. CASE i > Len(p)
    <3>1. \A j \in 1..Len(p) : j \in 1..(i - 1)
      BY <1>0, <2>2, <2>3
    <3>2. \A j \in 1..Len(p) : p[j] = v[j]
      BY <1>0, <2>2, <3>1
    <3>3. Len(p) <= Len(v)
      BY <1>0, <2>2, <2>3
    <3> QED
      BY <3>2, <3>3, PrefixIs DEF Agree
  <2>4. CASE ~(i > Len(p))
    <3>1. i \in 1..Len(p) /\ u[i] = p[i] /\ w[i] = p[i] /\ p[i] \in Nat /\ v[i] \in Nat
          /\ \A j \in 1..(i - 1) : j \in 1..Len(p)
      <4>1. i \in 1..Len(p)
        BY <1>0, <2>2, <2>4
      <4>2. \A j \in 1..(i - 1) : j \in 1..Len(p)
        BY <1>0, <4>1
      <4> QED
        BY <1>0, <2>2, <4>1, <4>2
    <3>2. \A j \in 1..(i - 1) : v[j] = w[j] /\ v[j] \in Nat
      BY <1>0, <2>2, <3>1
    <3>3. CASE Len(v) < Len(w) /\ Agree(v, w, Len(v))
      <4>1. v[i] = w[i]
        BY <2>2, <3>3 DEF Agree
      <4> QED
        BY <2>2, <3>1, <4>1
    <3>4. CASE \E j : LessAt(v, w, j)
      <4>1. PICK j : LessAt(v, w, j)
        BY <3>4
      <4>2. j \in 1..Len(v) /\ j \in Nat /\ v[j] < w[j] /\ \A k \in 1..(j - 1) : v[k] = w[k]
        BY <1>0, <4>1 DEF LessAt, Agree
      <4>3. CASE j < i
        <5>1. j \in 1..(i - 1)
          BY <2>2, <4>2, <4>3
        <5> QED
          BY <3>2, <4>2, <5>1
      <4>4. CASE j = i
        BY <2>2, <3>1, <4>2, <4>4, SMTT(30)
      <4>5. CASE j > i
        <5>1. i \in 1..(j - 1)
          BY <2>2, <4>2, <4>5
        <5>2. v[i] = w[i]
          BY <4>2, <5>1
        <5> QED
          BY <2>2, <3>1, <5>2
      <4> QED
        BY <2>2, <4>2, <4>3, <4>4, <4>5
    <3> QED
      BY <3>3, <3>4, LessIs
  <2> QED
    BY <2>3, <2>4
<1> QED
  BY <1>1, <1>2, LessIs

(* No word behind one that is beyond p begins like p.                      *)
LEMMA NoneBeyond ==
  ASSUME NEW p \in Seq(Nat), NEW u \in Seq(Nat), NEW v \in Seq(Nat), Beyond(p, u),
         Less(u, v) \/ u = v
  PROVE  ~IsPrefix(p, v)
<1> DEFINE n == Min({Len(p), Len(u)})
           t == SubSeq(u, 1, n)
<1>0. /\ Len(p) \in Nat /\ Len(u) \in Nat /\ Len(v) \in Nat
      /\ \A i \in 1..Len(p) : p[i] \in Nat
      /\ \A i \in 1..Len(u) : u[i] \in Nat
  OBVIOUS
<1>1. n = IF Len(p) <= Len(u) THEN Len(p) ELSE Len(u)
  BY <1>0, LesserOfTwo
<1>2. Less(p, t)
  BY DEF Beyond
<1> HIDE DEF n
<1>3. n \in Nat /\ n <= Len(p) /\ n <= Len(u)
  BY <1>0, <1>1
<1>4. t \in Seq(Nat) /\ Len(t) = n /\ \A i \in 1..n : t[i] = u[i]
  <2>1. 1 \in 1..(Len(u) + 1) /\ n \in 0..Len(u) /\ 1 <= n + 1 /\ n - 1 + 1 = n
        /\ \A i \in 1..n : 1 + i - 1 = i
    BY <1>0, <1>3
  <2> QED
    BY <2>1, PartOf
<1> HIDE DEF t
<1>5. PICK i : LessAt(p, t, i)
  BY <1>0, <1>2, <1>3, <1>4, LessIs
<1>6. i \in 1..Len(p) /\ i \in 1..n /\ i \in 1..Len(u) /\ i \in Nat /\ p[i] < u[i]
      /\ p[i] \in Nat /\ u[i] \in Nat
      /\ \A j \in 1..(i - 1) : j \in 1..n /\ j \in 1..Len(p) /\ p[j] = u[j]
  <2>1. i \in 1..Len(p) /\ i \in 1..n /\ p[i] < t[i] /\ \A j \in 1..(i - 1) : p[j] = t[j]
    BY <1>4, <1>5 DEF LessAt, Agree
  <2>2. i \in Nat /\ i \in 1..Len(u) /\ \A j \in 1..(i - 1) : j \in 1..n /\ j \in 1..Len(p)
    BY <1>0, <1>3, <2>1
  <2> QED
    BY <1>0, <1>4, <2>1, <2>2
<1>7. SUFFICES ASSUME IsPrefix(p, v) PROVE FALSE
  OBVIOUS
<1>8. Len(p) <= Len(v) /\ \A j \in 1..Len(p) : p[j] = v[j]
  BY <1>7, PrefixIs DEF Agree
<1>9. LessAt(v, u, i)
  <2>1. i \in 1..Len(v) /\ v[i] = p[i]
    BY <1>0, <1>6, <1>8
  <2>2. \A j \in 1..(i - 1) : v[j] = u[j]
    BY <1>6, <1>8
  <2> QED
    BY <1>6, <2>1, <2>2 DEF LessAt, Agree
<1>10. Less(v, u)
  BY <1>9, LessIs
<1> QED
  BY <1>10, LessOneWay

-----------------------------------------------------------------------------
(***************************************************************************)
(* The invariant, stage by stage.                                          *)
(***************************************************************************)
FileWords == [word : Words, chain : Nat, data : Nat]
Pairs == [chain : Nat, data : Nat]

Stored(i, w) == i \in 1..Len(wordFile) /\ wordFile[i].word = w

NativeTypes ==
  /\ written \in {"words", "hash", "data", "all"}
  /\ todo \in Seq(Words) /\ entries \in Seq(Words) /\ dataFile \in Seq(Words)
  /\ wordFile \in Seq(FileWords) /\ wordhashdata \in Seq(Pairs)
  /\ offsets \in [Letters -> Nat]
  /\ hashoffsets \in [Entries -> Nat] /\ lasthashval \in [Entries -> Nat]
  /\ like \in Words \cup {<<>>} /\ read \in Seq(Nat) /\ ended \in BOOLEAN
  /\ written # "all" => like = <<>>

FileOrdered ==
  \A i, j \in 1..Len(wordFile) : i < j => Less(wordFile[i].word, wordFile[j].word)

OffsetsFirst ==
  \A l \in Letters :
    /\ offsets[l] = 0 => \A i \in 1..Len(wordFile) : wordFile[i].word[1] # l
    /\ offsets[l] # 0 =>
         /\ offsets[l] \in 1..Len(wordFile)
         /\ \A i \in 1..Len(wordFile) : wordFile[i].word[1] = l => offsets[l] <= i

TodoOrdered ==
  /\ \A i, j \in 1..Len(todo) : i < j => Less(todo[i], todo[j])
  /\ \A i \in 1..Len(wordFile), j \in 1..Len(todo) : Less(wordFile[i].word, todo[j])
  /\ dataFile = <<>>
  /\ \A h \in Entries : hashoffsets[h] = 0 /\ lasthashval[h] = 0

(* The entries are the words of the file, those of a hash together.        *)
TableListed ==
  /\ Len(entries) = Len(wordFile)
  /\ \A k \in 1..Len(entries) : \E i : Stored(i, entries[k])
  /\ \A i \in 1..Len(wordFile) : \E k \in 1..Len(entries) : entries[k] = wordFile[i].word
  /\ \A j, k \in 1..Len(entries) : entries[j] = entries[k] => j = k
  /\ \A j, k \in 1..Len(entries) : j < k => Hash[entries[j]] <= Hash[entries[k]]

(* What the chain of entry k, the first and the last place of a hash are   *)
(* when d entries were chained.                                            *)
Links(c, k, d) ==
  IF k < d /\ Hash[entries[k + 1]] = Hash[entries[k]] THEN Stored(c, entries[k + 1]) ELSE c = 0
FirstIs(place, h, d) ==
  \/ place = 0 /\ \A k \in 1..d : Hash[entries[k]] # h
  \/ \E k \in 1..d : /\ Stored(place, entries[k]) /\ Hash[entries[k]] = h
                     /\ \A j \in 1..(k - 1) : Hash[entries[j]] # h
LastIs(place, h, d) ==
  \/ place = 0 /\ \A k \in 1..d : Hash[entries[k]] # h
  \/ \E k \in 1..d : /\ Stored(place, entries[k]) /\ Hash[entries[k]] = h
                     /\ \A j \in (k + 1)..d : Hash[entries[j]] # h

Chains(d) ==
  /\ Len(wordhashdata) = Len(wordFile)
  /\ \A k \in 1..Len(entries) : \A i :
       Stored(i, entries[k]) => Links(wordhashdata[i].chain, k, d)
  /\ \A h \in Entries : FirstIs(hashoffsets[h], h, d)

(* How many entries the loop has passed.                                   *)
PassedBy == Len(entries) - Len(todo)
RestTodo ==
  /\ PassedBy \in 0..Len(entries)
  /\ \A j \in 1..Len(todo) : todo[j] = entries[PassedBy + j]

DataOf(d) ==
  /\ Len(dataFile) = d
  /\ \A k \in 1..d : dataFile[k] = entries[k]

HashStage ==
  /\ RestTodo /\ Chains(PassedBy) /\ DataOf(0)
  /\ \A h \in Entries : LastIs(lasthashval[h], h, PassedBy)
DataStage ==
  /\ RestTodo /\ Chains(Len(entries)) /\ DataOf(PassedBy)
  /\ \A k \in 1..PassedBy : \A i : Stored(i, entries[k]) => wordhashdata[i].data = k
AllStage ==
  /\ DataOf(Len(entries))
  /\ \A k \in 1..Len(entries) : \A i :
       Stored(i, entries[k]) =>
         wordFile[i].data = k /\ Links(wordFile[i].chain, k, Len(entries))
  /\ \A h \in Entries : FirstIs(hashoffsets[h], h, Len(entries))

(* The words read are those from a up to b, and no other word before b,    *)
(* nor any behind it if the search has ended, begins with like.            *)
ReadUpTo(a, b) ==
  /\ a \in 1..(Len(wordFile) + 1) /\ b \in a..(Len(wordFile) + 1) /\ Len(read) = b - a
  /\ \A k \in 1..(b - a) : read[k] = wordFile[a + k - 1].data
  /\ \A i \in a..(b - 1) : IsPrefix(like, wordFile[i].word)
  /\ \A i \in 1..(a - 1) : ~IsPrefix(like, wordFile[i].word)
  /\ IF ended THEN \A i \in b..Len(wordFile) : ~IsPrefix(like, wordFile[i].word)
     ELSE a < b /\ nextwordoffset = b

NativeInv ==
  /\ NativeTypes /\ FileOrdered /\ OffsetsFirst
  /\ written = "words" => TodoOrdered
  /\ written # "words" => TableListed
  /\ written = "hash" => HashStage
  /\ written = "data" => DataStage
  /\ written = "all" => AllStage
  /\ like # <<>> => \E a, b \in Nat : ReadUpTo(a, b)

-----------------------------------------------------------------------------
LEMMA WordFacts ==
  ASSUME NEW w \in Words
  PROVE  /\ w \in Seq(Nat) /\ w # <<>> /\ w[1] \in Letters
         /\ Hash[w] \in Nat /\ Hash[w] \in Entries
BY WordsAssumption DEF Entries

LEMMA FileFields ==
  ASSUME NEW r \in FileWords
  PROVE  r.word \in Words /\ r.chain \in Nat /\ r.data \in Nat
BY DEF FileWords

LEMMA OnDiskIs ==
  ASSUME NEW w \in Words, NEW c \in Nat, NEW d \in Nat
  PROVE  /\ OnDisk(w, c, d) \in FileWords /\ OnDisk(w, c, d).word = w
         /\ OnDisk(w, c, d).chain = c /\ OnDisk(w, c, d).data = d
BY DEF OnDisk, FileWords

LEMMA PairFields ==
  ASSUME NEW r \in Pairs
  PROVE  r.chain \in Nat /\ r.data \in Nat
BY DEF Pairs

LEMMA InMemoryIs ==
  ASSUME NEW c \in Nat, NEW d \in Nat
  PROVE  /\ InMemory(c, d) \in Pairs
         /\ InMemory(c, d).chain = c /\ InMemory(c, d).data = d
BY DEF InMemory, Pairs

LEMMA FileWord ==
  ASSUME NativeTypes, NEW i \in 1..Len(wordFile)
  PROVE  /\ wordFile[i] \in FileWords /\ wordFile[i].word \in Words
         /\ wordFile[i].chain \in Nat /\ wordFile[i].data \in Nat
<1>1. wordFile[i] \in FileWords
  BY DEF NativeTypes
<1> QED
  BY <1>1, FileFields

(* A word is stored at one place only, which is its number.                *)
LEMMA StoredOnce ==
  ASSUME NativeTypes, FileOrdered, NEW i, NEW j, NEW w, Stored(i, w), Stored(j, w)
  PROVE  i = j
<1>1. i \in 1..Len(wordFile) /\ j \in 1..Len(wordFile) /\ i \in Nat /\ j \in Nat
      /\ wordFile[i].word = w /\ wordFile[j].word = w
  BY DEF Stored
<1>2. w \in Seq(Nat)
  BY <1>1, FileWord, WordFacts
<1>3. ~Less(w, w)
  BY <1>2, LessOneWay
<1>4. ~(i < j) /\ ~(j < i)
  BY <1>1, <1>3 DEF FileOrdered
<1> QED
  BY <1>1, <1>4

LEMMA NumberIs ==
  ASSUME NativeTypes, FileOrdered, NEW i, NEW w, Stored(i, w)
  PROVE  Number(w) = i
<1>1. DOMAIN wordFile = 1..Len(wordFile)
  BY DEF NativeTypes
<1>2. \E j \in DOMAIN wordFile : wordFile[j].word = w
  BY <1>1 DEF Stored
<1>3. Number(w) \in DOMAIN wordFile /\ wordFile[Number(w)].word = w
  BY <1>2 DEF Number
<1>4. Stored(Number(w), w)
  BY <1>1, <1>3 DEF Stored
<1> QED
  BY <1>4, StoredOnce

LEMMA NativeInitially == NativeInit => NativeInv
<1> SUFFICES ASSUME NativeInit PROVE NativeInv
  OBVIOUS
<1>1. PICK words \in SUBSET Words : IsFiniteSet(words) /\ todo \in Sorted(words)
  BY DEF NativeInit
<1> DEFINE n == Cardinality(words)
<1>2. n \in Nat
  BY <1>1, FS_CardinalityType
<1> HIDE DEF n
<1>3. todo \in [1..n -> Words] /\ Ascending(todo)
  BY <1>1 DEF Sorted, n
<1>4. todo \in Seq(Words) /\ Len(todo) = n /\ DOMAIN todo = 1..n
  BY <1>2, <1>3
<1>5. /\ written = "words" /\ entries = <<>> /\ wordFile = <<>> /\ dataFile = <<>>
      /\ wordhashdata = <<>> /\ like = <<>> /\ read = <<>> /\ ended = FALSE
  BY DEF NativeInit
<1>6. offsets = [l \in Letters |-> 0] /\ hashoffsets = [h \in Entries |-> 0]
      /\ lasthashval = hashoffsets
  BY DEF NativeInit
<1>7. NativeTypes
  <2>1. offsets \in [Letters -> Nat] /\ hashoffsets \in [Entries -> Nat]
        /\ lasthashval \in [Entries -> Nat]
    BY <1>6
  <2>2. <<>> \in Seq(Words) /\ <<>> \in Seq(FileWords) /\ <<>> \in Seq(Pairs) /\ <<>> \in Seq(Nat)
    OBVIOUS
  <2> QED
    BY <1>4, <1>5, <2>1, <2>2 DEF NativeTypes
<1>8. Len(wordFile) = 0
  BY <1>5
<1>9. FileOrdered /\ OffsetsFirst
  BY <1>6, <1>8 DEF FileOrdered, OffsetsFirst
<1>10. TodoOrdered
  <2>1. \A i, j \in 1..Len(todo) : i < j => Less(todo[i], todo[j])
    BY <1>3, <1>4 DEF Ascending
  <2> QED
    BY <1>5, <1>6, <1>8, <2>1 DEF TodoOrdered
<1> QED
  BY <1>5, <1>7, <1>9, <1>10 DEF NativeInv

-----------------------------------------------------------------------------
(***************************************************************************)
(* The words.                                                              *)
(***************************************************************************)
LEMMA TailIs ==
  ASSUME NEW X, NEW s \in Seq(X), s # <<>>
  PROVE  /\ Head(s) \in X /\ Head(s) = s[1] /\ Tail(s) \in Seq(X) /\ Len(s) \in Nat \ {0}
         /\ Len(Tail(s)) = Len(s) - 1
         /\ \A i \in 1..(Len(s) - 1) : Tail(s)[i] = s[i + 1]
OBVIOUS

LEMMA WriteWordKeeps == ASSUME NativeInv, WriteWord PROVE NativeInv'
<1> DEFINE w == Head(todo)
           n == Len(wordFile)
           r == OnDisk(w, 0, 0)
<1>1. /\ written = "words" /\ todo # <<>> /\ wordFile' = Append(wordFile, r)
      /\ offsets' = FirstAt(offsets, w[1], n + 1) /\ todo' = Tail(todo)
      /\ UNCHANGED <<written, entries, dataFile, hashoffsets, lasthashval, wordhashdata,
                     like, read, ended>>
  BY DEF WriteWord, readVars
<1>2. NativeTypes /\ FileOrdered /\ OffsetsFirst /\ TodoOrdered /\ like = <<>>
  BY <1>1 DEF NativeInv, NativeTypes
<1>3. /\ w \in Words /\ w = todo[1] /\ todo' \in Seq(Words) /\ Len(todo) \in Nat \ {0}
      /\ Len(todo') = Len(todo) - 1 /\ \A i \in 1..(Len(todo) - 1) : todo'[i] = todo[i + 1]
  BY <1>1, <1>2, TailIs DEF NativeTypes
<1> HIDE DEF w
<1>4. r \in FileWords /\ r.word = w
  BY <1>3, OnDiskIs
<1> HIDE DEF r
<1>5. /\ wordFile' \in Seq(FileWords) /\ Len(wordFile') = n + 1 /\ wordFile'[n + 1] = r
      /\ \A i \in 1..n : wordFile'[i] = wordFile[i]
  BY <1>1, <1>2, <1>4, OneMore DEF NativeTypes
<1>6. w[1] \in Letters /\ n \in Nat
  BY <1>2, <1>3, WordFacts DEF NativeTypes
<1> HIDE DEF n
<1>7. /\ offsets' \in [Letters -> Nat]
      /\ \A l \in Letters : offsets'[l] = IF l = w[1] /\ offsets[l] = 0 THEN n + 1 ELSE offsets[l]
  <2>1. offsets \in [Letters -> Nat]
    BY <1>2 DEF NativeTypes
  <2> QED
    BY <1>1, <1>6, <2>1 DEF FirstAt
<1>8. NativeTypes'
  BY <1>1, <1>2, <1>3, <1>5, <1>7 DEF NativeTypes
<1>9. \A i \in 1..(n + 1) : i \in 1..n \/ i = n + 1
  BY <1>6
<1>10. \A i \in 1..n : Less(wordFile[i].word, w)
  <2>1. 1 \in 1..Len(todo)
    BY <1>3
  <2> QED
    BY <1>2, <1>3, <2>1 DEF TodoOrdered, n
<1>11. FileOrdered'
  <2>1. ASSUME NEW i \in 1..(n + 1), NEW j \in 1..(n + 1), i < j
        PROVE  Less(wordFile'[i].word, wordFile'[j].word)
    <3>1. i \in 1..n
      BY <1>6, <2>1
    <3>2. CASE j \in 1..n
      BY <1>2, <1>5, <2>1, <3>1, <3>2 DEF FileOrdered, n
    <3>3. CASE j = n + 1
      BY <1>4, <1>5, <1>10, <3>1, <3>3
    <3> QED
      BY <1>9, <3>2, <3>3
  <2> QED
    BY <1>5, <2>1 DEF FileOrdered
<1>12. OffsetsFirst'
  <2>1. ASSUME NEW l \in Letters, offsets'[l] = 0, NEW i \in 1..(n + 1)
        PROVE  wordFile'[i].word[1] # l
    <3>1. offsets[l] = 0 /\ l # w[1]
      BY <1>6, <1>7, <2>1
    <3>2. CASE i \in 1..n
      BY <1>2, <1>5, <3>1, <3>2 DEF OffsetsFirst, n
    <3>3. CASE i = n + 1
      BY <1>4, <1>5, <3>1, <3>3
    <3> QED
      BY <1>9, <3>2, <3>3
  <2>2. ASSUME NEW l \in Letters, offsets'[l] # 0
        PROVE  /\ offsets'[l] \in 1..(n + 1)
               /\ \A i \in 1..(n + 1) : wordFile'[i].word[1] = l => offsets'[l] <= i
    <3>1. CASE offsets[l] = 0
      <4>1. offsets'[l] = n + 1 /\ \A i \in 1..n : wordFile[i].word[1] # l
        BY <1>2, <1>7, <2>2, <3>1 DEF OffsetsFirst, n
      <4> QED
        BY <1>5, <1>6, <1>9, <4>1
    <3>2. CASE offsets[l] # 0
      <4>1. /\ offsets'[l] = offsets[l] /\ offsets[l] \in 1..n
            /\ \A i \in 1..n : wordFile[i].word[1] = l => offsets[l] <= i
        BY <1>2, <1>7, <3>2 DEF OffsetsFirst, n
      <4>2. offsets[l] \in 1..(n + 1) /\ offsets[l] <= n + 1
        BY <1>6, <4>1
      <4> QED
        BY <1>5, <1>9, <4>1, <4>2
    <3> QED
      BY <3>1, <3>2
  <2> QED
    BY <1>5, <2>1, <2>2 DEF OffsetsFirst
<1>13. TodoOrdered'
  <2>1. ASSUME NEW i \in 1..Len(todo'), NEW j \in 1..Len(todo'), i < j
        PROVE  Less(todo'[i], todo'[j])
    <3>1. i + 1 \in 1..Len(todo) /\ j + 1 \in 1..Len(todo) /\ i + 1 < j + 1
          /\ i \in 1..(Len(todo) - 1) /\ j \in 1..(Len(todo) - 1)
      BY <1>3, <2>1
    <3> QED
      BY <1>2, <1>3, <3>1 DEF TodoOrdered
  <2>2. ASSUME NEW i \in 1..(n + 1), NEW j \in 1..Len(todo')
        PROVE  Less(wordFile'[i].word, todo'[j])
    <3>1. j + 1 \in 1..Len(todo) /\ j \in 1..(Len(todo) - 1) /\ 1 \in 1..Len(todo) /\ 1 < j + 1
      BY <1>3
    <3>2. CASE i \in 1..n
      BY <1>2, <1>3, <1>5, <3>1, <3>2 DEF TodoOrdered, n
    <3>3. CASE i = n + 1
      <4>1. Less(todo[1], todo[j + 1])
        BY <1>2, <3>1 DEF TodoOrdered
      <4> QED
        BY <1>3, <1>4, <1>5, <3>1, <3>3, <4>1
    <3> QED
      BY <1>9, <3>2, <3>3
  <2> QED
    BY <1>1, <1>2, <1>5, <2>1, <2>2 DEF TodoOrdered
<1> QED
  BY <1>1, <1>2, <1>8, <1>11, <1>12, <1>13 DEF NativeInv

LEMMA WordsWrittenKeeps == ASSUME NativeInv, WordsWritten PROVE NativeInv'
<1> DEFINE n == Len(wordFile)
<1>1. /\ written = "words" /\ entries' \in InTable /\ todo' = entries' /\ written' = "hash"
      /\ wordhashdata' = [i \in DOMAIN wordFile |-> InMemory(0, 0)]
      /\ UNCHANGED <<wordFile, dataFile, offsets, hashoffsets, lasthashval, like, read, ended>>
  BY DEF WordsWritten, readVars
<1>2. NativeTypes /\ FileOrdered /\ OffsetsFirst /\ TodoOrdered /\ like = <<>>
  BY <1>1 DEF NativeInv, NativeTypes
<1>3. n \in Nat /\ DOMAIN wordFile = 1..n
  BY <1>2 DEF NativeTypes
<1> HIDE DEF n
<1>4. /\ entries' \in [1..n -> Indexed]
      /\ \A j, k \in 1..n : entries'[j] = entries'[k] => j = k
      /\ \A w \in Indexed : \E k \in 1..n : entries'[k] = w
      /\ \A j, k \in 1..n : j < k => Hash[entries'[j]] <= Hash[entries'[k]]
  <2>1. entries' \in Bijection(1..n, Indexed)
        /\ \A j, k \in DOMAIN entries' : j < k => Hash[entries'[j]] <= Hash[entries'[k]]
    BY <1>1, <1>3 DEF InTable
  <2>2. entries' \in [1..n -> Indexed] /\ IsInjective(entries')
        /\ \A w \in Indexed : \E k \in 1..n : entries'[k] = w
    BY <2>1 DEF Bijection, Injection, Surjection
  <2> QED
    BY <2>1, <2>2 DEF IsInjective
<1>5. /\ Indexed \subseteq Words
      /\ \A i \in 1..n : wordFile[i].word \in Indexed
      /\ \A w \in Indexed : \E i \in 1..n : wordFile[i].word = w
  BY <1>2, <1>3, FileWord DEF Indexed, n
<1>6. entries' \in Seq(Words) /\ Len(entries') = n
  <2>1. entries' \in [1..n -> Words]
    BY <1>4, <1>5
  <2> QED
    BY <1>3, <2>1
<1>7. wordhashdata' \in Seq(Pairs) /\ Len(wordhashdata') = n
      /\ \A i \in 1..n : wordhashdata'[i].chain = 0
  <2> DEFINE pair == InMemory(0, 0)
             f == [i \in 1..n |-> pair]
  <2>1. pair \in Pairs /\ pair.chain = 0
    BY InMemoryIs
  <2> HIDE DEF pair
  <2>2. f \in [1..n -> Pairs] /\ \A i \in 1..n : f[i] = pair
    BY <2>1
  <2>3. wordhashdata' = f
    BY <1>1, <1>3 DEF pair
  <2> HIDE DEF f
  <2>4. f \in Seq(Pairs) /\ Len(f) = n
    BY <1>3, <2>2
  <2> QED
    BY <2>1, <2>2, <2>3, <2>4
<1>8. NativeTypes'
  BY <1>1, <1>2, <1>6, <1>7 DEF NativeTypes
<1>9. FileOrdered' /\ OffsetsFirst'
  BY <1>1, <1>2 DEF FileOrdered, OffsetsFirst
<1>10. TableListed'
  <2>1. ASSUME NEW k \in 1..n PROVE \E i : Stored(i, entries[k])'
    <3>1. entries'[k] \in Indexed
      BY <1>4
    <3>2. PICK i \in 1..n : wordFile[i].word = entries'[k]
      BY <1>5, <3>1
    <3> QED
      BY <1>1, <3>2 DEF Stored, n
  <2>2. \A i \in 1..n : \E k \in 1..n : entries'[k] = wordFile[i].word
    BY <1>4, <1>5
  <2> QED
    BY <1>1, <1>4, <1>6, <2>1, <2>2 DEF TableListed, n
<1>11. PassedBy' = 0 /\ RestTodo'
  BY <1>1, <1>3, <1>6 DEF PassedBy, RestTodo
<1>12. Chains(0)'
  <2>1. \A k \in 1..Len(entries') : \A c :
          Stored(c, entries[k])' => Links(wordhashdata[c].chain, k, 0)'
    BY <1>1, <1>3, <1>6, <1>7 DEF Stored, Links, n
  <2>2. \A h \in Entries : FirstIs(hashoffsets[h], h, 0)'
    BY <1>1, <1>2 DEF TodoOrdered, FirstIs
  <2> QED
    BY <1>1, <1>7, <2>1, <2>2 DEF Chains, n
<1>13. DataOf(0)'
  BY <1>1, <1>2 DEF DataOf, TodoOrdered
<1>14. \A h \in Entries : LastIs(lasthashval[h], h, 0)'
  BY <1>1, <1>2 DEF TodoOrdered, LastIs
<1>15. HashStage'
  BY <1>11, <1>12, <1>13, <1>14 DEF HashStage
<1> QED
  BY <1>1, <1>2, <1>8, <1>9, <1>10, <1>15 DEF NativeInv

-----------------------------------------------------------------------------
(***************************************************************************)
(* The hash table and the data.                                            *)
(***************************************************************************)

(* The loop over the entries takes the next one.                           *)
LEMMA NextEntry ==
  ASSUME NativeTypes, FileOrdered, TableListed, RestTodo, todo # <<>>, todo' = Tail(todo),
         entries' = entries
  PROVE  /\ PassedBy \in Nat /\ PassedBy + 1 \in 1..Len(entries) /\ PassedBy' = PassedBy + 1
         /\ Head(todo) = entries[PassedBy + 1] /\ Head(todo) \in Words
         /\ Number(Head(todo)) \in 1..Len(wordFile)
         /\ Stored(Number(Head(todo)), entries[PassedBy + 1])
         /\ todo' \in Seq(Words) /\ RestTodo'
<1> DEFINE d == PassedBy
<1>1. /\ Head(todo) = todo[1] /\ Head(todo) \in Words /\ todo' \in Seq(Words)
      /\ Len(todo) \in Nat \ {0} /\ Len(todo') = Len(todo) - 1
      /\ \A j \in 1..(Len(todo) - 1) : todo'[j] = todo[j + 1]
  BY TailIs DEF NativeTypes
<1>2. d \in 0..Len(entries) /\ Len(entries) \in Nat /\ d = Len(entries) - Len(todo)
      /\ \A j \in 1..Len(todo) : todo[j] = entries[d + j]
  BY DEF RestTodo, NativeTypes, PassedBy
<1>3. d' = Len(entries) - Len(todo')
  BY DEF PassedBy
<1> HIDE DEF d
<1>4. d \in Nat /\ d + 1 \in 1..Len(entries) /\ d' = d + 1 /\ 1 \in 1..Len(todo)
      /\ d' \in 0..Len(entries)
  BY <1>1, <1>2, <1>3
<1>5. Head(todo) = entries[d + 1]
  BY <1>1, <1>2, <1>4
<1>6. PICK i : Stored(i, entries[d + 1])
  BY <1>4 DEF TableListed
<1>7. Number(Head(todo)) = i
  BY <1>5, <1>6, NumberIs
<1>8. \A j \in 1..Len(todo') : todo'[j] = entries[d' + j]
  <2>1. ASSUME NEW j \in 1..Len(todo') PROVE todo'[j] = entries[d' + j]
    <3>1. j \in 1..(Len(todo) - 1) /\ j + 1 \in 1..Len(todo) /\ d + (j + 1) = d' + j
      BY <1>1, <1>4
    <3> QED
      BY <1>1, <1>2, <3>1
  <2> QED
    BY <2>1
<1>9. RestTodo'
  BY <1>4, <1>8 DEF RestTodo, d
<1> QED
  BY <1>1, <1>4, <1>5, <1>6, <1>7, <1>9 DEF Stored, d

LEMMA EntryFacts ==
  ASSUME NativeTypes, NEW k \in 1..Len(entries)
  PROVE  entries[k] \in Words /\ Hash[entries[k]] \in Nat /\ Hash[entries[k]] \in Entries
<1>1. entries[k] \in Words
  BY DEF NativeTypes
<1> QED
  BY <1>1, WordFacts

LEMMA WriteWordHashKeeps == ASSUME NativeInv, WriteWordHash PROVE NativeInv'
<1> DEFINE w == Head(todo)
           id == Number(w)
           h == Hash[w]
           d == PassedBy
           c == lasthashval[h]
<1>1. /\ written = "hash" /\ todo # <<>> /\ todo' = Tail(todo)
      /\ wordhashdata' = Chained(id, h) /\ hashoffsets' = FirstAt(hashoffsets, h, id)
      /\ lasthashval' = [lasthashval EXCEPT ![h] = id]
      /\ UNCHANGED <<written, entries, wordFile, dataFile, offsets, like, read, ended>>
  BY DEF WriteWordHash, readVars
<1>2. NativeTypes /\ FileOrdered /\ OffsetsFirst /\ TableListed /\ HashStage /\ like = <<>>
  BY <1>1 DEF NativeInv, NativeTypes
<1>3. /\ RestTodo /\ Chains(d) /\ DataOf(0) /\ \A g \in Entries : LastIs(lasthashval[g], g, d)
  BY <1>2 DEF HashStage
<1>4. /\ d \in Nat /\ d + 1 \in 1..Len(entries) /\ d' = d + 1 /\ w = entries[d + 1]
      /\ id \in 1..Len(wordFile) /\ Stored(id, entries[d + 1])
      /\ todo' \in Seq(Words) /\ RestTodo'
  BY <1>1, <1>2, <1>3, NextEntry
<1>5. h = Hash[entries[d + 1]] /\ h \in Entries /\ h \in Nat
  BY <1>2, <1>4, EntryFacts
<1>5a. Len(entries) \in Nat /\ Len(wordFile) \in Nat /\ Len(wordhashdata) = Len(wordFile)
       /\ id \in Nat
  BY <1>2, <1>3, <1>4 DEF NativeTypes, Chains
<1> HIDE DEF w, id, h, d, c
<1>6. \A g \in Entries : hashoffsets'[g] = IF g = h /\ hashoffsets[g] = 0 THEN id ELSE hashoffsets[g]
  <2>1. hashoffsets \in [Entries -> Nat]
    BY <1>2 DEF NativeTypes
  <2> QED
    BY <1>1, <1>5, <2>1 DEF FirstAt
<1>7. \A g \in Entries : lasthashval'[g] = IF g = h THEN id ELSE lasthashval[g]
  <2>1. lasthashval \in [Entries -> Nat]
    BY <1>2 DEF NativeTypes
  <2> QED
    BY <1>1, <1>5, <2>1
<1>8. hashoffsets' \in [Entries -> Nat] /\ lasthashval' \in [Entries -> Nat]
  <2>1. lasthashval \in [Entries -> Nat] /\ hashoffsets \in [Entries -> Nat]
    BY <1>2 DEF NativeTypes
  <2> QED
    BY <1>1, <1>5, <1>5a, <2>1 DEF FirstAt
<1>9. \A k \in 1..(d + 1) : k \in 1..d \/ k = d + 1
  BY <1>4
<1>10. \A k \in 1..d : k \in 1..(d + 1) /\ k \in 1..Len(entries)
  BY <1>4, <1>5a
(* An entry of the hash that was chained is the one before.                *)
<1>11. ASSUME NEW k \in 1..d, Hash[entries[k]] = h
       PROVE  Hash[entries[d]] = h /\ d \in 1..d
  <2>1. d \in 1..d /\ d \in 1..Len(entries) /\ d < d + 1 /\ k \in 1..Len(entries)
    BY <1>4, <1>5a
  <2>2. Hash[entries[d]] <= h
    BY <1>2, <1>4, <1>5, <2>1 DEF TableListed
  <2>3. k = d \/ k < d
    BY <1>4
  <2>4. h <= Hash[entries[d]]
    <3>1. CASE k = d
      BY <1>5, <1>11, <3>1
    <3>2. CASE k < d
      BY <1>2, <1>11, <2>1, <3>2 DEF TableListed
    <3> QED
      BY <2>3, <3>1, <3>2
  <2>5. Hash[entries[d]] \in Nat
    BY <1>2, <2>1, EntryFacts
  <2> QED
    BY <1>5, <2>1, <2>2, <2>4, <2>5
<1>12. /\ wordhashdata' \in Seq(Pairs) /\ Len(wordhashdata') = Len(wordFile)
       /\ \A k \in 1..Len(entries) : \A i :
            Stored(i, entries[k]) => Links(wordhashdata'[i].chain, k, d + 1)
  <2>0. LastIs(c, h, d)
    BY <1>3, <1>5 DEF c
  <2>0a. ASSUME NEW k \in 1..Len(entries), NEW i, Stored(i, entries[k])
         PROVE  Links(wordhashdata[i].chain, k, d)
    BY <1>3, <2>0a DEF Chains
  <2>1. CASE \A k \in 1..d : Hash[entries[k]] # h
    <3>1. c = 0
      BY <2>0, <2>1 DEF LastIs
    <3>2. wordhashdata' = wordhashdata
      BY <1>1, <3>1 DEF Chained, c
    <3>3. ASSUME NEW k \in 1..Len(entries), NEW i, Stored(i, entries[k])
          PROVE  Links(wordhashdata[i].chain, k, d + 1)
      <4>1. Links(wordhashdata[i].chain, k, d)
        BY <2>0a, <3>3
      <4>2. CASE k < d \/ k > d
        <5>1. k < d + 1 <=> k < d
          BY <1>4, <1>5a, <4>2
        <5> QED
          BY <4>1, <5>1 DEF Links
      <4>3. CASE k = d
        <5>1. d \in 1..d /\ ~(d < d) /\ d < d + 1
          BY <1>4, <1>5a, <4>3
        <5>2. Hash[entries[d]] # h
          BY <2>1, <5>1
        <5> QED
          BY <1>5, <4>1, <4>3, <5>1, <5>2 DEF Links
      <4> QED
        BY <1>4, <1>5a, <4>2, <4>3
    <3>4. wordhashdata \in Seq(Pairs)
      BY <1>2 DEF NativeTypes
    <3> QED
      BY <1>5a, <3>2, <3>3, <3>4
  <2>2. CASE ~(\A k \in 1..d : Hash[entries[k]] # h)
    <3>1. PICK k0 \in 1..d : Stored(c, entries[k0]) /\ Hash[entries[k0]] = h
                           /\ \A j \in (k0 + 1)..d : Hash[entries[j]] # h
      BY <2>0, <2>2 DEF LastIs
    <3>2. Hash[entries[d]] = h /\ d \in 1..d
      BY <1>11, <3>1
    <3>3. k0 = d
      <4>1. d \notin (k0 + 1)..d
        BY <3>1, <3>2
      <4> QED
        BY <1>4, <4>1
    <3>4. c \in 1..Len(wordFile) /\ c \in Nat /\ c # 0 /\ Stored(c, entries[d])
      BY <1>5a, <3>1, <3>3 DEF Stored
    <3> DEFINE pair == InMemory(id, wordhashdata[c].data)
               t == [wordhashdata EXCEPT ![c] = pair]
    <3>5. wordhashdata' = t
      BY <1>1, <3>4 DEF Chained, c
    <3>6. pair \in Pairs /\ pair.chain = id
      <4>1. wordhashdata[c] \in Pairs
        BY <1>2, <1>5a, <3>4 DEF NativeTypes
      <4> QED
        BY <1>5a, <4>1, PairFields, InMemoryIs
    <3> HIDE DEF pair
    <3>7. /\ t \in Seq(Pairs) /\ Len(t) = Len(wordFile)
          /\ t[c] = pair /\ \A i \in 1..Len(wordFile) : i # c => t[i] = wordhashdata[i]
      <4> DEFINE n == Len(wordFile)
      <4>1. wordhashdata \in [1..n -> Pairs] /\ n \in Nat
        BY <1>2, <1>5a DEF NativeTypes
      <4> HIDE DEF n
      <4>2. c \in 1..n
        BY <3>4 DEF n
      <4>3. t \in [1..n -> Pairs] /\ t[c] = pair /\ \A i \in 1..n : i # c => t[i] = wordhashdata[i]
        BY <3>6, <4>1, <4>2
      <4> HIDE DEF t
      <4>4. t \in Seq(Pairs) /\ Len(t) = n
        BY <4>1, <4>3
      <4> QED
        BY <4>3, <4>4 DEF n
    <3> HIDE DEF t
    <3>8. ASSUME NEW k \in 1..Len(entries), NEW i, Stored(i, entries[k])
          PROVE  Links(t[i].chain, k, d + 1)
      <4>1. Links(wordhashdata[i].chain, k, d) /\ i \in 1..Len(wordFile)
        BY <2>0a, <3>8 DEF Stored
      <4>2. CASE k = d
        <5>1. i = c
          BY <1>2, <3>4, <3>8, <4>2, StoredOnce
        <5>2. t[i].chain = id /\ d < d + 1
          BY <1>4, <3>6, <3>7, <5>1
        <5> QED
          BY <1>4, <1>5, <3>2, <4>2, <5>2 DEF Links
      <4>3. CASE k # d
        <5>1. i # c
          <6>1. d \in 1..Len(entries)
            BY <1>10, <3>2
          <6> QED
            BY <1>2, <3>4, <3>8, <4>3, <6>1 DEF Stored, TableListed
        <5>2. t[i] = wordhashdata[i]
          BY <3>7, <4>1, <5>1
        <5>3. k < d + 1 <=> k < d
          BY <1>4, <1>5a, <4>3
        <5> QED
          BY <4>1, <5>2, <5>3 DEF Links
      <4> QED
        BY <4>2, <4>3
    <3> QED
      BY <3>5, <3>7, <3>8
  <2> QED
    BY <2>1, <2>2
<1>13. \A g \in Entries : FirstIs(hashoffsets'[g], g, d + 1)
  <2>1. ASSUME NEW g \in Entries PROVE FirstIs(hashoffsets'[g], g, d + 1)
    <3>0. FirstIs(hashoffsets[g], g, d)
      BY <1>3 DEF Chains
    <3>1. CASE \E k \in 1..d : /\ Stored(hashoffsets[g], entries[k]) /\ Hash[entries[k]] = g
                               /\ \A j \in 1..(k - 1) : Hash[entries[j]] # g
      <4>1. hashoffsets[g] # 0
        BY <1>5a, <3>1 DEF Stored
      <4> QED
        BY <1>6, <1>10, <3>1, <4>1 DEF FirstIs
    <3>2. CASE hashoffsets[g] = 0 /\ \A k \in 1..d : Hash[entries[k]] # g
      <4>1. CASE g = h
        <5>1. d + 1 \in 1..(d + 1) /\ (d + 1) - 1 = d
          BY <1>4
        <5>2. hashoffsets'[g] = id
          BY <1>6, <3>2, <4>1
        <5>3. /\ Stored(hashoffsets'[g], entries[d + 1]) /\ Hash[entries[d + 1]] = g
              /\ \A j \in 1..((d + 1) - 1) : Hash[entries[j]] # g
          BY <1>4, <1>5, <3>2, <4>1, <5>1, <5>2
        <5> QED
          BY <5>1, <5>3 DEF FirstIs
      <4>2. CASE g # h
        BY <1>5, <1>6, <1>9, <3>2, <4>2 DEF FirstIs
      <4> QED
        BY <4>1, <4>2
    <3> QED
      BY <3>0, <3>1, <3>2 DEF FirstIs
  <2> QED
    BY <2>1
<1>14. \A g \in Entries : LastIs(lasthashval'[g], g, d + 1)
  <2>1. ASSUME NEW g \in Entries PROVE LastIs(lasthashval'[g], g, d + 1)
    <3>1. CASE g = h
      <4>1. d + 1 \in 1..(d + 1) /\ \A j \in ((d + 1) + 1)..(d + 1) : FALSE
        BY <1>4
      <4> QED
        BY <1>4, <1>5, <1>7, <3>1, <4>1 DEF LastIs
    <3>2. CASE g # h
      <4>0. LastIs(lasthashval[g], g, d) /\ lasthashval'[g] = lasthashval[g]
        BY <1>3, <1>7, <3>2
      <4>1. CASE lasthashval[g] = 0 /\ \A k \in 1..d : Hash[entries[k]] # g
        BY <1>5, <1>9, <3>2, <4>0, <4>1 DEF LastIs
      <4>2. CASE \E k \in 1..d : /\ Stored(lasthashval[g], entries[k]) /\ Hash[entries[k]] = g
                                 /\ \A j \in (k + 1)..d : Hash[entries[j]] # g
        <5>1. PICK k \in 1..d : /\ Stored(lasthashval[g], entries[k]) /\ Hash[entries[k]] = g
                                /\ \A j \in (k + 1)..d : Hash[entries[j]] # g
          BY <4>2
        <5>2. \A j \in (k + 1)..(d + 1) : j \in (k + 1)..d \/ j = d + 1
          BY <1>4
        <5>3. \A j \in (k + 1)..(d + 1) : Hash[entries[j]] # g
          BY <1>5, <3>2, <5>1, <5>2
        <5>4. k \in 1..(d + 1)
          BY <1>10
        <5> QED
          BY <4>0, <5>1, <5>3, <5>4 DEF LastIs
      <4> QED
        BY <4>0, <4>1, <4>2 DEF LastIs
    <3> QED
      BY <3>1, <3>2
  <2> QED
    BY <2>1
<1>15. NativeTypes'
  BY <1>1, <1>2, <1>4, <1>8, <1>12 DEF NativeTypes
<1>16. FileOrdered' /\ OffsetsFirst' /\ TableListed'
  BY <1>1, <1>2 DEF FileOrdered, OffsetsFirst, TableListed, Stored
<1>16a. PassedBy' = d + 1
  BY <1>4 DEF d
<1>17. Chains(PassedBy)'
  BY <1>1, <1>12, <1>13, <1>16a DEF Chains, Links, FirstIs, Stored
<1>18. \A g \in Entries : LastIs(lasthashval[g], g, PassedBy)'
  BY <1>1, <1>14, <1>16a DEF LastIs, Stored
<1>19. HashStage'
  BY <1>1, <1>3, <1>4, <1>17, <1>18 DEF HashStage, DataOf
<1> QED
  BY <1>1, <1>2, <1>15, <1>16, <1>19 DEF NativeInv

LEMMA HashWrittenKeeps == ASSUME NativeInv, HashWritten PROVE NativeInv'
<1>1. /\ written = "hash" /\ todo = <<>> /\ todo' = entries /\ written' = "data"
      /\ UNCHANGED <<entries, wordFile, dataFile, offsets, hashoffsets, lasthashval,
                     wordhashdata, like, read, ended>>
  BY DEF HashWritten, readVars
<1>2. NativeTypes /\ FileOrdered /\ OffsetsFirst /\ TableListed /\ HashStage /\ like = <<>>
  BY <1>1 DEF NativeInv, NativeTypes
<1>3. Len(entries) \in Nat /\ entries \in Seq(Words)
  BY <1>2 DEF NativeTypes
<1>4. PassedBy = Len(entries) /\ PassedBy' = 0
  BY <1>1, <1>3 DEF PassedBy
<1>5. Chains(Len(entries)) /\ DataOf(0)
  BY <1>2, <1>4 DEF HashStage
<1>6. NativeTypes'
  BY <1>1, <1>2 DEF NativeTypes
<1>7. FileOrdered' /\ OffsetsFirst' /\ TableListed'
  BY <1>1, <1>2 DEF FileOrdered, OffsetsFirst, TableListed, Stored
<1>8. RestTodo'
  BY <1>1, <1>3, <1>4 DEF RestTodo
<1>9. Chains(Len(entries))'
  BY <1>1, <1>5 DEF Chains, Links, FirstIs, Stored
<1>10. DataOf(PassedBy)'
  BY <1>1, <1>4, <1>5 DEF DataOf
<1>11. DataStage'
  BY <1>4, <1>8, <1>9, <1>10 DEF DataStage
<1> QED
  BY <1>1, <1>2, <1>6, <1>7, <1>11 DEF NativeInv

LEMMA Replaced ==
  ASSUME NEW X, NEW s \in Seq(X), NEW c \in 1..Len(s), NEW x \in X
  PROVE  /\ [s EXCEPT ![c] = x] \in Seq(X) /\ Len([s EXCEPT ![c] = x]) = Len(s)
         /\ [s EXCEPT ![c] = x][c] = x
         /\ \A i \in 1..Len(s) : i # c => [s EXCEPT ![c] = x][i] = s[i]
<1> DEFINE n == Len(s)
           t == [s EXCEPT ![c] = x]
<1>1. s \in [1..n -> X] /\ n \in Nat /\ c \in 1..n
  OBVIOUS
<1> HIDE DEF n
<1>2. t \in [1..n -> X] /\ t[c] = x /\ \A i \in 1..n : i # c => t[i] = s[i]
  BY <1>1
<1> HIDE DEF t
<1>3. t \in Seq(X) /\ Len(t) = n
  BY <1>1, <1>2
<1> QED
  BY <1>2, <1>3 DEF n, t

LEMMA WriteWordDataKeeps == ASSUME NativeInv, WriteWordData PROVE NativeInv'
<1> DEFINE w == Head(todo)
           id == Number(w)
           d == PassedBy
           pair == InMemory(wordhashdata[id].chain, Len(dataFile) + 1)
           t == [wordhashdata EXCEPT ![id] = pair]
<1>1. /\ written = "data" /\ todo # <<>> /\ todo' = Tail(todo)
      /\ dataFile' = Append(dataFile, w) /\ wordhashdata' = t
      /\ UNCHANGED <<written, entries, wordFile, offsets, hashoffsets, lasthashval,
                     like, read, ended>>
  BY DEF WriteWordData, readVars
<1>2. NativeTypes /\ FileOrdered /\ OffsetsFirst /\ TableListed /\ DataStage /\ like = <<>>
  BY <1>1 DEF NativeInv, NativeTypes
<1>3. /\ RestTodo /\ Chains(Len(entries)) /\ DataOf(d)
      /\ \A k \in 1..d : \A i : Stored(i, entries[k]) => wordhashdata[i].data = k
  BY <1>2 DEF DataStage
<1>4. /\ d \in Nat /\ d + 1 \in 1..Len(entries) /\ PassedBy' = d + 1 /\ w = entries[d + 1]
      /\ w \in Words /\ id \in 1..Len(wordFile) /\ Stored(id, entries[d + 1])
      /\ todo' \in Seq(Words) /\ RestTodo'
  BY <1>1, <1>2, <1>3, NextEntry
<1> HIDE DEF w, id, d
<1>5. /\ wordhashdata \in Seq(Pairs) /\ Len(wordhashdata) = Len(wordFile)
      /\ dataFile \in Seq(Words) /\ Len(dataFile) = d /\ \A k \in 1..d : dataFile[k] = entries[k]
  BY <1>2, <1>3 DEF NativeTypes, Chains, DataOf
<1>6. pair \in Pairs /\ pair.chain = wordhashdata[id].chain /\ pair.data = d + 1
  <2>1. wordhashdata[id] \in Pairs /\ Len(dataFile) + 1 \in Nat /\ Len(dataFile) + 1 = d + 1
    BY <1>4, <1>5
  <2> QED
    BY <2>1, PairFields, InMemoryIs
<1> HIDE DEF pair
<1>7. /\ t \in Seq(Pairs) /\ Len(t) = Len(wordFile)
      /\ t[id] = pair /\ \A i \in 1..Len(wordFile) : i # id => t[i] = wordhashdata[i]
  <2>1. id \in 1..Len(wordhashdata)
    BY <1>4, <1>5
  <2> QED
    BY <1>5, <1>6, <2>1, Replaced
<1> HIDE DEF t
<1>8. \A i \in 1..Len(wordFile) : t[i].chain = wordhashdata[i].chain
  BY <1>6, <1>7
<1>9. /\ dataFile' \in Seq(Words) /\ Len(dataFile') = d + 1 /\ dataFile'[d + 1] = w
      /\ \A k \in 1..d : dataFile'[k] = dataFile[k]
  BY <1>1, <1>4, <1>5, OneMore
<1>10. \A k \in 1..(d + 1) : k \in 1..d \/ k = d + 1
  BY <1>4
<1>11. NativeTypes'
  BY <1>1, <1>2, <1>4, <1>7, <1>9 DEF NativeTypes
<1>12. FileOrdered' /\ OffsetsFirst' /\ TableListed'
  BY <1>1, <1>2 DEF FileOrdered, OffsetsFirst, TableListed, Stored
<1>13. Chains(Len(entries))'
  <2>1. ASSUME NEW k \in 1..Len(entries), NEW i, Stored(i, entries[k])
        PROVE  Links(t[i].chain, k, Len(entries))
    <3>1. i \in 1..Len(wordFile)
      BY <2>1 DEF Stored
    <3>2. Links(wordhashdata[i].chain, k, Len(entries))
      BY <1>3, <2>1 DEF Chains
    <3> QED
      BY <1>8, <3>1, <3>2
  <2>2. \A h \in Entries : FirstIs(hashoffsets[h], h, Len(entries))
    BY <1>3 DEF Chains
  <2> QED
    BY <1>1, <1>7, <2>1, <2>2 DEF Chains, Links, FirstIs, Stored
<1>14. DataOf(PassedBy)'
  <2>1. ASSUME NEW k \in 1..(d + 1) PROVE dataFile'[k] = entries[k]
    BY <1>4, <1>5, <1>9, <1>10
  <2> QED
    BY <1>1, <1>4, <1>9, <2>1 DEF DataOf
<1>15. (\A k \in 1..PassedBy : \A i : Stored(i, entries[k]) => wordhashdata[i].data = k)'
  <2>1. ASSUME NEW k \in 1..(d + 1), NEW i, Stored(i, entries[k]) PROVE t[i].data = k
    <3>1. i \in 1..Len(wordFile)
      BY <2>1 DEF Stored
    <3>2. CASE k = d + 1
      <4>1. i = id
        BY <1>2, <1>4, <2>1, <3>2, StoredOnce
      <4> QED
        BY <1>6, <1>7, <3>2, <4>1
    <3>3. CASE k \in 1..d
      <4>1. k # d + 1 /\ k \in 1..Len(entries)
        BY <1>4, <3>3
      <4>2. entries[k] # entries[d + 1]
        BY <1>2, <1>4, <4>1 DEF TableListed
      <4>3. i # id
        BY <1>4, <2>1, <4>2 DEF Stored
      <4> QED
        BY <1>3, <1>7, <2>1, <3>1, <3>3, <4>3
    <3> QED
      BY <1>10, <3>2, <3>3
  <2> QED
    BY <1>1, <1>4, <2>1 DEF Stored
<1>16. DataStage'
  BY <1>4, <1>13, <1>14, <1>15 DEF DataStage
<1> QED
  BY <1>1, <1>2, <1>11, <1>12, <1>16 DEF NativeInv

LEMMA EndWriteWordsKeeps == ASSUME NativeInv, EndWriteWords PROVE NativeInv'
<1> DEFINE n == Len(wordFile)
           f == [i \in DOMAIN wordFile |->
                   OnDisk(wordFile[i].word, wordhashdata[i].chain, wordhashdata[i].data)]
<1>1. /\ written = "data" /\ todo = <<>> /\ wordFile' = f /\ written' = "all"
      /\ UNCHANGED <<todo, entries, dataFile, offsets, hashoffsets, lasthashval, wordhashdata,
                     like, read, ended>>
  BY DEF EndWriteWords, readVars
<1>2. NativeTypes /\ FileOrdered /\ OffsetsFirst /\ TableListed /\ DataStage /\ like = <<>>
  BY <1>1 DEF NativeInv, NativeTypes
<1>3. n \in Nat /\ DOMAIN wordFile = 1..n /\ Len(entries) \in Nat /\ PassedBy = Len(entries)
  BY <1>1, <1>2 DEF NativeTypes, PassedBy
<1>4. /\ Chains(Len(entries)) /\ DataOf(Len(entries))
      /\ \A k \in 1..Len(entries) : \A i : Stored(i, entries[k]) => wordhashdata[i].data = k
  BY <1>2, <1>3 DEF DataStage
<1>5. wordhashdata \in Seq(Pairs) /\ Len(wordhashdata) = n
  BY <1>2, <1>4 DEF NativeTypes, Chains
<1>6. \A i \in 1..n : /\ f[i] \in FileWords /\ f[i].word = wordFile[i].word
                      /\ f[i].chain = wordhashdata[i].chain /\ f[i].data = wordhashdata[i].data
  <2>1. ASSUME NEW i \in 1..n
        PROVE  /\ f[i] \in FileWords /\ f[i].word = wordFile[i].word
               /\ f[i].chain = wordhashdata[i].chain /\ f[i].data = wordhashdata[i].data
    <3>1. wordhashdata[i] \in Pairs
      BY <1>5
    <3>2. f[i] = OnDisk(wordFile[i].word, wordhashdata[i].chain, wordhashdata[i].data)
      BY <1>3
    <3> QED
      BY <1>2, <3>1, <3>2, FileWord, PairFields, OnDiskIs
  <2> QED
    BY <2>1
<1>7. f \in Seq(FileWords) /\ Len(f) = n
  <2>1. f = [i \in 1..n |-> f[i]]
    BY <1>3
  <2> HIDE DEF f
  <2>2. f \in [1..n -> FileWords]
    BY <1>6, <2>1
  <2> HIDE DEF n
  <2> QED
    BY <1>3, <2>2
<1> HIDE DEF f
<1>8. NativeTypes'
  BY <1>1, <1>2, <1>7 DEF NativeTypes
<1>9. FileOrdered' /\ OffsetsFirst'
  BY <1>1, <1>2, <1>6, <1>7 DEF FileOrdered, OffsetsFirst
<1>10. \A i, w : Stored(i, w)' <=> Stored(i, w)
  BY <1>1, <1>6, <1>7 DEF Stored
<1>11. TableListed'
  <2>1. \A k \in 1..Len(entries) : \E i : Stored(i, entries[k])'
    BY <1>1, <1>2, <1>10 DEF TableListed
  <2>2. \A i \in 1..n : \E k \in 1..Len(entries) : entries[k] = f[i].word
    BY <1>2, <1>6 DEF TableListed
  <2> QED
    BY <1>1, <1>2, <1>7, <2>1, <2>2 DEF TableListed
<1>12. AllStage'
  <2>1. ASSUME NEW k \in 1..Len(entries), NEW i, Stored(i, entries[k])
        PROVE  f[i].data = k /\ Links(f[i].chain, k, Len(entries))
    <3>1. i \in 1..n
      BY <2>1 DEF Stored
    <3>2. Links(wordhashdata[i].chain, k, Len(entries))
      BY <1>4, <2>1 DEF Chains
    <3> QED
      BY <1>4, <1>6, <2>1, <3>1, <3>2
  <2>2. \A h \in Entries : FirstIs(hashoffsets[h], h, Len(entries))
    BY <1>4 DEF Chains
  <2>3. DataOf(Len(entries))'
    BY <1>1, <1>4 DEF DataOf
  <2>4. (\A h \in Entries : FirstIs(hashoffsets[h], h, Len(entries)))'
    BY <1>1, <1>10, <2>2 DEF FirstIs
  <2>5. (\A k \in 1..Len(entries) : \A i :
           Stored(i, entries[k]) =>
             wordFile[i].data = k /\ Links(wordFile[i].chain, k, Len(entries)))'
    BY <1>1, <1>10, <2>1 DEF Links
  <2> QED
    BY <2>3, <2>4, <2>5 DEF AllStage
<1> QED
  BY <1>1, <1>2, <1>8, <1>9, <1>11, <1>12 DEF NativeInv

-----------------------------------------------------------------------------
(***************************************************************************)
(* The reader.                                                             *)
(***************************************************************************)

(* A reader leaves the index alone.                                        *)
LEMMA ReaderKeeps ==
  ASSUME NativeInv,
         UNCHANGED <<written, todo, entries, wordFile, dataFile, offsets, hashoffsets,
                     lasthashval, wordhashdata>>,
         like' \in Words \cup {<<>>}, read' \in Seq(Nat), ended' \in BOOLEAN,
         written # "all" => like' = <<>>,
         like' # <<>> => \E a, b \in Nat : ReadUpTo(a, b)'
  PROVE  NativeInv'
<1>1. NativeTypes /\ FileOrdered /\ OffsetsFirst
  BY DEF NativeInv
<1>2. NativeTypes'
  BY <1>1 DEF NativeTypes
<1>3. FileOrdered' /\ OffsetsFirst'
  BY <1>1 DEF FileOrdered, OffsetsFirst
<1>4. (written = "words" => TodoOrdered)'
  BY DEF NativeInv, TodoOrdered
<1>5. (written # "words" => TableListed)'
  BY DEF NativeInv, TableListed, Stored
<1>6. PassedBy' = PassedBy /\ (RestTodo => RestTodo') /\ \A d : DataOf(d) => DataOf(d)'
  BY DEF PassedBy, RestTodo, DataOf
<1>7. \A h, d, p : /\ FirstIs(p, h, d) => FirstIs(p, h, d)'
                   /\ LastIs(p, h, d) => LastIs(p, h, d)'
  BY DEF FirstIs, LastIs, Stored
<1>8. \A d : Chains(d) => Chains(d)'
  <2>1. ASSUME NEW d, Chains(d) PROVE Chains(d)'
    <3>1. (\A h \in Entries : FirstIs(hashoffsets[h], h, d))'
      BY <2>1 DEF Chains, FirstIs, Stored
    <3>2. (\A k \in 1..Len(entries) : \A i :
             Stored(i, entries[k]) => Links(wordhashdata[i].chain, k, d))'
      BY <2>1 DEF Chains, Links, Stored
    <3> QED
      BY <2>1, <3>1, <3>2 DEF Chains
  <2> QED
    BY <2>1
<1>9. (written = "hash" => HashStage)'
  <2>1. HashStage => HashStage'
    BY <1>6, <1>7, <1>8 DEF HashStage
  <2> QED
    BY <2>1 DEF NativeInv
<1>10. (written = "data" => DataStage)'
  <2>1. DataStage => DataStage'
    BY <1>6, <1>8 DEF DataStage, Stored
  <2> QED
    BY <2>1 DEF NativeInv
<1>11. (written = "all" => AllStage)'
  <2>1. AllStage => AllStage'
    BY <1>6, <1>7 DEF AllStage, Links, Stored
  <2> QED
    BY <2>1 DEF NativeInv
<1> QED
  BY <1>2, <1>3, <1>4, <1>5, <1>9, <1>10, <1>11 DEF NativeInv

LEMMA SameLetter ==
  ASSUME NEW p \in Words, NEW v \in Words, IsPrefix(p, v)
  PROVE  v[1] = p[1]
<1>1. p \in Seq(Nat) /\ p # <<>> /\ v \in Seq(Nat)
  BY WordFacts
<1>2. Len(p) \in Nat \ {0}
  BY <1>1
<1>3. 1 \in 1..Len(p)
  BY <1>2
<1> QED
  BY <1>1, <1>3, PrefixIs DEF Agree

LEMMA ReadFirstWordKeeps ==
  ASSUME NativeInv, NEW word \in Words, ReadFirstWord(word)
  PROVE  NativeInv'
<1> DEFINE n == Len(wordFile)
           o == offsets[word[1]]
           s == FirstStop(word)
           Starts(i) == IsPrefix(word, wordFile[i].word)
<1>1. /\ written = "all" /\ like' = word
      /\ UNCHANGED <<written, todo, entries, wordFile, dataFile, offsets, hashoffsets,
                     lasthashval, wordhashdata>>
  BY DEF ReadFirstWord
<1>2. NativeTypes /\ FileOrdered /\ OffsetsFirst /\ n \in Nat
  BY DEF NativeInv, NativeTypes
<1>3. /\ o = 0 => read' = <<>> /\ ended' = TRUE
      /\ o # 0 /\ Starts(s) => /\ read' = <<wordFile[s].data>> /\ nextwordoffset' = s + 1
                               /\ ended' = FALSE
      /\ o # 0 /\ ~Starts(s) => read' = <<>> /\ ended' = TRUE
  BY DEF ReadFirstWord
<1>4. word[1] \in Letters /\ word \in Seq(Nat)
  BY WordFacts
<1>5. \A i \in 1..n : wordFile[i].word \in Words /\ wordFile[i].word \in Seq(Nat)
  BY <1>2, FileWord, WordFacts
<1>6. \A i \in 1..n : Starts(i) => o # 0 /\ o <= i
  <2>1. ASSUME NEW i \in 1..n, Starts(i) PROVE o # 0 /\ o <= i
    <3>1. wordFile[i].word[1] = word[1]
      BY <1>5, <2>1, SameLetter
    <3> QED
      BY <1>2, <1>4, <3>1 DEF OffsetsFirst
  <2> QED
    BY <2>1
<1>7. o # 0 => /\ s \in o..n /\ s \in 1..n
               /\ Starts(s) \/ Beyond(word, wordFile[s].word) \/ s = n
               /\ \A i \in o..(s - 1) : ~Starts(i)
  <2>0. SUFFICES ASSUME o # 0
                 PROVE  /\ s \in o..n /\ s \in 1..n
                        /\ Starts(s) \/ Beyond(word, wordFile[s].word) \/ s = n
                        /\ \A i \in o..(s - 1) : ~Starts(i)
    OBVIOUS
  <2>1. o \in 1..n
    BY <1>2, <1>4, <2>0 DEF OffsetsFirst
  <2> DEFINE S == {i \in o..n : Starts(i) \/ Beyond(word, wordFile[i].word) \/ i + 1 = n + 1}
  <2>2. s = Min(S)
    BY DEF FirstStop, EndWordPos
  <2> HIDE DEF s, o, n, Starts
  <2>3. S \in SUBSET Nat /\ n \in S
    BY <1>2, <2>1
  <2>4. \A i : i \in S <=> i \in o..n /\ (Starts(i) \/ Beyond(word, wordFile[i].word) \/ i + 1 = n + 1)
    OBVIOUS
  <2> HIDE DEF S
  <2>5. s \in S /\ \A i \in S : s <= i
    BY <2>2, <2>3, LeastIs
  <2>6. s \in o..n /\ s \in 1..n
    BY <1>2, <2>1, <2>4, <2>5
  <2>7. Starts(s) \/ Beyond(word, wordFile[s].word) \/ s = n
    BY <1>2, <2>4, <2>5, <2>6
  <2>8. \A i \in o..(s - 1) : ~Starts(i)
    <3>1. ASSUME NEW i \in o..(s - 1), Starts(i) PROVE FALSE
      <4>1. i \in o..n /\ ~(s <= i)
        BY <1>2, <2>1, <2>6
      <4> QED
        BY <2>4, <2>5, <3>1, <4>1
    <3> QED
      BY <3>1
  <2> QED
    BY <2>6, <2>7, <2>8
<1> HIDE DEF s, o
<1>8. \A i \in 1..n : o \in Nat
  BY <1>2, <1>4 DEF NativeTypes, o
<1>9. CASE o = 0
  <2>1. \A i \in 1..n : ~Starts(i)
    BY <1>6, <1>9
  <2>2. ReadUpTo(1, 1)'
    <3>1. 1 \in 1..(n + 1) /\ 1 \in 1..(n + 1) /\ Len(<<>>) = 1 - 1
      BY <1>2
    <3> QED
      BY <1>1, <1>2, <1>3, <1>9, <2>1, <3>1 DEF ReadUpTo
  <2> QED
    BY <1>1, <1>3, <1>9, <2>2, ReaderKeeps
<1>10. CASE o # 0
  <2>1. PICK p \in Nat :
          /\ p = s /\ p \in o..n /\ p \in 1..n
          /\ Starts(p) \/ Beyond(word, wordFile[p].word) \/ p = n
          /\ \A i \in o..(p - 1) : ~Starts(i)
    BY <1>7, <1>10
  <2>2. \A i \in 1..(p - 1) : ~Starts(i)
    <3>1. ASSUME NEW i \in 1..(p - 1), Starts(i) PROVE FALSE
      <4>1. i \in 1..n
        BY <1>2, <2>1
      <4>2. o <= i /\ o \in Nat
        BY <1>6, <1>8, <3>1, <4>1
      <4>3. i \in o..(p - 1)
        BY <2>1, <4>2
      <4> QED
        BY <2>1, <3>1, <4>3
    <3> QED
      BY <3>1
  <2>3. CASE Starts(p)
    <3>1. wordFile[p].data \in Nat
      BY <1>2, <2>1, FileWord
    <3> DEFINE x == wordFile[p].data
    <3>2. read' = <<x>> /\ nextwordoffset' = p + 1 /\ ended' = FALSE
      BY <1>3, <1>10, <2>1, <2>3
    <3> HIDE DEF x
    <3>3. read' \in Seq(Nat) /\ Len(read') = 1 /\ read'[1] = x
      BY <3>1, <3>2 DEF x
    <3>4. /\ p \in 1..(n + 1) /\ p + 1 \in p..(n + 1) /\ (p + 1) - p = 1 /\ p < p + 1
          /\ p + 1 - 1 = p /\ \A i \in p..((p + 1) - 1) : i = p /\ \A k \in 1..1 : k = 1
      BY <1>2, <2>1
    <3>5. (\A k \in 1..((p + 1) - p) : read[k] = wordFile[p + k - 1].data)'
      <4>1. \A k \in 1..((p + 1) - p) : k = 1
        BY <2>1
      <4> QED
        BY <1>1, <3>3, <3>4, <4>1 DEF x
    <3>6. ReadUpTo(p, p + 1)'
      BY <1>1, <2>2, <2>3, <3>2, <3>3, <3>4, <3>5 DEF ReadUpTo
    <3>7. p + 1 \in Nat
      BY <2>1
    <3> QED
      BY <1>1, <2>1, <3>2, <3>3, <3>6, <3>7, ReaderKeeps
  <2>4. CASE ~Starts(p)
    <3>1. ASSUME NEW i \in p..n, Starts(i) PROVE FALSE
      <4>1. i \in 1..n
        BY <1>2, <2>1
      <4>2. i # p /\ p < i
        BY <2>1, <2>4, <3>1
      <4>3. Beyond(word, wordFile[p].word)
        BY <1>2, <2>1, <2>4, <4>2
      <4>4. Less(wordFile[p].word, wordFile[i].word)
        BY <1>2, <2>1, <4>1, <4>2 DEF FileOrdered
      <4> QED
        BY <1>4, <1>5, <2>1, <3>1, <4>1, <4>3, <4>4, NoneBeyond
    <3>2. p \in 1..(n + 1) /\ p \in p..(n + 1) /\ p - p = 0 /\ \A i \in p..(p - 1) : FALSE
      BY <1>2, <2>1
    <3>3. read' = <<>> /\ ended' = TRUE /\ Len(<<>>) = 0
      BY <1>3, <1>10, <2>1, <2>4
    <3>4. ReadUpTo(p, p)'
      BY <1>1, <2>2, <3>1, <3>2, <3>3 DEF ReadUpTo
    <3> QED
      BY <1>1, <2>1, <3>3, <3>4, ReaderKeeps
  <2> QED
    BY <2>3, <2>4
<1> QED
  BY <1>9, <1>10

LEMMA ReadNextWordKeeps == ASSUME NativeInv, ReadNextWord PROVE NativeInv'
<1> DEFINE n == Len(wordFile)
           Starts(i) == IsPrefix(like, wordFile[i].word)
<1>1. /\ written = "all" /\ like # <<>> /\ ~ended /\ like' = like
      /\ UNCHANGED <<written, todo, entries, wordFile, dataFile, offsets, hashoffsets,
                     lasthashval, wordhashdata>>
  BY DEF ReadNextWord
<1>2. /\ NativeTypes /\ FileOrdered /\ n \in Nat /\ like \in Words \cup {<<>>}
      /\ read \in Seq(Nat)
  BY DEF NativeInv, NativeTypes
<1>3. PICK a \in Nat, b \in Nat : ReadUpTo(a, b)
  BY <1>1 DEF NativeInv
<1>4. /\ a \in 1..(n + 1) /\ b \in a..(n + 1) /\ Len(read) = b - a
      /\ \A k \in 1..(b - a) : read[k] = wordFile[a + k - 1].data
      /\ \A i \in a..(b - 1) : Starts(i)
      /\ \A i \in 1..(a - 1) : ~Starts(i)
      /\ a < b /\ nextwordoffset = b
  BY <1>1, <1>3 DEF ReadUpTo
<1>5. b # 0 /\ NextPlace = b /\ EndWordPos = n + 1
  BY <1>4 DEF NextPlace, EndWordPos
<1>6. /\ b = n + 1 => ended' = TRUE /\ read' = read
      /\ b # n + 1 /\ Starts(b) => /\ read' = Append(read, wordFile[b].data)
                                   /\ nextwordoffset' = b + 1 /\ ended' = FALSE
      /\ b # n + 1 /\ ~Starts(b) => read' = read /\ ended' = TRUE
  BY <1>5 DEF ReadNextWord
<1>7. \A i \in 1..n : wordFile[i].word \in Words /\ wordFile[i].word \in Seq(Nat)
  BY <1>2, FileWord, WordFacts
<1>8. like \in Seq(Nat)
  BY <1>1, <1>2, WordFacts
<1> HIDE DEF Starts, n
<1>9. CASE b = n + 1 \/ ~Starts(b)
  <2>1. read' = read /\ ended' = TRUE
    BY <1>6, <1>9
  <2>2. ASSUME NEW i \in b..n, Starts(i) PROVE FALSE
    <3>1. b # n + 1 /\ b \in 1..n /\ i \in 1..n
      BY <1>2, <1>4
    <3>2. ~Starts(b) /\ i # b /\ b < i
      BY <1>4, <1>9, <2>2, <3>1
    <3>3. b - 1 \in a..(b - 1) /\ b - 1 \in 1..n /\ b - 1 < b
      BY <1>2, <1>4, <3>1
    <3>4. Starts(b - 1)
      BY <1>4, <3>3
    <3>5. Less(wordFile[b - 1].word, wordFile[b].word) /\ Less(wordFile[b].word, wordFile[i].word)
      BY <1>2, <3>1, <3>2, <3>3 DEF FileOrdered, n
    <3> QED
      BY <1>7, <1>8, <2>2, <3>1, <3>2, <3>3, <3>4, <3>5, PrefixedTogether DEF Starts
  <2>3. ReadUpTo(a, b)'
    BY <1>1, <1>3, <1>4, <2>1, <2>2 DEF ReadUpTo, Starts, n
  <2> QED
    BY <1>1, <1>2, <2>1, <2>3, ReaderKeeps
<1>10. CASE b # n + 1 /\ Starts(b)
  <2> DEFINE x == wordFile[b].data
  <2>1. read' = Append(read, x) /\ nextwordoffset' = b + 1 /\ ended' = FALSE
    BY <1>6, <1>10
  <2>2. /\ b \in 1..n /\ b + 1 \in a..(n + 1) /\ a < b + 1 /\ (b + 1) - a = (b - a) + 1
        /\ a + ((b - a) + 1) - 1 = b /\ b + 1 \in Nat
        /\ \A i \in a..((b + 1) - 1) : i \in a..(b - 1) \/ i = b
        /\ \A k \in 1..((b - a) + 1) : k \in 1..(b - a) \/ k = (b - a) + 1
    BY <1>2, <1>4, <1>10, SMTT(30)
  <2>3. x \in Nat
    BY <1>2, <2>2, FileWord DEF n
  <2> HIDE DEF x
  <2>4. /\ read' \in Seq(Nat) /\ Len(read') = (b - a) + 1 /\ read'[(b - a) + 1] = x
        /\ \A k \in 1..(b - a) : read'[k] = read[k]
    <3>1. /\ Append(read, x) \in Seq(Nat) /\ Len(Append(read, x)) = Len(read) + 1
          /\ Append(read, x)[Len(read) + 1] = x
          /\ \A k \in 1..Len(read) : Append(read, x)[k] = read[k]
      BY <1>2, <2>3, OneMore
    <3> QED
      BY <1>4, <2>1, <3>1
  <2>5. \A k \in 1..((b - a) + 1) : read'[k] = wordFile[a + k - 1].data
    BY <1>4, <2>2, <2>4 DEF x
  <2>6. \A i \in a..((b + 1) - 1) : Starts(i)
    BY <1>4, <1>10, <2>2
  <2>7. ReadUpTo(a, b + 1)'
    BY <1>1, <1>4, <2>1, <2>2, <2>4, <2>5, <2>6 DEF ReadUpTo, Starts, n
  <2> QED
    BY <1>1, <1>2, <2>1, <2>2, <2>4, <2>7, ReaderKeeps
<1> QED
  BY <1>9, <1>10

LEMMA NativeInvStep == NativeInv /\ [NativeNext]_nativeVars => NativeInv'
<1> SUFFICES ASSUME NativeInv, [NativeNext]_nativeVars PROVE NativeInv'
  OBVIOUS
<1>1. NativeTypes /\ (like # <<>> => \E a, b \in Nat : ReadUpTo(a, b))
  BY DEF NativeInv
<1>2. ASSUME UNCHANGED <<written, todo, entries, wordFile, dataFile, offsets, hashoffsets,
                         lasthashval, wordhashdata, nextwordoffset, like, read, ended>>
      PROVE  NativeInv'
  <2>1. \A a, b : ReadUpTo(a, b) => ReadUpTo(a, b)'
    BY <1>2 DEF ReadUpTo
  <2> QED
    BY <1>1, <1>2, <2>1, ReaderKeeps DEF NativeTypes
<1>3. CASE LookUp
  BY <1>2, <1>3 DEF LookUp
<1>4. CASE UNCHANGED nativeVars
  BY <1>2, <1>4 DEF nativeVars
<1> QED
  BY <1>3, <1>4, WriteWordKeeps, WordsWrittenKeeps, WriteWordHashKeeps, HashWrittenKeeps,
     WriteWordDataKeeps, EndWriteWordsKeeps, ReadFirstWordKeeps, ReadNextWordKeeps
  DEF NativeNext

-----------------------------------------------------------------------------
(***************************************************************************)
(* What is found.                                                          *)
(***************************************************************************)

(* g gives the places a chain is followed through.                         *)
FollowedBy(g, w, N) ==
  /\ g \in [0..N -> 0..N] /\ g[0] = hashoffsets[Hash[w]] /\ EndOfChain(w) = g[N]
  /\ \A n \in 1..N : g[n] = Followed(w, g[n - 1])

LEMMA EndOfChainIs ==
  ASSUME NEW w, NEW N \in Nat, N = Len(wordFile), hashoffsets[Hash[w]] \in 0..N,
         \A s \in 0..N : Followed(w, s) \in 0..N
  PROVE  \E g : FollowedBy(g, w, N)
<1> DEFINE T == 0..N
           base == hashoffsets[Hash[w]]
           walk[n \in 0..Len(wordFile)] ==
             IF n = 0 THEN hashoffsets[Hash[w]] ELSE Followed(w, walk[n - 1])
           next == [i \in 1..N |-> [s \in T |-> Followed(w, s)]]
<1>0. EndOfChain(w) = walk[N]
  BY DEF EndOfChain
<1>1. next \in [1..N -> [T -> T]] /\ base \in T
  OBVIOUS
<1>2. PICK g : FoldOf(g, N, T, base, next)
  <2> HIDE DEF next, T, base
  <2> QED
    BY <1>1, FoldExists
<1>3. g \in [0..N -> T] /\ g[0] = base
  <2> HIDE DEF next, T, walk, base
  <2> QED
    BY <1>2 DEF FoldOf
<1>4. ASSUME NEW i \in 1..N PROVE g[i] = Followed(w, g[i - 1])
  <2>1. g[i] = next[i][g[i - 1]]
    <3> HIDE DEF next, T, walk, base
    <3> QED
      BY <1>2 DEF FoldOf
  <2>2. i - 1 \in 0..N
    OBVIOUS
  <2>3. g[i - 1] \in T
    <3> HIDE DEF T
    <3> QED
      BY <1>3, <2>2
  <2>4. next[i][g[i - 1]] = Followed(w, g[i - 1])
    <3> HIDE DEF T
    <3> QED
      BY <2>3
  <2> QED
    BY <2>1, <2>4
<1>5. g = [i \in 0..N |-> IF i = 0 THEN base ELSE Followed(w, g[i - 1])]
  <2> HIDE DEF T, next, walk, base
  <2> DEFINE h == [i \in 0..N |-> IF i = 0 THEN base ELSE Followed(w, g[i - 1])]
  <2>1. \A i \in 0..N : i = 0 \/ i \in 1..N
    OBVIOUS
  <2>2. \A i \in 0..N : g[i] = h[i]
    BY <1>3, <1>4, <2>1
  <2> QED
    BY <1>3, <2>2
<1>6. walk = [i \in 0..N |-> IF i = 0 THEN base ELSE Followed(w, walk[i - 1])]
  BY <1>5
<1>7. walk[0] = base /\ \A i \in 1..N : walk[i] = Followed(w, walk[i - 1])
  <2> HIDE DEF walk, base
  <2>1. \A i \in 0..N : walk[i] = IF i = 0 THEN base ELSE Followed(w, walk[i - 1])
    BY Zenon, <1>6
  <2>2. 0 \in 0..N /\ \A i \in 1..N : i \in 0..N /\ i # 0
    OBVIOUS
  <2> QED
    BY <2>1, <2>2
<1>8. DOMAIN walk = 0..N
  <2> HIDE DEF walk, base
  <2> DEFINE h == [i \in 0..N |-> IF i = 0 THEN base ELSE Followed(w, walk[i - 1])]
  <2>1. DOMAIN h = 0..N /\ walk = h
    BY Zenon, <1>6
  <2> QED
    BY <2>1
<1>9. \A n \in 0..N : walk[n] \in T
  <2> DEFINE S == {n \in 0..N : walk[n] \in T}
  <2> HIDE DEF walk, base
  <2>1. 0 \in S
    BY <1>1, <1>7
  <2>2. ASSUME NEW n \in 0..(N - 1), n \in S PROVE n + 1 \in S
    <3>1. n + 1 \in 1..N /\ (n + 1) - 1 = n /\ n + 1 \in 0..N
      OBVIOUS
    <3>2. walk[n + 1] = Followed(w, walk[n])
      BY <1>7, <3>1
    <3> QED
      BY <2>2, <3>1, <3>2
  <2>3. \A n \in 0..N : n \in S
    <3> HIDE DEF S
    <3> QED
      BY <2>1, <2>2, UpTo
  <2> QED
    BY <2>3
<1>10. walk \in [0..N -> 0..N]
  <2> DEFINE h == [i \in 0..N |-> IF i = 0 THEN base ELSE Followed(w, walk[i - 1])]
  <2> HIDE DEF walk, base
  <2>1. walk = h
    BY Zenon, <1>6
  <2>2. walk = [i \in 0..N |-> walk[i]]
    BY <1>8, <2>1
  <2> QED
    BY <1>9, <2>2
<1> HIDE DEF walk
<1> QED
  BY <1>0, <1>7, <1>10 DEF FollowedBy

(* The chain of a word in the file goes on within it.                      *)
LEMMA ChainStays ==
  ASSUME NativeTypes, TableListed, AllStage, NEW w,
         NEW N \in Nat, N = Len(wordFile), NEW s \in 0..N
  PROVE  Followed(w, s) \in 0..N
<1>1. CASE s = 0 \/ wordFile[s].word = w
  BY <1>1 DEF Followed
<1>2. CASE ~(s = 0 \/ wordFile[s].word = w)
  <2>1. s \in 1..N
    BY <1>2
  <2>2. PICK k \in 1..Len(entries) : entries[k] = wordFile[s].word
    BY <2>1 DEF TableListed
  <2>3. Stored(s, entries[k])
    BY <2>1, <2>2 DEF Stored
  <2>4. Links(wordFile[s].chain, k, Len(entries))
    BY <2>3 DEF AllStage
  <2>5. wordFile[s].chain \in 0..N
    BY <2>4 DEF Links, Stored
  <2> QED
    BY <1>2, <2>5 DEF Followed
<1> QED
  BY <1>1, <1>2

LEMMA FirstInFile ==
  ASSUME AllStage, NEW N \in Nat, N = Len(wordFile), NEW h \in Entries
  PROVE  hashoffsets[h] \in 0..N
<1>1. FirstIs(hashoffsets[h], h, Len(entries))
  BY DEF AllStage
<1> QED
  BY <1>1 DEF FirstIs, Stored

(* The chain of a word that was not indexed ends with nothing: the place   *)
(* reached in n steps is at least the n + 1st of the table.                *)
LEMMA ChainOfNone ==
  ASSUME NativeTypes, TableListed, AllStage, NEW w \in Words, \A i : ~Stored(i, w)
  PROVE  EndOfChain(w) = 0
<1>0. PICK N \in Nat : N = Len(wordFile)
  BY DEF NativeTypes
<1>1. Len(entries) = N /\ Hash[w] \in Entries
  BY <1>0, WordFacts DEF TableListed
<1>2. FirstIs(hashoffsets[Hash[w]], Hash[w], N)
  BY <1>1 DEF AllStage
<1>3. hashoffsets[Hash[w]] \in 0..N /\ \A s \in 0..N : Followed(w, s) \in 0..N
  BY <1>0, <1>1, FirstInFile, ChainStays
<1>4. \A k \in 1..N : \A i : Stored(i, entries[k]) => Links(wordFile[i].chain, k, N)
  BY <1>1 DEF AllStage
<1>5. \A k : \A i : Stored(i, entries[k]) => i \in 1..N /\ wordFile[i].word # w
  BY <1>0 DEF Stored
<1>5a. PICK g : FollowedBy(g, w, N)
  BY <1>0, <1>3, EndOfChainIs
<1>6. /\ g \in [0..N -> 0..N] /\ g[0] = hashoffsets[Hash[w]] /\ EndOfChain(w) = g[N]
      /\ \A n \in 1..N : g[n] = Followed(w, g[n - 1])
  BY <1>5a DEF FollowedBy
<1> DEFINE Good(n) == g[n] = 0 \/ \E k \in (n + 1)..N : Stored(g[n], entries[k])
           S == {n \in 0..N : Good(n)}
<1>7. 0 \in S
  BY <1>1, <1>2, <1>6 DEF FirstIs
<1>8. ASSUME NEW n \in 0..(N - 1), n \in S PROVE n + 1 \in S
  <2>1. n + 1 \in 1..N /\ (n + 1) - 1 = n /\ n + 1 \in 0..N /\ n \in 0..N /\ n \in Nat
    BY <1>1
  <2>2. g[n + 1] = Followed(w, g[n])
    BY <1>6, <2>1
  <2>3. CASE g[n] = 0
    BY <2>1, <2>2, <2>3 DEF Followed
  <2>4. CASE g[n] # 0
    <3>1. PICK k \in (n + 1)..N : Stored(g[n], entries[k])
      BY <1>8, <2>4
    <3>2. k \in 1..N
      BY <1>1, <2>1
    <3>3. g[n + 1] = wordFile[g[n]].chain
      BY <1>5, <2>2, <2>4, <3>1 DEF Followed
    <3>4. Links(g[n + 1], k, N)
      BY <1>4, <3>1, <3>2, <3>3
    <3>5. g[n + 1] = 0 \/ (k < N /\ Stored(g[n + 1], entries[k + 1]))
      BY <3>4 DEF Links, Stored
    <3>6. k < N => k + 1 \in ((n + 1) + 1)..N
      BY <1>1, <2>1
    <3> QED
      BY <2>1, <3>5, <3>6
  <2> QED
    BY <2>3, <2>4
<1>9. \A n \in 0..N : n \in S
  <2> HIDE DEF S
  <2> QED
    BY <1>1, <1>7, <1>8, UpTo
<1>10. N \in S /\ \A k \in (N + 1)..N : FALSE
  BY <1>1, <1>9
<1> QED
  BY <1>6, <1>10

(* The chain of an indexed word ends with it: its entry j is reached from  *)
(* the first of its hash, which is not behind it, one by one.              *)
LEMMA ChainOfWord ==
  ASSUME NativeTypes, TableListed, AllStage, NEW j \in 1..Len(entries)
  PROVE  Stored(EndOfChain(entries[j]), entries[j])
<1>0. PICK N \in Nat : N = Len(wordFile)
  BY DEF NativeTypes
<1>1. PICK w : w = entries[j]
  OBVIOUS
<1>2. /\ Len(entries) = N /\ j \in 1..N /\ j \in Nat /\ w \in Words
      /\ Hash[w] \in Entries /\ Hash[w] \in Nat
  BY <1>0, <1>1, EntryFacts DEF TableListed
<1>3. /\ FirstIs(hashoffsets[Hash[w]], Hash[w], N)
      /\ \A k \in 1..N : \A i : Stored(i, entries[k]) => Links(wordFile[i].chain, k, N)
  BY <1>2 DEF AllStage
<1>4. hashoffsets[Hash[w]] \in 0..N /\ \A s \in 0..N : Followed(w, s) \in 0..N
  BY <1>0, <1>2, FirstInFile, ChainStays
<1>5. PICK k0 \in 1..N : /\ Stored(hashoffsets[Hash[w]], entries[k0]) /\ Hash[entries[k0]] = Hash[w]
                         /\ \A k \in 1..(k0 - 1) : Hash[entries[k]] # Hash[w]
  BY <1>1, <1>2, <1>3 DEF FirstIs
<1>6. k0 <= j /\ k0 \in Nat
  <2>1. j \notin 1..(k0 - 1)
    BY <1>1, <1>5
  <2> QED
    BY <1>2, <2>1
<1>7. ASSUME NEW k \in k0..j PROVE k \in 1..N /\ Hash[entries[k]] = Hash[w]
  <2>1. k \in 1..N /\ (k0 = k \/ k0 < k) /\ (k = j \/ k < j)
    BY <1>2, <1>6
  <2>2. Hash[entries[k]] \in Nat
    BY <1>2, <2>1, EntryFacts
  <2>3. Hash[w] <= Hash[entries[k]]
    <3>1. CASE k0 = k
      BY <1>2, <1>5, <3>1
    <3>2. CASE k0 < k
      <4>1. Hash[entries[k0]] <= Hash[entries[k]]
        BY <1>2, <2>1, <3>2 DEF TableListed
      <4> QED
        BY <1>5, <4>1
    <3> QED
      BY <2>1, <3>1, <3>2
  <2>4. Hash[entries[k]] <= Hash[w]
    BY <1>1, <1>2, <2>1, <2>2 DEF TableListed
  <2> QED
    BY <1>2, <2>1, <2>2, <2>3, <2>4
<1>8. PICK g : FollowedBy(g, w, N)
  BY <1>0, <1>4, EndOfChainIs
<1>9. /\ g \in [0..N -> 0..N] /\ g[0] = hashoffsets[Hash[w]] /\ EndOfChain(w) = g[N]
      /\ \A n \in 1..N : g[n] = Followed(w, g[n - 1])
  BY <1>8 DEF FollowedBy
<1> DEFINE Good(n) == \E k \in k0..j : (k = k0 + n \/ (k = j /\ j < k0 + n)) /\ Stored(g[n], entries[k])
           S == {n \in 0..N : Good(n)}
<1>10. 0 \in S
  <2>1. k0 \in k0..j /\ k0 = k0 + 0
    BY <1>2, <1>6
  <2> QED
    BY <1>5, <1>9, <2>1, SMTT(30)
<1>11. ASSUME NEW n \in 0..(N - 1), n \in S PROVE n + 1 \in S
  <2>1. n + 1 \in 1..N /\ (n + 1) - 1 = n /\ n + 1 \in 0..N /\ n \in 0..N /\ n \in Nat
    OBVIOUS
  <2>2. g[n + 1] = Followed(w, g[n])
    BY <1>9, <2>1
  <2>3. PICK k \in k0..j : (k = k0 + n \/ (k = j /\ j < k0 + n)) /\ Stored(g[n], entries[k])
    BY <1>11
  <2>4. wordFile[g[n]].word = entries[k] /\ g[n] # 0 /\ k \in 1..N
    BY <1>0, <1>7, <2>3 DEF Stored
  <2>5. CASE k = j
    <3>1. g[n + 1] = g[n]
      BY <1>1, <2>2, <2>4, <2>5 DEF Followed
    <3>2. j < k0 + (n + 1)
      BY <1>2, <1>6, <2>1, <2>3, <2>5
    <3>3. Good(n + 1)
      BY <2>3, <2>5, <3>1, <3>2
    <3> QED
      BY <2>1, <3>3
  <2>6. CASE k # j
    <3>1. k < j /\ k = k0 + n /\ k + 1 \in k0..j /\ k + 1 = k0 + (n + 1) /\ k < N
      BY <1>2, <1>6, <2>1, <2>3, <2>6
    <3>2. entries[k] # w
      BY <1>1, <1>2, <2>4, <2>6 DEF TableListed
    <3>3. g[n + 1] = wordFile[g[n]].chain
      BY <2>2, <2>4, <3>2 DEF Followed
    <3>4. Links(g[n + 1], k, N)
      BY <1>3, <2>3, <2>4, <3>3
    <3>5. Hash[entries[k + 1]] = Hash[entries[k]]
      BY <1>7, <2>3, <3>1
    <3>6. Stored(g[n + 1], entries[k + 1])
      BY <3>1, <3>4, <3>5 DEF Links
    <3>7. Good(n + 1)
      BY <3>1, <3>6
    <3> QED
      BY <2>1, <3>7
  <2> QED
    BY <2>5, <2>6
<1>12. \A n \in 0..N : n \in S
  <2> HIDE DEF S
  <2> QED
    BY <1>10, <1>11, UpTo
<1>13. PICK k \in k0..j : (k = k0 + N \/ (k = j /\ j < k0 + N)) /\ Stored(g[N], entries[k])
  BY <1>12
<1>14. k = j
  BY <1>2, <1>5, <1>13
<1> QED
  BY <1>1, <1>9, <1>13, <1>14

LEMMA IndexedIs == ASSUME NativeTypes, NEW w PROVE w \in Indexed <=> \E i : Stored(i, w)
<1>1. DOMAIN wordFile = 1..Len(wordFile)
  BY DEF NativeTypes
<1> QED
  BY <1>1 DEF Indexed, Stored

(* The data pointer of a word on disk is the place of its data.            *)
LEMMA DataFound ==
  ASSUME TableListed, AllStage, NEW i \in 1..Len(wordFile)
  PROVE  wordFile[i].data # 0 /\ dataFile[wordFile[i].data] = wordFile[i].word
<1>1. PICK k \in 1..Len(entries) : entries[k] = wordFile[i].word
  BY DEF TableListed
<1>2. Stored(i, entries[k])
  BY <1>1 DEF Stored
<1>3. wordFile[i].data = k /\ DataOf(Len(entries))
  BY <1>2 DEF AllStage
<1> QED
  BY <1>1, <1>3 DEF DataOf

LEMMA NativeInvFinds == NativeInv => NativeWordsFound
<1> SUFFICES ASSUME NativeInv, written = "all" PROVE NativeWordsFound
  BY DEF NativeWordsFound
<1>1. /\ NativeTypes /\ FileOrdered /\ TableListed /\ AllStage
      /\ like # <<>> => \E a, b \in Nat : ReadUpTo(a, b)
  BY DEF NativeInv
<1>2. ASSUME NEW w \in Words
      PROVE  IF w \in Indexed THEN ReadWordHash(w) # 0 /\ dataFile[ReadWordHash(w)] = w
             ELSE ReadWordHash(w) = 0
  <2>1. CASE w \in Indexed
    <3>1. PICK i : Stored(i, w)
      BY <1>1, <2>1, IndexedIs
    <3>2. PICK j \in 1..Len(entries) : entries[j] = w
      BY <1>1, <3>1 DEF Stored, TableListed
    <3>3. Stored(EndOfChain(w), w)
      BY <1>1, <3>2, ChainOfWord
    <3>4. EndOfChain(w) \in 1..Len(wordFile) /\ EndOfChain(w) # 0
          /\ wordFile[EndOfChain(w)].word = w
      <4>1. Len(wordFile) \in Nat
        BY <1>1 DEF NativeTypes
      <4> QED
        BY <3>3, <4>1 DEF Stored
    <3>5. ReadWordHash(w) = wordFile[EndOfChain(w)].data
      BY <3>4 DEF ReadWordHash
    <3> QED
      BY <1>1, <2>1, <3>4, <3>5, DataFound
  <2>2. CASE w \notin Indexed
    <3>1. EndOfChain(w) = 0
      BY <1>1, <2>2, IndexedIs, ChainOfNone
    <3> QED
      BY <2>2, <3>1 DEF ReadWordHash
  <2> QED
    BY <2>1, <2>2
<1> DEFINE found == [n \in DOMAIN read |-> dataFile[read[n]]]
<1>3. ASSUME like # <<>>
      PROVE  /\ Ascending(found)
             /\ \A n \in DOMAIN found : found[n] \in Indexed /\ IsPrefix(like, found[n])
             /\ \A w \in Indexed :
                  IsPrefix(like, w) =>
                    \/ \E n \in DOMAIN found : found[n] = w
                    \/ ~ended /\ \A n \in DOMAIN found : Less(found[n], w)
  <2>1. PICK a \in Nat, b \in Nat : ReadUpTo(a, b)
    BY <1>1, <1>3
  <2>2. PICK N \in Nat : N = Len(wordFile)
    BY <1>1 DEF NativeTypes
  <2>3. /\ a \in 1..(N + 1) /\ b \in a..(N + 1) /\ Len(read) = b - a
        /\ \A k \in 1..(b - a) : read[k] = wordFile[a + k - 1].data
        /\ \A i \in a..(b - 1) : IsPrefix(like, wordFile[i].word)
        /\ \A i \in 1..(a - 1) : ~IsPrefix(like, wordFile[i].word)
        /\ ended => \A i \in b..N : ~IsPrefix(like, wordFile[i].word)
    BY <2>1, <2>2 DEF ReadUpTo
  <2>4. DOMAIN read = 1..(b - a)
    BY <1>1, <2>3 DEF NativeTypes
  <2>5. \A k \in 1..(b - a) : a + k - 1 \in 1..N /\ a + k - 1 \in a..(b - 1)
    BY <2>3
  <2>6. \A k \in 1..(b - a) : found[k] = wordFile[a + k - 1].word
    BY <1>1, <2>2, <2>3, <2>4, <2>5, DataFound
  <2>7. DOMAIN found = 1..(b - a)
    BY <2>4
  <2> HIDE DEF found
  <2>8. Ascending(found)
    <3>1. ASSUME NEW m \in 1..(b - a), NEW n \in 1..(b - a), m < n
          PROVE  Less(found[m], found[n])
      <4>1. a + m - 1 < a + n - 1
        BY <3>1
      <4> QED
        BY <1>1, <2>2, <2>5, <2>6, <4>1 DEF FileOrdered
    <3> QED
      BY <2>7, <3>1 DEF Ascending
  <2>9. ASSUME NEW n \in DOMAIN found PROVE found[n] \in Indexed /\ IsPrefix(like, found[n])
    <3>1. n \in 1..(b - a)
      BY <2>7
    <3>2. Stored(a + n - 1, found[n])
      BY <2>2, <2>5, <2>6, <3>1 DEF Stored
    <3> QED
      BY <1>1, <2>3, <2>5, <2>6, <3>1, <3>2, IndexedIs
  <2>10. ASSUME NEW w \in Indexed, IsPrefix(like, w)
         PROVE  \/ \E n \in DOMAIN found : found[n] = w
                \/ ~ended /\ \A n \in DOMAIN found : Less(found[n], w)
    <3>1. PICK i : Stored(i, w)
      BY <1>1, IndexedIs
    <3>2. i \in 1..N /\ wordFile[i].word = w
      BY <2>2, <3>1 DEF Stored
    <3>3. a <= i
      <4>1. i \notin 1..(a - 1)
        BY <2>3, <2>10, <3>2
      <4> QED
        BY <3>2, <4>1
    <3>4. CASE i < b
      <4>1. (i - a) + 1 \in 1..(b - a) /\ a + ((i - a) + 1) - 1 = i
        BY <3>2, <3>3, <3>4
      <4>2. found[(i - a) + 1] = w
        BY <2>6, <3>2, <4>1
      <4> QED
        BY <2>7, <4>1, <4>2
    <3>5. CASE ~(i < b)
      <4>1. i \in b..N
        BY <3>2, <3>5
      <4>2. ~ended
        BY <2>3, <2>10, <3>2, <4>1
      <4>3. ASSUME NEW n \in 1..(b - a) PROVE Less(found[n], w)
        <5>1. a + n - 1 \in 1..N /\ a + n - 1 < i
          BY <2>3, <2>5, <4>1
        <5> QED
          BY <1>1, <2>2, <2>6, <3>2, <5>1 DEF FileOrdered
      <4> QED
        BY <2>7, <4>2, <4>3
    <3> QED
      BY <3>4, <3>5
  <2> QED
    BY <2>8, <2>9, <2>10
<1> QED
  BY <1>2, <1>3 DEF NativeWordsFound

(* A word is found with its data if it was indexed and else not, and a     *)
(* search with a star reads the words that begin so, in order, whatever    *)
(* else is read in between (NativeWordsFound of NativeWords).              *)
THEOREM NativeWordsFoundAlways == NativeSpec => []NativeWordsFound
BY NativeInitially, NativeInvStep, NativeInvFinds, PTL DEF NativeSpec

=============================================================================
