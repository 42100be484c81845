--------------------------- MODULE ResultsProofs ---------------------------
(***************************************************************************)
(* Proofs about Results: the error of a search does not depend on the      *)
(* order of the indexes, the number of a result counts the results before  *)
(* it, and the merge of sorted lists while they are read, with its seeking,*)
(* is one sorted list with a cursor.  And about PropertyLimits: a search   *)
(* with limits answers with the documents in range; and about Ranking.     *)
(***************************************************************************)
EXTENDS Results, PropertyLimits, Ranking, InductionLemmas

Codes == {NO_WORDS_IN_SEARCH, WORDS_TOO_COMMON, UNKNOWN_METANAME, QUERY_SYNTAX_ERROR}

(* The search as far as it has come.                                       *)
QueryInv ==
  /\ n \in 1..MaxIndexes /\ cur \in Nat
  /\ phase \in {"query", "sort", "read", "failed"}
  /\ phase = "query" => cur \in 1..n
  /\ totalFiles \in Nat /\ wordsFound \in Nat
  /\ indexResults \in [Indexes -> SUBSET FileNumbers]
  /\ phase = "query" => \A i \in cur..n : indexResults[i] = {}
  /\ totalFiles = 0 \/ wordsFound = 0 => FoundResults = {}

(* The error kept is the smallest the indexes reported.                    *)
ErrorInv ==
  /\ errors \subseteq Codes
  /\ phase # "failed" => resError = IF errors = {} THEN RC_OK ELSE Min(errors)

(* A list is a rest of the index's sorted results, and what is behind it   *)
(* comes before what is left, in any of the lists.                         *)
Rests(lists) ==
  /\ lists \in [Indexes -> Seq(AllResults)]
  /\ \A i \in Indexes :
       /\ Len(lists[i]) <= Len(sorted[i])
       /\ \A k \in 1..Len(lists[i]) :
            lists[i][k] = sorted[i][Len(sorted[i]) - Len(lists[i]) + k]
Cut(lists) ==
  /\ Rests(lists)
  /\ \A x \in Behind(lists), y \in Slots \ Behind(lists) : Precedes(x, y)

(* The sorted lists, and the places they are read from.                    *)
ListsInv ==
  /\ sorted \in [Indexes -> Seq(AllResults)]
  /\ phase = "read" => \A i \in Indexes : sorted[i] \in Sortings(i)
  /\ phase # "read" => \A i \in Indexes : sorted[i] = <<>>
  /\ totalResults = Cardinality(Slots)
  /\ Cut(current)

(* The number counts the results before the places.                        *)
NumberInv ==
  /\ recNumber \in Nat /\ counted \in BOOLEAN
  /\ phase \in {"query", "sort"} => recNumber = 0
  /\ RecordNumber

ResultsInv == QueryInv /\ ErrorInv /\ ListsInv /\ NumberInv
(***************************************************************************)
(* The order of the merge.                                                 *)
(***************************************************************************)
(* Each list is in the order of its keys.                                  *)
Ordered ==
  /\ n \in 1..MaxIndexes
  /\ sorted \in [Indexes -> Seq(AllResults)]
  /\ \A i \in Indexes : \A k, l \in 1..Len(sorted[i]) :
       k < l => KeyOf(sorted[i][k]) >= KeyOf(sorted[i][l])

KeyAt(x) == KeyOf(sorted[x[1]][x[2]])

LEMMA SlotFacts ==
  ASSUME Ordered, NEW x \in Slots
  PROVE  /\ x = <<x[1], x[2]>> /\ x[1] \in Indexes /\ x[1] \in Nat
         /\ x[2] \in 1..Len(sorted[x[1]]) /\ x[2] \in Nat
         /\ sorted[x[1]][x[2]] \in AllResults /\ KeyAt(x) \in Nat
<1>0. PICK i \in Indexes : \E k \in 1..Len(sorted[i]) : x = <<i, k>>
  BY DEF Slots
<1>1. PICK k \in 1..Len(sorted[i]) : x = <<i, k>>
  BY <1>0
<1>2. i \in Nat /\ k \in Nat /\ x[1] = i /\ x[2] = k
  BY <1>1 DEF Indexes, Ordered
<1>3. sorted[i] \in Seq(AllResults)
  BY DEF Ordered
<1>4. sorted[i][k] \in AllResults
  BY <1>3
<1>5. \A r \in AllResults : KeyOf(r) \in Nat
  BY ResultsAssumption DEF AllResults, KeyOf
<1> QED
  BY <1>1, <1>2, <1>4, <1>5 DEF KeyAt

LEMMA ASlot ==
  ASSUME NEW i \in Indexes, NEW k \in 1..Len(sorted[i])
  PROVE  <<i, k>> \in Slots
BY DEF Slots

LEMMA PrecedesTotal ==
  ASSUME Ordered, NEW x \in Slots, NEW y \in Slots
  PROVE  /\ ~Precedes(x, x)
         /\ x = y \/ Precedes(x, y) \/ Precedes(y, x)
<1>1. /\ x = <<x[1], x[2]>> /\ x[1] \in Nat /\ x[2] \in Nat /\ KeyAt(x) \in Nat
      /\ y = <<y[1], y[2]>> /\ y[1] \in Nat /\ y[2] \in Nat /\ KeyAt(y) \in Nat
  BY SlotFacts
<1> QED
  BY <1>1 DEF Precedes, KeyAt

LEMMA PrecedesTransitive ==
  ASSUME Ordered, NEW x \in Slots, NEW y \in Slots, NEW z \in Slots,
         Precedes(x, y), Precedes(y, z)
  PROVE  Precedes(x, z)
<1> DEFINE a == KeyAt(x)
           b == KeyAt(y)
           c == KeyAt(z)
<1>1. /\ x[1] \in Nat /\ x[2] \in Nat /\ a \in Nat
      /\ y[1] \in Nat /\ y[2] \in Nat /\ b \in Nat
      /\ z[1] \in Nat /\ z[2] \in Nat /\ c \in Nat
  BY SlotFacts
<1>2. \A s, t \in Slots : s[1] = t[1] /\ s[2] < t[2] => KeyAt(s) >= KeyAt(t)
  <2> TAKE s, t \in Slots
  <2> HAVE s[1] = t[1] /\ s[2] < t[2]
  <2>1. s[1] \in Indexes /\ s[2] \in 1..Len(sorted[s[1]]) /\ t[2] \in 1..Len(sorted[s[1]])
    BY SlotFacts
  <2> QED
    BY <2>1 DEF Ordered, KeyAt
<1>3. /\ IF x[1] = y[1] THEN x[2] < y[2] ELSE a > b \/ (a = b /\ x[1] < y[1])
      /\ IF y[1] = z[1] THEN y[2] < z[2] ELSE b > c \/ (b = c /\ y[1] < z[1])
  BY DEF Precedes, KeyAt
<1>4. (x[1] = y[1] => a >= b) /\ (y[1] = z[1] => b >= c)
  BY <1>2, <1>3
<1>5. SUFFICES IF x[1] = z[1] THEN x[2] < z[2] ELSE a > c \/ (a = c /\ x[1] < z[1])
  BY DEF Precedes, KeyAt
<1>6. x[1] = z[1] /\ x[2] >= z[2] => a <= c
  <2>1. x[1] = z[1] /\ x[2] = z[2] => a = c
    BY DEF KeyAt
  <2>2. x[1] = z[1] /\ z[2] < x[2] => c >= a
    BY <1>2
  <2> HIDE DEF a, b, c
  <2> QED
    BY <1>1, <2>1, <2>2
<1> HIDE DEF a, b, c
<1> QED
  BY <1>1, <1>3, <1>4, <1>6

LEMMA SlotsFinite ==
  ASSUME Ordered
  PROVE  IsFiniteSet(Slots)
<1> DEFINE Of(i) == {<<i, k>> : k \in 1..Len(sorted[i])}
<1>1. ASSUME NEW i \in Indexes PROVE IsFiniteSet(Of(i))
  <2> DEFINE f == [k \in 1..Len(sorted[i]) |-> <<i, k>>]
  <2>1. Len(sorted[i]) \in Nat
    BY DEF Ordered
  <2>2. IsFiniteSet(1..Len(sorted[i]))
    BY <2>1, FS_Interval
  <2>3. f \in Surjection(1..Len(sorted[i]), Of(i))
    BY DEF Surjection
  <2> QED
    BY <2>2, <2>3, FS_Surjection
<1>2. IsFiniteSet(Indexes)
  BY FS_Interval DEF Ordered, Indexes
<1>3. [i \in Indexes |-> Of(i)] \in Surjection(Indexes, {Of(i) : i \in Indexes})
  BY DEF Surjection
<1>4. IsFiniteSet({Of(i) : i \in Indexes})
  <2> HIDE DEF Of
  <2> QED
    BY <1>2, <1>3, FS_Surjection
<1>5. IsFiniteSet(UNION {Of(i) : i \in Indexes})
  <2>1. \A T \in {Of(i) : i \in Indexes} : IsFiniteSet(T)
    BY <1>1
  <2> HIDE DEF Of
  <2> QED
    BY <1>4, <2>1, FS_UNION
<1> QED
  BY <1>5 DEF Slots

(* A slot before another has fewer slots before it.                        *)
SlotsBefore(x) == {y \in Slots : Precedes(y, x)}
LEMMA FewerBefore ==
  ASSUME Ordered, NEW x \in Slots, NEW y \in Slots, Precedes(x, y)
  PROVE  Cardinality(SlotsBefore(x)) < Cardinality(SlotsBefore(y))
<1>1. SlotsBefore(x) \subseteq SlotsBefore(y)
  BY PrecedesTransitive DEF SlotsBefore
<1>2. x \in SlotsBefore(y) /\ x \notin SlotsBefore(x)
  BY PrecedesTotal DEF SlotsBefore
<1>3. IsFiniteSet(SlotsBefore(y)) /\ IsFiniteSet(SlotsBefore(x))
  BY SlotsFinite, FS_Subset DEF SlotsBefore
<1>4. Cardinality(SlotsBefore(x)) <= Cardinality(SlotsBefore(y)) /\ Cardinality(SlotsBefore(x)) # Cardinality(SlotsBefore(y))
  BY <1>1, <1>2, <1>3, FS_Subset
<1>5. Cardinality(SlotsBefore(x)) \in Nat /\ Cardinality(SlotsBefore(y)) \in Nat
  BY <1>3, FS_CardinalityType
<1> QED
  BY <1>4, <1>5

(* Some slot of any of them comes first.                                   *)
LEMMA FirstSlot ==
  ASSUME Ordered, NEW S \in SUBSET Slots, S # {}
  PROVE  \E x \in S : \A y \in S : y = x \/ Precedes(x, y)
<1> DEFINE C == {Cardinality(SlotsBefore(x)) : x \in S}
<1>1. \A x \in Slots : Cardinality(SlotsBefore(x)) \in Nat
  BY SlotsFinite, FS_Subset, FS_CardinalityType DEF SlotsBefore
<1>2. PICK c \in C : \A d \in C : c <= d
  <2>1. C \in SUBSET Nat /\ C # {}
    BY <1>1
  <2> HIDE DEF C
  <2> QED
    BY <2>1, LeastNatural
<1>3. PICK x \in S : c = Cardinality(SlotsBefore(x))
  OBVIOUS
<1>4. ASSUME NEW y \in S, Precedes(y, x) PROVE FALSE
  <2>1. Cardinality(SlotsBefore(y)) < Cardinality(SlotsBefore(x)) /\ Cardinality(SlotsBefore(x)) <= Cardinality(SlotsBefore(y))
    BY <1>2, <1>3, <1>4, FewerBefore
  <2> QED
    BY <1>1, <2>1
<1> QED
  BY <1>4, PrecedesTotal

(***************************************************************************)
(* Reading one result.                                                     *)
(***************************************************************************)
LEMMA PlaceBounds ==
  ASSUME NEW a \in Nat, NEW b \in Nat, b <= a
  PROVE  /\ b # 0 => a - b + 1 \in 1..a /\ ~(a - b + 1 <= a - b) /\ 1 \in 1..b
         /\ b = 0 => \A k \in 1..a : k <= a - b
OBVIOUS
LEMMA PlaceAhead ==
  ASSUME NEW a \in Nat, NEW b \in Nat, b <= a, NEW k \in 1..a, ~(k <= a - b)
  PROVE  b # 0 /\ a - b + 1 <= k
OBVIOUS
LEMMA PlaceMoves ==
  ASSUME NEW a \in Nat, NEW b \in Nat, b <= a, NEW k \in Nat
  PROVE  /\ a - b + (k + 1) = a - (b - 1) + k
         /\ k <= a - (b - 1) <=> k <= a - b \/ k = a - b + 1
OBVIOUS

(* The slot a list is read from.                                           *)
HeadSlot(lists, i) == <<i, Len(sorted[i]) - Len(lists[i]) + 1>>

LEMMA HeadSlots ==
  ASSUME Ordered, NEW lists, Rests(lists), NEW i \in Live(lists)
  PROVE  /\ i \in Indexes /\ i \in Nat /\ HeadSlot(lists, i) \in Slots \ Behind(lists)
         /\ KeyAt(HeadSlot(lists, i)) = KeyOf(lists[i][1])
         /\ sorted[i][HeadSlot(lists, i)[2]] = lists[i][1]
         /\ KeyOf(lists[i][1]) \in Nat
<1> DEFINE s == HeadSlot(lists, i)
           d == Len(sorted[i]) - Len(lists[i])
<1>1. i \in Indexes /\ i \in Nat /\ lists[i] # <<>> /\ lists[i] \in Seq(AllResults)
  BY DEF Live, Rests, Indexes
<1>2. /\ Len(sorted[i]) \in Nat /\ Len(lists[i]) \in Nat /\ Len(lists[i]) # 0
      /\ Len(lists[i]) <= Len(sorted[i])
  BY <1>1 DEF Ordered, Rests
<1>3. d + 1 \in 1..Len(sorted[i]) /\ ~(d + 1 <= d) /\ 1 \in 1..Len(lists[i])
  BY <1>2, PlaceBounds
<1>4. lists[i][1] = sorted[i][d + 1]
  BY <1>1, <1>3 DEF Rests
<1>5. s = <<i, d + 1>> /\ s[1] = i /\ s[2] = d + 1
  BY DEF HeadSlot
<1>6. s \in Slots /\ s \notin Behind(lists)
  BY <1>1, <1>3, <1>5, ASlot DEF Behind
<1>7. KeyAt(s) = KeyOf(lists[i][1])
  BY <1>4, <1>5 DEF KeyAt
<1> QED
  BY <1>1, <1>4, <1>5, <1>6, <1>7, SlotFacts

(* The winner's slot comes before all others that are left.                *)
LEMMA WinnerFirst ==
  ASSUME Ordered, NEW lists, Rests(lists), Live(lists) # {}
  PROVE  /\ Winner(lists) \in Live(lists)
         /\ \A y \in Slots \ Behind(lists) :
              \/ y = HeadSlot(lists, Winner(lists))
              \/ Precedes(HeadSlot(lists, Winner(lists)), y)
<1> DEFINE U == Slots \ Behind(lists)
           Beats(i, j) == \/ KeyOf(lists[i][1]) > KeyOf(lists[j][1])
                          \/ KeyOf(lists[i][1]) = KeyOf(lists[j][1]) /\ i <= j
<1>1. PICK x \in U : \A y \in U : y = x \/ Precedes(x, y)
  <2>1. U # {}
    BY HeadSlots
  <2>2. U \in SUBSET Slots
    OBVIOUS
  <2> HIDE DEF U
  <2> QED
    BY <2>1, <2>2, FirstSlot
<1> DEFINE i == x[1]
<1>2. /\ x = <<i, x[2]>> /\ i \in Indexes /\ i \in Nat
      /\ x[2] \in 1..Len(sorted[i]) /\ x[2] \in Nat
  BY SlotFacts
<1>3. i \in Live(lists)
  <2>1. ~(x[2] <= Len(sorted[i]) - Len(lists[i]))
    BY DEF Behind
  <2>2. /\ Len(lists[i]) \in Nat /\ Len(sorted[i]) \in Nat /\ Len(lists[i]) <= Len(sorted[i])
    BY <1>2 DEF Rests, Ordered
  <2>3. Len(lists[i]) # 0
    BY <1>2, <2>1, <2>2, PlaceAhead
  <2>4. lists[i] # <<>>
    BY <2>3
  <2> QED
    BY <1>2, <2>4 DEF Live
<1>4. x = HeadSlot(lists, i)
  <2> DEFINE h == HeadSlot(lists, i)
  <2>1. h \in U /\ h[1] = i /\ h[2] = Len(sorted[i]) - Len(lists[i]) + 1
    BY <1>3, HeadSlots DEF HeadSlot
  <2>2. ~(x[2] <= Len(sorted[i]) - Len(lists[i]))
    BY DEF Behind
  <2>3. Len(sorted[i]) \in Nat /\ Len(lists[i]) \in Nat /\ Len(lists[i]) <= Len(sorted[i])
    BY <1>2 DEF Rests, Ordered
  <2>4. h[2] <= x[2] /\ h[2] \in Nat
    <3>1. Len(sorted[i]) - Len(lists[i]) + 1 <= x[2] /\ Len(lists[i]) # 0
      BY <1>2, <2>2, <2>3, PlaceAhead
    <3>2. Len(sorted[i]) - Len(lists[i]) + 1 \in 1..Len(sorted[i])
      BY <2>3, <3>1, PlaceBounds
    <3>3. Len(sorted[i]) - Len(lists[i]) + 1 \in Nat
      BY <2>3, <3>2
    <3> HIDE DEF h
    <3> QED
      BY <2>1, <3>1, <3>3
  <2>5. CASE h = x
    BY <2>5
  <2>6. CASE Precedes(x, h)
    <3>1. x[2] < h[2]
      BY <2>1, <2>6 DEF Precedes
    <3>2. x[2] \in Nat
      BY <1>2
    <3> HIDE DEF h
    <3> QED
      BY <2>4, <3>1, <3>2
  <2> QED
    BY <1>1, <2>1, <2>5, <2>6
<1>5. ASSUME NEW j \in Live(lists) PROVE Beats(i, j)
  <2>1. /\ HeadSlot(lists, j) \in U /\ HeadSlot(lists, j)[1] = j
        /\ KeyAt(HeadSlot(lists, j)) = KeyOf(lists[j][1])
        /\ KeyOf(lists[j][1]) \in Nat
    BY HeadSlots DEF HeadSlot
  <2>2. KeyAt(x) = KeyOf(lists[i][1]) /\ KeyOf(lists[i][1]) \in Nat
    BY <1>3, <1>4, HeadSlots
  <2>3. CASE HeadSlot(lists, j) = x
    <3>1. i = j
      BY <2>1, <2>3
    <3> QED
      BY <1>2, <3>1
  <2>4. CASE Precedes(x, HeadSlot(lists, j))
    <3>1. CASE i = j
      BY <1>2, <3>1
    <3>2. CASE i # j
      <4>1. KeyAt(x) > KeyAt(HeadSlot(lists, j)) \/ (KeyAt(x) = KeyAt(HeadSlot(lists, j)) /\ i < j)
        BY <2>1, <2>4, <3>2 DEF Precedes, KeyAt
      <4>2. j \in Nat
        BY HeadSlots
      <4> QED
        BY <1>2, <2>1, <2>2, <4>1, <4>2
    <3> QED
      BY <3>1, <3>2
  <2> QED
    BY <1>1, <2>1, <2>3, <2>4
<1>6. Winner(lists) \in Live(lists) /\ \A j \in Live(lists) : Beats(Winner(lists), j)
  <2>1. \E k \in Live(lists) : \A j \in Live(lists) : Beats(k, j)
    BY <1>3, <1>5
  <2>2. Winner(lists) = CHOOSE k \in Live(lists) : \A j \in Live(lists) : Beats(k, j)
    BY DEF Winner
  <2> HIDE DEF Beats
  <2> QED
    BY <2>1, <2>2
<1>7. Winner(lists) = i
  <2> DEFINE w == Winner(lists)
  <2>1. Beats(w, i) /\ Beats(i, w)
    BY <1>3, <1>5, <1>6
  <2>2. w \in Nat /\ i \in Nat /\ KeyOf(lists[w][1]) \in Nat /\ KeyOf(lists[i][1]) \in Nat
    BY <1>3, <1>6, HeadSlots
  <2> HIDE DEF w
  <2> QED
    BY <2>1, <2>2 DEF w
<1> QED
  BY <1>1, <1>4, <1>6, <1>7

(* Reading takes the winner's slot.                                        *)
LEMMA PopTakes ==
  ASSUME Ordered, NEW lists, Cut(lists), Live(lists) # {}
  PROVE  LET s == HeadSlot(lists, Winner(lists))
         IN  /\ s \in Slots \ Behind(lists)
             /\ sorted[s[1]][s[2]] = lists[Winner(lists)][1]
             /\ SlotsBefore(s) = Behind(lists)
             /\ Behind(Pop(lists)) = Behind(lists) \cup {s}
             /\ Cut(Pop(lists))
<1> DEFINE w == Winner(lists)
           s == HeadSlot(lists, w)
           left == Pop(lists)
<1>1. Rests(lists)
  BY DEF Cut
<1>2. /\ w \in Live(lists) /\ w \in Indexes
      /\ \A y \in Slots \ Behind(lists) : y = s \/ Precedes(s, y)
  BY <1>1, WinnerFirst DEF Live
<1>3. /\ s \in Slots \ Behind(lists) /\ s[1] = w
      /\ s[2] = Len(sorted[w]) - Len(lists[w]) + 1
      /\ sorted[w][s[2]] = lists[w][1]
  BY <1>1, <1>2, HeadSlots DEF HeadSlot
<1>4. SlotsBefore(s) = Behind(lists)
  <2>1. ASSUME NEW y \in Behind(lists) PROVE Precedes(y, s)
    BY <1>3 DEF Cut
  <2>2. ASSUME NEW y \in Slots \ Behind(lists), Precedes(y, s) PROVE FALSE
    BY <1>2, <1>3, <2>2, PrecedesTotal, PrecedesTransitive
  <2>3. Behind(lists) \subseteq Slots
    BY DEF Behind
  <2> QED
    BY <2>1, <2>2, <2>3 DEF SlotsBefore
<1>5. /\ lists \in [Indexes -> Seq(AllResults)] /\ lists[w] \in Seq(AllResults) /\ lists[w] # <<>>
      /\ left = [lists EXCEPT ![w] = Tail(lists[w])]
  BY <1>1, <1>2 DEF Rests, Live, Pop
<1>6. /\ left \in [Indexes -> Seq(AllResults)] /\ left[w] = Tail(lists[w])
      /\ Len(left[w]) = Len(lists[w]) - 1
      /\ \A k \in 1..Len(left[w]) : left[w][k] = lists[w][k + 1]
      /\ \A i \in Indexes : i # w => left[i] = lists[i]
      /\ Len(lists[w]) \in Nat /\ Len(lists[w]) # 0 /\ Len(sorted[w]) \in Nat
  <2>1. Tail(lists[w]) \in Seq(AllResults)
    BY <1>5
  <2>2. Len(Tail(lists[w])) = Len(lists[w]) - 1 /\ Len(lists[w]) \in Nat /\ Len(lists[w]) # 0
    BY <1>5
  <2>3. \A k \in 1..Len(Tail(lists[w])) : Tail(lists[w])[k] = lists[w][k + 1]
    BY <1>5
  <2>4. left[w] = Tail(lists[w]) /\ \A i \in Indexes : i # w => left[i] = lists[i]
    BY <1>2, <1>5
  <2>5. left \in [Indexes -> Seq(AllResults)]
    BY <1>2, <1>5, <2>1
  <2>6. Len(sorted[w]) \in Nat
    BY <1>2 DEF Ordered
  <2> QED
    BY <2>2, <2>3, <2>4, <2>5, <2>6
<1> HIDE DEF left
<1>7. Rests(left)
  <2> SUFFICES ASSUME NEW i \in Indexes
               PROVE  /\ Len(left[i]) <= Len(sorted[i])
                      /\ \A k \in 1..Len(left[i]) :
                           left[i][k] = sorted[i][Len(sorted[i]) - Len(left[i]) + k]
    BY <1>6 DEF Rests
  <2>1. CASE i # w
    BY <1>1, <1>6, <2>1 DEF Rests
  <2>2. CASE i = w
    <3>1. Len(left[w]) <= Len(sorted[w])
      BY <1>1, <1>2, <1>6 DEF Rests
    <3>2. ASSUME NEW k \in 1..Len(left[w])
          PROVE  left[w][k] = sorted[w][Len(sorted[w]) - Len(left[w]) + k]
      <4>1. k + 1 \in 1..Len(lists[w])
        BY <1>6
      <4>2. lists[w][k + 1] = sorted[w][Len(sorted[w]) - Len(lists[w]) + (k + 1)]
        BY <1>1, <1>2, <4>1 DEF Rests
      <4>3. Len(sorted[w]) - Len(lists[w]) + (k + 1) = Len(sorted[w]) - Len(left[w]) + k
        <5>1. Len(sorted[w]) \in Nat /\ Len(lists[w]) \in Nat /\ Len(lists[w]) <= Len(sorted[w]) /\ k \in Nat
          BY <1>1, <1>2, <1>6 DEF Rests
        <5>2. Len(sorted[w]) - Len(lists[w]) + (k + 1) = Len(sorted[w]) - (Len(lists[w]) - 1) + k
          BY <5>1, PlaceMoves
        <5> QED
          BY <1>6, <5>2
      <4> QED
        BY <1>6, <4>2, <4>3
    <3> QED
      BY <2>2, <3>1, <3>2
  <2> QED
    BY <2>1, <2>2
<1>8. Behind(left) = Behind(lists) \cup {s}
  <2> SUFFICES ASSUME NEW x \in Slots
               PROVE  x \in Behind(left) <=> x \in Behind(lists) \/ x = s
    BY <1>3 DEF Behind
  <2>1. x = <<x[1], x[2]>> /\ x[1] \in Indexes /\ x[2] \in Nat
    BY SlotFacts
  <2>2. CASE x[1] # w
    BY <1>3, <1>6, <2>1, <2>2 DEF Behind
  <2>3. CASE x[1] = w
    <3>1. x = s <=> x[2] = Len(sorted[w]) - Len(lists[w]) + 1
      BY <1>3, <2>1, <2>3 DEF HeadSlot
    <3>2. x[2] <= Len(sorted[w]) - Len(left[w])
          <=> x[2] <= Len(sorted[w]) - Len(lists[w]) \/ x[2] = Len(sorted[w]) - Len(lists[w]) + 1
      <4>1. Len(sorted[w]) \in Nat /\ Len(lists[w]) \in Nat /\ Len(lists[w]) <= Len(sorted[w])
        BY <1>1, <1>2, <1>6 DEF Rests
      <4>2. x[2] <= Len(sorted[w]) - (Len(lists[w]) - 1)
            <=> x[2] <= Len(sorted[w]) - Len(lists[w]) \/ x[2] = Len(sorted[w]) - Len(lists[w]) + 1
        BY <2>1, <4>1, PlaceMoves
      <4> QED
        BY <1>6, <4>2
    <3> QED
      BY <2>3, <3>1, <3>2 DEF Behind
  <2> QED
    BY <2>2, <2>3
<1>9. Cut(left)
  BY <1>2, <1>7, <1>8 DEF Cut
<1> QED
  BY <1>3, <1>4, <1>8, <1>9 DEF left

(* Nothing is left to read.                                                *)
LEMMA NothingLeft ==
  ASSUME Ordered, NEW lists, Cut(lists), Live(lists) = {}
  PROVE  Pop(lists) = lists /\ Behind(lists) = Slots
<1>1. \A i \in Indexes : Len(lists[i]) = 0
  BY DEF Live
<1>2. ASSUME NEW x \in Slots PROVE x \in Behind(lists)
  <2>1. x[1] \in Indexes /\ x[2] \in 1..Len(sorted[x[1]])
    BY SlotFacts
  <2>2. Len(sorted[x[1]]) \in Nat /\ Len(lists[x[1]]) = 0
    BY <1>1, <2>1 DEF Ordered
  <2>3. x[2] <= Len(sorted[x[1]]) - Len(lists[x[1]])
    BY <2>1, <2>2, PlaceBounds
  <2> QED
    BY <2>3 DEF Behind
<1> QED
  BY <1>2 DEF Pop, Behind

(* How many slots are behind, before and after one is read.                *)
LEMMA BehindCount ==
  ASSUME Ordered, NEW lists, Cut(lists)
  PROVE  /\ Cardinality(Slots) \in Nat /\ Cardinality(Behind(lists)) \in Nat
         /\ Live(lists) = {} => /\ Cardinality(Behind(lists)) = Cardinality(Slots)
                                /\ Pop(lists) = lists
         /\ Live(lists) # {} => /\ Cardinality(Behind(lists)) < Cardinality(Slots)
                                /\ Cardinality(Behind(Pop(lists))) = Cardinality(Behind(lists)) + 1
         /\ Cut(Pop(lists))
<1> DEFINE B == Behind(lists)
<1>0. IsFiniteSet(Slots) /\ B \in SUBSET Slots
  BY SlotsFinite DEF Behind
<1> HIDE DEF B
<1>1. /\ IsFiniteSet(B) /\ Cardinality(B) <= Cardinality(Slots)
      /\ Cardinality(Slots) = Cardinality(B) => Slots = B
  BY <1>0, FS_Subset
<1>2. Cardinality(Slots) \in Nat /\ Cardinality(B) \in Nat
  <2>1. Cardinality(Slots) \in Nat
    BY <1>0, FS_CardinalityType
  <2>2. Cardinality(B) \in Nat
    BY <1>1, FS_CardinalityType
  <2> QED
    BY <2>1, <2>2
<1>3. CASE Live(lists) = {}
  BY <1>2, <1>3, NothingLeft DEF B
<1>4. CASE Live(lists) # {}
  <2> DEFINE s == HeadSlot(lists, Winner(lists))
  <2>1. /\ s \in Slots /\ s \notin B
        /\ Behind(Pop(lists)) = B \cup {s} /\ Cut(Pop(lists))
    BY <1>4, PopTakes DEF B
  <2> HIDE DEF s
  <2>2. Cardinality(B \cup {s}) = Cardinality(B) + 1
    BY <1>1, <2>1, FS_AddElement
  <2>3. Cardinality(B) # Cardinality(Slots)
    BY <1>1, <2>1
  <2>4. Cardinality(B) < Cardinality(Slots)
    BY <1>1, <1>2, <2>3
  <2> QED
    BY <1>2, <1>4, <2>1, <2>2, <2>4 DEF B
<1> QED
  BY <1>3, <1>4

LEMMA SortedCut == Ordered => Cut(sorted) /\ Behind(sorted) = {}
<1> SUFFICES ASSUME Ordered PROVE Cut(sorted) /\ Behind(sorted) = {}
  OBVIOUS
<1>1. Behind(sorted) = {}
  <2> SUFFICES ASSUME NEW x \in Slots, x[2] <= Len(sorted[x[1]]) - Len(sorted[x[1]])
               PROVE  FALSE
    BY DEF Behind
  <2>1. x[1] \in Indexes /\ x[2] \in 1..Len(sorted[x[1]])
    BY SlotFacts
  <2>2. Len(sorted[x[1]]) \in Nat
    BY <2>1 DEF Ordered
  <2> QED
    BY <2>1, <2>2
<1>2. Rests(sorted)
  <2> SUFFICES ASSUME NEW i \in Indexes
               PROVE  /\ Len(sorted[i]) <= Len(sorted[i])
                      /\ \A k \in 1..Len(sorted[i]) :
                           sorted[i][k] = sorted[i][Len(sorted[i]) - Len(sorted[i]) + k]
    BY DEF Rests, Ordered
  <2>1. Len(sorted[i]) \in Nat
    BY DEF Ordered
  <2> DEFINE a == Len(sorted[i])
  <2>2. \A k \in 1..a : a - a + k = k
    <3> HIDE DEF a
    <3> QED
      BY <2>1 DEF a
  <2> QED
    BY <2>1, <2>2
<1> QED
  BY <1>1, <1>2 DEF Cut

(* Reading p results leaves p behind, or all there are.                    *)
LEMMA PoppedCut ==
  ASSUME Ordered, NEW p \in Nat
  PROVE  /\ Cut(Popped(sorted, p))
         /\ Cardinality(Behind(Popped(sorted, p)))
              = IF p < Cardinality(Slots) THEN p ELSE Cardinality(Slots)
<1> DEFINE L == {l \in [Indexes -> Seq(AllResults)] : Cut(l)}
           after[k \in 0..p] == IF k = 0 THEN sorted ELSE Pop(after[k - 1])
           next == [k \in 1..p |-> [l \in L |-> Pop(l)]]
           size == Cardinality(Slots)
           Least(k) == IF k < size THEN k ELSE size
<1>1. Popped(sorted, p) = after[p]
  BY DEF Popped
<1>2. sorted \in L
  BY SortedCut DEF Ordered
<1>3. next \in [1..p -> [L -> L]]
  <2>1. ASSUME NEW l \in L PROVE Pop(l) \in L
    <3>1. Cut(Pop(l))
      BY BehindCount
    <3> QED
      BY <3>1 DEF Cut, Rests
  <2> HIDE DEF L
  <2> QED
    BY <2>1
<1>4. PICK g : FoldOf(g, p, L, sorted, next)
  <2> HIDE DEF next, L
  <2> QED
    BY <1>2, <1>3, FoldExists
<1>5. \A k \in 1..p : g[k] = Pop(g[k - 1])
  <2> SUFFICES ASSUME NEW k \in 1..p PROVE g[k] = Pop(g[k - 1])
    OBVIOUS
  <2>1. k - 1 \in 0..p
    OBVIOUS
  <2>2. g[k - 1] \in L /\ g[k] = next[k][g[k - 1]]
    <3> HIDE DEF after, next, L
    <3> QED
      BY <1>4, <2>1 DEF FoldOf
  <2> HIDE DEF L
  <2> QED
    BY <2>2
<1>6. g = [k \in 0..p |-> IF k = 0 THEN sorted ELSE Pop(g[k - 1])]
  <2> DEFINE h == [k \in 0..p |-> IF k = 0 THEN sorted ELSE Pop(g[k - 1])]
  <2>1. \A k \in 0..p : k = 0 \/ k \in 1..p
    OBVIOUS
  <2> HIDE DEF next, after, L
  <2>2. \A k \in 0..p : g[k] = h[k]
    BY <1>4, <1>5, <2>1 DEF FoldOf
  <2> QED
    BY <1>4, <2>2 DEF FoldOf
<1>7. after = [k \in 0..p |-> IF k = 0 THEN sorted ELSE Pop(after[k - 1])]
  BY <1>6
<1>8. after[0] = sorted /\ \A k \in 1..p : after[k] = Pop(after[k - 1])
  <2> HIDE DEF after
  <2>1. \A k \in 0..p : after[k] = IF k = 0 THEN sorted ELSE Pop(after[k - 1])
    BY Zenon, <1>7
  <2>2. 0 \in 0..p /\ \A k \in 1..p : k \in 0..p /\ k # 0
    OBVIOUS
  <2> QED
    BY <2>1, <2>2
<1> HIDE DEF after, next
<1> DEFINE Good(k) == Cut(after[k]) /\ Cardinality(Behind(after[k])) = Least(k)
           S == {k \in 0..p : Good(k)}
<1>9. size \in Nat
  BY SlotsFinite, FS_CardinalityType
<1>10. 0 \in S
  <2>1. Cardinality(Behind(sorted)) = 0
    BY SortedCut, FS_EmptySet
  <2>2. Least(0) = 0
    <3> HIDE DEF size
    <3> QED
      BY <1>9
  <2>3. Good(0)
    BY <1>8, <2>1, <2>2, SortedCut
  <2> HIDE DEF Good
  <2> QED
    BY <2>3
<1>11. ASSUME NEW k \in 0..(p - 1), k \in S PROVE k + 1 \in S
  <2>1. k + 1 \in 1..p /\ (k + 1) - 1 = k /\ k + 1 \in 0..p /\ k \in Nat
    OBVIOUS
  <2>2. after[k + 1] = Pop(after[k])
    BY <1>8, <2>1
  <2>3. Cut(after[k]) /\ Cardinality(Behind(after[k])) = Least(k)
    BY <1>11
  <2>4. /\ Cut(Pop(after[k]))
        /\ \/ Cardinality(Behind(after[k])) = size /\ Pop(after[k]) = after[k]
           \/ /\ Cardinality(Behind(after[k])) < size
              /\ Cardinality(Behind(Pop(after[k]))) = Cardinality(Behind(after[k])) + 1
    BY <2>3, BehindCount
  <2>5. Cardinality(Behind(Pop(after[k]))) = Least(k + 1)
    <3>1. Least(k) = size \/ Least(k) < size
      BY <2>3, <2>4
    <3> HIDE DEF size
    <3>2. CASE Cardinality(Behind(after[k])) = size /\ Pop(after[k]) = after[k]
      BY <1>9, <2>1, <2>3, <3>2
    <3>3. CASE /\ Cardinality(Behind(after[k])) < size
               /\ Cardinality(Behind(Pop(after[k]))) = Cardinality(Behind(after[k])) + 1
      BY <1>9, <2>1, <2>3, <3>3
    <3> QED
      BY <2>4, <3>2, <3>3 DEF size
  <2>6. Good(k + 1)
    BY <2>2, <2>4, <2>5
  <2> HIDE DEF Good
  <2> QED
    BY <2>1, <2>6
<1>12. p \in S
  <2>1. \A k \in 0..p : k \in S
    <3> HIDE DEF S
    <3> QED
      BY <1>10, <1>11, UpTo
  <2> HIDE DEF S
  <2>2. p \in 0..p
    OBVIOUS
  <2> QED
    BY <2>1, <2>2
<1> QED
  BY <1>1, <1>12

(***************************************************************************)
(* The lists as one.                                                       *)
(***************************************************************************)
(* Every slot has its place in the merged list, every place its slot.      *)
LEMMA MergedPlaces ==
  ASSUME Ordered
  PROVE  /\ Cardinality(Slots) \in Nat
         /\ Merged \in [1..Cardinality(Slots) -> AllResults] /\ Len(Merged) = Cardinality(Slots)
         /\ \A x \in Slots : /\ Cardinality(SlotsBefore(x)) + 1 \in 1..Cardinality(Slots)
                             /\ Merged[Cardinality(SlotsBefore(x)) + 1] = sorted[x[1]][x[2]]
         /\ \A k \in 1..Cardinality(Slots) : \E x \in Slots : Cardinality(SlotsBefore(x)) + 1 = k
<1> DEFINE size == Cardinality(Slots)
           place == [x \in Slots |-> Cardinality(SlotsBefore(x)) + 1]
<1>1. IsFiniteSet(Slots) /\ size \in Nat
  BY SlotsFinite, FS_CardinalityType
<1>2. ASSUME NEW x \in Slots PROVE Cardinality(SlotsBefore(x)) \in Nat /\ Cardinality(SlotsBefore(x)) + 1 \in 1..size
  <2> DEFINE B == SlotsBefore(x)
  <2>1. B \in SUBSET Slots /\ B # Slots
    BY PrecedesTotal DEF SlotsBefore
  <2> HIDE DEF B
  <2>2. IsFiniteSet(B) /\ Cardinality(B) <= size /\ Cardinality(B) # size
    BY <1>1, <2>1, FS_Subset
  <2>3. Cardinality(B) \in Nat
    BY <2>2, FS_CardinalityType
  <2> HIDE DEF size
  <2>4. Cardinality(B) + 1 \in 1..size
    BY <1>1, <2>2, <2>3
  <2> QED
    BY <2>3, <2>4 DEF B
<1>3. ASSUME NEW x \in Slots, NEW y \in Slots, Cardinality(SlotsBefore(x)) = Cardinality(SlotsBefore(y))
      PROVE  x = y
  <2>1. ~Precedes(x, y) /\ ~Precedes(y, x)
    BY <1>2, <1>3, FewerBefore
  <2> QED
    BY <2>1, PrecedesTotal
<1>4. place \in Injection(Slots, 1..size)
  <2>1. place \in [Slots -> 1..size]
    BY <1>2
  <2>2. \A x, y \in Slots : place[x] = place[y] => x = y
    BY <1>2, <1>3
  <2> HIDE DEF place
  <2> QED
    BY <2>1, <2>2 DEF Injection, IsInjective
<1>5. place \in Surjection(Slots, 1..size)
  <2>1. IsFiniteSet(1..size) /\ Cardinality(1..size) = size
    <3> HIDE DEF size
    <3>1. IsFiniteSet(1..size) /\ Cardinality(1..size) = IF 1 > size THEN 0 ELSE size - 1 + 1
      BY <1>1, FS_Interval
    <3> QED
      BY <1>1, <3>1
  <2> HIDE DEF place
  <2> QED
    BY <1>4, <2>1, FS_Injection
<1>6. \A k \in 1..size : \E x \in Slots : Cardinality(SlotsBefore(x)) + 1 = k
  <2>1. \A k \in 1..size : \E x \in Slots : place[x] = k
    <3> HIDE DEF place, size
    <3> QED
      BY <1>5 DEF Surjection
  <2> HIDE DEF size
  <2> QED
    BY <2>1
<1> DEFINE At(k) == CHOOSE x \in Slots : Cardinality(SlotsBefore(x)) = k - 1
<1>7. ASSUME NEW k \in 1..size PROVE At(k) \in Slots /\ Cardinality(SlotsBefore(At(k))) = k - 1
  <2>1. PICK x \in Slots : Cardinality(SlotsBefore(x)) + 1 = k
    BY <1>6
  <2>2. Cardinality(SlotsBefore(x)) = k - 1
    BY <1>2, <2>1
  <2> QED
    BY <2>2
<1>8. Merged = [k \in 1..size |-> sorted[At(k)[1]][At(k)[2]]]
  BY DEF Merged, SlotsBefore
<1>9. ASSUME NEW x \in Slots PROVE At(Cardinality(SlotsBefore(x)) + 1) = x
  <2> DEFINE k == Cardinality(SlotsBefore(x)) + 1
  <2>1. At(k) \in Slots /\ Cardinality(SlotsBefore(At(k))) = k - 1
    BY <1>2, <1>7
  <2>2. Cardinality(SlotsBefore(At(k))) = Cardinality(SlotsBefore(x))
    BY <1>2, <2>1
  <2> HIDE DEF At, k
  <2> QED
    BY <1>3, <2>1, <2>2 DEF k
<1> HIDE DEF At
<1>10. Merged \in [1..size -> AllResults] /\ Len(Merged) = size
  <2>1. \A k \in 1..size : sorted[At(k)[1]][At(k)[2]] \in AllResults
    BY <1>7, SlotFacts
  <2> HIDE DEF size
  <2>2. Merged \in [1..size -> AllResults]
    BY <1>8, <2>1
  <2> QED
    BY <1>1, <2>2
<1>11. ASSUME NEW x \in Slots
       PROVE  Merged[Cardinality(SlotsBefore(x)) + 1] = sorted[x[1]][x[2]]
  <2> HIDE DEF size
  <2> QED
    BY <1>2, <1>8, <1>9
<1> QED
  BY <1>1, <1>2, <1>6, <1>10, <1>11

(* What an index found, in an order of its keys.                           *)
Own(i) == {<<i, f>> : f \in indexResults[i]}
LEMMA SortingFacts ==
  ASSUME QueryInv, NEW i \in Indexes, NEW s \in Sortings(i)
  PROVE  /\ s \in Seq(AllResults) /\ Len(s) \in Nat /\ DOMAIN s = 1..Len(s)
         /\ \A k \in 1..Len(s) : s[k] \in Own(i)
         /\ \A k, l \in 1..Len(s) : k # l => s[k] # s[l]
         /\ \A r \in Own(i) : \E k \in 1..Len(s) : s[k] = r
         /\ \A k, l \in 1..Len(s) : k < l => KeyOf(s[k]) >= KeyOf(s[l])
<1> DEFINE N == Cardinality(Own(i))
<1>1. /\ s \in SetToSeqs(Own(i))
      /\ \A k, l \in 1..Len(s) : k < l => KeyOf(s[k]) >= KeyOf(s[l])
  BY DEF Sortings, Own
<1>2. s \in [1..N -> Own(i)] /\ \A k, l \in 1..N : k # l => s[k] # s[l]
  BY <1>1 DEF SetToSeqs
<1>3. IsFiniteSet(Own(i))
  <2>1. indexResults[i] \subseteq FileNumbers /\ IsFiniteSet(FileNumbers)
    BY ResultsAssumption DEF QueryInv
  <2>2. IsFiniteSet(indexResults[i])
    BY <2>1, FS_Subset
  <2>3. [f \in indexResults[i] |-> <<i, f>>] \in Surjection(indexResults[i], Own(i))
    BY DEF Surjection, Own
  <2> QED
    BY <2>2, <2>3, FS_Surjection
<1>4. N \in Nat /\ IsFiniteSet(1..N) /\ Cardinality(1..N) = N
  <2>1. N \in Nat
    BY <1>3, FS_CardinalityType
  <2> HIDE DEF N
  <2>2. IsFiniteSet(1..N) /\ Cardinality(1..N) = IF 1 > N THEN 0 ELSE N - 1 + 1
    BY <2>1, FS_Interval
  <2> QED
    BY <2>1, <2>2
<1>5. \A r \in Own(i) : \E k \in 1..N : s[k] = r
  <2>1. s \in Injection(1..N, Own(i))
    <3> HIDE DEF N
    <3> QED
      BY <1>2 DEF Injection, IsInjective
  <2>2. s \in Surjection(1..N, Own(i))
    BY <1>3, <1>4, <2>1, FS_Injection
  <2> HIDE DEF N
  <2> QED
    BY <2>2 DEF Surjection
<1>6. Own(i) \subseteq AllResults
  <2>1. i \in 1..MaxIndexes
    BY ResultsAssumption DEF QueryInv, Indexes
  <2> QED
    BY <2>1 DEF QueryInv, Own, AllResults
<1>7. s \in Seq(AllResults) /\ Len(s) = N /\ DOMAIN s = 1..N
  <2> HIDE DEF N
  <2> QED
    BY <1>2, <1>4, <1>6
<1> HIDE DEF N
<1>8. \A k \in 1..N : s[k] \in Own(i)
  BY <1>2
<1> QED
  BY <1>1, <1>2, <1>4, <1>5, <1>7, <1>8

(* All lists are sorted.                                                   *)
AllSorted == QueryInv /\ sorted \in [Indexes -> Seq(AllResults)]
             /\ \A i \in Indexes : sorted[i] \in Sortings(i)

LEMMA SortedOrdered == AllSorted => Ordered
BY SortingFacts DEF AllSorted, Ordered, QueryInv

(* There are as many slots as results.                                     *)
LEMMA SlotsAreResults == AllSorted => Cardinality(Slots) = Total /\ IsFiniteSet(FoundResults)
<1> SUFFICES ASSUME AllSorted PROVE Cardinality(Slots) = Total /\ IsFiniteSet(FoundResults)
  OBVIOUS
<1> DEFINE f == [x \in Slots |-> sorted[x[1]][x[2]]]
<1>0. Ordered /\ QueryInv
  BY SortedOrdered DEF AllSorted
<1>1. FoundResults = UNION {Own(i) : i \in Indexes}
  BY DEF FoundResults, Own
<1>2. ASSUME NEW x \in Slots
      PROVE  /\ x = <<x[1], x[2]>> /\ x[1] \in Indexes /\ x[2] \in 1..Len(sorted[x[1]])
             /\ f[x] = sorted[x[1]][x[2]] /\ f[x] \in Own(x[1]) /\ f[x][1] = x[1]
  <2>1. x = <<x[1], x[2]>> /\ x[1] \in Indexes /\ x[2] \in 1..Len(sorted[x[1]])
    BY <1>0, SlotFacts
  <2>2. sorted[x[1]][x[2]] \in Own(x[1])
    BY <1>0, <2>1, SortingFacts DEF AllSorted
  <2> QED
    BY <2>1, <2>2 DEF Own
<1>3. f \in [Slots -> FoundResults]
  BY <1>1, <1>2
<1>4. \A x, y \in Slots : f[x] = f[y] => x = y
  <2> SUFFICES ASSUME NEW x \in Slots, NEW y \in Slots, f[x] = f[y] PROVE x = y
    OBVIOUS
  <2> HIDE DEF f
  <2>1. x[1] = y[1] /\ sorted[x[1]][x[2]] = sorted[x[1]][y[2]] /\ y[2] \in 1..Len(sorted[x[1]])
    BY <1>2
  <2>2. x[2] = y[2]
    BY <1>0, <1>2, <2>1, SortingFacts DEF AllSorted
  <2> QED
    BY <1>2, <2>1, <2>2
<1>5. \A r \in FoundResults : \E x \in Slots : f[x] = r
  <2> TAKE r \in FoundResults
  <2>1. PICK i \in Indexes : r \in Own(i)
    BY <1>1
  <2>2. PICK k \in 1..Len(sorted[i]) : sorted[i][k] = r
    BY <1>0, <2>1, SortingFacts DEF AllSorted
  <2>3. <<i, k>> \in Slots
    BY ASlot
  <2> QED
    BY <2>2, <2>3
<1> HIDE DEF f
<1>6. f \in Bijection(Slots, FoundResults)
  BY <1>3, <1>4, <1>5 DEF Bijection, Injection, Surjection, IsInjective
<1>7. ExistsBijection(Slots, FoundResults)
  BY <1>6 DEF ExistsBijection
<1> QED
  BY <1>0, <1>7, SlotsFinite, FS_Bijection DEF Total

(* The merged list has every result once, in the order of the keys.        *)
LEMMA MergedIsTheList ==
  AllSorted => Merged \in Seq(AllResults) /\ Abstract!InOrder(Merged) /\ Abstract!OnceEach(Merged)
<1> SUFFICES ASSUME AllSorted
             PROVE  /\ Merged \in Seq(AllResults)
                    /\ Abstract!InOrder(Merged) /\ Abstract!OnceEach(Merged)
  OBVIOUS
<1> DEFINE size == Cardinality(Slots)
<1>1. Ordered /\ QueryInv /\ size = Cardinality(FoundResults)
  BY SortedOrdered, SlotsAreResults DEF AllSorted, Total
<1>2. /\ size \in Nat /\ Merged \in [1..size -> AllResults] /\ Len(Merged) = size
      /\ \A x \in Slots : Cardinality(SlotsBefore(x)) + 1 \in 1..size
                          /\ Merged[Cardinality(SlotsBefore(x)) + 1] = sorted[x[1]][x[2]]
      /\ \A k \in 1..size : \E x \in Slots : Cardinality(SlotsBefore(x)) + 1 = k
  BY <1>1, MergedPlaces
<1>3. \A k \in 1..size : \E x \in Slots :
        Cardinality(SlotsBefore(x)) + 1 = k /\ Merged[k] = sorted[x[1]][x[2]]
  BY <1>2
<1> HIDE DEF size
<1>4. ASSUME NEW x \in Slots
      PROVE  /\ x = <<x[1], x[2]>> /\ x[1] \in Indexes /\ x[2] \in 1..Len(sorted[x[1]])
             /\ sorted[x[1]][x[2]] \in Own(x[1]) /\ sorted[x[1]][x[2]][1] = x[1]
  <2>1. x = <<x[1], x[2]>> /\ x[1] \in Indexes /\ x[2] \in 1..Len(sorted[x[1]])
    BY <1>1, SlotFacts
  <2>2. sorted[x[1]][x[2]] \in Own(x[1])
    BY <1>1, <2>1, SortingFacts DEF AllSorted
  <2> QED
    BY <2>1, <2>2 DEF Own
<1>5. \A k \in 1..size : Merged[k] \in FoundResults
  BY <1>3, <1>4 DEF FoundResults, Own
<1>6. \A k, l \in 1..size : k # l => Merged[k] # Merged[l]
  <2> SUFFICES ASSUME NEW k \in 1..size, NEW l \in 1..size, Merged[k] = Merged[l] PROVE k = l
    OBVIOUS
  <2>1. PICK x \in Slots : Cardinality(SlotsBefore(x)) + 1 = k /\ Merged[k] = sorted[x[1]][x[2]]
    BY <1>3
  <2>2. PICK y \in Slots : Cardinality(SlotsBefore(y)) + 1 = l /\ Merged[l] = sorted[y[1]][y[2]]
    BY <1>3
  <2>3. x[1] = y[1] /\ sorted[x[1]][x[2]] = sorted[x[1]][y[2]]
    <3>1. sorted[x[1]][x[2]] = sorted[y[1]][y[2]]
      BY <2>1, <2>2
    <3>2. sorted[x[1]][x[2]][1] = x[1] /\ sorted[y[1]][y[2]][1] = y[1]
      BY <1>4
    <3> QED
      BY <3>1, <3>2
  <2>4. x[2] = y[2]
    <3>1. /\ x[1] \in Indexes /\ sorted[x[1]] \in Sortings(x[1])
          /\ x[2] \in 1..Len(sorted[x[1]]) /\ y[2] \in 1..Len(sorted[x[1]])
      BY <1>4, <2>3 DEF AllSorted
    <3> QED
      BY <1>1, <2>3, <3>1, SortingFacts
  <2>5. x = y
    BY <1>4, <2>3, <2>4
  <2> QED
    BY <2>1, <2>2, <2>5
<1>7. ASSUME NEW k \in 1..size, NEW l \in 1..size, k < l
      PROVE  KeyOf(Merged[k]) >= KeyOf(Merged[l])
  <2>1. PICK x \in Slots : Cardinality(SlotsBefore(x)) + 1 = k /\ Merged[k] = sorted[x[1]][x[2]]
    BY <1>3
  <2>2. PICK y \in Slots : Cardinality(SlotsBefore(y)) + 1 = l /\ Merged[l] = sorted[y[1]][y[2]]
    BY <1>3
  <2>3. Cardinality(SlotsBefore(x)) \in Nat /\ Cardinality(SlotsBefore(y)) \in Nat
    BY <1>1, SlotsFinite, FS_Subset, FS_CardinalityType DEF SlotsBefore
  <2>4. x # y /\ ~Precedes(y, x)
    <3>1. Cardinality(SlotsBefore(x)) < Cardinality(SlotsBefore(y))
      BY <1>7, <2>1, <2>2, <2>3
    <3> QED
      BY <1>1, <2>3, <3>1, FewerBefore
  <2>5. Precedes(x, y)
    BY <1>1, <2>4, PrecedesTotal
  <2>6. KeyAt(x) = KeyOf(Merged[k]) /\ KeyAt(y) = KeyOf(Merged[l]) /\ KeyAt(x) \in Nat /\ KeyAt(y) \in Nat
    BY <1>1, <2>1, <2>2, SlotFacts DEF KeyAt
  <2>7. CASE x[1] # y[1]
    BY <2>5, <2>6, <2>7 DEF Precedes, KeyAt
  <2>8. CASE x[1] = y[1]
    <3>1. x[2] < y[2]
      BY <2>5, <2>8 DEF Precedes
    <3> QED
      BY <1>1, <1>4, <2>1, <2>2, <2>8, <3>1 DEF Ordered
  <2> QED
    BY <2>7, <2>8
<1>8. \A r \in FoundResults : \E k \in 1..size : Merged[k] = r
  <2> TAKE r \in FoundResults
  <2>1. PICK i \in Indexes : r \in Own(i)
    BY DEF FoundResults, Own
  <2>2. PICK k \in 1..Len(sorted[i]) : sorted[i][k] = r
    BY <1>1, <2>1, SortingFacts DEF AllSorted
  <2>3. <<i, k>> \in Slots
    BY ASlot
  <2> QED
    BY <1>2, <2>2, <2>3
<1>9. Merged \in Seq(AllResults) /\ Abstract!OnceEach(Merged)
  <2>1. Merged \in Seq(AllResults)
    BY <1>2
  <2>2. {Merged[k] : k \in 1..size} = FoundResults
    BY <1>5, <1>8
  <2> QED
    BY <1>2, <1>6, <2>1, <2>2 DEF Abstract!OnceEach
<1>10. Abstract!InOrder(Merged)
  BY <1>2, <1>7 DEF Abstract!InOrder
<1> QED
  BY <1>9, <1>10

(***************************************************************************)
(* The invariant.                                                          *)
(***************************************************************************)
LEMMA OrderedAlways == QueryInv /\ ListsInv => Ordered
<1> SUFFICES ASSUME QueryInv, ListsInv PROVE Ordered
  OBVIOUS
<1>1. CASE phase = "read"
  BY <1>1, SortedOrdered DEF ListsInv, AllSorted
<1>2. CASE phase # "read"
  BY <1>2 DEF ListsInv, Ordered, QueryInv
<1> QED
  BY <1>1, <1>2

LEMMA FoundFinite == QueryInv => IsFiniteSet(FoundResults)
<1> SUFFICES ASSUME QueryInv PROVE IsFiniteSet(FoundResults)
  OBVIOUS
<1>1. IsFiniteSet(1..MaxIndexes) /\ IsFiniteSet(FileNumbers)
  BY ResultsAssumption, FS_Interval
<1>2. IsFiniteSet((1..MaxIndexes) \X FileNumbers)
  BY <1>1, FS_Product
<1>3. FoundResults \in SUBSET ((1..MaxIndexes) \X FileNumbers)
  <2>1. Indexes \subseteq 1..MaxIndexes
    BY ResultsAssumption DEF QueryInv, Indexes
  <2> QED
    BY <2>1 DEF FoundResults, QueryInv
<1> QED
  BY <1>2, <1>3, FS_Subset

(* The smallest of some codes and another.                                 *)
LEMMA MinCode ==
  ASSUME NEW S \in SUBSET Codes
  PROVE  /\ S # {} => Min(S) \in S /\ \A d \in S : Min(S) <= d
         /\ \A e \in Codes :
              /\ S = {} => Min(S \cup {e}) = e
              /\ S # {} => Min(S \cup {e}) = IF e < Min(S) THEN e ELSE Min(S)
<1>1. ASSUME NEW T \in SUBSET Codes, T # {}
      PROVE  Min(T) \in T /\ \A d \in T : Min(T) <= d
  <2>0. PICK t \in T : t \in Codes /\ \A d \in T : d \in Codes
    BY <1>1
  <2>1. \E c \in T : \A d \in T : c <= d
    <3> USE DEF Codes, NO_WORDS_IN_SEARCH, WORDS_TOO_COMMON, UNKNOWN_METANAME, QUERY_SYNTAX_ERROR
    <3>1. CASE -253 \in T
      BY <3>1
    <3>2. CASE -253 \notin T /\ -252 \in T
      BY <3>2
    <3>3. CASE -253 \notin T /\ -252 \notin T /\ -246 \in T
      BY <3>3
    <3>4. CASE -253 \notin T /\ -252 \notin T /\ -246 \notin T
      <4>1. \A d \in T : d \in Codes /\ d # -253 /\ d # -252 /\ d # -246
        BY <2>0, <3>4
      <4>2. \A d \in T : d = -237
        BY <4>1
      <4> QED
        BY <4>2
    <3> QED
      BY <3>1, <3>2, <3>3, <3>4
  <2> QED
    BY <2>1 DEF Min
<1>2. \A c \in Codes : c \in Int
  BY DEF Codes, NO_WORDS_IN_SEARCH, WORDS_TOO_COMMON, UNKNOWN_METANAME, QUERY_SYNTAX_ERROR
<1>3. ASSUME NEW e \in Codes
      PROVE  /\ S = {} => Min(S \cup {e}) = e
             /\ S # {} => Min(S \cup {e}) = IF e < Min(S) THEN e ELSE Min(S)
  <2>1. Min(S \cup {e}) \in S \cup {e} /\ \A d \in S \cup {e} : Min(S \cup {e}) <= d
    BY <1>1
  <2>2. S # {} => Min(S) \in S /\ \A d \in S : Min(S) <= d
    BY <1>1
  <2> QED
    BY <1>2, <2>1, <2>2
<1> QED
  BY <1>1, <1>3

(* The query of one index, whatever came of it, leaves the lists alone.    *)
LEMMA QueryStep ==
  ASSUME QueryInv, ErrorInv, phase = "query",
         NEW e \in Codes \cup {RC_OK}, AfterQuery(e)
  PROVE  /\ ErrorInv' /\ cur' \in Nat /\ phase' \in {"query", "sort", "failed"}
         /\ phase' = "query" => cur' = cur + 1 /\ cur' \in 1..n
<1>1. /\ e \in Codes => e < RC_OK /\ e # RC_OK
      /\ RC_OK \notin Codes
  BY DEF Codes, RC_OK, NO_WORDS_IN_SEARCH, WORDS_TOO_COMMON, UNKNOWN_METANAME, QUERY_SYNTAX_ERROR
<1>2. cur \in 1..n /\ n \in Nat /\ cur \in Nat
  BY ResultsAssumption DEF QueryInv
<1>3. cur' \in Nat /\ phase' \in {"query", "sort", "failed"}
      /\ (phase' = "query" => cur' = cur + 1 /\ cur' \in 1..n)
  BY <1>2 DEF AfterQuery
<1>4. errors' \subseteq Codes
  BY DEF AfterQuery, ErrorInv
<1>5. ASSUME phase' # "failed"
      PROVE  resError' = IF errors' = {} THEN RC_OK ELSE Min(errors')
  <2>1. resError = IF errors = {} THEN RC_OK ELSE Min(errors)
    BY DEF ErrorInv
  <2>2. /\ errors' = errors \cup ({e} \ {RC_OK})
        /\ resError' = IF e = RC_OK THEN resError ELSE Recorded(e)
    BY <1>5 DEF AfterQuery
  <2>3. CASE e = RC_OK
    BY <2>1, <2>2, <2>3
  <2>4. CASE e \in Codes
    <3>1. errors' = errors \cup {e} /\ resError' = IF e < resError THEN e ELSE resError
      BY <1>1, <2>2, <2>4 DEF Recorded
    <3>2. errors \in SUBSET Codes
      BY DEF ErrorInv
    <3>3. CASE errors = {}
      BY <1>1, <2>1, <2>4, <3>1, <3>2, <3>3, MinCode
    <3>4. CASE errors # {}
      <4>1. Min(errors \cup {e}) = IF e < Min(errors) THEN e ELSE Min(errors)
        BY <2>4, <3>2, <3>4, MinCode
      <4> QED
        BY <2>1, <3>1, <3>4, <4>1
    <3> QED
      BY <3>3, <3>4
  <2> QED
    BY <2>3, <2>4
<1> QED
  BY <1>3, <1>4, <1>5 DEF ErrorInv

(* Results of an index more.                                               *)
LEMMA FilesCounted == Cardinality(FileNumbers) \in Nat
BY ResultsAssumption, FS_CardinalityType

LEMMA QueryKeepsQuery ==
  ASSUME QueryInv, ErrorInv, QueryFails \/ QueryFinds
  PROVE  /\ QueryInv' /\ ErrorInv' /\ phase = "query" /\ phase' # "read"
         /\ FoundResults \subseteq FoundResults'
<1>1. CASE QueryFails
  <2>1. PICK header \in {0, Cardinality(FileNumbers)}, e \in Codes \cup {RC_OK} :
           totalFiles' = totalFiles + header /\ AfterQuery(e)
    BY <1>1 DEF QueryFails, Codes
  <2>2. phase = "query" /\ n' = n /\ wordsFound' = wordsFound /\ indexResults' = indexResults
    BY <1>1 DEF QueryFails
  <2>3. /\ ErrorInv' /\ cur' \in Nat /\ phase' \in {"query", "sort", "failed"}
        /\ phase' = "query" => cur' = cur + 1 /\ cur' \in 1..n
    BY <2>1, <2>2, QueryStep
  <2>4. header \in Nat /\ totalFiles \in Nat /\ cur \in Nat /\ n \in Nat
    BY FilesCounted, ResultsAssumption DEF QueryInv
  <2>5. FoundResults' = FoundResults
    BY <2>2 DEF FoundResults, Indexes
  <2>6. totalFiles' \in Nat /\ (totalFiles' = 0 => totalFiles = 0)
    BY <2>1, <2>4
  <2>7. phase' = "query" => \A i \in cur'..n : i \in cur..n
    BY <2>3, <2>4
  <2>8. QueryInv'
    BY <2>2, <2>3, <2>5, <2>6, <2>7 DEF QueryInv, Indexes
  <2> QED
    BY <2>2, <2>3, <2>5, <2>8
<1>2. CASE QueryFinds
  <2>1. PICK header \in {0, Cardinality(FileNumbers)}, files \in SUBSET FileNumbers :
           /\ header = 0 => files = {}
           /\ indexResults' = [indexResults EXCEPT ![cur] = files]
           /\ totalFiles' = totalFiles + header
    BY <1>2 DEF QueryFinds
  <2>2. phase = "query" /\ n' = n /\ wordsFound' = wordsFound + 1 /\ AfterQuery(RC_OK)
    BY <1>2 DEF QueryFinds
  <2>3. /\ ErrorInv' /\ cur' \in Nat /\ phase' \in {"query", "sort", "failed"}
        /\ phase' = "query" => cur' = cur + 1 /\ cur' \in 1..n
    BY <2>2, QueryStep
  <2>4. /\ header \in Nat /\ totalFiles \in Nat /\ wordsFound \in Nat /\ cur \in 1..n /\ n \in Nat
        /\ indexResults \in [Indexes -> SUBSET FileNumbers] /\ cur \in Indexes /\ cur \in cur..n
        /\ \A i \in cur..n : indexResults[i] = {}
    BY <2>2, FilesCounted, ResultsAssumption DEF QueryInv, Indexes
  <2>5. /\ indexResults' \in [Indexes -> SUBSET FileNumbers] /\ indexResults'[cur] = files
        /\ \A i \in Indexes : i # cur => indexResults'[i] = indexResults[i]
    BY <2>1, <2>4
  <2>6. FoundResults \subseteq FoundResults'
    <3>1. \A i \in Indexes : indexResults[i] \subseteq indexResults'[i]
      BY <2>4, <2>5
    <3> QED
      BY <2>2, <3>1 DEF FoundResults, Indexes
  <2>7. totalFiles' \in Nat /\ wordsFound' \in Nat /\ wordsFound' # 0
        /\ (totalFiles' = 0 => totalFiles = 0 /\ header = 0)
    BY <2>1, <2>2, <2>4
  <2>8. totalFiles' = 0 => FoundResults' = {}
    <3> HAVE totalFiles' = 0
    <3>1. FoundResults = {} /\ files = {}
      BY <2>1, <2>7 DEF QueryInv
    <3>0. ASSUME NEW i \in Indexes, NEW f \in indexResults[i] PROVE FALSE
      <4>1. <<i, f>> \in FoundResults
        BY DEF FoundResults
      <4> QED
        BY <3>1, <4>1
    <3>2. \A i \in Indexes : indexResults'[i] = {}
      BY <2>5, <3>0, <3>1
    <3> QED
      BY <2>2, <3>2 DEF FoundResults, Indexes
  <2>9. phase' = "query" => \A i \in cur'..n : i \in cur..n /\ i \in Indexes /\ i # cur
    BY <2>3, <2>4 DEF Indexes
  <2>10. QueryInv'
    BY <2>2, <2>3, <2>4, <2>5, <2>7, <2>8, <2>9 DEF QueryInv, Indexes
  <2> QED
    BY <2>2, <2>3, <2>6, <2>10
<1> QED
  BY <1>1, <1>2

(***************************************************************************)
(* Reading and seeking.                                                    *)
(***************************************************************************)
(* A place in the only list.                                               *)
LEMMA OneList ==
  ASSUME Ordered, n = 1, NEW m \in Nat, m <= Len(sorted[1])
  PROVE  Cardinality({x \in Slots : x[2] <= m}) = m
<1> DEFINE S == {x \in Slots : x[2] <= m}
           f == [k \in 1..m |-> <<1, k>>]
<1>1. 1 \in Indexes /\ Indexes = {1} /\ Len(sorted[1]) \in Nat
  BY DEF Indexes, Ordered
<1>2. ASSUME NEW k \in 1..m PROVE <<1, k>> \in S
  <2>1. k \in 1..Len(sorted[1])
    BY <1>1
  <2>2. <<1, k>> \in Slots
    BY <1>1, <2>1, ASlot
  <2> QED
    BY <2>2
<1>3. ASSUME NEW x \in S PROVE \E k \in 1..m : x = <<1, k>>
  <2>1. x = <<x[1], x[2]>> /\ x[1] \in Indexes /\ x[2] \in 1..Len(sorted[x[1]])
    BY SlotFacts
  <2>2. x[1] = 1 /\ x[2] \in 1..m
    BY <1>1, <2>1
  <2> QED
    BY <2>1, <2>2
<1> HIDE DEF S
<1>4. f \in Bijection(1..m, S)
  BY <1>2, <1>3 DEF Bijection, Injection, Surjection, IsInjective
<1>5. IsFiniteSet(1..m) /\ Cardinality(1..m) = IF 1 > m THEN 0 ELSE m - 1 + 1
  BY FS_Interval
<1> HIDE DEF f
<1>6. ExistsBijection(1..m, S)
  BY <1>4 DEF ExistsBijection
<1>7. Cardinality(S) = Cardinality(1..m)
  BY <1>5, <1>6, FS_Bijection
<1> QED
  BY <1>5, <1>7 DEF S

LEMMA RestLength ==
  ASSUME NEW a \in Nat, NEW p \in Nat, NEW b,
         b = IF p + 1 <= a THEN a - (p + 1) + 1 ELSE 0
  PROVE  LET m == IF p < a THEN p ELSE a
         IN  /\ b \in Nat /\ m \in Nat /\ m <= a
             /\ b = a - m /\ (b # 0 <=> p < a) /\ a - b = m
             /\ \A k \in 1..b : p + 1 + k - 1 = m + k
OBVIOUS

LEMMA RestFrom ==
  ASSUME NEW s \in Seq(AllResults), NEW p \in Nat
  PROVE  LET t == SubSeq(s, p + 1, Len(s))
             m == IF p < Len(s) THEN p ELSE Len(s)
         IN  /\ t \in Seq(AllResults) /\ Len(t) \in Nat /\ m \in Nat /\ m <= Len(s)
             /\ Len(t) = Len(s) - m /\ (t # <<>> <=> p < Len(s))
             /\ Len(s) - Len(t) = m
             /\ \A k \in 1..Len(t) : t[k] = s[m + k]
<1> DEFINE t == SubSeq(s, p + 1, Len(s))
           m == IF p < Len(s) THEN p ELSE Len(s)
<1>1. Len(s) \in Nat
  OBVIOUS
<1>2. t \in Seq(AllResults)
  <2>1. \A k \in (p + 1)..Len(s) : s[k] \in AllResults
    OBVIOUS
  <2> QED
    BY <2>1
<1>3. Len(t) = IF p + 1 <= Len(s) THEN Len(s) - (p + 1) + 1 ELSE 0
  OBVIOUS
<1>5. \A k \in 1..Len(t) : t[k] = s[p + 1 + k - 1]
  BY <1>3
<1> HIDE DEF t
<1>4. /\ Len(t) \in Nat /\ m \in Nat /\ m <= Len(s)
      /\ Len(t) = Len(s) - m /\ (Len(t) # 0 <=> p < Len(s)) /\ Len(s) - Len(t) = m
      /\ \A k \in 1..Len(t) : p + 1 + k - 1 = m + k
  BY <1>1, <1>3, RestLength
<1> HIDE DEF m
<1>6. t # <<>> <=> Len(t) # 0
  BY <1>2
<1>7. \A k \in 1..Len(t) : t[k] = s[m + k]
  BY <1>4, <1>5
<1>8. t # <<>> <=> p < Len(s)
  BY <1>4, <1>6
<1> QED
  BY <1>2, <1>4, <1>7, <1>8 DEF t, m

LEMMA SeekOneCut ==
  ASSUME Ordered, n = 1, NEW p \in Nat, NEW l,
         l = [current EXCEPT ![1] = SubSeq(sorted[1], p + 1, Len(sorted[1]))],
         current \in [Indexes -> Seq(AllResults)]
  PROVE  /\ Cut(l)
         /\ Cardinality(Behind(l)) = IF p < Cardinality(Slots) THEN p ELSE Cardinality(Slots)
         /\ SubSeq(sorted[1], p + 1, Len(sorted[1])) # <<>> <=> p < Cardinality(Slots)
<1> DEFINE s == sorted[1]
           t == SubSeq(s, p + 1, Len(s))
           m == IF p < Len(s) THEN p ELSE Len(s)
<1>1. 1 \in Indexes /\ Indexes = {1} /\ s \in Seq(AllResults) /\ Len(s) \in Nat
  BY DEF Indexes, Ordered
<1>2. /\ t \in Seq(AllResults) /\ Len(t) \in Nat /\ m \in Nat /\ m <= Len(s)
      /\ Len(t) = Len(s) - m /\ (t # <<>> <=> p < Len(s)) /\ Len(s) - Len(t) = m
      /\ \A k \in 1..Len(t) : t[k] = s[m + k]
  BY <1>1, RestFrom
<1> HIDE DEF t
<1>3. l[1] = t /\ l \in [Indexes -> Seq(AllResults)]
  BY <1>1, <1>2 DEF t
<1> HIDE DEF m
<1>4. Rests(l)
  <2>1. Len(t) <= Len(s) /\ \A k \in 1..Len(t) : t[k] = s[Len(s) - Len(t) + k]
    BY <1>1, <1>2
  <2>2. \A i \in Indexes : i = 1 /\ l[i] = t /\ sorted[i] = s
    BY <1>1, <1>3
  <2> HIDE DEF s
  <2> QED
    BY <1>3, <2>1, <2>2, ZenonT(60) DEF Rests
<1>5. ASSUME NEW x \in Slots
      PROVE  x[1] = 1 /\ x[2] \in Nat /\ (x \in Behind(l) <=> x[2] <= m)
  <2>1. x[1] = 1 /\ x[2] \in Nat
    BY <1>1, SlotFacts
  <2> QED
    BY <1>2, <1>3, <2>1 DEF Behind
<1>6. \A x \in Behind(l), y \in Slots \ Behind(l) : Precedes(x, y)
  <2> TAKE x \in Behind(l), y \in Slots \ Behind(l)
  <2>1. x \in Slots /\ x[1] = y[1] /\ x[2] \in Nat /\ y[2] \in Nat /\ x[2] <= m /\ ~(y[2] <= m)
    BY <1>5 DEF Behind
  <2>2. x[2] < y[2]
    BY <1>2, <2>1
  <2> QED
    BY <2>1, <2>2 DEF Precedes
<1>7. Behind(l) = {x \in Slots : x[2] <= m}
  BY <1>5 DEF Behind
<1>8. Cardinality(Behind(l)) = m
  BY <1>2, <1>7, OneList
<1>9. Cardinality(Slots) = Len(s)
  <2>1. \A x \in Slots : x[2] <= Len(s)
    <3> TAKE x \in Slots
    <3>1. x[2] \in 1..Len(sorted[x[1]]) /\ x[1] = 1
      BY <1>5, SlotFacts
    <3> QED
      BY <3>1
  <2>2. Slots = {x \in Slots : x[2] <= Len(s)}
    BY <2>1
  <2>3. Len(s) <= Len(sorted[1])
    BY <1>1
  <2>4. Cardinality({x \in Slots : x[2] <= Len(s)}) = Len(s)
    BY <1>1, <2>3, OneList
  <2> QED
    BY <2>2, <2>4
<1> QED
  BY <1>2, <1>4, <1>6, <1>8, <1>9 DEF Cut, m, t

Reads == SwishNextResult \/ SeekOne \/ SeekMany \/ SeekStart

(* What a reading leaves alone, and where it leaves the lists.             *)
LEMMA ReadCut ==
  ASSUME QueryInv, ListsInv, Reads
  PROVE  /\ UNCHANGED <<n, phase, cur, execVars, sorted>>
         /\ phase \in {"read", "failed"} /\ Cut(current')
<1>1. UNCHANGED <<n, phase, cur, execVars, sorted>> /\ phase \in {"read", "failed"} \cup {phase}
  BY DEF Reads, SwishNextResult, SeekOne, SeekMany, SeekStart
<1>2. phase \in {"read", "failed"}
  BY DEF Reads, SwishNextResult, SeekOne, SeekMany, SeekStart
<1>3. Ordered /\ Cut(current) /\ current \in [Indexes -> Seq(AllResults)]
      /\ totalResults \in Nat
  <2>1. Ordered
    BY OrderedAlways
  <2>2. totalResults \in Nat
    BY <2>1, SlotsFinite, FS_CardinalityType DEF ListsInv
  <2> QED
    BY <2>1, <2>2 DEF ListsInv, Cut, Rests
<1>4. CASE SwishNextResult
  <2>1. current' = Pop(current)
    BY <1>4 DEF SwishNextResult
  <2> QED
    BY <1>1, <1>2, <1>3, <2>1, BehindCount
<1>5. CASE SeekOne
  <2>1. PICK p \in 0..(totalResults + 1) :
           current' = [current EXCEPT ![1] = SubSeq(sorted[1], p + 1, Len(sorted[1]))]
    BY <1>5 DEF SeekOne
  <2>2. p \in Nat /\ n = 1
    BY <1>3, <1>5 DEF SeekOne
  <2> QED
    BY <1>1, <1>2, <1>3, <2>1, <2>2, SeekOneCut
<1>6. CASE SeekMany
  <2>1. PICK p \in 1..(totalResults + 1) : current' = Popped(sorted, p)
    BY <1>6 DEF SeekMany
  <2>2. p \in Nat
    BY <1>3
  <2> QED
    BY <1>1, <1>2, <1>3, <2>1, <2>2, PoppedCut
<1>7. CASE SeekStart
  BY <1>1, <1>2, <1>3, <1>7, SortedCut DEF SeekStart
<1> QED
  BY <1>4, <1>5, <1>6, <1>7 DEF Reads

LEMMA ReadKeeps ==
  ASSUME QueryInv, ErrorInv, ListsInv, Reads
  PROVE  /\ QueryInv' /\ ErrorInv' /\ ListsInv' /\ FoundResults' = FoundResults
         /\ Slots' = Slots /\ Merged' = Merged
         /\ Position' = Cardinality(Behind(current'))
<1>1. /\ n' = n /\ phase' = phase /\ cur' = cur /\ sorted' = sorted
      /\ totalFiles' = totalFiles /\ wordsFound' = wordsFound /\ indexResults' = indexResults
      /\ resError' = resError /\ totalResults' = totalResults /\ errors' = errors
      /\ Cut(current')
  BY ReadCut DEF execVars
<1>2. FoundResults' = FoundResults /\ Indexes' = Indexes
  BY <1>1 DEF FoundResults, Indexes
<1>3. Slots' = Slots
  BY <1>1, <1>2 DEF Slots
<1>4. \A x, y \in Slots : Precedes(x, y)' <=> Precedes(x, y)
  BY <1>1 DEF Precedes
<1>5. Behind(current)' = Behind(current')
  BY <1>1, <1>3 DEF Behind
<1>6. Cut(current)'
  <2>1. Rests(current)'
    BY <1>1, <1>2 DEF Cut, Rests
  <2>2. \A x \in Behind(current'), y \in Slots \ Behind(current') : Precedes(x, y)'
    BY <1>1, <1>4 DEF Cut, Behind
  <2> QED
    BY <1>3, <1>5, <2>1, <2>2 DEF Cut
<1>7. QueryInv' /\ ErrorInv'
  BY <1>1, <1>2 DEF QueryInv, ErrorInv
<1>8. ListsInv'
  BY <1>1, <1>2, <1>3, <1>6 DEF ListsInv, Sortings
<1>9. Merged' = Merged
  BY <1>1, <1>3 DEF Merged, Precedes
<1> QED
  BY <1>2, <1>3, <1>5, <1>7, <1>8, <1>9 DEF Position

(***************************************************************************)
(* The sorting.                                                            *)
(***************************************************************************)
(* Before the sorting there is no list.                                    *)
LEMMA UnsortedStays ==
  QueryInv /\ ListsInv /\ phase # "read"
  => Slots = {} /\ Merged = <<>> /\ Position = 0 /\ totalResults = 0 /\ Live(current) = {}
<1> SUFFICES ASSUME QueryInv, ListsInv, phase # "read"
             PROVE  Slots = {} /\ Merged = <<>> /\ Position = 0 /\ totalResults = 0
                    /\ Live(current) = {}
  OBVIOUS
<1>1. \A i \in Indexes : sorted[i] = <<>>
  BY DEF ListsInv
<1>2. Slots = {}
  BY <1>1 DEF Slots
<1>3. Cardinality(Slots) = 0 /\ Behind(current) = {}
  BY <1>2, FS_EmptySet DEF Behind
<1>4. Merged = <<>>
  <2>1. Merged \in [1..0 -> AllResults] /\ Len(Merged) = 0
    BY <1>3, OrderedAlways, MergedPlaces
  <2> QED
    BY <2>1
<1>5. \A i \in Indexes : current[i] = <<>>
  <2> TAKE i \in Indexes
  <2>1. current[i] \in Seq(AllResults) /\ Len(current[i]) <= Len(sorted[i])
    BY DEF ListsInv, Cut, Rests
  <2> QED
    BY <1>1, <2>1
<1> QED
  BY <1>2, <1>3, <1>4, <1>5, FS_EmptySet DEF Position, Live, ListsInv

LEMMA SortSorts ==
  ASSUME QueryInv, ErrorInv, ListsInv, Sort
  PROVE  /\ QueryInv' /\ ErrorInv' /\ AllSorted' /\ current' = sorted'
         /\ totalResults' = Total' /\ FoundResults' = FoundResults
         /\ phase = "sort" /\ phase' = "read"
<1>1. /\ n' = n /\ cur' = cur /\ phase = "sort" /\ phase' = "read"
      /\ totalFiles' = totalFiles /\ wordsFound' = wordsFound /\ indexResults' = indexResults
      /\ resError' = resError /\ errors' = errors
  BY DEF Sort
<1>2. FoundResults' = FoundResults /\ Indexes' = Indexes /\ Total' = Total
  BY <1>1 DEF FoundResults, Indexes, Total
<1>3. QueryInv' /\ ErrorInv'
  BY <1>1, <1>2 DEF QueryInv, ErrorInv
<1>4. \A i \in Indexes : Sortings(i)' = Sortings(i)
  BY <1>1 DEF Sortings
<1>5. CASE totalFiles = 0 \/ wordsFound = 0
  <2>1. sorted' = sorted /\ current' = current /\ totalResults' = totalResults
    BY <1>5 DEF Sort
  <2>2. FoundResults = {}
    BY <1>5 DEF QueryInv
  <2>3. ASSUME NEW i \in Indexes
        PROVE  sorted[i] = <<>> /\ current[i] = <<>> /\ <<>> \in Sortings(i)
    <3>1. sorted[i] = <<>>
      BY <1>1 DEF ListsInv
    <3>2. current[i] \in Seq(AllResults) /\ Len(current[i]) <= Len(sorted[i])
      BY DEF ListsInv, Cut, Rests
    <3>3. Own(i) = {}
      BY <2>2 DEF FoundResults, Own
    <3>4. Cardinality(Own(i)) = 0
      BY <3>3, FS_EmptySet
    <3>5. <<>> \in SetToSeqs(Own(i))
      BY <3>4 DEF SetToSeqs
    <3>6. <<>> \in Sortings(i)
      BY <3>5 DEF Sortings, Own
    <3> QED
      BY <3>1, <3>2, <3>6
  <2>4. sorted \in [Indexes -> Seq(AllResults)] /\ current \in [Indexes -> Seq(AllResults)]
    BY DEF ListsInv, Cut, Rests
  <2>5. current = sorted
    BY <2>3, <2>4
  <2>6. totalResults = 0 /\ Total = 0
    BY <1>1, <2>2, UnsortedStays, FS_EmptySet DEF Total
  <2> QED
    BY <1>1, <1>2, <1>3, <1>4, <2>1, <2>3, <2>4, <2>5, <2>6 DEF AllSorted
<1>6. CASE ~(totalFiles = 0 \/ wordsFound = 0)
  <2>1. /\ \A i \in Indexes : sorted'[i] \in Sortings(i)
        /\ \E R : sorted' \in [Indexes -> R]
        /\ current' = sorted' /\ totalResults' = Total
    BY <1>6 DEF Sort
  <2>2. \A i \in Indexes : sorted'[i] \in Seq(AllResults)
    BY <2>1, SortingFacts
  <2>3. sorted' \in [Indexes -> Seq(AllResults)]
    BY <2>1, <2>2
  <2>4. AllSorted'
    <3>1. \A i \in Indexes' : sorted'[i] \in Sortings(i)'
      BY <1>2, <1>4, <2>1
    <3>2. sorted' \in [Indexes' -> Seq(AllResults)]
      BY <1>2, <2>3
    <3> QED
      BY <1>3, <3>1, <3>2 DEF AllSorted
  <2> QED
    BY <1>1, <1>2, <1>3, <2>1, <2>4
<1> QED
  BY <1>5, <1>6

LEMMA SortKeeps ==
  ASSUME QueryInv, ErrorInv, ListsInv, Sort
  PROVE  ListsInv' /\ Position' = 0
<1>1. /\ QueryInv' /\ AllSorted' /\ current' = sorted' /\ phase' = "read" /\ totalResults' = Total'
  BY SortSorts
<1>2. (AllSorted => Ordered)'
  BY SortedOrdered, PTL
<1>3. (Ordered => Cut(sorted) /\ Behind(sorted) = {})'
  BY SortedCut, PTL
<1>4. (AllSorted => Cardinality(Slots) = Total /\ IsFiniteSet(FoundResults))'
  BY SlotsAreResults, PTL
<1>5. Cut(sorted)' /\ Behind(sorted)' = {} /\ Cardinality(Slots)' = Total'
  BY <1>1, <1>2, <1>3, <1>4
<1>6. Behind(current)' = {}
  BY <1>1, <1>5 DEF Behind
<1>7. Cut(current)'
  BY <1>1, <1>5, <1>6 DEF Cut, Rests
<1>8. ListsInv'
  BY <1>1, <1>5, <1>7 DEF ListsInv, AllSorted
<1>9. Position' = 0
  BY <1>6, FS_EmptySet DEF Position
<1> QED
  BY <1>8, <1>9

LEMMA QueryKeepsLists ==
  ASSUME QueryInv, ErrorInv, ListsInv, QueryFails \/ QueryFinds
  PROVE  ListsInv'
<1>1. /\ phase # "read" /\ phase' # "read"
  BY QueryKeepsQuery
<1>2. n' = n /\ sorted' = sorted /\ current' = current /\ totalResults' = totalResults
  BY DEF QueryFails, QueryFinds
<1>3. Indexes' = Indexes /\ Slots' = Slots
  BY <1>2 DEF Indexes, Slots
<1>4. Slots = {}
  BY <1>1, UnsortedStays
<1>5. Rests(current)'
  BY <1>2, <1>3 DEF ListsInv, Cut, Rests
<1>6. Cut(current)'
  BY <1>3, <1>4, <1>5 DEF Cut, Behind
<1> QED
  BY <1>1, <1>2, <1>3, <1>6 DEF ListsInv

(***************************************************************************)
(* The number of a result.                                                 *)
(***************************************************************************)
LEMMA ReadCounts ==
  ASSUME QueryInv, ErrorInv, ListsInv, NumberInv, Reads
  PROVE  NumberInv'
<1> DEFINE c == Cardinality(Behind(current'))
           size == Cardinality(Slots)
<1>1. /\ Position' = c /\ phase' = phase /\ phase \in {"read", "failed"}
      /\ recNumber \in Nat /\ counted \in BOOLEAN
      /\ phase = "read" /\ counted => recNumber = Position
  BY ReadKeeps, ReadCut DEF NumberInv, RecordNumber
<1>2. Ordered /\ Cut(current) /\ current \in [Indexes -> Seq(AllResults)] /\ totalResults = size
      /\ size \in Nat
  BY OrderedAlways, SlotsFinite, FS_CardinalityType DEF ListsInv, Cut, Rests
<1>3. SUFFICES recNumber' \in Nat /\ counted' \in BOOLEAN
               /\ (phase = "read" /\ counted' => recNumber' = c)
  BY <1>1 DEF NumberInv, RecordNumber
<1>4. CASE SwishNextResult
  <2>1. current' = Pop(current) /\ counted' = counted
    BY <1>4 DEF SwishNextResult
  <2>2. Position = Cardinality(Behind(current)) /\ Position \in Nat
    BY <1>2, BehindCount DEF Position
  <2>3. CASE Live(current) = {}
    <3>1. recNumber' = recNumber /\ c = Position
      BY <1>2, <1>4, <2>1, <2>2, <2>3, BehindCount DEF SwishNextResult
    <3> QED
      BY <1>1, <2>1, <3>1
  <2>4. CASE Live(current) # {}
    <3>1. recNumber' = recNumber + 1 /\ c = Position + 1
      BY <1>2, <1>4, <2>1, <2>2, <2>4, BehindCount DEF SwishNextResult
    <3> HIDE DEF c
    <3> QED
      BY <1>1, <2>1, <2>2, <3>1
  <2> QED
    BY <2>3, <2>4
<1>5. CASE SeekOne
  <2> DEFINE Left(p) == SubSeq(sorted[1], p + 1, Len(sorted[1]))
  <2>1. PICK p \in 0..(totalResults + 1) :
           /\ current' = [current EXCEPT ![1] = Left(p)]
           /\ IF Left(p) # <<>> THEN recNumber' = p /\ counted' = TRUE
                                ELSE counted' = FALSE /\ recNumber' = recNumber
    BY <1>5 DEF SeekOne
  <2>2. p \in Nat /\ n = 1
    BY <1>2, <1>5 DEF SeekOne
  <2>3. c = (IF p < size THEN p ELSE size) /\ (Left(p) # <<>> <=> p < size)
    BY <1>2, <2>1, <2>2, SeekOneCut
  <2> HIDE DEF c, size, Left
  <2>4. CASE p < size
    <3>1. c = p
      BY <2>3, <2>4
    <3>2. recNumber' = p /\ counted' = TRUE
      BY <2>1, <2>3, <2>4
    <3> QED
      BY <2>2, <3>1, <3>2
  <2>5. CASE ~(p < size)
    <3>1. counted' = FALSE /\ recNumber' = recNumber
      BY <2>1, <2>3, <2>5
    <3> QED
      BY <1>1, <3>1
  <2> QED
    BY <2>4, <2>5
<1>6. CASE SeekMany
  <2>1. PICK p \in 1..(totalResults + 1) :
           /\ current' = Popped(sorted, p)
           /\ IF p <= totalResults
                THEN recNumber' = p /\ counted' = TRUE
                ELSE counted' = FALSE /\ recNumber' = recNumber + totalResults
    BY <1>6 DEF SeekMany
  <2>2. p \in Nat
    BY <1>2
  <2>3. c = IF p < size THEN p ELSE size
    BY <1>2, <2>1, <2>2, PoppedCut
  <2> HIDE DEF c, size
  <2>4. CASE p <= totalResults
    <3>1. c = p
      BY <1>2, <2>2, <2>3, <2>4
    <3>2. recNumber' = p /\ counted' = TRUE
      BY <2>1, <2>4
    <3> QED
      BY <2>2, <3>1, <3>2
  <2>5. CASE ~(p <= totalResults)
    <3>1. counted' = FALSE /\ recNumber' = recNumber + totalResults
      BY <2>1, <2>5
    <3>2. recNumber' \in Nat
      BY <1>1, <1>2, <3>1
    <3> QED
      BY <3>1, <3>2
  <2> QED
    BY <2>4, <2>5
<1>7. CASE SeekStart
  <2>1. current' = sorted /\ counted' = (recNumber = 0) /\ recNumber' = recNumber
    BY <1>7 DEF SeekStart
  <2>2. c = 0
    BY <1>2, <2>1, SortedCut, FS_EmptySet
  <2> HIDE DEF c
  <2> QED
    BY <1>1, <2>1, <2>2
<1> QED
  BY <1>4, <1>5, <1>6, <1>7 DEF Reads

LEMMA ResultsInitInv == ResultsInit => ResultsInv
<1> SUFFICES ASSUME ResultsInit PROVE ResultsInv
  OBVIOUS
<1>1. n \in Nat /\ n # 0 /\ n \in 1..MaxIndexes /\ Indexes = 1..n
  BY ResultsAssumption DEF ResultsInit, Indexes
<1>2. /\ indexResults = [i \in Indexes |-> {}] /\ sorted = [i \in Indexes |-> <<>>]
      /\ current = [i \in Indexes |-> <<>>] /\ phase = "query" /\ cur = 1
      /\ totalFiles = 0 /\ wordsFound = 0 /\ resError = RC_OK /\ errors = {}
      /\ totalResults = 0 /\ recNumber = 0 /\ counted = TRUE
  BY <1>1 DEF ResultsInit
<1>3. FoundResults = {} /\ Slots = {}
  BY <1>2 DEF FoundResults, Slots
<1>4. QueryInv
  BY <1>1, <1>2, <1>3 DEF QueryInv
<1>5. ErrorInv
  BY <1>2 DEF ErrorInv
<1>6. ListsInv
  <2>1. <<>> \in Seq(AllResults) /\ Len(<<>>) = 0
    OBVIOUS
  <2>2. sorted \in [Indexes -> Seq(AllResults)] /\ current \in [Indexes -> Seq(AllResults)]
    BY <1>2, <2>1
  <2>3. Rests(current)
    BY <1>2, <2>1, <2>2 DEF Rests
  <2>4. Cut(current)
    BY <1>3, <2>3 DEF Cut, Behind
  <2> QED
    BY <1>2, <1>3, <2>2, <2>4, FS_EmptySet DEF ListsInv
<1>7. NumberInv
  BY <1>2 DEF NumberInv, RecordNumber
<1> QED
  BY <1>4, <1>5, <1>6, <1>7 DEF ResultsInv

LEMMA ResultsInvStep == ResultsInv /\ [ResultsNext]_resultsVars => ResultsInv'
<1> SUFFICES ASSUME ResultsInv, [ResultsNext]_resultsVars PROVE ResultsInv'
  OBVIOUS
<1> USE DEF ResultsInv
<1>1. CASE QueryFails \/ QueryFinds
  <2>1. QueryInv' /\ ErrorInv' /\ phase = "query" /\ phase' # "read" /\ ListsInv'
    BY <1>1, QueryKeepsQuery, QueryKeepsLists
  <2>2. recNumber' = recNumber /\ counted' = counted
    BY <1>1 DEF QueryFails, QueryFinds
  <2>3. NumberInv'
    BY <2>1, <2>2 DEF NumberInv, RecordNumber
  <2> QED
    BY <2>1, <2>3
<1>2. CASE Sort
  <2>1. QueryInv' /\ ErrorInv' /\ ListsInv' /\ Position' = 0 /\ phase = "sort" /\ phase' = "read"
    BY <1>2, SortSorts, SortKeeps
  <2>2. recNumber' = recNumber /\ counted' = counted
    BY <1>2 DEF Sort
  <2>3. NumberInv'
    BY <2>1, <2>2 DEF NumberInv, RecordNumber
  <2> QED
    BY <2>1, <2>3
<1>3. CASE Reads
  BY <1>3, ReadKeeps, ReadCounts
<1>4. CASE UNCHANGED resultsVars
  <2>1. /\ n' = n /\ phase' = phase /\ cur' = cur /\ sorted' = sorted /\ current' = current
        /\ totalFiles' = totalFiles /\ wordsFound' = wordsFound /\ indexResults' = indexResults
        /\ resError' = resError /\ totalResults' = totalResults /\ errors' = errors
        /\ recNumber' = recNumber /\ counted' = counted
    BY <1>4 DEF resultsVars, execVars
  <2>2. FoundResults' = FoundResults /\ Indexes' = Indexes /\ Slots' = Slots
    BY <2>1 DEF FoundResults, Indexes, Slots
  <2>3. Behind(current)' = Behind(current)
    BY <2>1, <2>2 DEF Behind
  <2>4. \A x, y \in Slots : Precedes(x, y)' <=> Precedes(x, y)
    BY <2>1 DEF Precedes
  <2>5. Cut(current)'
    <3>1. Rests(current)'
      BY <2>1, <2>2 DEF ListsInv, Cut, Rests
    <3>2. \A x \in Behind(current), y \in Slots \ Behind(current) : Precedes(x, y)'
      BY <2>4 DEF ListsInv, Cut, Behind
    <3> QED
      BY <2>2, <2>3, <3>1, <3>2 DEF Cut
  <2>6. QueryInv' /\ ErrorInv'
    BY <2>1, <2>2 DEF QueryInv, ErrorInv
  <2>7. ListsInv'
    BY <2>1, <2>2, <2>5 DEF ListsInv, Sortings
  <2>8. NumberInv'
    BY <2>1, <2>3 DEF NumberInv, RecordNumber, Position
  <2> QED
    BY <2>6, <2>7, <2>8
<1> QED
  BY <1>1, <1>2, <1>3, <1>4 DEF ResultsNext, Reads

LEMMA ResultsInvAlways == ResultsSpec => []ResultsInv
BY ResultsInitInv, ResultsInvStep, PTL DEF ResultsSpec

(* swishreccount: after any number of readings and seekings the record     *)
(* number is the number of results up to the one handed out last - after   *)
(* all seeks but those the code leaves uncounted (SwishSeekResult,         *)
(* SwishNextResult, search.c).                                             *)
THEOREM RecordNumberAlways == ResultsSpec => []RecordNumber
<1>1. ResultsInv => RecordNumber
  BY DEF ResultsInv, NumberInv
<1> QED
  BY <1>1, ResultsInvAlways, PTL

(* The error SwishExecute leaves is the same whatever the order in which   *)
(* the indexes reported theirs: the smallest of them, if nothing was found *)
(* (SwishExecute, search.c).                                               *)
THEOREM ErrorOrderFreeAlways == ResultsSpec => ErrorOrderFree
<1> DEFINE Reported == swError' = IF Total > 0 THEN RC_OK
                               ELSE IF totalFiles = 0 THEN INDEX_FILE_IS_EMPTY
                               ELSE IF errors # {} THEN Min(errors)
                               ELSE IF wordsFound > 0 THEN RC_OK ELSE NO_WORDS_IN_SEARCH
<1>1. ASSUME ResultsInv, [ResultsNext]_resultsVars
      PROVE  [phase = "sort" => Reported]_resultsVars
  <2> SUFFICES ASSUME ResultsNext, phase = "sort" PROVE Reported
    BY <1>1
  <2>1. swError' = FinalError
    BY DEF ResultsNext, QueryFails, QueryFinds, Sort, SwishNextResult, SeekOne, SeekMany, SeekStart
  <2>2. /\ IsFiniteSet(FoundResults) /\ Total \in Nat /\ (Total = 0 <=> FoundResults = {})
        /\ totalFiles = 0 \/ wordsFound = 0 => FoundResults = {}
        /\ totalFiles \in Nat /\ wordsFound \in Nat
    <3>1. IsFiniteSet(FoundResults)
      BY <1>1, FoundFinite DEF ResultsInv
    <3>2. Total \in Nat /\ (Total = 0 <=> FoundResults = {})
      BY <3>1, FS_CardinalityType, FS_EmptySet DEF Total
    <3> QED
      BY <1>1, <3>1, <3>2 DEF ResultsInv, QueryInv
  <2>3. /\ resError = IF errors = {} THEN RC_OK ELSE Min(errors)
        /\ errors # {} => Min(errors) # RC_OK
    <3>1. /\ errors \in SUBSET Codes
          /\ resError = IF errors = {} THEN RC_OK ELSE Min(errors)
      BY <1>1 DEF ResultsInv, ErrorInv
    <3>2. RC_OK \notin Codes
      BY DEF Codes, RC_OK, NO_WORDS_IN_SEARCH, WORDS_TOO_COMMON, UNKNOWN_METANAME, QUERY_SYNTAX_ERROR
    <3> QED
      BY <3>1, <3>2, MinCode
  <2> QED
    BY <2>1, <2>2, <2>3 DEF FinalError
<1> QED
  BY <1>1, ResultsInvAlways, PTL DEF ResultsSpec, ErrorOrderFree

(***************************************************************************)
(* The results object is one list with a cursor.                           *)
(***************************************************************************)
LEMMA CursorInit == ResultsInit => Abstract!Init
<1> SUFFICES ASSUME ResultsInit PROVE Abstract!Init
  OBVIOUS
<1>1. QueryInv /\ ListsInv
  BY ResultsInitInv DEF ResultsInv
<1>2. phase = "query" /\ handed = None /\ sought = "ok" /\ totalFiles = 0
  BY DEF ResultsInit
<1>3. FoundResults = {}
  BY <1>1, <1>2 DEF QueryInv
<1> QED
  BY <1>1, <1>2, <1>3, UnsortedStays DEF Abstract!Init

LEMMA FoundAreResults == QueryInv => FoundResults \subseteq AllResults
<1> SUFFICES ASSUME QueryInv PROVE FoundResults \subseteq AllResults
  OBVIOUS
<1>1. \A i \in Indexes : i \in 1..MaxIndexes /\ indexResults[i] \subseteq FileNumbers
  BY ResultsAssumption DEF QueryInv, Indexes
<1> QED
  BY <1>1 DEF FoundResults, AllResults

LEMMA CursorFinds ==
  ASSUME QueryInv, ErrorInv, ListsInv, QueryFails \/ QueryFinds
  PROVE  Abstract!Find
<1>1. /\ QueryInv' /\ ListsInv' /\ phase = "query" /\ phase' # "read"
      /\ FoundResults \subseteq FoundResults'
  BY QueryKeepsQuery, QueryKeepsLists
<1>2. (QueryInv /\ ListsInv /\ phase # "read"
       => Slots = {} /\ Merged = <<>> /\ Position = 0 /\ totalResults = 0 /\ Live(current) = {})'
  BY UnsortedStays, PTL
<1>3. Merged' = Merged /\ Position' = Position
  BY <1>1, <1>2, UnsortedStays
<1>4. (QueryInv => FoundResults \subseteq AllResults)'
  BY FoundAreResults, PTL
<1>5. handed' = handed /\ sought' = sought
  BY DEF QueryFails, QueryFinds
<1> QED
  BY <1>1, <1>3, <1>4, <1>5 DEF Abstract!Find

LEMMA CursorDelivers ==
  ASSUME QueryInv, ErrorInv, ListsInv, Sort
  PROVE  Abstract!Deliver
<1>1. /\ AllSorted' /\ FoundResults' = FoundResults /\ phase = "sort" /\ phase' = "read"
      /\ Position' = 0
  BY SortSorts, SortKeeps
<1>2. (AllSorted
       => Merged \in Seq(AllResults) /\ Abstract!InOrder(Merged) /\ Abstract!OnceEach(Merged))'
  BY MergedIsTheList, PTL
<1>3. Position = 0
  BY <1>1, UnsortedStays
<1>4. handed' = handed /\ sought' = sought
  BY DEF Sort
<1>5. Merged' \in Seq(AllResults) /\ Abstract!InOrder(Merged') /\ Abstract!OnceEach(Merged')
  BY <1>1, <1>2 DEF Abstract!InOrder, Abstract!OnceEach
<1>6. UNCHANGED <<FoundResults, Position, handed, sought>>
  BY <1>1, <1>3, <1>4
<1> QED
  BY <1>1, <1>5, <1>6 DEF Abstract!Deliver

LEMMA CursorReads ==
  ASSUME QueryInv, ErrorInv, ListsInv, Reads
  PROVE  Abstract!Next_ \/ Abstract!Seek
<1> DEFINE c == Cardinality(Behind(current'))
           size == Cardinality(Slots)
<1>1. /\ Position' = c /\ phase' = phase /\ FoundResults' = FoundResults /\ Merged' = Merged
      /\ phase \in {"read", "failed"}
  BY ReadKeeps, ReadCut
<1>2. /\ Ordered /\ Cut(current) /\ current \in [Indexes -> Seq(AllResults)]
      /\ totalResults = size /\ size \in Nat /\ Len(Merged) = size
  BY OrderedAlways, MergedPlaces DEF ListsInv, Cut, Rests
<1>3. CASE SwishNextResult
  <2>1. current' = Pop(current) /\ sought' = sought
    BY <1>3 DEF SwishNextResult
  <2>2. Position = Cardinality(Behind(current)) /\ Position \in Nat
    BY <1>2, BehindCount DEF Position
  <2>3. CASE Live(current) = {}
    <3>1. handed' = None /\ c = Position /\ Position = size
      BY <1>2, <1>3, <2>1, <2>2, <2>3, BehindCount DEF SwishNextResult
    <3>2. ~(Position < Len(Merged))
      BY <1>2, <3>1
    <3> HIDE DEF c, size
    <3> QED
      BY <1>1, <2>1, <3>1, <3>2 DEF Abstract!Next_
  <2>4. CASE Live(current) # {}
    <3> DEFINE w == Winner(current)
               s == HeadSlot(current, w)
    <3>1. handed' = current[w][1] /\ c = Position + 1 /\ Position < size
      BY <1>2, <1>3, <2>1, <2>2, <2>4, BehindCount DEF SwishNextResult
    <3>2. s \in Slots /\ sorted[s[1]][s[2]] = current[w][1] /\ SlotsBefore(s) = Behind(current)
      BY <1>2, <2>4, PopTakes
    <3> HIDE DEF s, w, c, size
    <3>3. Merged[Position + 1] = current[w][1]
      BY <1>2, <2>2, <3>2, MergedPlaces
    <3> QED
      BY <1>1, <1>2, <2>1, <3>1, <3>3 DEF Abstract!Next_
  <2> QED
    BY <2>3, <2>4
<1>4. ASSUME NEW p \in 0..(size + 1), c = (IF p < size THEN p ELSE size), handed' = handed,
             sought' \in {"ok", "eof"}, p < size => sought' = "ok", p > size => sought' = "eof"
      PROVE  Abstract!Seek
  <2>1. Position' = IF p < Len(Merged) THEN p ELSE Len(Merged)
    BY <1>1, <1>2, <1>4
  <2>2. p \in 0..(Len(Merged) + 1)
    BY <1>2
  <2>3. sought' \in {a \in {"ok", "eof"} : (p < Len(Merged) => a = "ok") /\ (p > Len(Merged) => a = "eof")}
    BY <1>2, <1>4
  <2> HIDE DEF c, size
  <2> QED
    BY <1>1, <1>4, <2>1, <2>2, <2>3 DEF Abstract!Seek
<1>5. CASE SeekOne
  <2> DEFINE Left(p) == SubSeq(sorted[1], p + 1, Len(sorted[1]))
  <2>1. PICK p \in 0..(totalResults + 1) :
           /\ current' = [current EXCEPT ![1] = Left(p)]
           /\ sought' = IF Left(p) # <<>> THEN "ok" ELSE "eof"
    BY <1>5 DEF SeekOne
  <2>2. p \in Nat /\ p \in 0..(size + 1) /\ n = 1 /\ handed' = handed
    BY <1>2, <1>5 DEF SeekOne
  <2>3. c = (IF p < size THEN p ELSE size) /\ (Left(p) # <<>> <=> p < size)
    BY <1>2, <2>1, <2>2, SeekOneCut
  <2> HIDE DEF c, size, Left
  <2>4. sought' \in {"ok", "eof"} /\ (p < size => sought' = "ok") /\ (p > size => sought' = "eof")
    BY <1>2, <2>1, <2>2, <2>3
  <2> QED
    BY <1>4, <2>2, <2>3, <2>4
<1>6. CASE SeekMany
  <2>1. PICK p \in 1..(totalResults + 1) :
           /\ current' = Popped(sorted, p)
           /\ sought' = IF p <= totalResults THEN "ok" ELSE "eof"
    BY <1>6 DEF SeekMany
  <2>2. p \in Nat /\ p \in 0..(size + 1) /\ handed' = handed
    BY <1>2, <1>6 DEF SeekMany
  <2>3. c = IF p < size THEN p ELSE size
    BY <1>2, <2>1, <2>2, PoppedCut
  <2> HIDE DEF c, size
  <2>4. sought' \in {"ok", "eof"} /\ (p < size => sought' = "ok") /\ (p > size => sought' = "eof")
    BY <1>2, <2>1, <2>2
  <2> QED
    BY <1>4, <2>2, <2>3, <2>4
<1>7. CASE SeekStart
  <2>1. current' = sorted /\ sought' = "ok" /\ handed' = handed
    BY <1>7 DEF SeekStart
  <2>2. c = 0
    BY <1>2, <2>1, SortedCut, FS_EmptySet
  <2> HIDE DEF c, size
  <2>3. 0 \in 0..(size + 1) /\ c = (IF 0 < size THEN 0 ELSE size) /\ ~(0 > size)
    BY <1>2, <2>2
  <2> QED
    BY <1>4, <2>1, <2>3
<1> QED
  BY <1>3, <1>5, <1>6, <1>7 DEF Reads

(* Searching several indexes, merging their results while they are read    *)
(* and seeking in them shows the caller one list: every result once, in    *)
(* the order of the keys, at a cursor that reading moves by one and        *)
(* seeking sets (SwishExecute, SwishNextResult and SwishSeekResult,        *)
(* search.c).                                                              *)
THEOREM ResultsImplementCursor == ResultsSpec => ImplementsCursor
<1>1. ResultsInit => Abstract!Init
  BY CursorInit
<1>2. ASSUME ResultsInv, [ResultsNext]_resultsVars
      PROVE  [Abstract!Next]_(Abstract!vars)
  <2>1. QueryInv /\ ErrorInv /\ ListsInv
    BY <1>2 DEF ResultsInv
  <2>2. CASE QueryFails \/ QueryFinds
    BY <2>1, <2>2, CursorFinds DEF Abstract!Next
  <2>3. CASE Sort
    BY <2>1, <2>3, CursorDelivers DEF Abstract!Next
  <2>4. CASE Reads
    BY <2>1, <2>4, CursorReads DEF Abstract!Next
  <2>5. CASE UNCHANGED resultsVars
    <3>1. /\ n' = n /\ phase' = phase /\ sorted' = sorted /\ current' = current
          /\ indexResults' = indexResults /\ handed' = handed /\ sought' = sought
      BY <2>5 DEF resultsVars, execVars
    <3>2. Indexes' = Indexes /\ Slots' = Slots /\ FoundResults' = FoundResults
      BY <3>1 DEF Indexes, Slots, FoundResults
    <3>3. Position' = Position
      BY <3>1, <3>2 DEF Position, Behind
    <3>4. Merged' = Merged
      BY <3>1, <3>2 DEF Merged, Precedes
    <3> QED
      BY <3>1, <3>2, <3>3, <3>4 DEF Abstract!vars
  <2> QED
    BY <1>2, <2>2, <2>3, <2>4, <2>5 DEF ResultsNext, Reads
<1> QED
  BY <1>1, <1>2, ResultsInvAlways, PTL DEF ResultsSpec, ImplementsCursor, Abstract!Spec

-----------------------------------------------------------------------------
(***************************************************************************)
(* The binary search of a limit.                                           *)
(***************************************************************************)

(* What binary_search looks at, and the last match it has seen.            *)
Parts == [low : Nat, num : Nat, exact : Int]

LEMMA PartFields ==
  ASSUME NEW low \in Nat, NEW num \in Nat, NEW exact \in Int
  PROVE  /\ Part(low, num, exact) \in Parts
         /\ Part(low, num, exact).low = low
         /\ Part(low, num, exact).num = num
         /\ Part(low, num, exact).exact = exact
  BY DEF Part, Parts

(* The middle of two elements or more: left before it, half behind it.     *)
LEMMA HalfFacts ==
  ASSUME NEW num \in Nat, num >= 2
  PROVE  LET half == num \div 2
             left == IF num % 2 = 1 THEN half ELSE half - 1
         IN  half \in Nat /\ left \in Nat /\ left + half + 1 = num /\ half < num /\ left < num
<1>1. num \div 2 \in Int
  OBVIOUS
<1>2. num % 2 = 1 => num = 2 * (num \div 2) + 1
  OBVIOUS
<1>3. num % 2 # 1 => num = 2 * (num \div 2)
  OBVIOUS
<1> QED
  BY <1>1, <1>2, <1>3

(* y is what a round makes of x: left elements before the one compared, at *)
(* mid, and half of them behind it.                                        *)
Halving(s, key, direction, x, y, left, half, mid) ==
  /\ left + half + 1 = x.num /\ mid = x.low + left
  /\ LET cmp == TestProp(key, s[mid + 1])
         exact == IF cmp = 0 THEN mid ELSE x.exact
     IN  y = IF AfterMatch(cmp, direction) < 0 THEN Part(x.low, left, exact)
             ELSE Part(mid + 1, half, exact)

(* A round is such a halving.                                              *)
LEMMA HalvedIs ==
  ASSUME NEW s, NEW key, NEW direction, NEW x \in Parts, x.num >= 2
  PROVE  \E left, half, mid \in Nat :
           Halving(s, key, direction, x, Halved(s, key, direction, x), left, half, mid)
<1> DEFINE half == x.num \div 2
           left == IF x.num % 2 = 1 THEN half ELSE half - 1
           mid == x.low + left
<1>1. x.num \in Nat /\ x.low \in Nat
  BY DEF Parts
<1>2. half \in Nat /\ left \in Nat /\ left + half + 1 = x.num
  BY <1>1, HalfFacts
<1>3. mid \in Nat
  <2> HIDE DEF left
  <2> QED
    BY <1>1, <1>2
<1>4. Halving(s, key, direction, x, Halved(s, key, direction, x), left, half, mid)
  <2>1. ~(x.num < 2)
    BY <1>1
  <2>2. Halved(s, key, direction, x) =
          (LET cmp == TestProp(key, s[mid + 1])
               exact == IF cmp = 0 THEN mid ELSE x.exact
           IN  IF AfterMatch(cmp, direction) < 0 THEN Part(x.low, left, exact)
               ELSE Part(mid + 1, half, exact))
    BY <2>1 DEF Halved
  <2> QED
    BY <1>2, <2>2 DEF Halving
<1> HIDE DEF half, left, mid
<1> QED
  BY <1>2, <1>3, <1>4

(* A round leaves less, until one element or none is left.                 *)
LEMMA HalvedType ==
  ASSUME NEW s, NEW key, NEW direction, NEW x \in Parts
  PROVE  /\ Halved(s, key, direction, x) \in Parts
         /\ x.num < 2 => Halved(s, key, direction, x) = x
         /\ x.num >= 2 => Halved(s, key, direction, x).num < x.num
<1>1. x.num \in Nat /\ x.low \in Nat /\ x.exact \in Int
  BY DEF Parts
<1>2. CASE x.num < 2
  <2>1. Halved(s, key, direction, x) = x
    BY <1>2 DEF Halved
  <2> QED
    BY <1>1, <1>2, <2>1
<1>3. CASE x.num >= 2
  <2>1. PICK y : y = Halved(s, key, direction, x)
    OBVIOUS
  <2>2. PICK left, half, mid \in Nat : Halving(s, key, direction, x, y, left, half, mid)
    BY <1>3, <2>1, HalvedIs
  <2>3. left + half + 1 = x.num
    BY <2>2 DEF Halving
  <2>4. \E exact \in Int : y = Part(x.low, left, exact) \/ y = Part(mid + 1, half, exact)
    BY <1>1, <2>2 DEF Halving
  <2>5. PICK exact \in Int : y = Part(x.low, left, exact) \/ y = Part(mid + 1, half, exact)
    BY <2>4
  <2>6. y \in Parts /\ y.num < x.num
    BY <1>1, <2>3, <2>5, PartFields
  <2> QED
    BY <1>1, <1>3, <2>1, <2>6
<1> QED
  BY <1>1, <1>2, <1>3

(* g gives the parts of the search, round by round.                        *)
RoundsOf(g, s, key, direction) ==
  /\ g \in [0..Len(s) -> Parts] /\ g[0] = Part(0, Len(s), -1)
  /\ Narrowed(s, key, direction) = g[Len(s)]
  /\ \A i \in 1..Len(s) : g[i] = Halved(s, key, direction, g[i - 1])

(* The parts there are, round by round.                                    *)
LEMMA NarrowedIs ==
  ASSUME NEW s, NEW key, NEW direction, Len(s) \in Nat
  PROVE  \E g : RoundsOf(g, s, key, direction)
<1>1. PICK N \in Nat : N = Len(s)
  OBVIOUS
<1> DEFINE base == Part(0, Len(s), -1)
           round[i \in 0..Len(s)] ==
             IF i = 0 THEN Part(0, Len(s), -1) ELSE Halved(s, key, direction, round[i - 1])
           next == [i \in 1..N |-> [x \in Parts |-> Halved(s, key, direction, x)]]
<1>2. Narrowed(s, key, direction) = round[N]
  BY <1>1 DEF Narrowed
<1>3. next \in [1..N -> [Parts -> Parts]] /\ base \in Parts
  <2>1. base \in Parts
    BY <1>1, PartFields
  <2>2. \A x \in Parts : Halved(s, key, direction, x) \in Parts
    BY HalvedType
  <2> QED
    BY <2>1, <2>2
<1>4. PICK g : FoldOf(g, N, Parts, base, next)
  <2> HIDE DEF next, base
  <2> QED
    BY <1>3, FoldExists
<1>5. g \in [0..N -> Parts] /\ g[0] = base
  <2> HIDE DEF next, round, base
  <2> QED
    BY <1>4 DEF FoldOf
<1>6. ASSUME NEW i \in 1..N PROVE g[i] = Halved(s, key, direction, g[i - 1])
  <2>1. g[i] = next[i][g[i - 1]]
    <3> HIDE DEF next, round, base
    <3> QED
      BY <1>4 DEF FoldOf
  <2>2. i - 1 \in 0..N
    OBVIOUS
  <2>3. g[i - 1] \in Parts
    BY <1>5, <2>2
  <2>4. next[i][g[i - 1]] = Halved(s, key, direction, g[i - 1])
    BY <2>3
  <2> QED
    BY <2>1, <2>4
<1>7. g = [i \in 0..N |-> IF i = 0 THEN base ELSE Halved(s, key, direction, g[i - 1])]
  <2> HIDE DEF next, round, base
  <2> DEFINE h == [i \in 0..N |-> IF i = 0 THEN base ELSE Halved(s, key, direction, g[i - 1])]
  <2>1. \A i \in 0..N : i = 0 \/ i \in 1..N
    OBVIOUS
  <2>2. \A i \in 0..N : g[i] = h[i]
    BY <1>5, <1>6, <2>1
  <2> QED
    BY <1>5, <2>2
<1>8. round = [i \in 0..N |-> IF i = 0 THEN base ELSE Halved(s, key, direction, round[i - 1])]
  BY <1>1, <1>7
<1>9. round[0] = base /\ \A i \in 1..N : round[i] = Halved(s, key, direction, round[i - 1])
  <2> HIDE DEF round, base
  <2>1. \A i \in 0..N : round[i] = IF i = 0 THEN base ELSE Halved(s, key, direction, round[i - 1])
    BY Zenon, <1>8
  <2>2. 0 \in 0..N /\ \A i \in 1..N : i \in 0..N /\ i # 0
    OBVIOUS
  <2> QED
    BY <2>1, <2>2
<1>10. DOMAIN round = 0..N
  <2> HIDE DEF round, base
  <2> DEFINE h == [i \in 0..N |-> IF i = 0 THEN base ELSE Halved(s, key, direction, round[i - 1])]
  <2>1. DOMAIN h = 0..N /\ round = h
    BY Zenon, <1>8
  <2> QED
    BY <2>1
<1>11. \A i \in 0..N : round[i] \in Parts
  <2> DEFINE S == {i \in 0..N : round[i] \in Parts}
  <2> HIDE DEF round, base
  <2>1. 0 \in S
    BY <1>3, <1>9
  <2>2. ASSUME NEW i \in 0..(N - 1), i \in S PROVE i + 1 \in S
    <3>1. i + 1 \in 1..N /\ (i + 1) - 1 = i /\ i + 1 \in 0..N
      OBVIOUS
    <3>2. round[i + 1] = Halved(s, key, direction, round[i])
      BY <1>9, <3>1
    <3> QED
      BY <2>2, <3>1, <3>2, HalvedType
  <2>3. \A i \in 0..N : i \in S
    <3> HIDE DEF S
    <3> QED
      BY <2>1, <2>2, UpTo
  <2> QED
    BY <2>3
<1>12. round \in [0..N -> Parts]
  <2> DEFINE h == [i \in 0..N |-> IF i = 0 THEN base ELSE Halved(s, key, direction, round[i - 1])]
  <2> HIDE DEF round, base
  <2>1. round = h
    BY Zenon, <1>8
  <2>2. round = [i \in 0..N |-> round[i]]
    BY <1>10, <2>1
  <2> QED
    BY <1>11, <2>2
<1> HIDE DEF round
<1> QED
  BY <1>1, <1>2, <1>9, <1>12 DEF RoundsOf


(* The values of the lookup array rise, with equal ones next to each       *)
(* other.                                                                  *)
InOrder(s) == \A i, j \in 1..Len(s) : i <= j => s[i] <= s[j]

(* What is known of the values outside the part x, with C's indices: of    *)
(* the search for the first match, and of the one for the last.            *)
FirstSought(s, key, x) ==
  /\ x.low + x.num <= Len(s)
  /\ \A i \in 0..(Len(s) - 1) :
       /\ i < x.low => s[i + 1] < key
       /\ i >= x.low + x.num => IF x.exact = -1 THEN s[i + 1] > key ELSE s[i + 1] >= key
  /\ x.exact # -1 => x.exact = x.low + x.num /\ x.exact < Len(s) /\ s[x.exact + 1] = key
LastSought(s, key, x) ==
  /\ x.low + x.num <= Len(s)
  /\ \A i \in 0..(Len(s) - 1) :
       /\ i < x.low => IF x.exact = -1 THEN s[i + 1] < key ELSE s[i + 1] <= key
       /\ i >= x.low + x.num => s[i + 1] > key
  /\ x.exact # -1 => x.exact = x.low - 1 /\ x.exact >= 0 /\ s[x.exact + 1] = key

(* The sign of a comparison, and where the search goes on after it.        *)
LEMMA ThreeWays ==
  ASSUME NEW key \in Nat, NEW v \in Nat
  PROVE  /\ TestProp(key, v) \in {-1, 0, 1}
         /\ TestProp(key, v) = -1 <=> key < v
         /\ TestProp(key, v) = 1 <=> key > v
         /\ TestProp(key, v) = 0 <=> key = v
         /\ TestProp(key, v) < 0 <=> key < v
         /\ TestProp(key, v) > 0 <=> key > v
         /\ AfterMatch(TestProp(key, v), -1) < 0 <=> key <= v
         /\ AfterMatch(TestProp(key, v), 1) < 0 <=> key < v
  BY DEF TestProp, AfterMatch

(* A round of the search for the first match keeps what is known.          *)
LEMMA FirstKept ==
  ASSUME NEW s \in Seq(Nat), InOrder(s), NEW key \in Nat, NEW x \in Parts,
         FirstSought(s, key, x)
  PROVE  FirstSought(s, key, Halved(s, key, -1, x))
<1>1. x.num \in Nat /\ x.low \in Nat /\ x.exact \in Int
  BY DEF Parts
<1>2. CASE x.num < 2
  BY <1>1, <1>2, HalvedType
<1>3. CASE x.num >= 2
  <2>1. PICK y : y = Halved(s, key, -1, x)
    OBVIOUS
  <2>2. PICK left, half, mid \in Nat : Halving(s, key, -1, x, y, left, half, mid)
    BY <1>3, <2>1, HalvedIs
  <2>3. left + half + 1 = x.num /\ mid = x.low + left
    BY <2>2 DEF Halving
  <2>4. mid + 1 \in 1..Len(s) /\ mid \in 0..(Len(s) - 1) /\ Len(s) \in Nat
    <3>1. PICK end, len \in Nat : end = x.low + x.num /\ len = Len(s)
      BY <1>1
    <3>2. end <= len /\ mid < end
      BY <1>1, <2>3, <3>1 DEF FirstSought
    <3> QED
      BY <3>1, <3>2
  <2>5. PICK len \in Nat : len = Len(s)
    BY <2>4
  <2>6. mid < len /\ x.low + x.num <= len
    BY <2>3, <2>4, <2>5 DEF FirstSought
  <2>7. PICK low, num \in Nat, ex \in Int : low = x.low /\ num = x.num /\ ex = x.exact
    BY <1>1
  <2>8. PICK v \in Nat : v = s[mid + 1]
    BY <2>4
  <2>9. PICK exact \in Int : exact = IF key = v THEN mid ELSE x.exact
    BY <1>1
  <2>10. y = IF AfterMatch(TestProp(key, v), -1) < 0 THEN Part(x.low, left, exact)
             ELSE Part(mid + 1, half, exact)
    BY <2>2, <2>8, <2>9, ThreeWays DEF Halving
  <2>11. \A i \in 0..(Len(s) - 1) : s[i + 1] \in Nat /\ (i >= mid => s[i + 1] >= v) /\ (i <= mid => s[i + 1] <= v)
    BY <2>4, <2>8 DEF InOrder
  <2>12. CASE key <= v
    <3>1. y = Part(x.low, left, exact)
      BY <2>8, <2>9, <2>10, <2>12, ThreeWays
    <3>2. y.low = x.low /\ y.num = left /\ y.exact = exact
      BY <1>1, <3>1, PartFields, SMTT(30)
    <3>3. y.low + y.num <= Len(s)
      BY <1>1, <2>3, <2>4, <3>2
    <3>4. ASSUME NEW i \in 0..(Len(s) - 1)
          PROVE  /\ i < y.low => s[i + 1] < key
                 /\ i >= y.low + y.num => IF y.exact = -1 THEN s[i + 1] > key ELSE s[i + 1] >= key
      <4>1. PICK u \in Nat : u = s[i + 1] /\ (i >= mid => u >= v) /\ (i <= mid => u <= v)
        BY <2>11
      <4>2. /\ i < low => u < key
            /\ i >= low + num => IF ex = -1 THEN u > key ELSE u >= key
        BY <2>7, <4>1 DEF FirstSought
      <4>3. i \in Int
        OBVIOUS
      <4>4. PICK ylow, ynum \in Int, yex \in Int : ylow = y.low /\ ynum = y.num /\ yex = y.exact
        BY <1>1, <3>2
      <4>5. ylow = low /\ ylow + ynum = mid /\ yex = exact
        BY <2>3, <2>7, <3>2, <4>4
      <4>6. exact = (IF key = v THEN mid ELSE ex) /\ low <= mid /\ mid < low + num
        BY <2>3, <2>7, <2>9
      <4>7. /\ i < ylow => u < key
            /\ i >= ylow + ynum => IF yex = -1 THEN u > key ELSE u >= key
        BY <2>12, <4>1, <4>2, <4>3, <4>4, <4>5, <4>6
      <4> QED
        BY <4>1, <4>4, <4>7
    <3>5. ASSUME y.exact # -1
          PROVE  y.exact = y.low + y.num /\ y.exact < Len(s) /\ s[y.exact + 1] = key
      <4>1. CASE key = v
        BY <1>1, <2>3, <2>4, <2>8, <2>9, <3>2, <4>1
      <4>2. CASE key < v
        <5>1. x.exact # -1
          BY <2>8, <2>9, <3>2, <3>5, <4>2
        <5>2. x.exact = x.low + x.num /\ x.exact < Len(s) /\ s[x.exact + 1] = key
          BY <5>1 DEF FirstSought
        <5>3. ex >= mid /\ ex < len
          <6>1. ex = low + num /\ ex < len /\ mid = low + left /\ left + half + 1 = num
            BY <2>3, <2>5, <2>7, <5>2
          <6> QED
            BY <6>1
        <5>4. ex \in 0..(Len(s) - 1)
          <6>1. ex <= len - 1
            BY <5>3
          <6> QED
            BY <2>5, <5>3, <6>1
        <5>5. s[ex + 1] >= v
          BY <2>11, <5>3, <5>4
        <5> QED
          BY <2>7, <2>8, <4>2, <5>2, <5>5
      <4> QED
        BY <2>12, <4>1, <4>2
    <3>6. FirstSought(s, key, y)
      BY <3>3, <3>4, <3>5 DEF FirstSought
    <3> QED
      BY <2>1, <3>6
  <2>13. CASE key > v
    <3>1. y = Part(mid + 1, half, x.exact)
      BY <2>8, <2>9, <2>10, <2>13, ThreeWays
    <3>2. y.low = mid + 1 /\ y.num = half /\ y.exact = x.exact
      <4>1. PICK k \in Nat : k = mid + 1
        OBVIOUS
      <4>2. y = Part(k, half, ex)
        BY <2>7, <3>1, <4>1
      <4>3. y.low = k /\ y.num = half /\ y.exact = ex
        BY <4>2, PartFields
      <4> QED
        BY <2>7, <4>1, <4>3
    <3>3. y.low + y.num = x.low + x.num
      BY <1>1, <2>3, <3>2
    <3>4. ASSUME NEW i \in 0..(Len(s) - 1)
          PROVE  /\ i < y.low => s[i + 1] < key
                 /\ i >= y.low + y.num => IF y.exact = -1 THEN s[i + 1] > key ELSE s[i + 1] >= key
      <4>1. PICK u \in Nat : u = s[i + 1] /\ (i >= mid => u >= v) /\ (i <= mid => u <= v)
        BY <2>11
      <4>2. /\ i < low => u < key
            /\ i >= low + num => IF ex = -1 THEN u > key ELSE u >= key
        BY <2>7, <4>1 DEF FirstSought
      <4>3. i \in Int
        OBVIOUS
      <4>4. PICK ylow, ynum \in Int, yex \in Int : ylow = y.low /\ ynum = y.num /\ yex = y.exact
        BY <1>1, <3>2
      <4>5. ylow = mid + 1 /\ ylow + ynum = low + num /\ yex = ex
        BY <2>3, <2>7, <3>2, <3>3, <4>4
      <4>6. exact = (IF key = v THEN mid ELSE ex) /\ low <= mid /\ mid < low + num
        BY <2>3, <2>7, <2>9
      <4>7. /\ i < ylow => u < key
            /\ i >= ylow + ynum => IF yex = -1 THEN u > key ELSE u >= key
        BY <2>13, <4>1, <4>2, <4>3, <4>4, <4>5, <4>6
      <4> QED
        BY <4>1, <4>4, <4>7
    <3>5. FirstSought(s, key, y)
      BY <3>2, <3>3, <3>4 DEF FirstSought
    <3> QED
      BY <2>1, <3>5
  <2> QED
    BY <2>8, <2>12, <2>13
<1> QED
  BY <1>1, <1>2, <1>3

(* And so does one of the search for the last.                             *)
LEMMA LastKept ==
  ASSUME NEW s \in Seq(Nat), InOrder(s), NEW key \in Nat, NEW x \in Parts,
         LastSought(s, key, x)
  PROVE  LastSought(s, key, Halved(s, key, 1, x))
<1>1. x.num \in Nat /\ x.low \in Nat /\ x.exact \in Int
  BY DEF Parts
<1>2. CASE x.num < 2
  BY <1>1, <1>2, HalvedType
<1>3. CASE x.num >= 2
  <2>1. PICK y : y = Halved(s, key, 1, x)
    OBVIOUS
  <2>2. PICK left, half, mid \in Nat : Halving(s, key, 1, x, y, left, half, mid)
    BY <1>3, <2>1, HalvedIs
  <2>3. left + half + 1 = x.num /\ mid = x.low + left
    BY <2>2 DEF Halving
  <2>4. mid + 1 \in 1..Len(s) /\ mid \in 0..(Len(s) - 1) /\ Len(s) \in Nat
    <3>1. PICK end, len \in Nat : end = x.low + x.num /\ len = Len(s)
      BY <1>1
    <3>2. end <= len /\ mid < end
      BY <1>1, <2>3, <3>1 DEF LastSought
    <3> QED
      BY <3>1, <3>2
  <2>5. PICK len \in Nat : len = Len(s)
    BY <2>4
  <2>6. mid < len /\ x.low + x.num <= len
    BY <2>3, <2>4, <2>5 DEF LastSought
  <2>7. PICK low, num \in Nat, ex \in Int : low = x.low /\ num = x.num /\ ex = x.exact
    BY <1>1
  <2>8. PICK v \in Nat : v = s[mid + 1]
    BY <2>4
  <2>9. PICK exact \in Int : exact = IF key = v THEN mid ELSE x.exact
    BY <1>1
  <2>10. y = IF AfterMatch(TestProp(key, v), 1) < 0 THEN Part(x.low, left, exact)
             ELSE Part(mid + 1, half, exact)
    BY <2>2, <2>8, <2>9, ThreeWays DEF Halving
  <2>11. \A i \in 0..(Len(s) - 1) : s[i + 1] \in Nat /\ (i >= mid => s[i + 1] >= v) /\ (i <= mid => s[i + 1] <= v)
    BY <2>4, <2>8 DEF InOrder
  <2>12. CASE key < v
    <3>1. y = Part(x.low, left, x.exact)
      BY <2>8, <2>9, <2>10, <2>12, ThreeWays
    <3>2. y.low = x.low /\ y.num = left /\ y.exact = x.exact
      BY <1>1, <3>1, PartFields, SMTT(30)
    <3>3. y.low + y.num <= Len(s)
      BY <1>1, <2>3, <2>4, <3>2
    <3>4. ASSUME NEW i \in 0..(Len(s) - 1)
          PROVE  /\ i < y.low => IF y.exact = -1 THEN s[i + 1] < key ELSE s[i + 1] <= key
                 /\ i >= y.low + y.num => s[i + 1] > key
      <4>1. PICK u \in Nat : u = s[i + 1] /\ (i >= mid => u >= v) /\ (i <= mid => u <= v)
        BY <2>11
      <4>2. /\ i < low => IF ex = -1 THEN u < key ELSE u <= key
            /\ i >= low + num => u > key
        BY <2>7, <4>1 DEF LastSought
      <4>3. i \in Int
        OBVIOUS
      <4>4. PICK ylow, ynum \in Int, yex \in Int : ylow = y.low /\ ynum = y.num /\ yex = y.exact
        BY <1>1, <3>2
      <4>5. ylow = low /\ ylow + ynum = mid /\ yex = ex
        BY <2>3, <2>7, <3>2, <4>4
      <4>6. exact = (IF key = v THEN mid ELSE ex) /\ low <= mid /\ mid < low + num
        BY <2>3, <2>7, <2>9
      <4>7. /\ i < ylow => IF yex = -1 THEN u < key ELSE u <= key
            /\ i >= ylow + ynum => u > key
        BY <2>12, <4>1, <4>2, <4>3, <4>4, <4>5, <4>6
      <4> QED
        BY <4>1, <4>4, <4>7
    <3>5. LastSought(s, key, y)
      BY <3>2, <3>3, <3>4 DEF LastSought
    <3> QED
      BY <2>1, <3>5
  <2>13. CASE key >= v
    <3>1. y = Part(mid + 1, half, exact)
      BY <2>8, <2>9, <2>10, <2>13, ThreeWays
    <3>2. y.low = mid + 1 /\ y.num = half /\ y.exact = exact
      <4>1. PICK k \in Nat : k = mid + 1
        OBVIOUS
      <4>2. y = Part(k, half, exact)
        BY <3>1, <4>1
      <4>3. y.low = k /\ y.num = half /\ y.exact = exact
        BY <4>2, PartFields
      <4> QED
        BY <4>1, <4>3
    <3>3. y.low + y.num = x.low + x.num
      BY <1>1, <2>3, <3>2
    <3>4. ASSUME NEW i \in 0..(Len(s) - 1)
          PROVE  /\ i < y.low => IF y.exact = -1 THEN s[i + 1] < key ELSE s[i + 1] <= key
                 /\ i >= y.low + y.num => s[i + 1] > key
      <4>1. PICK u \in Nat : u = s[i + 1] /\ (i >= mid => u >= v) /\ (i <= mid => u <= v)
        BY <2>11
      <4>2. /\ i < low => IF ex = -1 THEN u < key ELSE u <= key
            /\ i >= low + num => u > key
        BY <2>7, <4>1 DEF LastSought
      <4>3. i \in Int
        OBVIOUS
      <4>4. PICK ylow, ynum \in Int, yex \in Int : ylow = y.low /\ ynum = y.num /\ yex = y.exact
        BY <1>1, <3>2
      <4>5. ylow = mid + 1 /\ ylow + ynum = low + num /\ yex = exact
        BY <2>3, <2>7, <3>2, <3>3, <4>4
      <4>6. exact = (IF key = v THEN mid ELSE ex) /\ low <= mid /\ mid < low + num
        BY <2>3, <2>7, <2>9
      <4>7. /\ i < ylow => IF yex = -1 THEN u < key ELSE u <= key
            /\ i >= ylow + ynum => u > key
        BY <2>13, <4>1, <4>2, <4>3, <4>4, <4>5, <4>6
      <4> QED
        BY <4>1, <4>4, <4>7
    <3>5. ASSUME y.exact # -1
          PROVE  y.exact = y.low - 1 /\ y.exact >= 0 /\ s[y.exact + 1] = key
      <4>1. CASE key = v
        BY <1>1, <2>3, <2>4, <2>8, <2>9, <3>2, <4>1
      <4>2. CASE key > v
        <5>1. x.exact # -1
          BY <2>8, <2>9, <3>2, <3>5, <4>2
        <5>2. x.exact = x.low - 1 /\ x.exact >= 0 /\ s[x.exact + 1] = key
          BY <5>1 DEF LastSought
        <5>3. ex >= 0 /\ ex <= mid /\ ex < len
          <6>1. ex = low - 1 /\ ex >= 0 /\ low + num <= len /\ mid = low + left
            BY <2>3, <2>6, <2>7, <5>2
          <6> QED
            BY <6>1
        <5>4. ex \in 0..(Len(s) - 1)
          BY <2>5, <5>3
        <5>5. s[ex + 1] <= v
          BY <2>11, <5>3, <5>4
        <5> QED
          BY <2>7, <2>8, <4>2, <5>2, <5>5
      <4> QED
        BY <2>13, <4>1, <4>2
    <3>6. LastSought(s, key, y)
      BY <3>2, <3>3, <3>4, <3>5 DEF LastSought
    <3> QED
      BY <2>1, <3>6
  <2> QED
    BY <2>8, <2>12, <2>13
<1> QED
  BY <1>1, <1>2, <1>3

(* As many rounds as there are elements leave one element or none.         *)
LEMMA Rounds ==
  ASSUME NEW s \in Seq(Nat), InOrder(s), NEW key \in Nat, NEW g, NEW direction,
         RoundsOf(g, s, key, direction), NEW i \in 0..Len(s)
  PROVE  /\ g[i] \in Parts
         /\ g[i].num <= 1 \/ g[i].num <= Len(s) - i
         /\ direction = -1 => FirstSought(s, key, g[i])
         /\ direction = 1 => LastSought(s, key, g[i])
<1>1. PICK N \in Nat : N = Len(s)
  OBVIOUS
<1> DEFINE Good(k) ==
      /\ g[k].num <= 1 \/ g[k].num <= N - k
      /\ direction = -1 => FirstSought(s, key, g[k])
      /\ direction = 1 => LastSought(s, key, g[k])
           S == {k \in 0..N : Good(k)}
<1>2. g \in [0..N -> Parts]
  BY <1>1 DEF RoundsOf
<1>3. 0 \in S
  <2>1. g[0].low = 0 /\ g[0].num = N /\ g[0].exact = -1
    BY <1>1, PartFields DEF RoundsOf
  <2>2. FirstSought(s, key, g[0])
    BY <1>1, <2>1 DEF FirstSought
  <2>3. LastSought(s, key, g[0])
    BY <1>1, <2>1 DEF LastSought
  <2> QED
    BY <2>1, <2>2, <2>3
<1>4. ASSUME NEW k \in 0..(N - 1), k \in S PROVE k + 1 \in S
  <2>1. k + 1 \in 1..N /\ (k + 1) - 1 = k /\ k + 1 \in 0..N /\ k \in 0..N
    OBVIOUS
  <2>2. g[k + 1] = Halved(s, key, direction, g[k])
    BY <1>1, <2>1 DEF RoundsOf
  <2>3. g[k] \in Parts /\ g[k + 1] \in Parts
    BY <1>2, <2>1
  <2>4. g[k].num \in Nat /\ g[k + 1].num \in Nat
    BY <2>3 DEF Parts
  <2>5. g[k + 1].num <= 1 \/ g[k + 1].num <= N - (k + 1)
    <3>1. g[k].num <= 1 \/ g[k].num <= N - k
      BY <1>4
    <3>2. g[k].num < 2 => g[k + 1] = g[k]
      BY <2>2, <2>3, HalvedType
    <3>3. g[k].num >= 2 => g[k + 1].num < g[k].num
      BY <2>2, <2>3, HalvedType
    <3> QED
      BY <2>4, <3>1, <3>2, <3>3
  <2>6. direction = -1 => FirstSought(s, key, g[k + 1])
    BY <1>4, <2>2, <2>3, FirstKept
  <2>7. direction = 1 => LastSought(s, key, g[k + 1])
    BY <1>4, <2>2, <2>3, LastKept
  <2> QED
    BY <2>1, <2>5, <2>6, <2>7
<1>5. \A k \in 0..N : k \in S
  <2> HIDE DEF S
  <2> QED
    BY <1>3, <1>4, UpTo
<1> QED
  BY <1>1, <1>2, <1>5


(* A search that has found the value, at at, or not.                       *)
Exact(e, at) == e = Found(TRUE, at)
Near(e, at) == e = Found(FALSE, at)

(* Where the search for the first match ends, and the one for the last.    *)
FirstEnd(s, key, e) ==
  \E at \in 0..Len(s) :
    /\ \/ Exact(e, at) /\ at < Len(s) /\ s[at + 1] = key
       \/ Near(e, at)
    /\ \A i \in 0..(Len(s) - 1) :
         (i < at => s[i + 1] < key) /\ (i >= at => s[i + 1] >= key)
LastEnd(s, key, e) ==
  \E at \in 0..Len(s) :
    \/ /\ Exact(e, at) /\ at < Len(s)
       /\ \A i \in 0..(Len(s) - 1) :
            (i <= at => s[i + 1] <= key) /\ (i > at => s[i + 1] > key)
    \/ /\ Near(e, at)
       /\ \A i \in 0..(Len(s) - 1) :
            (i < at => s[i + 1] < key) /\ (i >= at => s[i + 1] > key)

LEMMA FoundFields ==
  ASSUME NEW e, NEW at
  PROVE  /\ Exact(e, at) => e.found /\ e.at = at
         /\ Near(e, at) => ~e.found /\ e.at = at
<1>1. Found(TRUE, at).found = TRUE /\ Found(TRUE, at).at = at
  BY DEF Found
<1>2. Found(FALSE, at).found = FALSE /\ Found(FALSE, at).at = at
  BY DEF Found
<1> QED
  BY Zenon, <1>1, <1>2 DEF Exact, Near

(* An end of the range, of a search and the match it has seen.             *)
LEMMA EndTaken ==
  ASSUME NEW r, NEW at, NEW ex \in Int
  PROVE  /\ Exact(r, at) => Exact(ExactOrNear(r, ex), at)
         /\ Near(r, at) /\ ex >= 0 => Exact(ExactOrNear(r, ex), ex)
         /\ Near(r, at) /\ ex < 0 => Near(ExactOrNear(r, ex), at)
<1>1. ASSUME Exact(r, at) PROVE Exact(ExactOrNear(r, ex), at)
  <2>1. r.found
    BY <1>1, FoundFields
  <2>2. ExactOrNear(r, ex) = r
    BY <2>1 DEF ExactOrNear
  <2> QED
    BY <1>1, <2>2
<1>2. ASSUME Near(r, at), ex >= 0 PROVE Exact(ExactOrNear(r, ex), ex)
  <2>1. ~r.found
    BY <1>2, FoundFields
  <2>2. ExactOrNear(r, ex) = Found(TRUE, ex)
    BY <1>2, <2>1 DEF ExactOrNear
  <2> QED
    BY <2>2 DEF Exact
<1>3. ASSUME Near(r, at), ex < 0 PROVE Near(ExactOrNear(r, ex), at)
  <2>1. ~(ex >= 0)
    BY <1>3
  <2>2. ExactOrNear(r, ex) = r
    BY <2>1 DEF ExactOrNear
  <2> QED
    BY <1>3, <2>2
<1> QED
  BY <1>1, <1>2, <1>3

(* The answer of a search that has come down to one element, v, or none.   *)
LastAnswer(s, key, low, num, ex, e) ==
  /\ num = 0 /\ ex >= 0 => Exact(e, ex)
  /\ num = 0 /\ ex < 0 => Near(e, low)
  /\ num = 1 /\ low < Len(s) =>
       \E v \in Nat :
         /\ v = s[low + 1]
         /\ key = v => Exact(e, low)
         /\ key # v /\ ex >= 0 => Exact(e, ex)
         /\ key > v /\ ex < 0 => Near(e, low + 1)
         /\ key < v /\ ex < 0 => Near(e, low)

LEMMA LastRound ==
  ASSUME NEW s \in Seq(Nat), NEW key \in Nat, NEW x \in Parts,
         NEW low \in Nat, low = x.low, NEW num \in Nat, num = x.num, NEW ex \in Int, ex = x.exact,
         NEW e, e = SearchedEnd(s, key, x), num <= 1,
         \A i \in 0..(Len(s) - 1) : i < low => s[i + 1] <= key
  PROVE  LastAnswer(s, key, low, num, ex, e)
<1>1. e = ExactOrNear(BinarySearch(s, key, x), ex)
  BY DEF SearchedEnd
<1>2. ASSUME num = 0
      PROVE  (ex >= 0 => Exact(e, ex)) /\ (ex < 0 => Near(e, low))
  <2>1. Near(BinarySearch(s, key, x), low)
    BY <1>2 DEF BinarySearch, Near
  <2> QED
    BY <1>1, <2>1, EndTaken
<1>3. ASSUME num = 1, low < Len(s)
      PROVE  \E v \in Nat :
               /\ v = s[low + 1]
               /\ key = v => Exact(e, low)
               /\ key # v /\ ex >= 0 => Exact(e, ex)
               /\ key > v /\ ex < 0 => Near(e, low + 1)
               /\ key < v /\ ex < 0 => Near(e, low)
  <2>1. low + 1 \in 1..Len(s)
    BY <1>3
  <2>2. PICK v \in Nat : v = s[low + 1]
    BY <2>1
  <2>3. PICK cmp \in {-1, 0, 1} :
          /\ cmp = TestProp(key, v)
          /\ (cmp = -1 <=> key < v) /\ (cmp = 1 <=> key > v) /\ (cmp = 0 <=> key = v)
    BY ThreeWays
  <2>4. ASSUME low > 0 PROVE ~(TestProp(key, s[low]) < 0)
    <3>1. low - 1 \in 0..(Len(s) - 1) /\ (low - 1) + 1 = low /\ low \in 1..Len(s)
      BY <1>3, <2>4
    <3>2. PICK u \in Nat : u = s[low]
      BY <3>1
    <3>3. u <= key
      <4>1. low - 1 < low
        OBVIOUS
      <4>2. s[(low - 1) + 1] <= key
        BY <3>1, <4>1
      <4> QED
        BY <3>1, <3>2, <4>2
    <3> QED
      BY <3>2, <3>3, ThreeWays
  <2>5. PICK r : r = LastCompared(s, key, low)
    OBVIOUS
  <2>6. e = ExactOrNear(r, ex)
    <3>1. BinarySearch(s, key, x) = r
      BY <1>3, <2>5 DEF BinarySearch
    <3> QED
      BY <1>1, <3>1
  <2>7. CASE key = v
    <3>1. Exact(r, low)
      BY <2>2, <2>3, <2>5, <2>7 DEF LastCompared, Exact
    <3> QED
      BY <2>2, <2>6, <2>7, <3>1, EndTaken
  <2>8. CASE key > v
    <3>1. cmp = 1 /\ key # v
      BY <2>3, <2>8
    <3>2. Near(r, low + 1)
      BY <2>2, <2>3, <2>5, <3>1 DEF LastCompared, Near
    <3>3. (ex >= 0 => Exact(e, ex)) /\ (ex < 0 => Near(e, low + 1))
      BY <2>6, <3>2, EndTaken
    <3> QED
      BY <2>2, <2>8, <3>3
  <2>9. CASE key < v
    <3>1. cmp = -1 /\ key # v
      BY <2>3, <2>9
    <3>2. Near(r, low)
      <4>1. ~(cmp = 0) /\ ~(cmp > 0) /\ ~(low > 0 /\ TestProp(key, s[low]) < 0)
        BY <2>4, <3>1
      <4>2. r = Found(FALSE, low)
        BY Zenon, <2>2, <2>3, <2>5, <4>1 DEF LastCompared
      <4> QED
        BY <4>2 DEF Near
    <3>3. (ex >= 0 => Exact(e, ex)) /\ (ex < 0 => Near(e, low))
      BY <2>6, <3>2, EndTaken
    <3> QED
      BY <2>2, <2>9, <3>3
  <2> QED
    BY <2>2, <2>7, <2>8, <2>9
<1> QED
  BY <1>2, <1>3 DEF LastAnswer

(* The search for the first match ends there, or where it would be.        *)
LEMMA FirstFound ==
  ASSUME NEW s \in Seq(Nat), InOrder(s), NEW key \in Nat, NEW x \in Parts, x.num <= 1,
         FirstSought(s, key, x), NEW e, e = SearchedEnd(s, key, x)
  PROVE  FirstEnd(s, key, e)
<1>1. PICK low, num, len \in Nat, ex \in Int :
         low = x.low /\ num = x.num /\ ex = x.exact /\ len = Len(s)
  BY DEF Parts
<1>2. low + num <= len /\ num \in 0..1
  BY <1>1 DEF FirstSought
<1>3. \A i \in 0..(len - 1) : \E u \in Nat :
        /\ u = s[i + 1] /\ (i < low => u < key)
        /\ i >= low + num => IF ex = -1 THEN u > key ELSE u >= key
  <2> TAKE i \in 0..(len - 1)
  <2>1. i + 1 \in 1..Len(s) /\ i \in 0..(Len(s) - 1)
    BY <1>1
  <2>2. PICK u \in Nat : u = s[i + 1]
    BY <2>1
  <2> QED
    BY <1>1, <2>1, <2>2 DEF FirstSought
<1>4. ex # -1 => ex = low + num /\ ex < len /\ s[ex + 1] = key
  BY <1>1 DEF FirstSought
<1>5. \A i \in 0..(Len(s) - 1) : i < low => s[i + 1] <= key
  BY <1>1, <1>3
<1>6. /\ num = 0 /\ ex >= 0 => Exact(e, ex)
      /\ num = 0 /\ ex < 0 => Near(e, low)
      /\ num = 1 /\ low < len =>
           \E v \in Nat :
             /\ v = s[low + 1]
             /\ key = v => Exact(e, low)
             /\ key # v /\ ex >= 0 => Exact(e, ex)
             /\ key > v /\ ex < 0 => Near(e, low + 1)
             /\ key < v /\ ex < 0 => Near(e, low)
  <2>1. num <= 1 /\ low = x.low /\ num = x.num /\ ex = x.exact /\ len = Len(s)
    BY <1>1, <1>2
  <2>2. LastAnswer(s, key, low, num, ex, e)
    BY <1>5, <2>1, LastRound
  <2> QED
    BY <2>1, <2>2 DEF LastAnswer
<1>7. ASSUME NEW at \in 0..len,
             \A i \in 0..(len - 1) : (i < at => s[i + 1] < key) /\ (i >= at => s[i + 1] >= key),
             \/ Exact(e, at) /\ at < len /\ s[at + 1] = key
             \/ Near(e, at)
      PROVE  FirstEnd(s, key, e)
  <2>1. len = Len(s) /\ at \in 0..Len(s)
    BY <1>1
  <2> QED
    BY Zenon, <1>7, <2>1 DEF FirstEnd
<1>8. CASE num = 0
  <2>1. \A i \in 0..(len - 1) : (i < low => s[i + 1] < key) /\ (i >= low => s[i + 1] >= key)
    BY <1>3, <1>8
  <2>2. low \in 0..len
    BY <1>2
  <2>3. CASE ex = -1
    <3>1. Near(e, low)
      BY <1>6, <1>8, <2>3
    <3> QED
      BY <1>7, <2>1, <2>2, <3>1
  <2>4. CASE ex # -1
    <3>1. ex = low /\ ex < len /\ s[ex + 1] = key
      BY <1>4, <1>8, <2>4
    <3>2. Exact(e, low)
      BY <1>6, <1>8, <3>1
    <3> QED
      BY <1>7, <2>1, <2>2, <3>1, <3>2
  <2> QED
    BY <2>3, <2>4
<1>9. CASE num = 1
  <2>1. low < len /\ low \in 0..len
    BY <1>2, <1>9
  <2>2. PICK v \in Nat :
          /\ v = s[low + 1]
          /\ key = v => Exact(e, low)
          /\ key # v /\ ex >= 0 => Exact(e, ex)
          /\ key > v /\ ex < 0 => Near(e, low + 1)
          /\ key < v /\ ex < 0 => Near(e, low)
    BY <1>6, <1>9, <2>1
  <2>3. \A i \in 0..(len - 1) : i > low => \E u \in Nat : u = s[i + 1] /\ u >= v
    <3> TAKE i \in 0..(len - 1)
    <3>1. i > low => low + 1 \in 1..Len(s) /\ i + 1 \in 1..Len(s) /\ low + 1 <= i + 1
      BY <1>1, <2>1, SMTT(30)
    <3> QED
      BY <2>2, <3>1 DEF InOrder
  <2>4. CASE key = v
    <3>1. \A i \in 0..(len - 1) : (i < low => s[i + 1] < key) /\ (i >= low => s[i + 1] >= key)
      BY <1>3, <2>2, <2>3, <2>4
    <3>2. Exact(e, low) /\ s[low + 1] = key
      BY <2>2, <2>4
    <3> QED
      BY <1>7, <2>1, <3>1, <3>2
  <2>5. CASE key > v
    <3>1. PICK at \in Nat : at = low + 1
      OBVIOUS
    <3>2. \A i \in 0..(len - 1) : (i < at => s[i + 1] < key) /\ (i >= at => s[i + 1] >= key)
      <4> TAKE i \in 0..(len - 1)
      <4>1. PICK u \in Nat :
              /\ u = s[i + 1] /\ (i < low => u < key)
              /\ i >= low + num => IF ex = -1 THEN u > key ELSE u >= key
        BY <1>3
      <4>2. i = low => u = v
        BY <2>2, <4>1
      <4>3. (i < at => u < key) /\ (i >= at => u >= key)
        BY <1>9, <2>5, <3>1, <4>1, <4>2
      <4> QED
        BY <4>1, <4>3
    <3>3. at \in 0..len
      BY <2>1, <3>1
    <3>4. CASE ex = -1
      <4>1. Near(e, at)
        BY <2>2, <2>5, <3>1, <3>4
      <4> QED
        BY <1>7, <3>2, <3>3, <4>1
    <3>5. CASE ex # -1
      <4>1. ex = at /\ ex < len /\ s[ex + 1] = key
        BY <1>4, <1>9, <3>1, <3>5
      <4>2. Exact(e, at)
        BY <2>2, <2>5, <3>1, <4>1
      <4> QED
        BY <1>7, <3>2, <3>3, <4>1, <4>2
    <3> QED
      BY <3>4, <3>5
  <2>6. CASE key < v
    <3>1. ex = -1
      <4>1. SUFFICES ASSUME ex # -1 PROVE FALSE
        OBVIOUS
      <4>2. ex = low + 1 /\ ex < len /\ s[ex + 1] = key
        BY <1>4, <1>9, <4>1
      <4>3. ex \in 0..(len - 1) /\ ex > low
        BY <4>2
      <4> QED
        BY <2>3, <2>6, <4>2, <4>3
    <3>2. Near(e, low)
      BY <2>2, <2>6, <3>1
    <3>3. \A i \in 0..(len - 1) : (i < low => s[i + 1] < key) /\ (i >= low => s[i + 1] >= key)
      BY <1>3, <2>2, <2>3, <2>6
    <3> QED
      BY <1>7, <2>1, <3>2, <3>3
  <2> QED
    BY <2>2, <2>4, <2>5, <2>6
<1> QED
  BY <1>2, <1>8, <1>9

(* The search for the last match ends there, or behind the lesser values.  *)
LEMMA LastFound ==
  ASSUME NEW s \in Seq(Nat), InOrder(s), NEW key \in Nat, NEW x \in Parts, x.num <= 1,
         LastSought(s, key, x), NEW e, e = SearchedEnd(s, key, x)
  PROVE  LastEnd(s, key, e)
<1>1. PICK low, num, len \in Nat, ex \in Int :
         low = x.low /\ num = x.num /\ ex = x.exact /\ len = Len(s)
  BY DEF Parts
<1>2. low + num <= len /\ num \in 0..1
  BY <1>1 DEF LastSought
<1>3. \A i \in 0..(len - 1) : \E u \in Nat :
        /\ u = s[i + 1] /\ (i < low => IF ex = -1 THEN u < key ELSE u <= key)
        /\ i >= low + num => u > key
  <2> TAKE i \in 0..(len - 1)
  <2>1. i + 1 \in 1..Len(s) /\ i \in 0..(Len(s) - 1)
    BY <1>1
  <2>2. PICK u \in Nat : u = s[i + 1]
    BY <2>1
  <2> QED
    BY <1>1, <2>1, <2>2 DEF LastSought
<1>4. ex # -1 => ex = low - 1 /\ ex >= 0 /\ s[ex + 1] = key
  BY <1>1 DEF LastSought
<1>5. \A i \in 0..(Len(s) - 1) : i < low => s[i + 1] <= key
  BY <1>1, <1>3
<1>6. /\ num = 0 /\ ex >= 0 => Exact(e, ex)
      /\ num = 0 /\ ex < 0 => Near(e, low)
      /\ num = 1 /\ low < len =>
           \E v \in Nat :
             /\ v = s[low + 1]
             /\ key = v => Exact(e, low)
             /\ key # v /\ ex >= 0 => Exact(e, ex)
             /\ key > v /\ ex < 0 => Near(e, low + 1)
             /\ key < v /\ ex < 0 => Near(e, low)
  <2>1. num <= 1 /\ low = x.low /\ num = x.num /\ ex = x.exact /\ len = Len(s)
    BY <1>1, <1>2
  <2>2. LastAnswer(s, key, low, num, ex, e)
    BY <1>5, <2>1, LastRound
  <2> QED
    BY <2>1, <2>2 DEF LastAnswer
<1>7. ASSUME NEW at \in 0..len, Exact(e, at), at < len,
             \A i \in 0..(len - 1) : (i <= at => s[i + 1] <= key) /\ (i > at => s[i + 1] > key)
      PROVE  LastEnd(s, key, e)
  <2>1. len = Len(s) /\ at \in 0..Len(s)
    BY <1>1
  <2> QED
    BY Zenon, <1>7, <2>1 DEF LastEnd
<1>8. ASSUME NEW at \in 0..len, Near(e, at),
             \A i \in 0..(len - 1) : (i < at => s[i + 1] < key) /\ (i >= at => s[i + 1] > key)
      PROVE  LastEnd(s, key, e)
  <2>1. len = Len(s) /\ at \in 0..Len(s)
    BY <1>1
  <2> QED
    BY Zenon, <1>8, <2>1 DEF LastEnd
(* If the element left is greater, a match seen already is the last.       *)
<1>9. ASSUME \A i \in 0..(len - 1) : i >= low => s[i + 1] > key,
             ex >= 0 => Exact(e, ex), ex < 0 => Near(e, low)
      PROVE  LastEnd(s, key, e)
  <2>1. CASE ex = -1
    <3>1. \A i \in 0..(len - 1) : (i < low => s[i + 1] < key) /\ (i >= low => s[i + 1] > key)
      BY <1>3, <1>9, <2>1
    <3>2. low \in 0..len
      BY <1>2
    <3>3. Near(e, low)
      BY <1>9, <2>1
    <3> QED
      BY <1>8, <3>1, <3>2, <3>3
  <2>2. CASE ex # -1
    <3>1. ex = low - 1 /\ ex >= 0
      BY <1>4, <2>2
    <3>2. ex \in 0..len /\ ex < len
      BY <1>2, <3>1
    <3>3. \A i \in 0..(len - 1) : (i <= ex => s[i + 1] <= key) /\ (i > ex => s[i + 1] > key)
      BY <1>3, <1>9, <2>2, <3>1
    <3>4. Exact(e, ex)
      BY <1>9, <3>1
    <3> QED
      BY <1>7, <3>2, <3>3, <3>4
  <2> QED
    BY <2>1, <2>2
<1>10. CASE num = 0
  <2>1. \A i \in 0..(len - 1) : i >= low => s[i + 1] > key
    BY <1>3, <1>10
  <2> QED
    BY <1>6, <1>9, <1>10, <2>1
<1>11. CASE num = 1
  <2>1. low < len /\ low \in 0..len
    BY <1>2, <1>11
  <2>2. PICK v \in Nat :
          /\ v = s[low + 1]
          /\ key = v => Exact(e, low)
          /\ key # v /\ ex >= 0 => Exact(e, ex)
          /\ key > v /\ ex < 0 => Near(e, low + 1)
          /\ key < v /\ ex < 0 => Near(e, low)
    BY <1>6, <1>11, <2>1
  <2>3. CASE key = v
    <3>1. Exact(e, low)
      BY <2>2, <2>3
    <3>2. \A i \in 0..(len - 1) : (i <= low => s[i + 1] <= key) /\ (i > low => s[i + 1] > key)
      BY <1>3, <1>11, <2>2, <2>3
    <3> QED
      BY <1>7, <2>1, <3>1, <3>2
  <2>4. CASE key > v
    <3>1. ex = -1
      <4>1. SUFFICES ASSUME ex # -1 PROVE FALSE
        OBVIOUS
      <4>2. ex + 1 = low /\ ex >= 0 /\ s[ex + 1] = key
        BY <1>4, <4>1
      <4>3. low \in 1..Len(s) /\ low + 1 \in 1..Len(s) /\ low <= low + 1
        <5>1. low >= 1 /\ low + 1 <= len
          BY <2>1, <4>2
        <5> QED
          BY <1>1, <5>1
      <4>4. s[low] <= s[low + 1]
        BY <4>3 DEF InOrder
      <4> QED
        BY <2>2, <2>4, <4>2, <4>4
    <3>2. PICK at \in Nat : at = low + 1
      OBVIOUS
    <3>3. Near(e, at)
      BY <2>2, <2>4, <3>1, <3>2
    <3>4. \A i \in 0..(len - 1) : (i < at => s[i + 1] < key) /\ (i >= at => s[i + 1] > key)
      <4> TAKE i \in 0..(len - 1)
      <4>1. PICK u \in Nat :
              /\ u = s[i + 1] /\ (i < low => IF ex = -1 THEN u < key ELSE u <= key)
              /\ i >= low + num => u > key
        BY <1>3
      <4>2. i = low => u = v
        BY <2>2, <4>1
      <4>3. (i < at => u < key) /\ (i >= at => u > key)
        BY <1>11, <2>4, <3>1, <3>2, <4>1, <4>2
      <4> QED
        BY <4>1, <4>3
    <3>5. at \in 0..len
      BY <2>1, <3>2
    <3> QED
      BY <1>8, <3>3, <3>4, <3>5
  <2>5. CASE key < v
    <3>1. \A i \in 0..(len - 1) : i >= low => s[i + 1] > key
      BY <1>3, <1>11, <2>2, <2>5
    <3>2. (ex >= 0 => Exact(e, ex)) /\ (ex < 0 => Near(e, low))
      BY <2>2, <2>5
    <3> QED
      BY <1>9, <3>1, <3>2
  <2> QED
    BY <2>2, <2>3, <2>4, <2>5
<1> QED
  BY <1>2, <1>10, <1>11

(* The ends of a range that has them.                                      *)
LEMMA RangeEndIs ==
  ASSUME NEW s \in Seq(Nat), InOrder(s), NEW key \in Nat, key # 0, NEW open, NEW e
  PROVE  /\ e = RangeEnd(s, key, -1, open) => FirstEnd(s, key, e)
         /\ e = RangeEnd(s, key, 1, open) => LastEnd(s, key, e)
<1>1. Len(s) \in Nat /\ Len(s) \in 0..Len(s)
  OBVIOUS
<1>2. ASSUME NEW direction
      PROVE  \E x \in Parts :
               /\ x = Narrowed(s, key, direction) /\ x.num <= 1
               /\ direction = -1 => FirstSought(s, key, x)
               /\ direction = 1 => LastSought(s, key, x)
  <2>1. PICK g : RoundsOf(g, s, key, direction)
    BY <1>1, NarrowedIs
  <2>2. PICK x : x = g[Len(s)]
    OBVIOUS
  <2>3. /\ x \in Parts
        /\ x.num <= 1 \/ x.num <= Len(s) - Len(s)
        /\ direction = -1 => FirstSought(s, key, x)
        /\ direction = 1 => LastSought(s, key, x)
    BY <1>1, <2>1, <2>2, Rounds
  <2>4. x = Narrowed(s, key, direction)
    BY <2>1, <2>2 DEF RoundsOf
  <2>5. x.num <= 1
    <3>1. x.num \in Nat
      BY <2>3 DEF Parts
    <3> QED
      BY <1>1, <2>3, <3>1
  <2> QED
    BY <2>3, <2>4, <2>5
<1>3. ASSUME e = RangeEnd(s, key, -1, open)
      PROVE  FirstEnd(s, key, e)
  <2>1. PICK x \in Parts :
          x = Narrowed(s, key, -1) /\ x.num <= 1 /\ FirstSought(s, key, x)
    BY <1>2
  <2>2. e = SearchedEnd(s, key, x)
    BY <1>3, <2>1 DEF RangeEnd
  <2> QED
    BY <2>1, <2>2, FirstFound
<1>4. ASSUME e = RangeEnd(s, key, 1, open)
      PROVE  LastEnd(s, key, e)
  <2>1. PICK x \in Parts :
          x = Narrowed(s, key, 1) /\ x.num <= 1 /\ LastSought(s, key, x)
    BY <1>2
  <2>2. e = SearchedEnd(s, key, x)
    BY <1>4, <2>1 DEF RangeEnd
  <2> QED
    BY <2>1, <2>2, LastFound
<1> QED
  BY <1>3, <1>4


(* The positions between two ends.                                         *)
LEMMA BetweenIs ==
  ASSUME NEW low, NEW high, NEW a \in Int, NEW b \in Int, NEW j \in Int,
         Exact(low, a) \/ Near(low, a)
  PROVE  /\ Exact(high, b) => (j \in Between(low, high) <=> a <= j /\ j <= b)
         /\ Near(high, b) /\ a < b => (j \in Between(low, high) <=> a <= j /\ j < b)
         /\ Near(high, b) /\ a > b => j \notin Between(low, high)
         /\ Near(high, b) /\ Near(low, a) /\ a = b => j \notin Between(low, high)
         /\ Near(high, b) /\ Exact(low, a) /\ a = b => (j \in Between(low, high) <=> j = a)
<1>1. low.at = a
  BY FoundFields
<1>2. ASSUME Exact(high, b)
      PROVE  j \in Between(low, high) <=> a <= j /\ j <= b
  <2>1. high.found /\ high.at = b
    BY <1>2, FoundFields
  <2>2. Between(low, high) = a..b
    BY <1>1, <2>1 DEF Between
  <2> QED
    BY <2>2
<1>3. ASSUME Near(high, b), a < b
      PROVE  j \in Between(low, high) <=> a <= j /\ j < b
  <2>1. ~high.found /\ high.at = b
    BY <1>3, FoundFields
  <2>2. a # b
    BY <1>3
  <2>3. Between(low, high) = a..(b - 1)
    BY <1>1, <1>3, <2>1, <2>2 DEF Between
  <2> QED
    BY <2>3
<1>4. ASSUME Near(high, b), a > b
      PROVE  j \notin Between(low, high)
  <2>1. ~high.found /\ high.at = b
    BY <1>4, FoundFields
  <2>2. a # b /\ ~(a < b)
    BY <1>4
  <2>3. Between(low, high) = a..b
    BY <1>1, <2>1, <2>2 DEF Between
  <2> QED
    BY <1>4, <2>3
<1>5. ASSUME Near(high, b), Near(low, a), a = b
      PROVE  j \notin Between(low, high)
  <2>1. ~high.found /\ high.at = b /\ ~low.found
    BY <1>5, FoundFields
  <2>2. Between(low, high) = {}
    BY <1>1, <1>5, <2>1 DEF Between
  <2> QED
    BY <2>2
<1>6. ASSUME Near(high, b), Exact(low, a), a = b
      PROVE  j \in Between(low, high) <=> j = a
  <2>1. ~high.found /\ high.at = b /\ low.found
    BY <1>6, FoundFields
  <2>2. ~(a < b)
    BY <1>6
  <2>3. Between(low, high) = a..b
    BY <1>1, <2>1, <2>2 DEF Between
  <2> QED
    BY <1>6, <2>3
<1> QED
  BY <1>2, <1>3, <1>4, <1>5, <1>6

InRange(v, lo, hi) == lo <= v /\ (hi = 0 \/ v <= hi)

(* The documents found are those in range, but when there is no lower end  *)
(* and all values are above the upper one.                                 *)
LEMMA FindPropExact ==
  ASSUME NEW s \in Seq(Nat), InOrder(s), NEW lo \in Nat, NEW hi \in Nat,
         ~(lo # 0 /\ hi # 0 /\ lo > hi),
         ~(lo = 0 /\ \A i \in 1..Len(s) : s[i] > hi),
         NEW j \in 0..(Len(s) - 1)
  PROVE  j \in FindProp(s, lo, hi) <=> InRange(s[j + 1], lo, hi)
<1>1. PICK len \in Nat : len = Len(s)
  OBVIOUS
<1>2. j \in Int /\ 0 <= j /\ j < len /\ j + 1 \in 1..Len(s) /\ j \in 0..(Len(s) - 1)
  BY <1>1
<1>3. PICK u \in Nat : u = s[j + 1]
  BY <1>2
<1>4. PICK low : low = RangeEnd(s, lo, -1, 0)
  OBVIOUS
<1>5. PICK high : high = RangeEnd(s, hi, 1, Len(s) - 1)
  OBVIOUS
<1>6. j \in FindProp(s, lo, hi) <=> j \in Between(low, high)
  BY <1>2, <1>4, <1>5 DEF FindProp
<1>7. \E a \in 0..len :
        /\ Exact(low, a) \/ Near(low, a)
        /\ j < a => u < lo
        /\ j >= a => u >= lo
        /\ Exact(low, a) => (lo = 0 /\ a = 0) \/ (lo # 0 /\ a < len /\ s[a + 1] = lo)
  <2>1. CASE lo = 0
    <3>1. Exact(low, 0)
      BY <1>4, <2>1 DEF RangeEnd, Exact
    <3>2. 0 \in 0..len
      BY <1>1
    <3>3. ~(j < 0) /\ u >= lo
      BY <1>2, <2>1
    <3>4. /\ Exact(low, 0) \/ Near(low, 0)
          /\ j < 0 => u < lo
          /\ j >= 0 => u >= lo
          /\ Exact(low, 0) => (lo = 0 /\ 0 = 0) \/ (lo # 0 /\ 0 < len /\ s[0 + 1] = lo)
      BY <2>1, <3>1, <3>3
    <3> QED
      BY Zenon, <3>2, <3>4
  <2>2. CASE lo # 0
    <3>1. FirstEnd(s, lo, low)
      BY <1>4, <2>2, RangeEndIs
    <3>2. PICK a \in 0..len :
            /\ \/ Exact(low, a) /\ a < len /\ s[a + 1] = lo
               \/ Near(low, a)
            /\ (j < a => s[j + 1] < lo) /\ (j >= a => s[j + 1] >= lo)
      BY <1>1, <1>2, <3>1 DEF FirstEnd
    <3>3. Exact(low, a) => a < len /\ s[a + 1] = lo
      <4>1. ASSUME Exact(low, a), Near(low, a) PROVE FALSE
        BY <4>1, FoundFields
      <4> QED
        BY <3>2, <4>1
    <3> QED
      BY <1>3, <2>2, <3>2, <3>3
  <2> QED
    BY <2>1, <2>2
<1>8. PICK a \in 0..len :
        /\ Exact(low, a) \/ Near(low, a)
        /\ j < a => u < lo
        /\ j >= a => u >= lo
        /\ Exact(low, a) => (lo = 0 /\ a = 0) \/ (lo # 0 /\ a < len /\ s[a + 1] = lo)
  BY <1>7
<1>9. a \in Int
  OBVIOUS
<1>10. CASE hi = 0
  <2>1. PICK b \in Int : b = Len(s) - 1
    OBVIOUS
  <2>2. Exact(high, b)
    BY <1>5, <1>10, <2>1 DEF RangeEnd, Exact
  <2>3. j \in Between(low, high) <=> a <= j /\ j <= b
    BY <1>2, <1>8, <1>9, <2>2, BetweenIs
  <2>4. InRange(u, lo, hi) <=> lo <= u
    BY <1>10 DEF InRange
  <2>5. j <= b
    BY <1>1, <1>2, <2>1
  <2> QED
    BY <1>2, <1>3, <1>6, <1>8, <1>9, <2>3, <2>4, <2>5
<1>11. CASE hi # 0
  <2>1. LastEnd(s, hi, high)
    BY <1>5, <1>11, RangeEndIs
  <2>2. InRange(u, lo, hi) <=> lo <= u /\ u <= hi
    BY <1>11 DEF InRange
  <2>3. PICK b \in 0..Len(s) :
          \/ /\ Exact(high, b) /\ b < Len(s)
             /\ \A i \in 0..(Len(s) - 1) : (i <= b => s[i + 1] <= hi) /\ (i > b => s[i + 1] > hi)
          \/ /\ Near(high, b)
             /\ \A i \in 0..(Len(s) - 1) : (i < b => s[i + 1] < hi) /\ (i >= b => s[i + 1] > hi)
    BY <2>1 DEF LastEnd
  <2>4. b \in Int
    OBVIOUS
  <2>5. CASE Exact(high, b) /\ \A i \in 0..(Len(s) - 1) : (i <= b => s[i + 1] <= hi) /\ (i > b => s[i + 1] > hi)
    <3>1. j \in Between(low, high) <=> a <= j /\ j <= b
      BY <1>2, <1>8, <1>9, <2>4, <2>5, BetweenIs
    <3>2. (j <= b => u <= hi) /\ (j > b => u > hi)
      BY <1>2, <1>3, <2>5
    <3>3. j \in Between(low, high) <=> lo <= u /\ u <= hi
      BY <1>2, <1>8, <1>9, <2>4, <3>1, <3>2
    <3> QED
      BY <1>3, <1>6, <2>2, <3>3
  <2>6. CASE Near(high, b) /\ \A i \in 0..(Len(s) - 1) : (i < b => s[i + 1] < hi) /\ (i >= b => s[i + 1] > hi)
    <3>1. (j < b => u < hi) /\ (j >= b => u > hi)
      BY <1>2, <1>3, <2>6
    <3>2. CASE a < b
      <4>1. Near(high, b) /\ (Exact(low, a) \/ Near(low, a)) /\ j \in Int
        BY <1>2, <1>8, <2>6
      <4>2. j \in Between(low, high) <=> a <= j /\ j < b
        <5>1. Near(high, b) /\ a < b => (j \in Between(low, high) <=> a <= j /\ j < b)
          BY <1>9, <2>4, <4>1, BetweenIs
        <5> QED
          BY <3>2, <4>1, <5>1
      <4>3. j \in Between(low, high) <=> lo <= u /\ u <= hi
        BY <1>2, <1>8, <1>9, <2>4, <3>1, <4>2
      <4> QED
        BY <1>3, <1>6, <2>2, <4>3
    <3>3. CASE a > b
      <4>1. j \notin Between(low, high)
        BY <1>2, <1>8, <1>9, <2>4, <2>6, <3>3, BetweenIs, ZenonT(60)
      <4>2. ~(lo <= u /\ u <= hi)
        BY <1>2, <1>8, <1>9, <2>4, <3>1, <3>3
      <4> QED
        BY <1>3, <1>6, <2>2, <4>1, <4>2
    <3>4. CASE a = b
      <4>1. ~Exact(low, a)
        <5>1. SUFFICES ASSUME Exact(low, a) PROVE FALSE
          OBVIOUS
        <5>2. CASE lo = 0 /\ a = 0
          <6>1. ASSUME NEW i \in 1..Len(s) PROVE s[i] > hi
            <7>1. i - 1 \in 0..(Len(s) - 1) /\ (i - 1) + 1 = i /\ i - 1 >= b
              BY <3>4, <5>2
            <7>2. s[(i - 1) + 1] > hi
              BY <2>6, <7>1
            <7> QED
              BY <7>1, <7>2
          <6> QED
            BY <5>2, <6>1
        <5>3. CASE lo # 0 /\ a < len /\ s[a + 1] = lo
          <6>1. a \in 0..(Len(s) - 1) /\ a >= b
            BY <1>1, <1>9, <3>4, <5>3
          <6>2. lo > hi
            BY <2>6, <5>3, <6>1
          <6> QED
            BY <1>11, <5>3, <6>2
        <5> QED
          BY <1>8, <5>1, <5>2, <5>3
      <4>2. Near(low, a)
        BY <1>8, <4>1
      <4>3. j \notin Between(low, high)
        BY <1>2, <1>8, <1>9, <2>4, <2>6, <3>4, <4>2, BetweenIs, ZenonT(60)
      <4>4. ~(lo <= u /\ u <= hi)
        BY <1>2, <1>8, <1>9, <2>4, <3>1, <3>4
      <4> QED
        BY <1>3, <1>6, <2>2, <4>3, <4>4
    <3> QED
      BY <1>9, <2>4, <3>2, <3>3, <3>4
  <2> QED
    BY <2>3, <2>5, <2>6
<1> QED
  BY <1>10, <1>11

-----------------------------------------------------------------------------
(***************************************************************************)
(* The order of the documents by a property.                               *)
(***************************************************************************)

(* More values are below a greater one.                                    *)
LEMMA SortNumberRises ==
  ASSUME NEW value \in Seq(Nat), NEW f \in DOMAIN value, NEW g \in DOMAIN value
  PROVE  /\ SortNumber(value, f) \in Nat
         /\ value[f] = value[g] => SortNumber(value, f) = SortNumber(value, g)
         /\ value[f] < value[g] => SortNumber(value, f) < SortNumber(value, g)
<1> DEFINE Below(d) == {value[e] : e \in {h \in DOMAIN value : value[h] < value[d]}}
           All == {value[e] : e \in DOMAIN value}
<1>1. DOMAIN value = 1..Len(value) /\ Len(value) \in Nat
  OBVIOUS
<1>2. IsFiniteSet(All)
  <2>1. IsFiniteSet(DOMAIN value)
    BY <1>1, FS_Interval
  <2>2. [d \in DOMAIN value |-> value[d]] \in Surjection(DOMAIN value, All)
    BY DEF Surjection
  <2> HIDE DEF All
  <2> QED
    BY <2>1, <2>2, FS_Surjection
<1>3. Below(f) \subseteq All /\ Below(g) \subseteq All
  OBVIOUS
<1>4. IsFiniteSet(Below(f)) /\ IsFiniteSet(Below(g))
  <2> HIDE DEF All, Below
  <2> QED
    BY <1>2, <1>3, FS_Subset
<1>5. Cardinality(Below(f)) \in Nat /\ Cardinality(Below(g)) \in Nat
  <2> HIDE DEF All, Below
  <2> QED
    BY <1>4, FS_CardinalityType
<1>6. SortNumber(value, f) = Cardinality(Below(f)) /\ SortNumber(value, g) = Cardinality(Below(g))
  BY DEF SortNumber
<1>7. value[f] = value[g] => Below(f) = Below(g)
  OBVIOUS
<1>8. ASSUME value[f] < value[g] PROVE Cardinality(Below(f)) < Cardinality(Below(g))
  <2>1. value[f] \in Nat /\ value[g] \in Nat /\ \A h \in DOMAIN value : value[h] \in Nat
    OBVIOUS
  <2>2. Below(f) \subseteq Below(g)
    <3>1. ASSUME NEW h \in DOMAIN value, value[h] < value[f] PROVE value[h] < value[g]
      BY <1>8, <2>1, <3>1
    <3> QED
      BY <3>1
  <2>3. value[f] \in Below(g) /\ value[f] \notin Below(f)
    BY <1>8, <2>1
  <2>4. Below(f) # Below(g)
    <3> HIDE DEF Below
    <3> QED
      BY <2>3
  <2> HIDE DEF Below
  <2>5. Cardinality(Below(f)) <= Cardinality(Below(g)) /\ Cardinality(Below(f)) # Cardinality(Below(g))
    BY <1>4, <2>2, <2>4, FS_Subset
  <2> QED
    BY <1>5, <2>5
<1> HIDE DEF Below
<1> QED
  BY <1>5, <1>6, <1>7, <1>8

(* One document comes before another in one way.                           *)
LEMMA BeforeOrders ==
  ASSUME NEW value \in Seq(Nat)
  PROVE  /\ \A f, g \in DOMAIN value : f # g => Before(value, f, g) \/ Before(value, g, f)
         /\ \A f, g, h \in DOMAIN value :
              Before(value, f, g) /\ Before(value, g, h) => Before(value, f, h)
         /\ \A f \in DOMAIN value : ~Before(value, f, f)
         /\ \A f, g \in DOMAIN value : Before(value, f, g) => value[f] <= value[g]
<1>1. \A f \in DOMAIN value : SortNumber(value, f) \in Nat /\ f \in Nat /\ value[f] \in Nat
  BY SortNumberRises
<1>2. \A f, g \in DOMAIN value : Before(value, f, g) => value[f] <= value[g]
  <2> SUFFICES ASSUME NEW f \in DOMAIN value, NEW g \in DOMAIN value, value[f] > value[g]
               PROVE  ~Before(value, f, g)
    BY <1>1
  <2>1. SortNumber(value, g) < SortNumber(value, f)
    BY <1>1, SortNumberRises
  <2> QED
    BY <1>1, <2>1 DEF Before
<1> QED
  BY <1>1, <1>2 DEF Before

(* A document's place is its own.                                          *)
LEMMA Places ==
  ASSUME NEW value \in Seq(Nat), NEW f \in DOMAIN value
  PROVE  /\ Place(value, f) \in 0..(Len(value) - 1)
         /\ \A g \in DOMAIN value : Before(value, f, g) => Place(value, f) < Place(value, g)
<1> DEFINE Ahead(d) == {g \in DOMAIN value : Before(value, g, d)}
<1>1. DOMAIN value = 1..Len(value) /\ Len(value) \in Nat
  OBVIOUS
<1>2. IsFiniteSet(DOMAIN value) /\ Cardinality(DOMAIN value) = Len(value)
  <2>1. PICK len \in Nat : len = Len(value)
    BY <1>1
  <2>2. IsFiniteSet(1..len) /\ Cardinality(1..len) = IF 1 > len THEN 0 ELSE len - 1 + 1
    BY FS_Interval
  <2> QED
    BY <1>1, <2>1, <2>2
<1>3. ASSUME NEW d PROVE IsFiniteSet(Ahead(d)) /\ Cardinality(Ahead(d)) \in Nat
  <2>1. Ahead(d) \subseteq DOMAIN value
    OBVIOUS
  <2> HIDE DEF Ahead
  <2> QED
    BY <1>2, <2>1, FS_Subset, FS_CardinalityType
<1>4. Cardinality(Ahead(f)) < Len(value)
  <2>1. Ahead(f) \subseteq DOMAIN value
    OBVIOUS
  <2>2. f \notin Ahead(f)
    BY BeforeOrders
  <2>3. Ahead(f) # DOMAIN value
    BY <2>2
  <2> HIDE DEF Ahead
  <2>4. /\ Cardinality(Ahead(f)) <= Cardinality(DOMAIN value)
        /\ Cardinality(Ahead(f)) # Cardinality(DOMAIN value)
    BY <1>2, <2>1, <2>3, FS_Subset
  <2> QED
    BY <1>1, <1>2, <1>3, <2>4
<1>5. ASSUME NEW g \in DOMAIN value, Before(value, f, g)
      PROVE  Cardinality(Ahead(f)) < Cardinality(Ahead(g))
  <2>1. Ahead(f) \subseteq Ahead(g)
    BY <1>5, BeforeOrders
  <2>2. f \in Ahead(g) /\ f \notin Ahead(f)
    BY <1>5, BeforeOrders
  <2>3. Ahead(f) # Ahead(g)
    BY <2>2
  <2> HIDE DEF Ahead
  <2>4. Cardinality(Ahead(f)) <= Cardinality(Ahead(g)) /\ Cardinality(Ahead(f)) # Cardinality(Ahead(g))
    BY <1>3, <2>1, <2>3, FS_Subset
  <2> QED
    BY <1>3, <2>4
<1>6. \A d : Place(value, d) = Cardinality(Ahead(d))
  BY DEF Place
<1> HIDE DEF Ahead
<1> QED
  BY <1>1, <1>3, <1>4, <1>5, <1>6

(* The array holds every document once, and their values rise.             *)
LEMMA LookupOrderIs ==
  ASSUME NEW value \in Seq(Nat)
  PROVE  /\ \A i \in DOMAIN value :
              LookupOrder(value)[i] \in DOMAIN value /\ Place(value, LookupOrder(value)[i]) = i - 1
         /\ \A f \in DOMAIN value : \E i \in DOMAIN value : LookupOrder(value)[i] = f
<1>1. DOMAIN value = 1..Len(value) /\ Len(value) \in Nat
  OBVIOUS
<1> DEFINE N == Len(value)
           T == 0..(N - 1)
           place == [f \in DOMAIN value |-> Place(value, f)]
<1>2. \A f, g \in DOMAIN value : Place(value, f) = Place(value, g) => f = g
  <2> SUFFICES ASSUME NEW f \in DOMAIN value, NEW g \in DOMAIN value, f # g
               PROVE  Place(value, f) # Place(value, g)
    OBVIOUS
  <2>1. Place(value, f) \in 0..(Len(value) - 1) /\ Place(value, g) \in 0..(Len(value) - 1)
    BY Places
  <2>2. Place(value, f) < Place(value, g) \/ Place(value, g) < Place(value, f)
    BY BeforeOrders, Places
  <2> QED
    BY <2>1, <2>2
<1>3. place \in Injection(DOMAIN value, T)
  <2>1. \A f \in DOMAIN value : Place(value, f) \in T
    BY Places
  <2> HIDE DEF T
  <2> QED
    BY <1>2, <2>1 DEF Injection, IsInjective
<1>4. IsFiniteSet(T) /\ Cardinality(T) = N
  BY <1>1, FS_Interval, SMTT(30)
<1>5. Cardinality(DOMAIN value) = N
  BY <1>1, FS_Interval, SMTT(30)
<1>6. place \in Surjection(DOMAIN value, T)
  <2> HIDE DEF T, place, N
  <2> QED
    BY <1>3, <1>4, <1>5, FS_Injection
<1>7. \A k \in T : \E f \in DOMAIN value : Place(value, f) = k
  BY <1>6 DEF Surjection
<1>8. ASSUME NEW i \in DOMAIN value
      PROVE  LookupOrder(value)[i] \in DOMAIN value /\ Place(value, LookupOrder(value)[i]) = i - 1
  <2>1. i - 1 \in T
    BY <1>1
  <2>2. \E f \in DOMAIN value : Place(value, f) = i - 1
    BY <1>7, <2>1
  <2>3. LookupOrder(value)[i] = CHOOSE f \in DOMAIN value : Place(value, f) = i - 1
    BY DEF LookupOrder
  <2> QED
    BY <2>2, <2>3
<1>9. ASSUME NEW f \in DOMAIN value
      PROVE  \E i \in DOMAIN value : LookupOrder(value)[i] = f
  <2>1. Place(value, f) \in 0..(Len(value) - 1)
    BY Places
  <2>2. PICK i \in DOMAIN value : i - 1 = Place(value, f)
    <3>1. Place(value, f) + 1 \in DOMAIN value /\ (Place(value, f) + 1) - 1 = Place(value, f)
      BY <1>1, <2>1
    <3> QED
      BY <3>1
  <2> QED
    BY <1>2, <1>8, <2>2
<1> QED
  BY <1>8, <1>9

(* The values in that order.                                               *)
LEMMA SortedValuesRise ==
  ASSUME NEW value \in Seq(Nat)
  PROVE  /\ SortedValues(value) \in Seq(Nat) /\ Len(SortedValues(value)) = Len(value)
         /\ InOrder(SortedValues(value))
         /\ \A i \in DOMAIN value : SortedValues(value)[i] = value[LookupOrder(value)[i]]
<1>1. DOMAIN value = 1..Len(value) /\ Len(value) \in Nat
  OBVIOUS
<1>2. ASSUME NEW i \in DOMAIN value PROVE value[LookupOrder(value)[i]] \in Nat
  <2>1. PICK f \in DOMAIN value : f = LookupOrder(value)[i]
    BY LookupOrderIs
  <2> QED
    BY <2>1
<1>3. SortedValues(value) = [i \in 1..Len(value) |-> value[LookupOrder(value)[i]]]
  BY <1>1 DEF SortedValues
<1>4. /\ SortedValues(value) \in Seq(Nat) /\ Len(SortedValues(value)) = Len(value)
      /\ \A i \in DOMAIN value : SortedValues(value)[i] = value[LookupOrder(value)[i]]
  BY <1>1, <1>2, <1>3
<1>5. ASSUME NEW i \in 1..Len(value), NEW k \in 1..Len(value), i <= k
      PROVE  value[LookupOrder(value)[i]] <= value[LookupOrder(value)[k]]
  <2>1. PICK f \in DOMAIN value : f = LookupOrder(value)[i] /\ Place(value, f) = i - 1
    BY <1>1, LookupOrderIs
  <2>2. PICK g \in DOMAIN value : g = LookupOrder(value)[k] /\ Place(value, g) = k - 1
    BY <1>1, LookupOrderIs
  <2>3. ~Before(value, g, f)
    <3>1. Before(value, g, f) => Place(value, g) < Place(value, f)
      BY Places
    <3> QED
      BY <1>5, <2>1, <2>2, <3>1
  <2>4. f = g \/ Before(value, f, g)
    BY <2>3, BeforeOrders
  <2>5. value[f] <= value[g]
    <3>1. value[f] \in Nat
      OBVIOUS
    <3> QED
      BY <2>4, <3>1, BeforeOrders
  <2> QED
    BY <2>1, <2>2, <2>5
<1> QED
  BY <1>1, <1>4, <1>5, ZenonT(60) DEF InOrder

(* A table holds the documents in range.                                   *)
LEMMA TableExact ==
  ASSUME NEW value \in Seq(Nat), NEW lo \in Nat, NEW hi \in Nat,
         ~(lo # 0 /\ hi # 0 /\ lo > hi),
         ~(lo = 0 /\ \A f \in DOMAIN value : value[f] > hi),
         LookupArray(value, lo, hi) # NoTable, NEW f \in DOMAIN value
  PROVE  f \in LookupArray(value, lo, hi) <=> InRange(value[f], lo, hi)
<1>1. PICK s \in Seq(Nat) : s = SortedValues(value)
  BY SortedValuesRise
<1>2. /\ Len(s) = Len(value) /\ InOrder(s)
      /\ \A i \in DOMAIN value : s[i] = value[LookupOrder(value)[i]]
  BY <1>1, SortedValuesRise
<1>3. PICK order : order = LookupOrder(value)
  OBVIOUS
<1>4. PICK found : found = FindProp(s, lo, hi)
  OBVIOUS
<1>5. LookupArray(value, lo, hi) = {order[j + 1] : j \in found}
  BY <1>1, <1>3, <1>4 DEF LookupArray, TableOf
<1>6. found \subseteq 0..(Len(s) - 1)
  BY <1>4 DEF FindProp
<1>7. /\ \A i \in DOMAIN value : order[i] \in DOMAIN value /\ Place(value, order[i]) = i - 1
      /\ \A g \in DOMAIN value : \E i \in DOMAIN value : order[i] = g
  BY <1>3, LookupOrderIs
<1>8. DOMAIN value = 1..Len(value) /\ Len(value) \in Nat
  OBVIOUS
<1>9. PICK i \in DOMAIN value : order[i] = f
  BY <1>7
<1>10. PICK k : k = i - 1
  OBVIOUS
<1>11. k \in 0..(Len(s) - 1) /\ k + 1 = i
  BY <1>2, <1>8, <1>10
<1>12. ~(lo = 0 /\ \A m \in 1..Len(s) : s[m] > hi)
  <2>1. SUFFICES ASSUME lo = 0, \A m \in 1..Len(s) : s[m] > hi PROVE FALSE
    OBVIOUS
  <2>2. ASSUME NEW g \in DOMAIN value PROVE value[g] > hi
    <3>1. PICK m \in DOMAIN value : order[m] = g
      BY <1>7
    <3>2. s[m] > hi /\ s[m] = value[g]
      BY <1>2, <1>3, <1>8, <2>1, <3>1
    <3> QED
      BY <3>2
  <2> QED
    BY <2>1, <2>2
<1>13. k \in found <=> InRange(s[k + 1], lo, hi)
  BY <1>2, <1>4, <1>11, <1>12, FindPropExact
<1>14. s[k + 1] = value[f]
  BY <1>2, <1>3, <1>9, <1>11
<1>15. f \in LookupArray(value, lo, hi) <=> k \in found
  <2>1. ASSUME f \in LookupArray(value, lo, hi) PROVE k \in found
    <3>1. PICK j \in found : f = order[j + 1]
      BY <1>5, <2>1
    <3>2. j + 1 \in DOMAIN value /\ j \in Int
      BY <1>2, <1>6, <1>8
    <3>3. (j + 1) - 1 = i - 1
      BY <1>7, <1>9, <3>1, <3>2
    <3>4. j = k
      BY <1>8, <1>10, <3>2, <3>3
    <3> QED
      BY <3>4
  <2>2. ASSUME k \in found PROVE f \in LookupArray(value, lo, hi)
    BY <1>5, <1>9, <1>11, <2>2
  <2> QED
    BY <2>1, <2>2
<1> QED
  BY <1>13, <1>14, <1>15


-----------------------------------------------------------------------------
(***************************************************************************)
(* What the parameters make of the limits of an index.                     *)
(***************************************************************************)

(* An index, and what its limits and their loading are.                    *)
IndexRecords == [value : [Properties -> Seq(Nat)], presorted : [Properties -> BOOLEAN]]
IndexOK(x) ==
  x \in IndexRecords /\ \A p, q \in Properties : Len(x.value[p]) = Len(x.value[q])
LimitSet == [lo : Nat, hi : Nat, inRange : SUBSET Int]
Loads == [lims : [Properties -> LimitSet], state : {"error", "no docs", "ok"}]

(* The documents have the same numbers for every property.                 *)
LEMMA FilesAre ==
  ASSUME NEW x, IndexOK(x), NEW p \in Properties
  PROVE  FilesIn(x) = DOMAIN x.value[p] /\ x.value[p] \in Seq(Nat)
<1>1. \A q \in Properties : x.value[q] \in Seq(Nat)
  BY DEF IndexOK, IndexRecords
<1>2. PICK q \in Properties : q = CHOOSE r \in Properties : TRUE
  OBVIOUS
<1>3. Len(x.value[p]) = Len(x.value[q])
  BY DEF IndexOK
<1> QED
  BY <1>1, <1>2, <1>3 DEF FilesIn

LEMMA LimitFields ==
  ASSUME NEW lo, NEW hi, NEW inRange
  PROVE  /\ Limit(lo, hi, inRange).lo = lo
         /\ Limit(lo, hi, inRange).hi = hi
         /\ Limit(lo, hi, inRange).inRange = inRange
         /\ lo \in Nat /\ hi \in Nat /\ inRange \in SUBSET Int => Limit(lo, hi, inRange) \in LimitSet
  BY DEF Limit, LimitSet

LEMMA LoadFields ==
  ASSUME NEW lims, NEW state
  PROVE  /\ Load(lims, state).lims = lims
         /\ Load(lims, state).state = state
         /\ lims \in [Properties -> LimitSet] /\ state \in {"error", "no docs", "ok"} =>
              Load(lims, state) \in Loads
  BY DEF Load, Loads

LEMMA UnlimitedIs ==
  /\ Unlimited \in [Properties -> LimitSet]
  /\ \A p \in Properties : Unlimited[p] = NoLimit
<1>1. NoLimit \in LimitSet
  BY DEF NoLimit, NoTable, LimitSet
<1> QED
  BY <1>1 DEF Unlimited

(* A table is a set of file numbers, or none.                              *)
LEMMA TableType ==
  ASSUME NEW value \in Seq(Nat), NEW lo, NEW hi
  PROVE  LookupArray(value, lo, hi) \in SUBSET Int
<1>1. PICK s \in Seq(Nat) : s = SortedValues(value) /\ Len(s) = Len(value)
  BY SortedValuesRise
<1>2. PICK found : found = FindProp(s, lo, hi)
  OBVIOUS
<1>3. found \subseteq 0..(Len(s) - 1)
  BY <1>2 DEF FindProp
<1>4. DOMAIN value = 1..Len(value) /\ Len(value) \in Nat
  OBVIOUS
<1>5. ASSUME NEW j \in found PROVE LookupOrder(value)[j + 1] \in Int
  <2>1. j + 1 \in DOMAIN value
    BY <1>1, <1>3, <1>4
  <2>2. PICK f \in DOMAIN value : f = LookupOrder(value)[j + 1]
    BY <2>1, LookupOrderIs
  <2> QED
    BY <2>2
<1>6. {LookupOrder(value)[j + 1] : j \in found} \subseteq Int
  BY <1>5
<1>7. NoTable \subseteq Int
  BY DEF NoTable
<1>8. \/ LookupArray(value, lo, hi) = NoTable
      \/ LookupArray(value, lo, hi) = {LookupOrder(value)[j + 1] : j \in found}
  BY <1>1, <1>2 DEF LookupArray, TableOf
<1> QED
  BY <1>6, <1>7, <1>8

(* What a parameter makes of a property's limit.                           *)
LEMMA LimitOfIs ==
  ASSUME NEW x, IndexOK(x), NEW p \in Limits, p.prop \in Properties
  PROVE  /\ LimitOf(x, p) \in LimitSet
         /\ LimitOf(x, p).lo = p.lo /\ LimitOf(x, p).hi = p.hi
         /\ ~WrongParam(p) =>
              LimitOf(x, p).inRange \in {NoTable, LookupArray(x.value[p.prop], p.lo, p.hi)}
<1>1. p.lo \in Nat /\ p.hi \in Nat
  BY LimitsAssumption DEF LimitsAssumption
<1>2. x.value[p.prop] \in Seq(Nat)
  BY FilesAre
<1>3. PICK t : t = IF WrongParam(p) \/ ~x.presorted[p.prop] THEN NoTable
                   ELSE LookupArray(x.value[p.prop], p.lo, p.hi)
  OBVIOUS
<1>4. t \in {NoTable, LookupArray(x.value[p.prop], p.lo, p.hi)}
  BY <1>3
<1>5. t \in SUBSET Int
  BY <1>2, <1>4, TableType DEF NoTable
<1>6. LimitOf(x, p) = Limit(p.lo, p.hi, t)
  BY <1>3 DEF LimitOf
<1>7. Limit(p.lo, p.hi, t) \in LimitSet
  BY <1>1, <1>5, LimitFields
<1>8. /\ Limit(p.lo, p.hi, t).lo = p.lo /\ Limit(p.lo, p.hi, t).hi = p.hi
      /\ Limit(p.lo, p.hi, t).inRange = t
  BY DEF Limit
<1> QED
  BY <1>4, <1>6, <1>7, <1>8

(* One parameter more.                                                     *)
WithOne(x, load, p) ==
  IF load.state # "ok" THEN load ELSE LoadedAs(WithParam(x, load.lims, p), p)

LEMMA WithOneType ==
  ASSUME NEW x, IndexOK(x), NEW load \in Loads, NEW p \in Limits
  PROVE  WithOne(x, load, p) \in Loads
<1>1. load.lims \in [Properties -> LimitSet]
  BY DEF Loads
<1>2. WithParam(x, load.lims, p) \in [Properties -> LimitSet]
  <2>1. CASE p.prop \notin Properties
    BY <1>1, <2>1 DEF WithParam
  <2>2. CASE p.prop \in Properties
    <3>1. LimitOf(x, p) \in LimitSet
      BY <2>2, LimitOfIs
    <3>2. WithParam(x, load.lims, p) = [load.lims EXCEPT ![p.prop] = LimitOf(x, p)]
      BY <2>2 DEF WithParam
    <3> QED
      BY <1>1, <3>1, <3>2
  <2> QED
    BY <2>1, <2>2
<1>3. LoadedAs(WithParam(x, load.lims, p), p) \in Loads
  <2>1. PICK lims \in [Properties -> LimitSet] : lims = WithParam(x, load.lims, p)
    BY <1>2
  <2>2. LoadedAs(lims, p) \in Loads
    BY LoadFields DEF LoadedAs
  <2> QED
    BY <2>1, <2>2
<1> QED
  BY <1>3 DEF WithOne

(* g gives the limits of x as far as the parameters are loaded.            *)
LoadsOf(g, x) ==
  /\ g \in [0..Len(params) -> Loads] /\ g[0] = Load(Unlimited, "ok")
  /\ Loaded(x) = g[Len(params)]
  /\ \A i \in 1..Len(params) : g[i] = WithOne(x, g[i - 1], params[i])

(* The limits there are, parameter by parameter.                           *)
LEMMA LoadedIs ==
  ASSUME NEW x, IndexOK(x), params \in Seq(Limits)
  PROVE  \E g : LoadsOf(g, x)
<1>1. PICK N \in Nat : N = Len(params)
  OBVIOUS
<1> DEFINE base == Load(Unlimited, "ok")
           load[i \in 0..Len(params)] ==
             IF i = 0 THEN Load(Unlimited, "ok")
             ELSE IF load[i - 1].state # "ok" THEN load[i - 1]
             ELSE LoadedAs(WithParam(x, load[i - 1].lims, params[i]), params[i])
           next == [i \in 1..N |-> [y \in Loads |-> WithOne(x, y, params[i])]]
<1>2. Loaded(x) = load[N]
  BY <1>1 DEF Loaded
<1>3. next \in [1..N -> [Loads -> Loads]] /\ base \in Loads
  <2>1. base \in Loads
    BY UnlimitedIs, LoadFields
  <2>2. ASSUME NEW i \in 1..N, NEW y \in Loads PROVE WithOne(x, y, params[i]) \in Loads
    <3>1. params[i] \in Limits
      BY <1>1
    <3> QED
      BY <3>1, WithOneType
  <2> QED
    BY <2>1, <2>2
<1>4. PICK g : FoldOf(g, N, Loads, base, next)
  <2> HIDE DEF next, base
  <2> QED
    BY <1>3, FoldExists
<1>5. g \in [0..N -> Loads] /\ g[0] = base
  <2> HIDE DEF next, load, base
  <2> QED
    BY <1>4 DEF FoldOf
<1>6. ASSUME NEW i \in 1..N PROVE g[i] = WithOne(x, g[i - 1], params[i])
  <2>1. g[i] = next[i][g[i - 1]]
    <3> HIDE DEF next, load, base
    <3> QED
      BY <1>4 DEF FoldOf
  <2>2. i - 1 \in 0..N
    OBVIOUS
  <2>3. g[i - 1] \in Loads
    BY <1>5, <2>2
  <2>4. next[i][g[i - 1]] = WithOne(x, g[i - 1], params[i])
    BY <2>3
  <2> QED
    BY <2>1, <2>4
<1>7. g = [i \in 0..N |-> IF i = 0 THEN base
                          ELSE IF g[i - 1].state # "ok" THEN g[i - 1]
                          ELSE LoadedAs(WithParam(x, g[i - 1].lims, params[i]), params[i])]
  <2> HIDE DEF next, load, base
  <2> DEFINE h == [i \in 0..N |-> IF i = 0 THEN base
                                  ELSE IF g[i - 1].state # "ok" THEN g[i - 1]
                                  ELSE LoadedAs(WithParam(x, g[i - 1].lims, params[i]), params[i])]
  <2>1. \A i \in 0..N : i = 0 \/ i \in 1..N
    OBVIOUS
  <2>2. \A i \in 0..N : g[i] = h[i]
    BY <1>5, <1>6, <2>1 DEF WithOne
  <2> QED
    BY <1>5, <2>2
<1>8. load = [i \in 0..N |-> IF i = 0 THEN base
                             ELSE IF load[i - 1].state # "ok" THEN load[i - 1]
                             ELSE LoadedAs(WithParam(x, load[i - 1].lims, params[i]), params[i])]
  BY <1>1, <1>7
<1>9. load[0] = base /\ \A i \in 1..N : load[i] = WithOne(x, load[i - 1], params[i])
  <2> HIDE DEF load, base
  <2>1. \A i \in 0..N : load[i] = IF i = 0 THEN base
                                  ELSE IF load[i - 1].state # "ok" THEN load[i - 1]
                                  ELSE LoadedAs(WithParam(x, load[i - 1].lims, params[i]), params[i])
    BY Zenon, <1>8
  <2>2. 0 \in 0..N /\ \A i \in 1..N : i \in 0..N /\ i # 0
    OBVIOUS
  <2> QED
    BY <2>1, <2>2 DEF WithOne
<1>10. DOMAIN load = 0..N
  <2> HIDE DEF load, base
  <2> DEFINE h == [i \in 0..N |-> IF i = 0 THEN base
                                  ELSE IF load[i - 1].state # "ok" THEN load[i - 1]
                                  ELSE LoadedAs(WithParam(x, load[i - 1].lims, params[i]), params[i])]
  <2>1. DOMAIN h = 0..N /\ load = h
    BY Zenon, <1>8
  <2> QED
    BY <2>1
<1>11. \A i \in 0..N : load[i] \in Loads
  <2> DEFINE S == {i \in 0..N : load[i] \in Loads}
  <2> HIDE DEF load, base
  <2>1. 0 \in S
    BY <1>3, <1>9
  <2>2. ASSUME NEW i \in 0..(N - 1), i \in S PROVE i + 1 \in S
    <3>1. i + 1 \in 1..N /\ (i + 1) - 1 = i /\ i + 1 \in 0..N
      OBVIOUS
    <3>2. load[i + 1] = WithOne(x, load[i], params[i + 1])
      BY <1>9, <3>1
    <3>3. params[i + 1] \in Limits
      BY <1>1, <3>1
    <3> QED
      BY <2>2, <3>1, <3>2, <3>3, WithOneType
  <2>3. \A i \in 0..N : i \in S
    <3> HIDE DEF S
    <3> QED
      BY <2>1, <2>2, UpTo
  <2> QED
    BY <2>3
<1>12. load \in [0..N -> Loads]
  <2> DEFINE h == [i \in 0..N |-> IF i = 0 THEN base
                                  ELSE IF load[i - 1].state # "ok" THEN load[i - 1]
                                  ELSE LoadedAs(WithParam(x, load[i - 1].lims, params[i]), params[i])]
  <2> HIDE DEF load, base
  <2>1. load = h
    BY Zenon, <1>8
  <2>2. load = [i \in 0..N |-> load[i]]
    BY <1>10, <2>1
  <2> QED
    BY <1>11, <2>2
<1> HIDE DEF load
<1> QED
  BY <1>1, <1>2, <1>9, <1>12 DEF LoadsOf

(* What a limit takes out: a document with the value v.                    *)
Excluded(limit, v, f) ==
  /\ limit.lo # 0 \/ limit.hi # 0
  /\ IF limit.inRange # NoTable THEN f \notin limit.inRange
     ELSE v < limit.lo \/ (limit.hi # 0 /\ v > limit.hi)

(* A document is out if a limit takes it out.                              *)
LEMMA LimitsByOne ==
  ASSUME NEW x, NEW lims, NEW f
  PROVE  LimitByProperty(x, lims, f) <=> \E p \in Properties : Excluded(lims[p], x.value[p][f], f)
  BY DEF LimitByProperty, Excluded

(* Below is BelowAll for one index and parameter.                          *)
Below(x, p) == p.lo = 0 /\ \A f \in FilesIn(x) : x.value[p.prop][f] > p.hi

(* A limit takes out what is not in range.                                 *)
LEMMA LimitExact ==
  ASSUME NEW x, IndexOK(x), NEW p \in Limits, ~WrongParam(p), ~Below(x, p), NEW f \in FilesIn(x)
  PROVE  /\ Excluded(LimitOf(x, p), x.value[p.prop][f], f) <=> ~InRange(x.value[p.prop][f], p.lo, p.hi)
         /\ LimitOf(x, p).inRange = {} => ~InRange(x.value[p.prop][f], p.lo, p.hi)
<1>1. p.prop \in Properties /\ ~(p.lo # 0 /\ p.hi # 0 /\ p.lo > p.hi)
  BY DEF WrongParam
<1>2. PICK lo, hi \in Nat : lo = p.lo /\ hi = p.hi
  BY LimitsAssumption DEF LimitsAssumption
<1>3. PICK value \in Seq(Nat) : value = x.value[p.prop] /\ FilesIn(x) = DOMAIN value
  BY <1>1, FilesAre
<1>4. PICK v \in Nat : v = value[f]
  BY <1>3
<1>5. PICK limit : limit = LimitOf(x, p)
  OBVIOUS
<1>6. /\ limit.lo = lo /\ limit.hi = hi
      /\ limit.inRange \in {NoTable, LookupArray(value, lo, hi)}
  BY <1>1, <1>2, <1>3, <1>5, LimitOfIs
<1>7. ~(lo = 0 /\ \A g \in DOMAIN value : value[g] > hi)
  BY <1>2, <1>3 DEF Below
<1>8. InRange(v, lo, hi) <=> lo <= v /\ (hi = 0 \/ v <= hi)
  BY DEF InRange
<1>9. CASE limit.inRange = NoTable
  <2>1. Excluded(limit, v, f) <=> ~InRange(v, lo, hi)
    BY <1>6, <1>8, <1>9 DEF Excluded
  <2>2. limit.inRange # {}
    BY <1>9 DEF NoTable
  <2> QED
    BY <1>2, <1>3, <1>4, <1>5, <2>1, <2>2
<1>10. CASE limit.inRange # NoTable
  <2>1. limit.inRange = LookupArray(value, lo, hi)
    BY <1>6, <1>10
  <2>2. f \in limit.inRange <=> InRange(v, lo, hi)
    <3>1. ~(lo # 0 /\ hi # 0 /\ lo > hi) /\ f \in DOMAIN value
      BY <1>1, <1>2, <1>3
    <3>2. LookupArray(value, lo, hi) # NoTable
      BY <1>10, <2>1
    <3>3. f \in LookupArray(value, lo, hi) <=> InRange(value[f], lo, hi)
      BY <1>7, <3>1, <3>2, TableExact
    <3> QED
      BY <1>4, <2>1, <3>3
  <2>3. lo = 0 /\ hi = 0 => InRange(v, lo, hi)
    BY <1>8
  <2>4. Excluded(limit, v, f) <=> ~InRange(v, lo, hi)
    BY <1>6, <1>10, <2>2, <2>3 DEF Excluded
  <2>5. limit.inRange = {} => ~InRange(v, lo, hi)
    BY <2>2
  <2> QED
    BY <1>2, <1>3, <1>4, <1>5, <2>4, <2>5
<1> QED
  BY <1>9, <1>10

(* The limits when the first i parameters are loaded.                      *)
LoadedTo(x, load, i) ==
  /\ load.state = "ok" =>
       \A p \in Properties :
         \/ \E k \in 1..i : params[k].prop = p /\ load.lims[p] = LimitOf(x, params[k])
         \/ load.lims[p] = NoLimit /\ \A k \in 1..i : params[k].prop # p
  /\ load.state = "no docs" =>
       \E k \in 1..i : /\ load.lims[params[k].prop] = LimitOf(x, params[k])
                       /\ LimitOf(x, params[k]).inRange = {}
  /\ load.state # "error"

(* SwishSetSearchLimit refuses a second limit on a property.               *)
DistinctLimits ==
  \A i, j \in 1..Len(params) : params[i].prop = params[j].prop => i = j

(* A parameter more: its property had no limit before.                     *)
LEMMA LoadedToOne ==
  ASSUME NEW x, IndexOK(x), params \in Seq(Limits), DistinctLimits, Sensible,
         NEW i \in 0..(Len(params) - 1), NEW load \in Loads, LoadedTo(x, load, i)
  PROVE  LoadedTo(x, WithOne(x, load, params[i + 1]), i + 1)
<1>1. PICK k \in 1..Len(params) : k = i + 1
  OBVIOUS
<1>2. PICK p \in Limits : p = params[k]
  OBVIOUS
<1>3. ~WrongParam(p) /\ p.prop \in Properties
  BY <1>2 DEF Sensible, WrongParam
<1>4. \A j \in 1..i : j \in 1..k /\ j \in 1..Len(params) /\ j # k
  BY <1>1
<1>5. \A j \in 1..k : j \in 1..i \/ j = k
  BY <1>1
<1>6. k \in 1..k
  OBVIOUS
<1>7. PICK y : y = WithOne(x, load, p)
  OBVIOUS
<1>8. CASE load.state # "ok"
  <2>1. y = load
    BY <1>7, <1>8 DEF WithOne
  <2>2. load.state # "error" /\ load.state \in {"error", "no docs", "ok"}
    BY DEF LoadedTo, Loads
  <2>3. load.state = "no docs"
    BY <1>8, <2>2
  <2>4. PICK j \in 1..i : /\ load.lims[params[j].prop] = LimitOf(x, params[j])
                          /\ LimitOf(x, params[j]).inRange = {}
    BY <2>3 DEF LoadedTo
  <2>5. j \in 1..k
    BY <1>4
  <2>6. LoadedTo(x, y, k)
    BY <2>1, <2>3, <2>4, <2>5 DEF LoadedTo
  <2> QED
    BY <1>1, <1>2, <1>7, <2>6
<1>9. CASE load.state = "ok"
  <2>1. PICK lims : lims = [load.lims EXCEPT ![p.prop] = LimitOf(x, p)]
    OBVIOUS
  <2>2. y = LoadedAs(lims, p)
    BY <1>3, <1>7, <1>9, <2>1 DEF WithOne, WithParam
  <2>3. load.lims \in [Properties -> LimitSet]
    BY DEF Loads
  <2>4. lims[p.prop] = LimitOf(x, p) /\ \A q \in Properties : q # p.prop => lims[q] = load.lims[q]
    BY <1>3, <2>1, <2>3
  <2>5. /\ y.lims = lims
        /\ y.state = IF lims[p.prop].inRange = {} THEN "no docs" ELSE "ok"
    <3>1. PICK state : state = IF lims[p.prop].inRange = {} THEN "no docs" ELSE "ok"
      OBVIOUS
    <3>2. y = Load(lims, state)
      BY <1>3, <2>2, <3>1 DEF LoadedAs
    <3>3. y.lims = lims /\ y.state = state
      BY Zenon, <3>2, LoadFields
    <3> QED
      BY <3>1, <3>3
  <2>6. y.state # "error"
    BY <2>5
  <2>7. ASSUME y.state = "no docs"
        PROVE  \E j \in 1..k : /\ y.lims[params[j].prop] = LimitOf(x, params[j])
                               /\ LimitOf(x, params[j]).inRange = {}
    <3>1. LimitOf(x, p).inRange = {}
      BY <2>4, <2>5, <2>7
    <3> QED
      BY <1>2, <1>6, <2>4, <2>5, <3>1
  <2>8. ASSUME NEW q \in Properties
        PROVE  \/ \E j \in 1..k : params[j].prop = q /\ y.lims[q] = LimitOf(x, params[j])
               \/ y.lims[q] = NoLimit /\ \A j \in 1..k : params[j].prop # q
    <3>1. CASE q = p.prop
      BY <1>2, <1>6, <2>4, <2>5, <3>1
    <3>2. CASE q # p.prop
      <4>1. y.lims[q] = load.lims[q]
        BY <2>4, <2>5, <3>2
      <4>2. \/ \E j \in 1..i : params[j].prop = q /\ load.lims[q] = LimitOf(x, params[j])
            \/ load.lims[q] = NoLimit /\ \A j \in 1..i : params[j].prop # q
        BY <1>9 DEF LoadedTo
      <4> QED
        BY <1>2, <1>4, <1>5, <3>2, <4>1, <4>2
    <3> QED
      BY <3>1, <3>2
  <2>9. LoadedTo(x, y, k)
    BY <2>6, <2>7, <2>8 DEF LoadedTo
  <2> QED
    BY <1>1, <1>2, <1>7, <2>9
<1> QED
  BY <1>8, <1>9

(* All of them.                                                            *)
LEMMA LoadedToAll ==
  ASSUME NEW x, IndexOK(x), params \in Seq(Limits), DistinctLimits, Sensible
  PROVE  Loaded(x) \in Loads /\ LoadedTo(x, Loaded(x), Len(params))
<1>1. PICK N \in Nat : N = Len(params)
  OBVIOUS
<1>2. PICK g : LoadsOf(g, x)
  BY LoadedIs
<1>3. /\ g \in [0..N -> Loads] /\ g[0] = Load(Unlimited, "ok") /\ Loaded(x) = g[N]
      /\ \A i \in 1..N : g[i] = WithOne(x, g[i - 1], params[i])
  BY <1>1, <1>2 DEF LoadsOf
<1> DEFINE S == {i \in 0..N : LoadedTo(x, g[i], i)}
<1>4. 0 \in S
  <2>1. g[0].state = "ok" /\ g[0].lims = Unlimited
    <3>1. Load(Unlimited, "ok").state = "ok" /\ Load(Unlimited, "ok").lims = Unlimited
      BY Zenon, LoadFields
    <3> QED
      BY <1>3, <3>1
  <2>2. \A p \in Properties : g[0].lims[p] = NoLimit /\ \A k \in 1..0 : params[k].prop # p
    BY <2>1, UnlimitedIs
  <2>3. LoadedTo(x, g[0], 0)
    BY <2>1, <2>2 DEF LoadedTo
  <2> QED
    BY <2>3
<1>5. ASSUME NEW i \in 0..(N - 1), i \in S PROVE i + 1 \in S
  <2>1. i + 1 \in 1..N /\ (i + 1) - 1 = i /\ i + 1 \in 0..N /\ i \in 0..N
    OBVIOUS
  <2>2. g[i + 1] = WithOne(x, g[i], params[i + 1]) /\ g[i] \in Loads
    BY <1>3, <2>1
  <2>3. LoadedTo(x, g[i], i) /\ i \in 0..(Len(params) - 1)
    BY <1>1, <1>5
  <2>4. LoadedTo(x, WithOne(x, g[i], params[i + 1]), i + 1)
    BY <2>2, <2>3, LoadedToOne
  <2> QED
    BY <2>1, <2>2, <2>4
<1>6. \A i \in 0..N : i \in S
  <2> HIDE DEF S
  <2> QED
    BY <1>4, <1>5, UpTo
<1>7. N \in 0..N
  OBVIOUS
<1> QED
  BY <1>1, <1>3, <1>6, <1>7

(* Of the documents of an index the limits loaded leave those in range.    *)
LEMMA LoadedExact ==
  ASSUME NEW x, IndexOK(x), params \in Seq(Limits), DistinctLimits, Sensible,
         \A k \in 1..Len(params) : ~Below(x, params[k]), NEW f \in FilesIn(x)
  PROVE  /\ Loaded(x).state # "error"
         /\ LimitByProperty(x, Loaded(x).lims, f) <=>
              \E k \in 1..Len(params) :
                ~InRange(x.value[params[k].prop][f], params[k].lo, params[k].hi)
         /\ Loaded(x).state = "no docs" => LimitByProperty(x, Loaded(x).lims, f)
<1>1. PICK load \in Loads : load = Loaded(x) /\ LoadedTo(x, load, Len(params))
  BY LoadedToAll
<1> DEFINE Out(p) == ~InRange(x.value[p.prop][f], p.lo, p.hi)
<1>2. ASSUME NEW k \in 1..Len(params)
      PROVE  /\ params[k].prop \in Properties
             /\ Excluded(LimitOf(x, params[k]), x.value[params[k].prop][f], f) <=> Out(params[k])
             /\ LimitOf(x, params[k]).inRange = {} => Out(params[k])
  <2>1. params[k] \in Limits /\ ~WrongParam(params[k]) /\ ~Below(x, params[k])
    BY DEF Sensible
  <2>2. params[k].prop \in Properties
    BY <2>1 DEF WrongParam
  <2> QED
    BY <2>1, <2>2, LimitExact
<1>3. load.state \in {"error", "no docs", "ok"} /\ load.state # "error"
  BY <1>1 DEF Loads, LoadedTo
<1> HIDE DEF Out
<1>4. CASE load.state = "ok"
  <2>1. \A p \in Properties :
          \/ \E k \in 1..Len(params) : params[k].prop = p /\ load.lims[p] = LimitOf(x, params[k])
          \/ load.lims[p] = NoLimit /\ \A k \in 1..Len(params) : params[k].prop # p
    BY <1>1, <1>4 DEF LoadedTo
  <2>2. ASSUME LimitByProperty(x, load.lims, f) PROVE \E k \in 1..Len(params) : Out(params[k])
    <3>1. PICK p \in Properties : Excluded(load.lims[p], x.value[p][f], f)
      BY <2>2, LimitsByOne
    <3>2. ~Excluded(NoLimit, x.value[p][f], f)
      BY DEF Excluded, NoLimit
    <3>3. PICK k \in 1..Len(params) : params[k].prop = p /\ load.lims[p] = LimitOf(x, params[k])
      BY <2>1, <3>1, <3>2
    <3> QED
      BY <1>2, <3>1, <3>3
  <2>3. ASSUME NEW k \in 1..Len(params), Out(params[k]) PROVE LimitByProperty(x, load.lims, f)
    <3>1. PICK p \in Properties : p = params[k].prop
      BY <1>2
    <3>2. PICK j \in 1..Len(params) : params[j].prop = p /\ load.lims[p] = LimitOf(x, params[j])
      BY <2>1, <3>1
    <3>3. j = k
      BY <3>1, <3>2 DEF DistinctLimits
    <3>4. Excluded(load.lims[p], x.value[p][f], f)
      BY <1>2, <2>3, <3>1, <3>2, <3>3
    <3> QED
      BY <3>4, LimitsByOne
  <2> QED
    BY <1>1, <1>4, <2>2, <2>3 DEF Out
<1>5. CASE load.state = "no docs"
  <2>1. PICK k \in 1..Len(params) : /\ load.lims[params[k].prop] = LimitOf(x, params[k])
                                    /\ LimitOf(x, params[k]).inRange = {}
    BY <1>1, <1>5 DEF LoadedTo
  <2>2. Out(params[k]) /\ params[k].prop \in Properties
    BY <1>2, <2>1
  <2>3. Excluded(load.lims[params[k].prop], x.value[params[k].prop][f], f)
    BY <1>2, <2>1, <2>2
  <2>4. LimitByProperty(x, load.lims, f)
    BY <2>2, <2>3, LimitsByOne
  <2> QED
    BY <1>1, <1>5, <2>2, <2>4 DEF Out
<1> QED
  BY <1>3, <1>4, <1>5


-----------------------------------------------------------------------------
(***************************************************************************)
(* The search object.                                                      *)
(***************************************************************************)

(* What limits a search: none before the first execution, and from it on   *)
(* those asked for.  After an execution with limits in error no more are   *)
(* set, so the parameters stay in error until they are reset.              *)
LimitsInv ==
  /\ indexes \in LimitLists /\ params \in Seq(Limits) /\ prepared \in BOOLEAN
  /\ DistinctLimits
  /\ DOMAIN limits = DOMAIN indexes
  /\ ~prepared => \A i \in DOMAIN indexes : limits[i] = Unlimited
  /\ prepared /\ Sensible /\ ~BelowAll => Passing(limits) = Meant
  /\ LimitsFollowed

(* The indexes are of the kind assumed.                                    *)
LEMMA IndexesAre ==
  ASSUME indexes \in LimitLists, NEW i \in DOMAIN indexes
  PROVE  IndexOK(indexes[i])
<1>1. indexes \in Seq(IndexRecords)
  BY LimitsAssumption DEF LimitsAssumption, IndexRecords
<1>2. indexes[i] \in IndexRecords
  BY <1>1
<1> QED
  BY <1>2, LimitsAssumption DEF LimitsAssumption, IndexOK

(* A document searched is a file of an index.                              *)
LEMMA SearchedAre ==
  \A d : d \in Searched <=>
    \E i \in DOMAIN indexes : \E f \in FilesIn(indexes[i]) : d = <<i, f>>
  BY DEF Searched

(* Limits pass the documents meant if, in each index, they take out those  *)
(* that are out of some range.                                             *)
LEMMA PassingMeant ==
  ASSUME NEW lims,
         \A i \in DOMAIN indexes : \A f \in FilesIn(indexes[i]) :
           LimitByProperty(indexes[i], lims[i], f) <=>
             \E k \in 1..Len(params) :
               ~InRange(indexes[i].value[params[k].prop][f], params[k].lo, params[k].hi)
  PROVE  Passing(lims) = Meant
<1>1. ASSUME NEW d \in Searched
      PROVE  d \in Passing(lims) <=> d \in Meant
  <2>1. PICK i \in DOMAIN indexes : \E f \in FilesIn(indexes[i]) : d = <<i, f>>
    BY SearchedAre
  <2>2. PICK f \in FilesIn(indexes[i]) : d = <<i, f>>
    BY <2>1
  <2>3. d[1] = i /\ d[2] = f
    BY <2>2
  <2>4. d \in Passing(lims) <=> ~LimitByProperty(indexes[i], lims[i], f)
    BY <2>3 DEF Passing
  <2>5. d \in Meant <=> \A k \in 1..Len(params) :
          InRange(indexes[i].value[params[k].prop][f], params[k].lo, params[k].hi)
    BY <2>3 DEF Meant, InRange
  <2> QED
    BY <2>1, <2>4, <2>5
<1>2. Passing(lims) \subseteq Searched /\ Meant \subseteq Searched
  BY DEF Passing, Meant
<1> QED
  BY <1>1, <1>2

(* Without limits all documents pass, and all are meant.                   *)
LEMMA UnlimitedPasses ==
  ASSUME params = <<>>, NEW lims, \A i \in DOMAIN indexes : lims[i] = Unlimited
  PROVE  Passing(lims) = Meant
<1>1. ASSUME NEW i \in DOMAIN indexes, NEW f \in FilesIn(indexes[i])
      PROVE  ~LimitByProperty(indexes[i], lims[i], f)
  <2>1. \A p \in Properties : ~Excluded(Unlimited[p], indexes[i].value[p][f], f)
    BY UnlimitedIs DEF Excluded, NoLimit
  <2> QED
    BY <2>1, LimitsByOne
<1>2. Len(params) = 0
  OBVIOUS
<1> QED
  BY <1>1, <1>2, PassingMeant

LEMMA LimitsInitInv == LimInit => LimitsInv
<1> SUFFICES ASSUME LimInit PROVE LimitsInv
  OBVIOUS
<1>1. /\ indexes \in LimitLists /\ params = <<>> /\ prepared = FALSE
      /\ limits = [i \in DOMAIN indexes |-> Unlimited] /\ answer = Nothing
  BY DEF LimInit
<1>2. params \in Seq(Limits) /\ Len(params) = 0
  BY <1>1
<1>3. DistinctLimits
  BY <1>2 DEF DistinctLimits
<1>4. LimitsFollowed
  BY <1>1 DEF LimitsFollowed, LimitsMeant, Nothing
<1> QED
  BY <1>1, <1>2, <1>3, <1>4 DEF LimitsInv

LEMMA SetKeepsLimits ==
  ASSUME LimitsInv, NEW p \in Limits, SetSearchLimit(p)
  PROVE  LimitsInv'
<1>1. /\ indexes \in LimitLists /\ params \in Seq(Limits) /\ prepared \in BOOLEAN
      /\ DistinctLimits /\ DOMAIN limits = DOMAIN indexes
      /\ ~prepared => \A i \in DOMAIN indexes : limits[i] = Unlimited
      /\ prepared /\ Sensible /\ ~BelowAll => Passing(limits) = Meant
  BY DEF LimitsInv
<1>2. UNCHANGED <<indexes, prepared, limits>>
  BY DEF SetSearchLimit
<1>3. CASE prepared \/ \E i \in 1..Len(params) : params[i].prop = p.prop
  <2>1. answer' = Failed /\ params' = params
    BY <1>3 DEF SetSearchLimit
  <2>2. LimitsFollowed'
    BY <2>1 DEF LimitsFollowed, LimitsMeant, Failed
  <2>3. /\ Sensible' = Sensible /\ BelowAll' = BelowAll /\ Meant' = Meant
        /\ Passing(limits)' = Passing(limits) /\ DistinctLimits' = DistinctLimits
    BY <1>2, <2>1 DEF Sensible, BelowAll, Meant, Passing, DistinctLimits, Searched
  <2> QED
    BY <1>1, <1>2, <2>1, <2>2, <2>3 DEF LimitsInv
<1>4. CASE ~(prepared \/ \E i \in 1..Len(params) : params[i].prop = p.prop)
  <2>1. answer' = Nothing /\ params' = <<p>> \o params
    BY <1>4 DEF SetSearchLimit
  <2>2. LimitsFollowed'
    BY <2>1 DEF LimitsFollowed, LimitsMeant, Nothing
  <2>3. /\ params' \in Seq(Limits) /\ Len(params') = Len(params) + 1 /\ params'[1] = p
        /\ \A i \in 2..Len(params') : params'[i] = params[i - 1]
    BY <1>1, <2>1
  <2>4. \A i \in 2..Len(params') : i - 1 \in 1..Len(params)
    BY <1>1, <2>3
  <2>5. \A i \in 1..Len(params') : i = 1 \/ i \in 2..Len(params')
    BY <1>1, <2>3
  <2>6. ASSUME NEW i \in 1..Len(params'), NEW j \in 1..Len(params'), params'[i].prop = params'[j].prop
        PROVE  i = j
    <3>1. CASE i = 1 /\ j # 1
      BY <1>4, <2>3, <2>4, <2>5, <2>6, <3>1
    <3>2. CASE i # 1 /\ j = 1
      BY <1>4, <2>3, <2>4, <2>5, <2>6, <3>2
    <3>3. CASE i # 1 /\ j # 1
      <4>1. /\ i - 1 \in 1..Len(params) /\ j - 1 \in 1..Len(params)
            /\ params[i - 1].prop = params[j - 1].prop
        BY <2>3, <2>4, <2>5, <2>6, <3>3
      <4>2. i - 1 = j - 1
        BY <1>1, <4>1 DEF DistinctLimits
      <4> QED
        BY <1>1, <2>3, <4>2
    <3> QED
      BY <3>1, <3>2, <3>3
  <2>7. DistinctLimits'
    BY <2>6 DEF DistinctLimits
  <2> QED
    BY <1>1, <1>2, <1>4, <2>2, <2>3, <2>7 DEF LimitsInv
<1> QED
  BY <1>3, <1>4

LEMMA ResetKeepsLimits ==
  ASSUME LimitsInv, ResetSearchLimit
  PROVE  LimitsInv'
<1>1. /\ indexes \in LimitLists /\ prepared \in BOOLEAN /\ DOMAIN limits = DOMAIN indexes
      /\ ~prepared => \A i \in DOMAIN indexes : limits[i] = Unlimited
  BY DEF LimitsInv
<1>2. /\ params' = <<>> /\ answer' = Nothing /\ prepared' = FALSE /\ indexes' = indexes
      /\ limits' = IF prepared THEN Cleared ELSE limits
  BY DEF ResetSearchLimit
<1>3. DOMAIN limits' = DOMAIN indexes' /\ \A i \in DOMAIN indexes' : limits'[i] = Unlimited
  BY <1>1, <1>2 DEF Cleared
<1>4. params' \in Seq(Limits) /\ Len(params') = 0
  BY <1>2
<1>5. DistinctLimits'
  BY <1>4 DEF DistinctLimits
<1>6. LimitsFollowed'
  BY <1>2 DEF LimitsFollowed, LimitsMeant, Nothing
<1> QED
  BY <1>1, <1>2, <1>3, <1>4, <1>5, <1>6 DEF LimitsInv

(* An answer that passes the documents meant.                              *)
LEMMA AnswersMeant ==
  ASSUME LimitsInv, UNCHANGED <<indexes, params>>, NEW lims,
         Sensible /\ ~BelowAll => Passing(lims) = Meant,
         \/ answer' = Passed(Passing(lims))
         \/ answer' = Failed
         \/ answer' = Passed({}) /\ (Sensible /\ ~BelowAll => Meant = {})
  PROVE  LimitsFollowed'
<1>1. Sensible' = Sensible /\ BelowAll' = BelowAll /\ Meant' = Meant
  BY DEF Sensible, BelowAll, Meant, Searched
<1>2. \A found : Passed(found).found = found
  BY DEF Passed
<1>3. Failed.kind # "results"
  BY DEF Failed
<1>4. SUFFICES ASSUME Sensible, ~BelowAll, answer'.kind = "results" PROVE answer'.found = Meant
  BY <1>1 DEF LimitsFollowed, LimitsMeant
<1>5. CASE answer' = Passed(Passing(lims))
  BY <1>2, <1>4, <1>5
<1>6. CASE answer' = Failed
  BY <1>3, <1>4, <1>6
<1>7. CASE answer' = Passed({}) /\ (Sensible /\ ~BelowAll => Meant = {})
  BY <1>2, <1>4, <1>7
<1> QED
  BY <1>5, <1>6, <1>7

(* The preparation passes the documents meant.                             *)
LEMMA PreparedMeant ==
  ASSUME LimitsInv, NEW loaded, loaded = [i \in DOMAIN indexes |-> Loaded(indexes[i])],
         PreparePropLookup(loaded), Sensible, ~BelowAll
  PROVE  /\ Passing(limits') = Meant
         /\ (\A i \in DOMAIN indexes : loaded[i].state = "no docs") => Meant = {}
         /\ \A i \in DOMAIN indexes : loaded[i].state # "error"
<1>1. indexes \in LimitLists /\ params \in Seq(Limits) /\ DistinctLimits
  BY DEF LimitsInv
<1>2. ASSUME NEW i \in DOMAIN indexes
      PROVE  IndexOK(indexes[i]) /\ \A k \in 1..Len(params) : ~Below(indexes[i], params[k])
  BY <1>1, IndexesAre DEF BelowAll, Below
<1>3. ASSUME NEW i \in DOMAIN indexes, NEW f \in FilesIn(indexes[i])
      PROVE  /\ Loaded(indexes[i]).state # "error"
             /\ LimitByProperty(indexes[i], Loaded(indexes[i]).lims, f) <=>
                  \E k \in 1..Len(params) :
                    ~InRange(indexes[i].value[params[k].prop][f], params[k].lo, params[k].hi)
             /\ Loaded(indexes[i]).state = "no docs" =>
                  LimitByProperty(indexes[i], Loaded(indexes[i]).lims, f)
  BY <1>1, <1>2, LoadedExact
<1>4. ASSUME NEW i \in DOMAIN indexes PROVE loaded[i] = Loaded(indexes[i]) /\ loaded[i].state # "error"
  <2>1. LoadedTo(indexes[i], Loaded(indexes[i]), Len(params))
    BY <1>1, <1>2, LoadedToAll
  <2> QED
    BY <2>1 DEF LoadedTo
<1>5. {i \in DOMAIN indexes : loaded[i].state = "error"} = {}
  BY <1>4
<1>6. limits' = [i \in DOMAIN indexes |-> loaded[i].lims]
  BY <1>5 DEF PreparePropLookup
<1>7. \A i \in DOMAIN indexes : limits'[i] = Loaded(indexes[i]).lims
  BY <1>4, <1>6
<1>8. Passing(limits') = Meant
  <2>1. PICK lims : lims = limits'
    OBVIOUS
  <2>2. \A i \in DOMAIN indexes : \A f \in FilesIn(indexes[i]) :
          LimitByProperty(indexes[i], lims[i], f) <=>
            \E k \in 1..Len(params) :
              ~InRange(indexes[i].value[params[k].prop][f], params[k].lo, params[k].hi)
    BY <1>3, <1>7, <2>1
  <2>3. Passing(lims) = Meant
    BY <2>2, PassingMeant
  <2> QED
    BY <2>1, <2>3
<1>9. ASSUME \A i \in DOMAIN indexes : loaded[i].state = "no docs"
      PROVE  Meant = {}
  <2>1. SUFFICES ASSUME NEW d \in Meant PROVE FALSE
    OBVIOUS
  <2>2. d \in Searched
    BY DEF Meant
  <2>3. PICK i \in DOMAIN indexes : \E f \in FilesIn(indexes[i]) : d = <<i, f>>
    BY <2>2, SearchedAre
  <2>4. PICK f \in FilesIn(indexes[i]) : d = <<i, f>>
    BY <2>3
  <2>5. LimitByProperty(indexes[i], Loaded(indexes[i]).lims, f)
    BY <1>3, <1>4, <1>9
  <2>6. PICK k \in 1..Len(params) :
          ~InRange(indexes[i].value[params[k].prop][f], params[k].lo, params[k].hi)
    BY <1>3, <2>5
  <2>7. d[1] = i /\ d[2] = f
    BY <2>4
  <2> QED
    BY <2>6, <2>7 DEF Meant, InRange
<1> QED
  BY <1>4, <1>8, <1>9

LEMMA ExecuteKeepsLimits ==
  ASSUME LimitsInv, Execute
  PROVE  LimitsInv'
<1>1. /\ indexes \in LimitLists /\ params \in Seq(Limits) /\ prepared \in BOOLEAN
      /\ DistinctLimits /\ DOMAIN limits = DOMAIN indexes
      /\ ~prepared => \A i \in DOMAIN indexes : limits[i] = Unlimited
      /\ prepared /\ Sensible /\ ~BelowAll => Passing(limits) = Meant
  BY DEF LimitsInv
<1>2. indexes' = indexes /\ params' = params
  BY DEF Execute
<1>3. Sensible' = Sensible /\ BelowAll' = BelowAll /\ Meant' = Meant /\ DistinctLimits' = DistinctLimits
  BY <1>2 DEF Sensible, BelowAll, Meant, DistinctLimits, Searched
<1>4. Passing(limits)' = Passing(limits')
  BY <1>2 DEF Passing, Searched
<1>5. CASE params = <<>> \/ prepared
  <2>1. answer' = Passed(Passing(limits)) /\ UNCHANGED <<prepared, limits>>
    BY <1>5 DEF Execute
  <2>2. Sensible /\ ~BelowAll => Passing(limits) = Meant
    <3>1. CASE prepared
      BY <1>1, <3>1
    <3>2. CASE ~prepared
      BY <1>1, <1>5, <3>2, UnlimitedPasses
    <3> QED
      BY <3>1, <3>2
  <2>3. LimitsFollowed'
    BY <1>2, <2>1, <2>2, AnswersMeant
  <2> QED
    BY <1>1, <1>2, <1>3, <1>4, <2>1, <2>2, <2>3 DEF LimitsInv
<1>6. CASE ~(params = <<>> \/ prepared)
  <2>1. PICK loaded \in {[i \in DOMAIN indexes |-> Loaded(indexes[i])]} : PreparePropLookup(loaded)
    BY <1>6 DEF Execute
  <2>2. loaded = [i \in DOMAIN indexes |-> Loaded(indexes[i])]
    BY <2>1
  <2>3. prepared' = TRUE /\ DOMAIN limits' = DOMAIN indexes
    BY <2>1 DEF PreparePropLookup
  <2>4. Sensible /\ ~BelowAll => Passing(limits') = Meant
    BY <2>1, <2>2, PreparedMeant
  <2>5. \/ answer' = Passed(Passing(limits'))
        \/ answer' = Failed
        \/ answer' = Passed({}) /\ \A i \in DOMAIN indexes : loaded[i].state = "no docs"
    BY <2>1 DEF PreparePropLookup
  <2>6. (\A i \in DOMAIN indexes : loaded[i].state = "no docs") =>
          (Sensible /\ ~BelowAll => Meant = {})
    BY <2>1, <2>2, PreparedMeant
  <2>7. LimitsFollowed'
    <3>1. PICK lims : lims = limits'
      OBVIOUS
    <3> QED
      BY <1>2, <2>4, <2>5, <2>6, <3>1, AnswersMeant
  <2> QED
    BY <1>1, <1>2, <1>3, <1>4, <2>3, <2>4, <2>7 DEF LimitsInv
<1> QED
  BY <1>5, <1>6

LEMMA LimitsInvStep == LimitsInv /\ [LimNext]_limVars => LimitsInv'
<1> SUFFICES ASSUME LimitsInv, [LimNext]_limVars PROVE LimitsInv'
  OBVIOUS
<1>1. CASE Execute
  BY <1>1, ExecuteKeepsLimits
<1>2. CASE ResetSearchLimit
  BY <1>2, ResetKeepsLimits
<1>3. CASE \E p \in Limits : SetSearchLimit(p)
  BY <1>3, SetKeepsLimits
<1>4. CASE UNCHANGED limVars
  <2>1. Sensible' = Sensible /\ BelowAll' = BelowAll /\ DistinctLimits' = DistinctLimits
    BY <1>4 DEF limVars, Sensible, BelowAll, DistinctLimits
  <2>2. Meant' = Meant
    <3>1. Searched' = Searched
      BY <1>4 DEF limVars, Searched
    <3> QED
      BY <1>4, <3>1 DEF limVars, Meant
  <2>3. Passing(limits)' = Passing(limits)
    <3>1. Searched' = Searched
      BY <1>4 DEF limVars, Searched
    <3> QED
      BY <1>4, <3>1 DEF limVars, Passing
  <2>4. LimitsFollowed'
    BY <1>4, <2>1, <2>2 DEF limVars, LimitsInv, LimitsFollowed, LimitsMeant
  <2> QED
    BY <1>4, <2>1, <2>2, <2>3, <2>4 DEF limVars, LimitsInv
<1> QED
  BY <1>1, <1>2, <1>3, <1>4 DEF LimNext

(* Whatever limits are set, reset and searched with, in whatever order,    *)
(* and whatever the indexes hold, a search answers with the documents in   *)
(* range, but for the case BelowAll (proplimit.c).                         *)
THEOREM LimitsFollowedAlways == LimSpec => []LimitsFollowed
<1>1. LimitsInv => LimitsFollowed
  BY DEF LimitsInv
<1> QED
  BY <1>1, LimitsInitInv, LimitsInvStep, PTL DEF LimSpec

-----------------------------------------------------------------------------
(* Ranking: sums.                                                          *)

(* A function on the first numbers is a sequence.                          *)
LEMMA RankSequence ==
  ASSUME NEW N \in Nat, NEW S, NEW s \in [1..N -> S]
  PROVE  s \in Seq(S) /\ Len(s) = N /\ DOMAIN s = 1..N
  OBVIOUS

(* What is kept in an int is a number, and a number that fits stays.       *)
LEMMA WrappedInt ==
  ASSUME NEW x \in Int
  PROVE  /\ Wrapped(x) \in Int
         /\ (-(2 ^ (Width - 1)) <= x /\ x < 2 ^ (Width - 1)) => Wrapped(x) = x
<1>1. PICK half \in Nat \ {0} : half = 2 ^ (Width - 1)
  BY RankNumbers
<1> DEFINE m == 2 * half
<1>2. m \in Nat \ {0}
  OBVIOUS
<1>3. Wrapped(x) = ((x + half) % m) - half
  BY <1>1 DEF Wrapped
<1>4. (x + half) % m \in Int
  <2>1. x + half \in Int
    OBVIOUS
  <2> HIDE DEF m
  <2> QED
    BY <1>2, <2>1
<1>5. ASSUME NEW y \in 0..(m - 1) PROVE y % m = y
  <2> HIDE DEF m
  <2> QED
    BY <1>2
<1>6. ASSUME -half <= x, x < half PROVE (x + half) % m = x + half
  <2>1. x + half \in 0..(m - 1)
    BY <1>6
  <2> HIDE DEF m
  <2> QED
    BY <1>5, <2>1
<1> HIDE DEF m
<1> QED
  BY <1>1, <1>3, <1>4, <1>6

(* A sum, number by number: g[k] is the sum of the first k of s, keep what *)
(* is done to it after every addition.                                     *)
SumSteps(g, N, s, keep) ==
  /\ g \in [0..N -> Int]
  /\ g[0] = 0
  /\ \A k \in 1..N : g[k] = keep[g[k - 1] + s[k]]

LEMMA SumStepsExist ==
  ASSUME NEW N \in Nat, NEW s \in [1..N -> Int], NEW keep \in [Int -> Int]
  PROVE  \E g : SumSteps(g, N, s, keep)
<1> DEFINE next == [k \in 1..N |-> [x \in Int |-> keep[x + s[k]]]]
<1>1. next \in [1..N -> [Int -> Int]] /\ 0 \in Int
  OBVIOUS
<1>2. PICK g : FoldOf(g, N, Int, 0, next)
  <2> HIDE DEF next
  <2> QED
    BY <1>1, FoldExists
<1>3. g \in [0..N -> Int] /\ g[0] = 0
  BY <1>2 DEF FoldOf
<1>4. ASSUME NEW k \in 1..N PROVE g[k] = keep[g[k - 1] + s[k]]
  <2>1. g[k] = next[k][g[k - 1]]
    <3> HIDE DEF next
    <3> QED
      BY <1>2 DEF FoldOf
  <2>2. k - 1 \in 0..N
    OBVIOUS
  <2>3. g[k - 1] \in Int
    BY <1>3, <2>2
  <2> QED
    BY <2>1, <2>3
<1> QED
  BY <1>3, <1>4 DEF SumSteps

(* There is one such function.                                             *)
LEMMA SumStepsUnique ==
  ASSUME NEW N \in Nat, NEW s, NEW keep, NEW g, SumSteps(g, N, s, keep), NEW f, f[0] = 0,
         \A k \in 1..N : f[k - 1] = g[k - 1] => f[k] = keep[f[k - 1] + s[k]]
  PROVE  f[N] = g[N]
<1> DEFINE S == {j \in 0..N : f[j] = g[j]}
<1>1. 0 \in S
  BY DEF SumSteps
<1>2. ASSUME NEW k \in 0..(N - 1), k \in S PROVE k + 1 \in S
  <2>1. k + 1 \in 1..N /\ k + 1 \in 0..N /\ (k + 1) - 1 = k
    OBVIOUS
  <2>2. g[k + 1] = keep[g[(k + 1) - 1] + s[k + 1]]
    BY <2>1 DEF SumSteps
  <2>3. f[(k + 1) - 1] = g[(k + 1) - 1]
    BY <1>2, <2>1
  <2>4. f[k + 1] = keep[f[(k + 1) - 1] + s[k + 1]]
    BY <2>1, <2>3
  <2> QED
    BY <2>1, <2>2, <2>3, <2>4
<1> HIDE DEF S
<1>3. \A k \in 0..N : k \in S
  BY <1>1, <1>2, UpTo
<1>4. N \in 0..N
  OBVIOUS
<1> QED
  BY <1>3, <1>4 DEF S

AsItIs == [x \in Int |-> x]
InAnInt == [x \in Int |-> Wrapped(x)]

(* One step.                                                               *)
LEMMA SumStep ==
  ASSUME NEW N \in Nat, NEW s \in [1..N -> Int], NEW keep, NEW g, SumSteps(g, N, s, keep),
         NEW k \in 0..(N - 1)
  PROVE  /\ g[k] \in Int /\ g[k] + s[k + 1] \in Int
         /\ keep = AsItIs => g[k + 1] = g[k] + s[k + 1]
         /\ keep = InAnInt => g[k + 1] = Wrapped(g[k] + s[k + 1])
<1>1. k + 1 \in 1..N /\ (k + 1) - 1 = k /\ k \in 0..N
  OBVIOUS
<1>2. g[k] \in Int /\ s[k + 1] \in Int
  BY <1>1 DEF SumSteps
<1>3. g[k] + s[k + 1] \in Int
  BY <1>2
<1>4. g[k + 1] = keep[g[k] + s[k + 1]]
  BY <1>1 DEF SumSteps
<1>5. AsItIs[g[k] + s[k + 1]] = g[k] + s[k + 1]
  BY <1>3 DEF AsItIs
<1>6. InAnInt[g[k] + s[k + 1]] = Wrapped(g[k] + s[k + 1])
  BY <1>3 DEF InAnInt
<1> QED
  BY <1>2, <1>3, <1>4, <1>5, <1>6

LEMMA TotalSteps ==
  ASSUME NEW N \in Nat, NEW s \in [1..N -> Int]
  PROVE  \E g : SumSteps(g, N, s, AsItIs) /\ g[N] = TotalOf(s)
<1>1. PICK g : SumSteps(g, N, s, AsItIs)
  BY SumStepsExist DEF AsItIs
<1> DEFINE F(f) == [k \in 0..N |-> IF k = 0 THEN 0 ELSE f[k - 1] + s[k]]
           sum == CHOOSE f : f = F(f)
<1>2. g \in [0..N -> Int] /\ g[0] = 0
  BY <1>1 DEF SumSteps
<1>3. ASSUME NEW k \in 1..N PROVE k - 1 \in 0..N /\ k # 0 /\ g[k - 1] + s[k] \in Int
  BY <1>2
<1>4. \A k \in 1..N : g[k] = g[k - 1] + s[k]
  BY <1>1, <1>3 DEF SumSteps, AsItIs
<1>5. g = F(g)
  <2>1. \A k \in 0..N : k = 0 \/ k \in 1..N
    OBVIOUS
  <2>2. \A k \in 0..N : g[k] = F(g)[k]
    BY <1>2, <1>4, <2>1
  <2> QED
    BY <1>2, <2>2
<1>6. sum = F(sum)
  <2> HIDE DEF F
  <2> QED
    BY <1>5
<1>7. TotalOf(s) = sum[N]
  <2>1. Len(s) = N
    BY RankSequence
  <2> QED
    BY <2>1 DEF TotalOf
<1> HIDE DEF sum
<1>8. sum[0] = 0
  BY <1>6
<1>9. ASSUME NEW k \in 1..N, sum[k - 1] = g[k - 1]
      PROVE  sum[k] = AsItIs[sum[k - 1] + s[k]]
  <2>1. sum[k] = sum[k - 1] + s[k]
    BY <1>6
  <2> QED
    BY <1>3, <1>9, <2>1 DEF AsItIs
<1> HIDE DEF F
<1>10. sum[N] = g[N]
  BY <1>1, <1>8, <1>9, SumStepsUnique
<1> QED
  BY <1>1, <1>7, <1>10

LEMMA SumOfSteps ==
  ASSUME NEW N \in Nat, NEW s \in [1..N -> Int]
  PROVE  \E g : SumSteps(g, N, s, InAnInt) /\ g[N] = SumOf(s)
<1>1. PICK g : SumSteps(g, N, s, InAnInt)
  <2>1. InAnInt \in [Int -> Int]
    BY WrappedInt DEF InAnInt
  <2> QED
    BY <2>1, SumStepsExist
<1> DEFINE F(f) == [k \in 0..N |-> IF k = 0 THEN 0 ELSE Wrapped(f[k - 1] + s[k])]
           sum == CHOOSE f : f = F(f)
<1>2. g \in [0..N -> Int] /\ g[0] = 0
  BY <1>1 DEF SumSteps
<1>3. ASSUME NEW k \in 1..N PROVE k - 1 \in 0..N /\ k # 0 /\ g[k - 1] + s[k] \in Int
  BY <1>2
<1>4. \A k \in 1..N : g[k] = Wrapped(g[k - 1] + s[k])
  BY <1>1, <1>3 DEF SumSteps, InAnInt
<1>5. g = F(g)
  <2>1. \A k \in 0..N : k = 0 \/ k \in 1..N
    OBVIOUS
  <2>2. \A k \in 0..N : g[k] = F(g)[k]
    BY <1>2, <1>4, <2>1
  <2> QED
    BY <1>2, <2>2
<1>6. sum = F(sum)
  <2> HIDE DEF F
  <2> QED
    BY <1>5
<1>7. SumOf(s) = sum[N]
  <2>1. Len(s) = N
    BY RankSequence
  <2> QED
    BY <2>1 DEF SumOf
<1> HIDE DEF sum
<1>8. sum[0] = 0
  BY <1>6
<1>9. ASSUME NEW k \in 1..N, sum[k - 1] = g[k - 1]
      PROVE  sum[k] = InAnInt[sum[k - 1] + s[k]]
  <2>1. sum[k] = Wrapped(sum[k - 1] + s[k])
    BY <1>6
  <2> QED
    BY <1>3, <1>9, <2>1 DEF InAnInt
<1> HIDE DEF F
<1>10. sum[N] = g[N]
  BY <1>1, <1>8, <1>9, SumStepsUnique
<1> QED
  BY <1>1, <1>7, <1>10

(* Products.                                                               *)
LEMMA RankProducts ==
  ASSUME NEW M \in Nat, NEW j \in Int, NEW k \in Int
  PROVE  /\ j * M \in Int /\ (j + 1) * M = j * M + M
         /\ j <= k => j * M <= k * M
         /\ j * M = M * j
<1>1. j * M \in Int /\ (j + 1) * M = j * M + M /\ j * M = M * j
  OBVIOUS
<1>2. ASSUME j <= k PROVE j * M <= k * M
  <2>1. k * M = j * M + (k - j) * M
    OBVIOUS
  <2>2. PICK d \in Nat : d = k - j
    BY <1>2
  <2>3. d * M >= 0
    OBVIOUS
  <2>4. j * M \in Int /\ k * M \in Int
    OBVIOUS
  <2> QED
    BY <2>1, <2>2, <2>3, <2>4
<1> QED
  BY <1>1, <1>2

(* A sum of numbers that are small enough fits, and is the sum.            *)
LEMMA SumFits ==
  ASSUME NEW N \in Nat, NEW M \in Nat, NEW s \in [1..N -> (-M)..M],
         N * M < 2 ^ (Width - 1)
  PROVE  /\ SumOf(s) = TotalOf(s)
         /\ TotalOf(s) \in Int
         /\ -(N * M) <= TotalOf(s) /\ TotalOf(s) <= N * M
<1>1. s \in [1..N -> Int]
  OBVIOUS
<1>2. PICK g : SumSteps(g, N, s, InAnInt) /\ g[N] = SumOf(s)
  BY <1>1, SumOfSteps
<1>3. PICK t : SumSteps(t, N, s, AsItIs) /\ t[N] = TotalOf(s)
  BY <1>1, TotalSteps
<1> DEFINE S == {j \in 0..N : g[j] = t[j] /\ -(j * M) <= t[j] /\ t[j] <= j * M}
<1>4. 0 \in S
  BY <1>2, <1>3 DEF SumSteps
<1>5. ASSUME NEW k \in 0..(N - 1), k \in S PROVE k + 1 \in S
  <2>1. k + 1 \in 1..N /\ k + 1 \in 0..N /\ k \in 0..N /\ (k + 1) - 1 = k
    OBVIOUS
  <2>2. g[k] = t[k] /\ -(k * M) <= t[k] /\ t[k] <= k * M
    BY <1>5
  <2>3. t[k] \in Int /\ s[k + 1] \in Int /\ -M <= s[k + 1] /\ s[k + 1] <= M
    BY <1>3, <2>1 DEF SumSteps
  <2>4. g[k + 1] = Wrapped(g[k] + s[k + 1])
    <3>1. g[k + 1] = Wrapped(g[k] + s[k + 1])
      BY <1>1, <1>2, SumStep, ZenonT(60)
    <3> QED
      BY <3>1
  <2>5. t[k + 1] = t[k] + s[k + 1]
    BY <1>1, <1>3, SumStep, ZenonT(60)
  <2>6. k * M \in Int /\ (k + 1) * M = k * M + M
    BY RankProducts
  <2>7. (k + 1) * M <= N * M
    <3>1. k + 1 \in Int /\ N \in Int /\ k + 1 <= N
      OBVIOUS
    <3> QED
      BY <3>1, RankProducts
  <2>8. -((k + 1) * M) <= t[k + 1] /\ t[k + 1] <= (k + 1) * M
    BY <2>2, <2>3, <2>5, <2>6
  <2>9. N * M \in Int /\ (k + 1) * M \in Int /\ 2 ^ (Width - 1) \in Int
    BY RankNumbers, RankProducts
  <2>10. t[k + 1] \in Int /\ -(2 ^ (Width - 1)) <= t[k + 1] /\ t[k + 1] < 2 ^ (Width - 1)
    <3>1. PICK half \in Nat : half = 2 ^ (Width - 1)
      BY RankNumbers
    <3>2. PICK a \in Int : a = (k + 1) * M
      BY <2>9
    <3>3. PICK b \in Int : b = N * M
      BY <2>9
    <3>4. t[k + 1] \in Int
      BY <2>3, <2>5
    <3>5. -a <= t[k + 1] /\ t[k + 1] <= a /\ a <= b /\ b < half
      BY <2>7, <2>8, <3>1, <3>2, <3>3
    <3>6. -half <= t[k + 1] /\ t[k + 1] < half
      BY <3>4, <3>5
    <3> QED
      BY <3>1, <3>4, <3>6
  <2>11. g[k + 1] = t[k + 1]
    BY <2>2, <2>4, <2>5, <2>10, WrappedInt
  <2> QED
    BY <2>1, <2>8, <2>11
<1> HIDE DEF S
<1>6. \A k \in 0..N : k \in S
  BY <1>4, <1>5, UpTo
<1>7. g[N] = t[N] /\ -(N * M) <= t[N] /\ t[N] <= N * M
  BY <1>6 DEF S
<1>8. t[N] \in Int
  BY <1>3 DEF SumSteps
<1> QED
  BY <1>2, <1>3, <1>7, <1>8

(* A sum does not fall when its numbers rise, nor when others, not below   *)
(* 0, are added.                                                           *)
LEMMA TotalRises ==
  ASSUME NEW m \in Nat, NEW N \in Nat, m <= N,
         NEW s \in [1..m -> Int], NEW u \in [1..N -> Int],
         \A k \in 1..m : s[k] <= u[k], \A k \in (m + 1)..N : 0 <= u[k]
  PROVE  TotalOf(s) <= TotalOf(u)
<1>1. PICK g : SumSteps(g, m, s, AsItIs) /\ g[m] = TotalOf(s)
  BY TotalSteps
<1>2. PICK h : SumSteps(h, N, u, AsItIs) /\ h[N] = TotalOf(u)
  BY TotalSteps
<1>3. ASSUME NEW j \in 0..(m - 1) PROVE g[j + 1] = g[j] + s[j + 1]
  BY <1>1, SumStep, ZenonT(60)
<1> DEFINE At(j) == IF j < m THEN j ELSE m
           S == {j \in 0..N : g[At(j)] <= h[j]}
<1>4. 0 \in S
  BY <1>1, <1>2 DEF SumSteps
<1>5. ASSUME NEW k \in 0..(N - 1), k \in S PROVE k + 1 \in S
  <2>1. k + 1 \in 1..N /\ k + 1 \in 0..N /\ k \in 0..N /\ (k + 1) - 1 = k
    OBVIOUS
  <2>2. g[At(k)] <= h[k]
    BY <1>5
  <2>3. h[k] \in Int /\ u[k + 1] \in Int
    BY <1>2, <2>1 DEF SumSteps
  <2>4. h[k + 1] = h[k] + u[k + 1]
    BY <1>2, SumStep, ZenonT(60)
  <2>5. CASE k < m
    <3>1. At(k) = k /\ At(k + 1) = k + 1 /\ k + 1 \in 1..m /\ k \in 0..m /\ k \in 0..(m - 1)
      BY <2>5
    <3>2. g[k] \in Int /\ s[k + 1] \in Int
      BY <1>1, <3>1 DEF SumSteps
    <3>3. g[k + 1] = g[k] + s[k + 1]
      BY <1>3, <3>1
    <3>4. s[k + 1] <= u[k + 1]
      BY <3>1
    <3>5. g[At(k + 1)] <= h[k + 1]
      BY <2>2, <2>3, <2>4, <3>1, <3>2, <3>3, <3>4, SMTT(30)
    <3> QED
      BY <2>1, <3>5
  <2>6. CASE ~(k < m)
    <3>1. At(k) = m /\ At(k + 1) = m /\ k + 1 \in (m + 1)..N
      BY <2>6
    <3>2. g[m] \in Int /\ 0 <= u[k + 1]
      BY <1>1, <3>1 DEF SumSteps
    <3>3. g[At(k + 1)] <= h[k + 1]
      BY <2>2, <2>3, <2>4, <3>1, <3>2
    <3> QED
      BY <2>1, <3>3
  <2> QED
    BY <2>5, <2>6
<1>6. \A k \in 0..N : k \in S
  <2> HIDE DEF S
  <2> QED
    BY <1>4, <1>5, UpTo
<1>7. g[At(N)] <= h[N] /\ At(N) = m
  BY <1>6
<1> QED
  BY <1>1, <1>2, <1>7

(* The sum with one number more.                                           *)
LEMMA TotalNext ==
  ASSUME NEW N \in Nat, NEW s \in [1..N -> Int], NEW u \in [1..(N + 1) -> Int],
         \A k \in 1..N : u[k] = s[k]
  PROVE  TotalOf(s) \in Int /\ TotalOf(u) = TotalOf(s) + u[N + 1]
<1>1. PICK g : SumSteps(g, N, s, AsItIs) /\ g[N] = TotalOf(s)
  BY TotalSteps
<1>2. PICK h : SumSteps(h, N + 1, u, AsItIs) /\ h[N + 1] = TotalOf(u)
  BY TotalSteps
<1>3. h[0] = 0
  BY <1>2 DEF SumSteps
<1>4. ASSUME NEW k \in 1..N, h[k - 1] = g[k - 1]
      PROVE  h[k] = AsItIs[h[k - 1] + s[k]]
  <2>1. k \in 1..(N + 1)
    OBVIOUS
  <2>2. h[k] = AsItIs[h[k - 1] + u[k]]
    BY <1>2, <2>1 DEF SumSteps
  <2> QED
    BY <2>2
<1>5. h[N] = g[N]
  BY <1>1, <1>3, <1>4, SumStepsUnique
<1>6. N + 1 \in 1..(N + 1) /\ (N + 1) - 1 = N /\ N \in 0..N
  OBVIOUS
<1>7. g[N] \in Int /\ u[N + 1] \in Int
  BY <1>1, <1>6 DEF SumSteps
<1>8. h[N + 1] = h[N] + u[N + 1]
  <2>1. h[N + 1] = AsItIs[h[N] + u[N + 1]]
    BY <1>2, <1>6 DEF SumSteps
  <2> QED
    BY <1>5, <1>7, <2>1 DEF AsItIs
<1> QED
  BY <1>1, <1>2, <1>5, <1>7, <1>8

LEMMA TotalOfNone ==
  ASSUME NEW s, s \in [1..0 -> Int]
  PROVE  TotalOf(s) = 0
<1>1. PICK g : SumSteps(g, 0, s, AsItIs) /\ g[0] = TotalOf(s)
  BY TotalSteps
<1> QED
  BY <1>1 DEF SumSteps

-----------------------------------------------------------------------------
(* Ranking: the numbers of an index.                                       *)

(* The most that a place counts, with the bias of the metaname.            *)
MostOfPlace ==
  StructureMap(DOMAIN Factor) + (IF index.bias < 0 THEN -index.bias ELSE index.bias)

LEMMA PlacesCount ==
  ASSUME NEW P, NEW Q, P \subseteq Q
  PROVE  /\ StructureMap(P) \in Nat \ {0} /\ StructureMap(P) <= StructureMap(Q)
         /\ Q \subseteq DOMAIN Factor => StructureMap(Q) <= StructureMap(DOMAIN Factor)
<1>1. ASSUME NEW bit \in {"title", "header", "meta", "comments", "emphasized"}, NEW A, NEW B, A \subseteq B
      PROVE  FactorIn(bit, A) \in Nat /\ FactorIn(bit, A) <= FactorIn(bit, B)
  <2>1. Factor[bit] \in Nat
    BY DEF Factor
  <2> QED
    BY <1>1, <2>1 DEF FactorIn
<1>2. ASSUME NEW A, NEW B, A \subseteq B
      PROVE  StructureMap(A) \in Nat \ {0} /\ StructureMap(A) <= StructureMap(B)
  <2> DEFINE Bits == {"title", "header", "meta", "comments", "emphasized"}
  <2>1. \A bit \in Bits : FactorIn(bit, A) \in Nat /\ FactorIn(bit, A) <= FactorIn(bit, B)
                          /\ FactorIn(bit, B) \in Nat
    BY <1>1, <1>2
  <2> QED
    BY <2>1 DEF StructureMap
<1> QED
  BY <1>2

(* A file that has a word.                                                 *)
LEMMA FileOfWord ==
  ASSUME index \in RankTexts, NEW w \in RankWords, NEW f \in FilesOf(w)
  PROVE  /\ f \in 1..Len(index.total) /\ f \in DOMAIN index.total
         /\ index.total \in Seq(Numbers) /\ index.total[f] \in Numbers
         /\ Len(index.total) \in Numbers
         /\ index.bias \in Int
         /\ index.occurs[w][f] \in Seq(SUBSET DOMAIN Factor)
         /\ Len(index.occurs[w][f]) \in Nat
         /\ Cardinality(FilesOf(w)) \in Nat \ {0}
<1>1. /\ index.total \in Seq(Numbers) /\ Len(index.total) \in Numbers /\ index.bias \in Int
      /\ \A v \in RankWords, g \in DOMAIN index.total :
            index.occurs[v][g] \in Seq(SUBSET DOMAIN Factor)
  BY RankNumbers
<1>2. f \in DOMAIN index.total /\ FilesOf(w) \subseteq DOMAIN index.total
  BY DEF FilesOf
<1>3. DOMAIN index.total = 1..Len(index.total) /\ Len(index.total) \in Nat
  BY <1>1
<1>4. index.total[f] \in Numbers
  BY <1>1, <1>2
<1>5. index.occurs[w][f] \in Seq(SUBSET DOMAIN Factor)
  BY <1>1, <1>2
<1>6. Len(index.occurs[w][f]) \in Nat
  BY <1>5
<1>7. IsFiniteSet(FilesOf(w))
  <2>1. IsFiniteSet(1..Len(index.total))
    BY <1>3, FS_Interval
  <2> QED
    BY <1>2, <1>3, <2>1, FS_Subset
<1>8. Cardinality(FilesOf(w)) \in Nat /\ Cardinality(FilesOf(w)) # 0
  BY <1>7, FS_CardinalityType, FS_EmptySet
<1> QED
  BY <1>1, <1>2, <1>3, <1>4, <1>5, <1>6, <1>8

LEMMA MostType ==
  ASSUME index.bias \in Int
  PROVE  MostOfPlace \in Nat
<1>1. StructureMap(DOMAIN Factor) \in Nat \ {0}
  BY PlacesCount
<1> QED
  BY <1>1 DEF MostOfPlace

(* What places count.                                                      *)
LEMMA ScoresAre ==
  ASSUME index.bias \in Int, NEW p \in Seq(SUBSET DOMAIN Factor), NEW size \in 0..Len(p)
  PROVE  /\ size \in Nat
         /\ Scores(p, size) \in [1..size -> (-MostOfPlace)..MostOfPlace]
         /\ \A k \in 1..size : Scores(p, size)[k] = StructureMap(p[k]) + index.bias
<1>1. size \in Nat /\ 1..size \subseteq 1..Len(p)
  OBVIOUS
<1>2. ASSUME NEW k \in 1..size
      PROVE  StructureMap(p[k]) + index.bias \in (-MostOfPlace)..MostOfPlace
  <2>1. p[k] \subseteq DOMAIN Factor
    BY <1>1
  <2>2. StructureMap(p[k]) \in Nat \ {0} /\ StructureMap(p[k]) <= StructureMap(DOMAIN Factor)
        /\ StructureMap(DOMAIN Factor) \in Nat \ {0}
    BY <2>1, PlacesCount
  <2> QED
    BY <2>2 DEF MostOfPlace
<1> QED
  BY <1>1, <1>2 DEF Scores

(* Numbers of an int.                                                      *)
LEMMA NumbersAre ==
  ASSUME NEW x \in Int
  PROVE  /\ x \in Numbers <=> 0 <= x /\ x < 2 ^ (Width - 1)
         /\ 1 + x \in Numbers => x < 2 ^ (Width - 1)
<1>1. PICK half \in Nat \ {0} : half = 2 ^ (Width - 1)
  BY RankNumbers
<1>2. Numbers = 0..(half - 1)
  BY <1>1 DEF Numbers
<1> QED
  BY <1>1, <1>2

(* The sum of the first scheme, not below 1.                               *)
LEMMA DefaultSum ==
  ASSUME index.bias \in Int, NEW p \in Seq(SUBSET DOMAIN Factor), NEW size \in 0..Len(p),
         1 + size * MostOfPlace \in Numbers
  PROVE  /\ SumOf(Scores(p, size)) = TotalOf(Scores(p, size))
         /\ TotalOf(Scores(p, size)) \in Int
         /\ AtLeastOne(1 + SumOf(Scores(p, size))) \in Numbers \ {0}
<1>1. /\ size \in Nat /\ MostOfPlace \in Nat
      /\ Scores(p, size) \in [1..size -> (-MostOfPlace)..MostOfPlace]
  BY MostType, ScoresAre
<1>2. PICK b \in Nat : b = size * MostOfPlace
  BY <1>1
<1>3. size * MostOfPlace < 2 ^ (Width - 1) /\ 1 + b < 2 ^ (Width - 1)
  BY <1>2, NumbersAre
<1>4. /\ SumOf(Scores(p, size)) = TotalOf(Scores(p, size)) /\ TotalOf(Scores(p, size)) \in Int
      /\ TotalOf(Scores(p, size)) <= b
  BY <1>1, <1>2, <1>3, SumFits
<1>5. PICK t \in Int : t = TotalOf(Scores(p, size))
  BY <1>4
<1>6. AtLeastOne(1 + t) \in Numbers \ {0}
  <2>1. PICK half \in Nat \ {0} : half = 2 ^ (Width - 1)
    BY RankNumbers
  <2>2. 1 + b < half /\ t <= b
    BY <1>3, <1>4, <1>5, <2>1
  <2>3. AtLeastOne(1 + t) \in Int /\ 1 <= AtLeastOne(1 + t) /\ AtLeastOne(1 + t) < half
    BY <2>2 DEF AtLeastOne
  <2> QED
    BY <2>1, <2>3, NumbersAre
<1> QED
  BY <1>4, <1>5, <1>6

(* Quotients rise with what is divided.                                    *)
LEMMA RankQuotients ==
  ASSUME NEW d \in Nat \ {0}, NEW x \in Int, NEW y \in Int
  PROVE  /\ x \div d \in Int /\ x <= y => x \div d <= y \div d
         /\ x \in Nat => x \div d \in Nat
         /\ x - d * (x \div d) \in 0..(d - 1)
<1>1. PICK q \in Int : q = x \div d
  OBVIOUS
<1>2. PICK r \in Int : r = y \div d
  OBVIOUS
<1>3. x - d * q \in 0..(d - 1) /\ y - d * r \in 0..(d - 1)
  BY <1>1, <1>2
<1>4. ASSUME x <= y PROVE q <= r
  <2>1. SUFFICES ASSUME r + 1 <= q PROVE FALSE
    BY <1>1, <1>2
  <2>2. d * (r + 1) <= d * q
    BY <2>1, RankProducts
  <2>3. d * (r + 1) = d * r + d
    OBVIOUS
  <2>4. d * q \in Int /\ d * r \in Int
    OBVIOUS
  <2> QED
    BY <1>3, <1>4, <2>2, <2>3, <2>4
<1>5. ASSUME x \in Nat PROVE q \in Nat
  <2>1. SUFFICES ASSUME q + 1 <= 0 PROVE FALSE
    BY <1>1
  <2>2. d * (q + 1) <= d * 0
    BY <2>1, RankProducts
  <2>3. d * (q + 1) = d * q + d /\ d * q \in Int
    OBVIOUS
  <2> QED
    BY <1>3, <1>5, <2>2, <2>3
<1> QED
  BY <1>1, <1>2, <1>3, <1>4, <1>5

(* Ln of what getrank makes of a sum.                                      *)
LEMMA LnRises ==
  ASSUME LogarithmsRise, NEW s \in Int, NEW t \in Int, s <= t,
         AtLeastOne(1 + s) \in Numbers \ {0}, AtLeastOne(1 + t) \in Numbers \ {0}
  PROVE  /\ Ln(AtLeastOne(1 + s)) \in Nat /\ Ln(AtLeastOne(1 + t)) \in Nat
         /\ Ln(AtLeastOne(1 + s)) <= Ln(AtLeastOne(1 + t))
<1>1. AtLeastOne(1 + s) <= AtLeastOne(1 + t)
  BY DEF AtLeastOne
<1>2. PICK a \in Numbers \ {0} : a = AtLeastOne(1 + s)
  OBVIOUS
<1>3. PICK b \in Numbers \ {0} : b = AtLeastOne(1 + t)
  OBVIOUS
<1>4. a \in Int /\ b \in Int
  BY RankNumbers DEF Numbers
<1>5. Ln(a) \in Nat /\ Ln(a) <= Ln(b) /\ Ln(b) \in Nat
  BY <1>1, <1>2, <1>3, <1>4 DEF LogarithmsRise
<1> QED
  BY <1>2, <1>3, <1>5

Counted(p) == IF Len(p) > FreqCap THEN FreqCap ELSE Len(p)

LEMMA CountedFits ==
  ASSUME index.bias \in Int, NEW p \in Seq(SUBSET DOMAIN Factor),
         1 + FreqCap * MostOfPlace \in Numbers
  PROVE  Counted(p) \in 0..Len(p) /\ 1 + Counted(p) * MostOfPlace \in Numbers
<1>1. FreqCap \in Nat /\ Len(p) \in Nat /\ MostOfPlace \in Nat
  BY RankNumbers, MostType
<1>2. Counted(p) \in 0..Len(p) /\ Counted(p) <= FreqCap /\ Counted(p) \in Nat
  BY <1>1 DEF Counted
<1>3. Counted(p) * MostOfPlace <= FreqCap * MostOfPlace
  BY <1>1, <1>2, RankProducts
<1>4. PICK a \in Nat : a = Counted(p) * MostOfPlace
  BY <1>1, <1>2
<1>5. PICK b \in Nat : b = FreqCap * MostOfPlace
  BY <1>1
<1>6. 1 + b \in Numbers /\ a <= b
  BY <1>3, <1>4, <1>5
<1>7. 1 + a \in Numbers
  BY <1>6, RankNumbers DEF Numbers
<1> QED
  BY <1>2, <1>4, <1>7

LEMMA ReductionType ==
  ASSUME LogarithmsRise, NEW size \in Numbers
  PROVE  Reduction(size) \in Nat \ {0}
<1>1. Hundredth \in Nat \ {0} /\ size \in Int
  BY RankNumbers DEF Numbers
<1>2. size > 10 => Log10(size) \in Nat \ {0}
  BY DEF LogarithmsRise
<1> QED
  BY <1>1, <1>2 DEF Reduction

(* The first scheme: a rank is a number, and does not fall with the sum.   *)
LEMMA DefaultRises ==
  ASSUME index \in RankTexts, LogarithmsRise, NEW w \in RankWords,
         NEW f \in FilesOf(w), NEW g \in FilesOf(w),
         1 + FreqCap * MostOfPlace \in Numbers,
         index.total[f] = index.total[g],
         TotalOf(Scores(index.occurs[w][f], Counted(index.occurs[w][f])))
           <= TotalOf(Scores(index.occurs[w][g], Counted(index.occurs[w][g])))
  PROVE  RankDefault(w, f) \in Nat /\ RankDefault(w, f) <= RankDefault(w, g)
<1> DEFINE p == index.occurs[w][f]
           q == index.occurs[w][g]
           s == SumOf(Scores(p, Counted(p)))
           t == SumOf(Scores(q, Counted(q)))
<1>1. /\ p \in Seq(SUBSET DOMAIN Factor) /\ q \in Seq(SUBSET DOMAIN Factor)
      /\ index.bias \in Int /\ index.total[f] \in Numbers
  BY FileOfWord
<1>2. /\ s = TotalOf(Scores(p, Counted(p))) /\ s \in Int /\ AtLeastOne(1 + s) \in Numbers \ {0}
      /\ t = TotalOf(Scores(q, Counted(q))) /\ t \in Int /\ AtLeastOne(1 + t) \in Numbers \ {0}
  <2> HIDE DEF p, q
  <2>1. /\ Counted(p) \in 0..Len(p) /\ 1 + Counted(p) * MostOfPlace \in Numbers
        /\ Counted(q) \in 0..Len(q) /\ 1 + Counted(q) * MostOfPlace \in Numbers
    BY <1>1, CountedFits
  <2> QED
    BY <1>1, <2>1, DefaultSum
<1>3. s <= t
  BY <1>2
<1> DEFINE a == Ln(AtLeastOne(1 + s))
           b == Ln(AtLeastOne(1 + t))
<1>4. a \in Nat /\ b \in Nat /\ a <= b
  <2> HIDE DEF p, q, s, t
  <2> QED
    BY <1>2, <1>3, LnRises
<1>5. /\ RankDefault(w, f) = IF index.ignoreTotal THEN a \div Coarse
                             ELSE (a * Coarse) \div Reduction(index.total[f])
      /\ RankDefault(w, g) = IF index.ignoreTotal THEN b \div Coarse
                             ELSE (b * Coarse) \div Reduction(index.total[f])
  BY DEF RankDefault, Counted
<1> HIDE DEF p, q, s, t, a, b
<1>6. Coarse \in Nat \ {0} /\ Reduction(index.total[f]) \in Nat \ {0}
  BY <1>1, RankNumbers, ReductionType
<1>7. a \div Coarse \in Nat /\ a \div Coarse <= b \div Coarse
  BY <1>4, <1>6, RankQuotients
<1>8. /\ (a * Coarse) \div Reduction(index.total[f]) \in Nat
      /\ (a * Coarse) \div Reduction(index.total[f]) <= (b * Coarse) \div Reduction(index.total[f])
  <2>1. a * Coarse \in Nat /\ b * Coarse \in Nat /\ a * Coarse <= b * Coarse
    BY <1>4, <1>6, RankProducts
  <2> QED
    BY <1>6, <2>1, RankQuotients
<1> QED
  BY <1>5, <1>7, <1>8

LEMMA AtLeastOneType ==
  ASSUME NEW x \in Int
  PROVE  AtLeastOne(x) \in Nat \ {0}
  BY DEF AtLeastOne

LEMMA RarityType ==
  ASSUME index \in RankTexts, LogarithmsRise, NEW w \in RankWords, NEW f \in FilesOf(w)
  PROVE  Rarity(w) \in Nat \ {0}
<1>1. PICK d \in Nat \ {0} : d = Cardinality(FilesOf(w))
  BY FileOfWord
<1>2. PICK size \in Numbers : size = TotalFiles
  BY FileOfWord DEF TotalFiles
<1>3. size \in Nat
  BY RankNumbers DEF Numbers
<1>4. PICK q \in Nat : q = size \div d
  BY <1>3, RankQuotients
<1>5. q <= size
  <2>1. size - d * q \in 0..(d - 1)
    BY <1>3, <1>4, RankQuotients
  <2>2. 1 * q <= d * q /\ 1 * q = q /\ d * q \in Int
    BY RankProducts
  <2> QED
    BY <1>3, <2>1, <2>2
<1>6. q \in Numbers
  BY <1>3, <1>5, RankNumbers DEF Numbers
<1>7. LnFine(q) \in Int
  BY <1>6 DEF LogarithmsRise
<1> QED
  BY <1>1, <1>2, <1>4, <1>7, AtLeastOneType DEF Rarity

LEMMA DensityType ==
  ASSUME index \in RankTexts, NEW w \in RankWords, NEW f \in FilesOf(w)
  PROVE  Density(w, f) \in Nat \ {0}
<1>1. /\ index.total \in Seq(Numbers) /\ index.total[f] \in Numbers
      /\ Len(index.occurs[w][f]) \in Nat /\ f \in 1..Len(index.total)
  BY FileOfWord
<1>2. Numbers \subseteq Int
  BY RankNumbers DEF Numbers
<1>3. TotalWords \in Int
  <2>1. PICK N \in Nat : N = Len(index.total)
    BY <1>1
  <2>2. index.total \in [1..N -> Int]
    <3>1. index.total \in [1..N -> Numbers]
      BY <1>1, <2>1
    <3> HIDE DEF Numbers
    <3> QED
      BY <1>2, <3>1
  <2>3. PICK g : SumSteps(g, N, index.total, AsItIs) /\ g[N] = TotalOf(index.total)
    BY <2>2, TotalSteps
  <2> QED
    BY <2>3 DEF SumSteps, TotalWords
<1>4. TotalFiles \in Nat \ {0}
  BY <1>1 DEF TotalFiles
<1>5. PICK a \in Int : a = TotalWords \div TotalFiles
  BY <1>3, <1>4, RankQuotients
<1>6. PICK b \in Nat \ {0} : b = AtLeastOne(index.total[f])
  BY <1>1, <1>2, AtLeastOneType
<1>7. a * Fine \in Int
  BY RankNumbers
<1>8. PICK c \in Int : c = (a * Fine) \div b
  BY <1>7, RankQuotients
<1>9. c * Len(index.occurs[w][f]) \in Int
  BY <1>1
<1> QED
  BY <1>5, <1>6, <1>8, <1>9, AtLeastOneType DEF Density

LEMMA WeightType ==
  ASSUME index \in RankTexts, LogarithmsRise, NEW w \in RankWords, NEW f \in FilesOf(w),
         Density(w, f) * Rarity(w) \in Numbers
  PROVE  WordWeight(w, f) \in Nat
<1>1. PICK x \in Numbers : x = Density(w, f) * Rarity(w)
  OBVIOUS
<1>2. x \in Nat /\ -(2 ^ (Width - 1)) <= x /\ x < 2 ^ (Width - 1)
  <2>1. PICK half \in Nat \ {0} : half = 2 ^ (Width - 1)
    BY RankNumbers
  <2>2. x \in 0..(half - 1)
    BY <2>1 DEF Numbers
  <2>3. x \in Nat /\ -half <= x /\ x < half
    BY <2>2
  <2> QED
    BY <2>1, <2>3
<1>3. Wrapped(x) = x
  BY <1>2, WrappedInt
<1>4. x \div Coarse \in Nat
  BY <1>2, RankNumbers, RankQuotients, SMTT(30)
<1> QED
  BY <1>1, <1>3, <1>4 DEF WordWeight

(* What is added by the second scheme, and its sum.                        *)
LEMMA WeightedAre ==
  ASSUME index \in RankTexts, LogarithmsRise, NEW w \in RankWords, NEW f \in FilesOf(w),
         Density(w, f) * Rarity(w) \in Numbers,
         1 + Len(index.occurs[w][f]) * (WordWeight(w, f) * MostOfPlace) \in Numbers
  PROVE  /\ Weighted(w, f) \in [1..Len(index.occurs[w][f]) -> Int]
         /\ \A k \in 1..Len(index.occurs[w][f]) :
              /\ StructureMap(index.occurs[w][f][k]) + index.bias \in Int
              /\ Weighted(w, f)[k]
                   = WordWeight(w, f) * (StructureMap(index.occurs[w][f][k]) + index.bias)
         /\ TotalOf(Weighted(w, f)) \in Int
         /\ Wrapped(1 + SumOf(Weighted(w, f))) = 1 + TotalOf(Weighted(w, f))
         /\ AtLeastOne(1 + TotalOf(Weighted(w, f))) \in Numbers \ {0}
<1> DEFINE p == index.occurs[w][f]
           ww == WordWeight(w, f)
<1>1. p \in Seq(SUBSET DOMAIN Factor) /\ index.bias \in Int
  BY FileOfWord
<1>2. PICK N \in Nat : N = Len(p)
  BY <1>1
<1>3. ww \in Nat /\ MostOfPlace \in Nat
  BY <1>1, WeightType, MostType
<1>4. PICK M \in Nat : M = ww * MostOfPlace
  BY <1>3
<1>5. PICK sc : sc = Scores(p, N)
  OBVIOUS
<1>6. /\ sc \in [1..N -> (-MostOfPlace)..MostOfPlace]
      /\ \A k \in 1..N : sc[k] = StructureMap(p[k]) + index.bias
  <2> HIDE DEF p
  <2>1. N \in 0..Len(p)
    BY <1>2
  <2> QED
    BY <1>1, <1>5, <2>1, ScoresAre
<1>7. Weighted(w, f) = [k \in 1..N |-> ww * sc[k]]
  BY <1>2, <1>5, <1>6 DEF Weighted
<1>8. 1 + N * M \in Numbers
  BY <1>2, <1>4
<1> HIDE DEF p, ww
<1>9. ASSUME NEW k \in 1..N PROVE ww * sc[k] \in (-M)..M /\ sc[k] \in Int
  <2>1. PICK x \in Int : x = sc[k]
    BY <1>3, <1>6
  <2>2. -MostOfPlace <= x /\ x <= MostOfPlace
    BY <1>3, <1>6, <2>1
  <2>3. x * ww <= MostOfPlace * ww /\ (-MostOfPlace) * ww <= x * ww
    BY <1>3, <2>2, RankProducts
  <2>4. MostOfPlace * ww = M /\ (-MostOfPlace) * ww = -M /\ x * ww = ww * x
    BY <1>3, <1>4
  <2>5. ww * x \in Int
    BY <1>3
  <2> QED
    BY <2>1, <2>3, <2>4, <2>5
<1>10. Weighted(w, f) \in [1..N -> (-M)..M]
  BY <1>7, <1>9
<1>11. PICK b \in Nat : b = N * M
  OBVIOUS
<1>12. b < 2 ^ (Width - 1) /\ 1 + b < 2 ^ (Width - 1)
  BY <1>8, <1>11, NumbersAre
<1>13. /\ SumOf(Weighted(w, f)) = TotalOf(Weighted(w, f)) /\ TotalOf(Weighted(w, f)) \in Int
       /\ -b <= TotalOf(Weighted(w, f)) /\ TotalOf(Weighted(w, f)) <= b
  BY <1>10, <1>11, <1>12, SumFits
<1>14. PICK t \in Int : t = TotalOf(Weighted(w, f))
  BY <1>13
<1>15. Wrapped(1 + t) = 1 + t /\ AtLeastOne(1 + t) \in Numbers \ {0}
  <2>1. PICK half \in Nat \ {0} : half = 2 ^ (Width - 1)
    BY RankNumbers
  <2>2. 1 + b < half /\ -b <= t /\ t <= b
    BY <1>12, <1>13, <1>14, <2>1
  <2>3. 1 + t \in Int /\ -half <= 1 + t /\ 1 + t < half
    BY <2>2
  <2>4. AtLeastOne(1 + t) \in Int /\ 1 <= AtLeastOne(1 + t) /\ AtLeastOne(1 + t) < half
    BY <2>2 DEF AtLeastOne
  <2> QED
    BY <2>1, <2>3, <2>4, WrappedInt, NumbersAre
<1>16. /\ Weighted(w, f) \in [1..N -> Int]
       /\ \A k \in 1..N : Weighted(w, f)[k] = ww * (StructureMap(p[k]) + index.bias)
                          /\ StructureMap(p[k]) + index.bias \in Int
  <2>1. Weighted(w, f) \in [1..N -> Int]
    BY <1>10
  <2>2. ASSUME NEW k \in 1..N
        PROVE  Weighted(w, f)[k] = ww * (StructureMap(p[k]) + index.bias)
               /\ StructureMap(p[k]) + index.bias \in Int
    BY <1>6, <1>7, <1>9
  <2> QED
    BY <2>1, <2>2
<1> USE DEF p, ww
<1> QED
  BY <1>2, <1>13, <1>14, <1>15, <1>16

(* The second scheme: of two files as long, a word found as often, in      *)
(* places that are better.                                                 *)
LEMMA IDFRises ==
  ASSUME index \in RankTexts, LogarithmsRise, NEW w \in RankWords,
         NEW f \in FilesOf(w), NEW g \in FilesOf(w),
         Density(w, f) * Rarity(w) \in Numbers,
         1 + Len(index.occurs[w][f]) * (WordWeight(w, f) * MostOfPlace) \in Numbers,
         index.total[f] = index.total[g],
         Len(index.occurs[w][f]) = Len(index.occurs[w][g]),
         \A k \in DOMAIN index.occurs[w][f] : index.occurs[w][f][k] \subseteq index.occurs[w][g][k]
  PROVE  RankIDF(w, f) \in Nat /\ RankIDF(w, f) <= RankIDF(w, g)
<1> DEFINE p == index.occurs[w][f]
           q == index.occurs[w][g]
<1>1. Density(w, g) = Density(w, f)
  BY DEF Density
<1>2. WordWeight(w, g) = WordWeight(w, f)
  BY <1>1 DEF WordWeight
<1>3. WordWeight(w, f) \in Nat
  BY WeightType
<1>4. PICK N \in Nat : N = Len(p) /\ N = Len(q) /\ DOMAIN p = 1..N
  BY FileOfWord
<1>5. PICK s : s = Weighted(w, f)
  OBVIOUS
<1>6. PICK t : t = Weighted(w, g)
  OBVIOUS
<1>7. /\ s \in [1..N -> Int] /\ TotalOf(s) \in Int
      /\ \A k \in 1..N : s[k] = WordWeight(w, f) * (StructureMap(p[k]) + index.bias)
                         /\ StructureMap(p[k]) + index.bias \in Int
      /\ Wrapped(1 + SumOf(s)) = 1 + TotalOf(s) /\ AtLeastOne(1 + TotalOf(s)) \in Numbers \ {0}
  BY <1>4, <1>5, WeightedAre
<1>8. /\ t \in [1..N -> Int] /\ TotalOf(t) \in Int
      /\ \A k \in 1..N : t[k] = WordWeight(w, f) * (StructureMap(q[k]) + index.bias)
                         /\ StructureMap(q[k]) + index.bias \in Int
      /\ Wrapped(1 + SumOf(t)) = 1 + TotalOf(t) /\ AtLeastOne(1 + TotalOf(t)) \in Numbers \ {0}
  BY <1>1, <1>2, <1>4, <1>6, WeightedAre
<1>9. ASSUME NEW k \in 1..N PROVE s[k] <= t[k]
  <2>1. PICK a \in Int : a = StructureMap(p[k]) + index.bias
    BY <1>7
  <2>2. PICK b \in Int : b = StructureMap(q[k]) + index.bias
    BY <1>8
  <2>3. a <= b
    <3>1. StructureMap(p[k]) \in Nat /\ StructureMap(q[k]) \in Nat
          /\ StructureMap(p[k]) <= StructureMap(q[k])
      BY <1>4, PlacesCount
    <3>2. index.bias \in Int
      BY FileOfWord
    <3> QED
      BY <2>1, <2>2, <3>1, <3>2
  <2>4. PICK ww \in Nat : ww = WordWeight(w, f)
    BY <1>3
  <2>5. a * ww <= b * ww
    BY <2>3, RankProducts
  <2>6. s[k] = ww * a /\ t[k] = ww * b
    BY <1>7, <1>8, <2>1, <2>2, <2>4
  <2>7. ww * a = a * ww /\ ww * b = b * ww
    OBVIOUS
  <2> QED
    BY <2>5, <2>6, <2>7
<1>10. TotalOf(s) <= TotalOf(t)
  <2>1. (\A k \in (N + 1)..N : 0 <= t[k]) /\ N <= N
    OBVIOUS
  <2> QED
    BY <1>7, <1>8, <1>9, <2>1, TotalRises
<1>11. /\ RankIDF(w, f) = Ln(AtLeastOne(1 + TotalOf(s)))
       /\ RankIDF(w, g) = Ln(AtLeastOne(1 + TotalOf(t)))
  BY <1>5, <1>6, <1>7, <1>8 DEF RankIDF
<1> QED
  BY <1>7, <1>8, <1>10, <1>11, LnRises

(* The sums of the first scheme.                                           *)
LEMMA CountsRise ==
  ASSUME index.bias \in Int,
         NEW p \in Seq(SUBSET DOMAIN Factor), NEW q \in Seq(SUBSET DOMAIN Factor),
         Len(p) = Len(q) \/ (index.bias >= 0 /\ Len(p) <= Len(q)),
         \A k \in DOMAIN p : p[k] \subseteq q[k]
  PROVE  TotalOf(Scores(p, Counted(p))) <= TotalOf(Scores(q, Counted(q)))
<1>1. PICK lp \in Nat : lp = Len(p) /\ DOMAIN p = 1..lp
  OBVIOUS
<1>2. PICK lq \in Nat : lq = Len(q)
  OBVIOUS
<1>3. PICK m \in Nat : m = Counted(p) /\ m = (IF lp > FreqCap THEN FreqCap ELSE lp)
  BY <1>1, RankNumbers DEF Counted
<1>4. PICK N \in Nat : N = Counted(q) /\ N = (IF lq > FreqCap THEN FreqCap ELSE lq)
  BY <1>2, RankNumbers DEF Counted
<1>5. lp <= lq /\ (lp = lq \/ index.bias >= 0)
  BY <1>1, <1>2
<1>6. m <= N /\ (m = N \/ index.bias >= 0) /\ m <= lp /\ m \in 0..Len(p) /\ N \in 0..Len(q)
  <2>1. FreqCap \in Nat
    BY RankNumbers
  <2>2. m <= N /\ (m = N \/ index.bias >= 0) /\ m <= lp /\ N <= lq
    BY <1>3, <1>4, <1>5, <2>1
  <2> QED
    BY <1>1, <1>2, <2>2
<1>7. PICK s : s = Scores(p, m)
  OBVIOUS
<1>8. PICK t : t = Scores(q, N)
  OBVIOUS
<1>9. MostOfPlace \in Nat
  BY MostType
<1>10. s \in [1..m -> Int] /\ \A k \in 1..m : s[k] = StructureMap(p[k]) + index.bias
  <2>1. s \in [1..m -> (-MostOfPlace)..MostOfPlace]
    BY <1>6, <1>7, ScoresAre
  <2>2. \A k \in 1..m : s[k] = StructureMap(p[k]) + index.bias
    BY <1>6, <1>7, ScoresAre
  <2> QED
    BY <1>9, <2>1, <2>2
<1>11. t \in [1..N -> Int] /\ \A k \in 1..N : t[k] = StructureMap(q[k]) + index.bias
  <2>1. t \in [1..N -> (-MostOfPlace)..MostOfPlace]
    BY <1>6, <1>8, ScoresAre
  <2>2. \A k \in 1..N : t[k] = StructureMap(q[k]) + index.bias
    BY <1>6, <1>8, ScoresAre
  <2> QED
    BY <1>9, <2>1, <2>2, SMTT(30)
<1>12. ASSUME NEW k \in 1..m PROVE s[k] <= t[k]
  <2>1. k \in DOMAIN p /\ k \in 1..N
    BY <1>1, <1>6
  <2>2. StructureMap(p[k]) \in Nat /\ StructureMap(q[k]) \in Nat
        /\ StructureMap(p[k]) <= StructureMap(q[k])
    BY <2>1, PlacesCount
  <2> QED
    BY <1>10, <1>11, <2>1, <2>2
<1>13. ASSUME NEW k \in (m + 1)..N PROVE 0 <= t[k]
  <2>1. k \in 1..N /\ index.bias >= 0
    BY <1>6
  <2>2. StructureMap(q[k]) \in Nat
    BY PlacesCount
  <2> QED
    BY <1>11, <2>1, <2>2
<1>14. TotalOf(s) <= TotalOf(t)
  BY <1>6, <1>10, <1>11, <1>12, <1>13, TotalRises
<1> QED
  BY <1>3, <1>7, <1>8, <1>14, <1>4

-----------------------------------------------------------------------------
(* Ranking: a word that is in better places, or in more.                   *)

LEMMA FitsIs ==
  ASSUME NumbersFit, NEW w \in RankWords, NEW f \in FilesOf(w)
  PROVE  /\ scheme # 1 => 1 + FreqCap * MostOfPlace \in Numbers
         /\ scheme = 1 => /\ (TotalWords \div TotalFiles) * Fine \in Numbers
                          /\ Density(w, f) * Rarity(w) \in Numbers
                          /\ 1 + Len(index.occurs[w][f]) * (WordWeight(w, f) * MostOfPlace) \in Numbers
         /\ MaxTerms * GetRank(w, f) <= Fine * Hundredth
  BY DEF NumbersFit, MostOfPlace

LEMMA BetterRanks ==
  ASSUME index \in RankTexts, LogarithmsRise, NumbersFit, NEW w \in RankWords,
         NEW f \in FilesOf(w), NEW g \in FilesOf(w),
         index.total[f] = index.total[g],
         \/ Len(index.occurs[w][f]) = Len(index.occurs[w][g])
         \/ /\ scheme = 0 /\ index.bias >= 0
            /\ Len(index.occurs[w][f]) <= Len(index.occurs[w][g]),
         \A k \in DOMAIN index.occurs[w][f] : index.occurs[w][f][k] \subseteq index.occurs[w][g][k]
  PROVE  GetRank(w, f) \in Nat /\ GetRank(w, f) <= GetRank(w, g)
<1>1. CASE scheme = 1
  <2>1. Len(index.occurs[w][f]) = Len(index.occurs[w][g])
    BY <1>1
  <2>2. RankIDF(w, f) \in Nat /\ RankIDF(w, f) <= RankIDF(w, g)
    BY <1>1, <2>1, FitsIs, IDFRises
  <2> QED
    BY <1>1, <2>2 DEF GetRank
<1>2. CASE scheme # 1
  <2>1. PICK p \in Seq(SUBSET DOMAIN Factor) : p = index.occurs[w][f]
    BY FileOfWord
  <2>2. PICK q \in Seq(SUBSET DOMAIN Factor) : q = index.occurs[w][g]
    BY FileOfWord
  <2>3. index.bias \in Int
    BY FileOfWord
  <2>4. Len(p) = Len(q) \/ (index.bias >= 0 /\ Len(p) <= Len(q))
    BY <2>1, <2>2
  <2>5. TotalOf(Scores(p, Counted(p))) <= TotalOf(Scores(q, Counted(q)))
    BY <2>1, <2>2, <2>3, <2>4, CountsRise
  <2>6. 1 + FreqCap * MostOfPlace \in Numbers
    BY <1>2, FitsIs
  <2>7. RankDefault(w, f) \in Nat /\ RankDefault(w, f) <= RankDefault(w, g)
    BY <2>1, <2>2, <2>5, <2>6, DefaultRises
  <2> QED
    BY <1>2, <2>7 DEF GetRank
<1> QED
  BY <1>1, <1>2

(* A rank is a number.                                                     *)
LEMMA GetRankType ==
  ASSUME index \in RankTexts, LogarithmsRise, NumbersFit, NEW w \in RankWords,
         NEW f \in FilesOf(w)
  PROVE  GetRank(w, f) \in Nat /\ MaxTerms * GetRank(w, f) <= Fine * Hundredth
  BY BetterRanks, FitsIs

LEMMA BetterPlacesHold ==
  ASSUME index \in RankTexts, LogarithmsRise, NumbersFit
  PROVE  BetterPlaces
  BY BetterRanks DEF BetterPlaces

-----------------------------------------------------------------------------
(* Ranking: averages, and what is shown.                                   *)

(* A factor above 0 is taken away.                                         *)
LEMMA RankFactor ==
  ASSUME NEW M \in Nat \ {0}, NEW x \in Int, NEW y \in Int, x * M <= y * M
  PROVE  x <= y
<1>1. SUFFICES ASSUME y + 1 <= x PROVE FALSE
  OBVIOUS
<1>2. (y + 1) * M <= x * M /\ (y + 1) * M = y * M + M
  BY <1>1, RankProducts
<1>3. x * M \in Int /\ y * M \in Int
  OBVIOUS
<1> QED
  BY <1>2, <1>3

(* An average is a number, not above the larger one.                       *)
LEMMA AverageBound ==
  ASSUME NEW level \in Nat, NEW r \in Nat, NEW x \in Nat, NEW M \in Nat, NEW C \in Int,
         M * r <= C, M * x <= C
  PROVE  /\ (r * level + x) \div (level + 1) \in Nat
         /\ M * ((r * level + x) \div (level + 1)) <= C
<1>1. PICK big \in Nat : r <= big /\ x <= big /\ M * big <= C
  <2>1. CASE r <= x
    BY <2>1
  <2>2. CASE ~(r <= x)
    BY <2>2
  <2> QED
    BY <2>1, <2>2
<1>2. PICK sum \in Nat : sum = r * level + x
  OBVIOUS
<1>3. level + 1 \in Nat \ {0}
  OBVIOUS
<1>4. PICK q \in Nat : q = sum \div (level + 1)
  BY <1>3, RankQuotients
<1>5. sum - (level + 1) * q \in 0..level
  <2>1. sum - (level + 1) * q \in 0..((level + 1) - 1)
    BY <1>3, <1>4, RankQuotients
  <2> QED
    BY <2>1
<1>6. q * (level + 1) <= big * (level + 1)
  <2>1. r * level <= big * level
    BY <1>1, RankProducts
  <2>2. big * (level + 1) = big * level + big /\ q * (level + 1) = (level + 1) * q
    OBVIOUS
  <2>3. r * level \in Int /\ big * level \in Int /\ (level + 1) * q \in Int
    OBVIOUS
  <2> QED
    BY <1>1, <1>2, <1>5, <2>1, <2>2, <2>3
<1>7. q <= big
  BY <1>3, <1>6, RankFactor
<1>8. q * M <= big * M /\ q * M = M * q /\ big * M = M * big /\ M * q \in Int /\ M * big \in Int
  BY <1>7, RankProducts
<1> QED
  BY <1>1, <1>2, <1>4, <1>8

(* What the divisions of an average have dropped, with one word more.      *)
LEMMA AverageStep ==
  ASSUME NEW size \in Nat \ {0}, NEW r \in Nat, NEW x \in Nat, NEW S \in Int,
         S - size * r \in 0..((size * (size - 1)) \div 2)
  PROVE  (S + x) - (size + 1) * ((r * size + x) \div (size + 1)) \in 0..(((size + 1) * size) \div 2)
<1>1. PICK a \in Int : a = size * (size - 1)
  OBVIOUS
<1>2. (size + 1) * size = a + 2 * size
  BY <1>1
<1>3. (a + 2 * size) \div 2 = (a \div 2) + size
  OBVIOUS
<1>4. PICK sum \in Nat : sum = r * size + x
  OBVIOUS
<1>5. size + 1 \in Nat \ {0}
  OBVIOUS
<1>6. PICK q \in Int : q = sum \div (size + 1)
  BY <1>5, RankQuotients
<1>7. sum - (size + 1) * q \in 0..size
  <2>1. sum - (size + 1) * q \in 0..((size + 1) - 1)
    BY <1>5, <1>6, RankQuotients
  <2> QED
    BY <2>1
<1>8. PICK b \in Int : b = size * r /\ b = r * size
  OBVIOUS
<1>9. PICK c \in Int : c = (size + 1) * q
  OBVIOUS
<1>10. PICK h \in Int : h = a \div 2
  OBVIOUS
<1>11. S - b \in 0..h /\ (b + x) - c \in 0..size
  BY <1>1, <1>4, <1>7, <1>8, <1>9, <1>10
<1>12. (S + x) - c \in 0..(h + size)
  BY <1>11
<1> QED
  BY <1>2, <1>3, <1>4, <1>6, <1>9, <1>10, <1>12

(* The scale is not 0, and what it shows is in range and in order.         *)
LEMMA ScaleType ==
  ASSUME NEW big \in Nat, big <= Fine * Hundredth
  PROVE  Scale(big) \in Nat \ {0}
<1>1. PICK B \in Nat \ {0} : B = Fine * Hundredth
  <2>1. PICK a \in Nat \ {0} : a = Fine
    BY RankNumbers
  <2>2. PICK b \in Nat \ {0} : b = Hundredth
    BY RankNumbers
  <2>3. 1 * b <= a * b /\ 1 * b = b /\ a * b \in Nat
    BY RankProducts
  <2> QED
    BY <2>1, <2>2, <2>3
<1>2. Hundredth \in Nat \ {0}
  BY RankNumbers
<1>3. CASE big = 0
  BY <1>2, <1>3 DEF Scale
<1>4. CASE big # 0
  <2>1. PICK q \in Nat : q = B \div big
    BY <1>4, RankQuotients
  <2>2. B - big * q \in 0..(big - 1)
    BY <1>4, <2>1, RankQuotients
  <2>3. q # 0
    <3>1. SUFFICES ASSUME q = 0 PROVE FALSE
      OBVIOUS
    <3>2. big * q = 0
      BY <3>1
    <3>3. big <= B
      BY <1>1
    <3> QED
      BY <1>4, <2>2, <3>2, <3>3
  <2> QED
    BY <1>1, <1>4, <2>1, <2>3 DEF Scale
<1> QED
  BY <1>3, <1>4

LEMMA DisplayedInOrder ==
  ASSUME NEW scale \in Nat \ {0}, NEW r \in Nat, NEW s \in Nat
  PROVE  /\ Displayed(r, scale) \in 1..Fine
         /\ r <= s => Displayed(r, scale) <= Displayed(s, scale)
<1>1. Hundredth \in Nat \ {0}
  BY RankNumbers
<1>2. PICK fine \in Nat \ {0, 1} : fine = Fine
  BY RankNumbers
<1>3. r * scale \in Nat /\ s * scale \in Nat
  OBVIOUS
<1>4. PICK a \in Nat : a = (r * scale) \div Hundredth
  BY <1>1, <1>3, RankQuotients
<1>5. PICK b \in Nat : b = (s * scale) \div Hundredth
  BY <1>1, <1>3, RankQuotients
<1>6. r <= s => a <= b
  <2>1. r <= s => r * scale <= s * scale
    BY RankProducts
  <2> QED
    BY <1>1, <1>3, <1>4, <1>5, <2>1, RankQuotients
<1>7. /\ Displayed(r, scale) = IF a >= fine - 1 THEN fine ELSE AtLeastOne(a)
      /\ Displayed(s, scale) = IF b >= fine - 1 THEN fine ELSE AtLeastOne(b)
  BY <1>2, <1>4, <1>5 DEF Displayed
<1> QED
  BY <1>2, <1>6, <1>7 DEF AtLeastOne

-----------------------------------------------------------------------------
(* Ranking: the steps.                                                     *)

(* The index and the scheme stay, and with them every rank.                *)
LEMMA RanksKept ==
  ASSUME index' = index, scheme' = scheme, NEW CONSTANT w, NEW CONSTANT f
  PROVE  /\ FilesOf(w)' = FilesOf(w) /\ GetRank(w, f)' = GetRank(w, f)
         /\ Density(w, f)' = Density(w, f) /\ Rarity(w)' = Rarity(w)
         /\ WordWeight(w, f)' = WordWeight(w, f)
<1>1. FilesOf(w)' = FilesOf(w)
  BY DEF FilesOf
<1>2. TotalFiles' = TotalFiles /\ TotalWords' = TotalWords
  BY DEF TotalFiles, TotalWords
<1>3. Rarity(w)' = Rarity(w)
  BY <1>1, <1>2 DEF Rarity
<1>4. Density(w, f)' = Density(w, f)
  BY <1>2 DEF Density
<1>5. WordWeight(w, f)' = WordWeight(w, f)
  BY <1>3, <1>4 DEF WordWeight
<1>6. ASSUME NEW CONSTANT p, NEW CONSTANT size
      PROVE  Scores(p, size)' = Scores(p, size)
  BY DEF Scores
<1>7. Weighted(w, f)' = Weighted(w, f)
  <2>1. PICK p : p = index.occurs[w][f]
    OBVIOUS
  <2>2. Scores(p, Len(p))' = Scores(p, Len(p))
    BY <1>6
  <2> QED
    BY <1>5, <2>1, <2>2 DEF Weighted, Scores
<1>8. RankIDF(w, f)' = RankIDF(w, f)
  BY <1>7 DEF RankIDF
<1>9. RankDefault(w, f)' = RankDefault(w, f)
  BY DEF RankDefault, Scores
<1> QED
  BY <1>1, <1>3, <1>4, <1>5, <1>8, <1>9 DEF GetRank

LEMMA FitsKept ==
  ASSUME index' = index, scheme' = scheme, NumbersFit
  PROVE  NumbersFit'
<1>1. ASSUME NEW CONSTANT w \in RankWords, NEW CONSTANT f, f \in FilesOf(w)'
      PROVE  /\ scheme' # 1 => 1 + FreqCap * MostOfPlace' \in Numbers
             /\ scheme' = 1 =>
                  /\ ((TotalWords \div TotalFiles) * Fine)' \in Numbers
                  /\ (Density(w, f) * Rarity(w))' \in Numbers
                  /\ 1 + Len(index'.occurs[w][f]) * (WordWeight(w, f)' * MostOfPlace') \in Numbers
             /\ MaxTerms * GetRank(w, f)' <= Fine * Hundredth
  <2>1. f \in FilesOf(w)
    BY <1>1, RanksKept
  <2>2. MostOfPlace' = MostOfPlace
    BY DEF MostOfPlace
  <2>3. ((TotalWords \div TotalFiles) * Fine)' = (TotalWords \div TotalFiles) * Fine
    BY DEF TotalWords, TotalFiles
  <2> QED
    BY <2>1, <2>2, <2>3, RanksKept, FitsIs
<1> QED
  BY <1>1 DEF NumbersFit, MostOfPlace

Bound == Fine * Hundredth

LEMMA BoundType ==
  /\ Bound \in Nat \ {0}
  /\ MaxTerms \in Nat \ {0}
<1>1. PICK a \in Nat \ {0} : a = Fine
  BY RankNumbers
<1>2. PICK b \in Nat \ {0} : b = Hundredth
  BY RankNumbers
<1>3. 1 * b <= a * b /\ 1 * b = b /\ a * b \in Nat
  BY RankProducts
<1> QED
  BY <1>1, <1>2, <1>3, RankNumbers DEF Bound

LEMMA InitRank ==
  ASSUME RankInit, NumbersFit
  PROVE  RankInv
<1>1. Len(terms) = 0 /\ terms \in Seq([op : Operators, word : RankWords])
  BY DEF RankInit
<1>2. DOMAIN ranks = {}
  BY DEF RankInit
<1>3. bigrank = Unsorted /\ andLevel \in Nat /\ index \in RankTexts /\ ranks = <<>> /\ terms = <<>>
  BY DEF RankInit
<1>4. AveragesTerms /\ ShownInOrder
  BY <1>2, <1>3 DEF AveragesTerms, ShownInOrder
<1> QED
  BY <1>1, <1>2, <1>3, <1>4, RankNumbers DEF RankInv

(* A term more.                                                            *)
LEMMA TermAppended ==
  ASSUME RankInv, NEW op \in Operators, NEW w \in RankWords, ParseTermOf(op, w)
  PROVE  \E size \in Nat :
           /\ size = Len(terms) /\ size + 1 <= MaxTerms /\ Len(terms') = size + 1
           /\ DOMAIN terms = 1..size /\ DOMAIN terms' = 1..(size + 1)
           /\ terms' \in Seq([op : Operators, word : RankWords])
           /\ \A k \in 1..size : terms'[k] = terms[k] /\ terms[k].word \in RankWords
           /\ terms'[size + 1] = [op |-> op, word |-> w]
           /\ size = 0 <=> terms = <<>>
           /\ AllAsked' => AllAsked
           /\ AllAsked' /\ size # 0 => op = "AND"
<1>1. terms \in Seq([op : Operators, word : RankWords]) /\ Len(terms) < MaxTerms
      /\ terms' = Append(terms, [op |-> op, word |-> w])
  BY DEF RankInv, ParseTermOf
<1>2. [op |-> op, word |-> w] \in [op : Operators, word : RankWords]
  OBVIOUS
<1>3. PICK size \in Nat : size = Len(terms)
  BY <1>1
<1>4. /\ terms' \in Seq([op : Operators, word : RankWords]) /\ Len(terms') = size + 1
      /\ DOMAIN terms = 1..size /\ DOMAIN terms' = 1..(size + 1)
      /\ \A k \in 1..size : terms'[k] = terms[k]
      /\ terms'[size + 1] = [op |-> op, word |-> w]
      /\ size = 0 <=> terms = <<>>
  BY <1>1, <1>2, <1>3
<1>5. ASSUME NEW k \in 1..size PROVE terms[k].word \in RankWords
  <2>1. terms[k] \in [op : Operators, word : RankWords]
    <3>1. PICK S : S = [op : Operators, word : RankWords]
      OBVIOUS
    <3>2. terms \in Seq(S) /\ k \in 1..Len(terms)
      BY <1>1, <1>3, <3>1
    <3>3. terms[k] \in S
      BY <3>2
    <3> QED
      BY <3>1, <3>3
  <2> QED
    BY <2>1
<1>6. size + 1 <= MaxTerms
  BY <1>1, <1>3, BoundType
<1>7. ASSUME AllAsked' PROVE AllAsked /\ (size # 0 => op = "AND")
  <2>1. \A k \in 2..(size + 1) : terms'[k].op = "AND"
    BY <1>4, <1>7 DEF AllAsked
  <2>2. \A k \in 2..size : terms[k].op = "AND"
    BY <1>4, <2>1
  <2>3. size # 0 => size + 1 \in 2..(size + 1)
    OBVIOUS
  <2> QED
    BY <1>3, <1>4, <2>1, <2>2, <2>3 DEF AllAsked
<1> QED
  BY <1>3, <1>4, <1>5, <1>6, <1>7

(* The list after a term.                                                  *)
LEMMA RanksAfter ==
  ASSUME RankInv, NEW op \in Operators, NEW w \in RankWords, ParseTermOf(op, w),
         NEW CONSTANT f \in DOMAIN ranks'
  PROVE  \/ /\ op = "AND" /\ f \in DOMAIN ranks /\ f \in FilesOf(w)
            /\ ranks'[f] = (ranks[f] * (andLevel + 1) + GetRank(w, f)) \div ((andLevel + 1) + 1)
         \/ /\ op = "OR" /\ f \in DOMAIN ranks /\ f \in FilesOf(w)
            /\ ranks'[f] = ranks[f] + GetRank(w, f)
         \/ /\ op = "OR" /\ f \notin DOMAIN ranks /\ f \in FilesOf(w) /\ ranks'[f] = GetRank(w, f)
         \/ /\ op \in {"OR", "AND_NOT"} /\ f \in DOMAIN ranks /\ ranks'[f] = ranks[f]
<1>1. ranks' = Operate(op, ranks, GetFileInfo(w), andLevel') /\ andLevel' = NextLevel(op, andLevel)
  BY DEF ParseTermOf
<1>2. /\ DOMAIN GetFileInfo(w) = FilesOf(w)
      /\ \A g \in FilesOf(w) : GetFileInfo(w)[g] = GetRank(w, g)
  BY DEF GetFileInfo
<1>3. PICK r2 : r2 = GetFileInfo(w)
  OBVIOUS
<1>4. CASE op = "AND"
  <2>1. ranks' = AndResultLists(ranks, r2, andLevel + 1)
    BY <1>1, <1>3, <1>4 DEF Operate, NextLevel
  <2>2. f \in DOMAIN ranks /\ f \in FilesOf(w)
        /\ ranks'[f] = (ranks[f] * (andLevel + 1) + r2[f]) \div ((andLevel + 1) + 1)
    BY <1>2, <1>3, <2>1 DEF AndResultLists
  <2> QED
    BY <1>2, <1>3, <1>4, <2>2
<1>5. CASE op = "OR"
  <2>1. ranks' = OrResultLists(ranks, r2)
    BY <1>1, <1>3, <1>5 DEF Operate
  <2>2. /\ f \in DOMAIN ranks \/ f \in FilesOf(w)
        /\ ranks'[f] = IF f \notin FilesOf(w) THEN ranks[f]
                       ELSE IF f \notin DOMAIN ranks THEN r2[f] ELSE ranks[f] + r2[f]
    BY <1>2, <1>3, <2>1 DEF OrResultLists
  <2> QED
    BY <1>2, <1>3, <1>5, <2>2
<1>6. CASE op = "AND_NOT"
  <2>1. ranks' = AndNotResultLists(ranks, r2)
    BY <1>1, <1>3, <1>6 DEF Operate
  <2> QED
    BY <1>6, <2>1 DEF AndNotResultLists
<1> QED
  BY <1>4, <1>5, <1>6 DEF Operators

(* The ranks are bounded.                                                  *)
LEMMA RanksBounded ==
  ASSUME LogarithmsRise, RankInv, NEW op \in Operators, NEW w \in RankWords, ParseTermOf(op, w),
         NEW CONSTANT f \in DOMAIN ranks'
  PROVE  ranks'[f] \in Nat /\ MaxTerms * ranks'[f] <= Len(terms') * Bound
<1>1. PICK size \in Nat : size = Len(terms) /\ Len(terms') = size + 1
  BY TermAppended
<1>2. PICK M \in Nat : M = MaxTerms
  BY BoundType
<1>3. PICK B \in Nat : B = Bound
  BY BoundType
<1>4. PICK low \in Nat : low = size * B
  OBVIOUS
<1>5. (size + 1) * B = low + B
  BY <1>4
<1>6. f \in DOMAIN ranks => ranks[f] \in Nat /\ M * ranks[f] <= low
  BY <1>1, <1>2, <1>3, <1>4 DEF RankInv, Bound
<1>7. f \in FilesOf(w) => GetRank(w, f) \in Nat /\ M * GetRank(w, f) <= B
  BY <1>2, <1>3, GetRankType DEF RankInv, Bound
<1>8. andLevel + 1 \in Nat
  BY DEF RankInv
<1>9. SUFFICES ranks'[f] \in Nat /\ M * ranks'[f] <= low + B
  BY <1>1, <1>2, <1>3, <1>5
<1>10. CASE op = "AND" /\ f \in DOMAIN ranks /\ f \in FilesOf(w)
            /\ ranks'[f] = (ranks[f] * (andLevel + 1) + GetRank(w, f)) \div ((andLevel + 1) + 1)
  <2>1. PICK r \in Nat : r = ranks[f] /\ M * r <= low
    BY <1>6, <1>10
  <2>2. PICK x \in Nat : x = GetRank(w, f) /\ M * x <= B
    BY <1>7, <1>10
  <2>3. M * r \in Int /\ M * x \in Int
    OBVIOUS
  <2>4. M * r <= low + B /\ M * x <= low + B /\ low + B \in Int
    BY <2>1, <2>2, <2>3
  <2>5. PICK level \in Nat : level = andLevel + 1
    BY <1>8
  <2>6. (r * level + x) \div (level + 1) \in Nat /\ M * ((r * level + x) \div (level + 1)) <= low + B
    BY <2>4, AverageBound
  <2> QED
    BY <1>10, <2>1, <2>2, <2>5, <2>6
<1>11. CASE op = "OR" /\ f \in DOMAIN ranks /\ f \in FilesOf(w) /\ ranks'[f] = ranks[f] + GetRank(w, f)
  <2>1. PICK r \in Nat : r = ranks[f] /\ M * r <= low
    BY <1>6, <1>11
  <2>2. PICK x \in Nat : x = GetRank(w, f) /\ M * x <= B
    BY <1>7, <1>11
  <2>3. M * (r + x) = M * r + M * x /\ M * r \in Int /\ M * x \in Int
    OBVIOUS
  <2> QED
    BY <1>11, <2>1, <2>2, <2>3
<1>12. CASE f \in FilesOf(w) /\ ranks'[f] = GetRank(w, f)
  <2>1. PICK x \in Nat : x = GetRank(w, f) /\ M * x <= B
    BY <1>7, <1>12
  <2>2. M * x \in Int
    OBVIOUS
  <2> QED
    BY <1>12, <2>1, <2>2
<1>13. CASE f \in DOMAIN ranks /\ ranks'[f] = ranks[f]
  <2>1. PICK r \in Nat : r = ranks[f] /\ M * r <= low
    BY <1>6, <1>13
  <2>2. M * r \in Int
    OBVIOUS
  <2> QED
    BY <1>13, <2>1, <2>2
<1> QED
  BY <1>10, <1>11, <1>12, <1>13, RanksAfter

(* Of words that are all asked for: the level, and the files.              *)
LEMMA AskedTogether ==
  ASSUME RankInv, NEW op \in Operators, NEW w \in RankWords, ParseTermOf(op, w), AllAsked'
  PROVE  /\ andLevel' = Len(terms)
         /\ \A f \in DOMAIN ranks' :
              /\ f \in FilesOf(w)
              /\ Len(terms) # 0 => /\ f \in DOMAIN ranks
                                   /\ ranks'[f] = (ranks[f] * Len(terms) + GetRank(w, f))
                                                    \div (Len(terms) + 1)
              /\ Len(terms) = 0 => ranks'[f] = GetRank(w, f)
<1>1. PICK size \in Nat : size = Len(terms) /\ (size = 0 <=> terms = <<>>) /\ AllAsked /\ (size # 0 => op = "AND")
  BY TermAppended
<1>2. andLevel' = NextLevel(op, andLevel)
  BY DEF ParseTermOf
<1>3. CASE size = 0
  <2>1. op = "OR" /\ DOMAIN ranks = {}
    BY <1>1, <1>3 DEF ParseTermOf, RankInv
  <2>2. andLevel' = 0
    BY <1>2, <2>1 DEF NextLevel
  <2> QED
    BY <1>1, <1>3, <2>1, <2>2, RanksAfter
<1>4. CASE size # 0
  <2>1. op = "AND" /\ andLevel = size - 1 /\ andLevel + 1 = size
    BY <1>1, <1>4 DEF RankInv
  <2>2. andLevel' = size
    BY <1>2, <2>1 DEF NextLevel
  <2>3. ASSUME NEW CONSTANT f \in DOMAIN ranks'
        PROVE  /\ f \in DOMAIN ranks /\ f \in FilesOf(w)
               /\ ranks'[f] = (ranks[f] * size + GetRank(w, f)) \div (size + 1)
    BY <2>1, RanksAfter
  <2> QED
    BY <1>1, <1>4, <2>2, <2>3
<1> QED
  BY <1>3, <1>4

(* The rank of a word of the query, as a number of the word.               *)
LEMMA RankOfTerm ==
  ASSUME index' = index, scheme' = scheme, NEW CONSTANT k, NEW CONSTANT f,
         NEW CONSTANT v, v = terms'[k].word
  PROVE  FilesOf(terms[k].word)' = FilesOf(v) /\ GetRank(terms[k].word, f)' = GetRank(v, f)
<1>1. FilesOf(terms[k].word)' = FilesOf(v)
  BY DEF FilesOf
<1>2. TotalFiles' = TotalFiles /\ TotalWords' = TotalWords
  BY DEF TotalFiles, TotalWords
<1>3. Rarity(terms[k].word)' = Rarity(v)
  BY <1>1, <1>2 DEF Rarity
<1>4. Density(terms[k].word, f)' = Density(v, f)
  BY <1>2 DEF Density
<1>5. WordWeight(terms[k].word, f)' = WordWeight(v, f)
  BY <1>3, <1>4 DEF WordWeight
<1>6. Weighted(terms[k].word, f)' = Weighted(v, f)
  BY <1>5 DEF Weighted, Scores
<1>7. RankIDF(terms[k].word, f)' = RankIDF(v, f)
  BY <1>6 DEF RankIDF
<1>8. RankDefault(terms[k].word, f)' = RankDefault(v, f)
  BY DEF RankDefault, Scores
<1> QED
  BY <1>1, <1>7, <1>8 DEF GetRank

(* The ranks that are averaged.                                            *)
Each(f) == [k \in DOMAIN terms |-> GetRank(terms[k].word, f)]

LEMMA AveragesIs ==
  AveragesTerms <=>
    (AllAsked => \A f \in DOMAIN ranks :
       TotalOf(Each(f)) - Len(terms) * ranks[f] \in 0..((Len(terms) * (Len(terms) - 1)) \div 2))
  BY DEF AveragesTerms, Each

LEMMA EachIs ==
  ASSUME index' = index, scheme' = scheme, NEW CONSTANT f, NEW size \in Nat, DOMAIN terms' = 1..size
  PROVE  Each(f)' = [k \in 1..size |-> GetRank(terms'[k].word, f)]
<1>1. Each(f)' = [k \in 1..size |-> GetRank(terms[k].word, f)']
  BY DEF Each
<1>2. ASSUME NEW CONSTANT k \in 1..size
      PROVE  GetRank(terms[k].word, f)' = GetRank(terms'[k].word, f)
  <2>1. PICK v : v = terms'[k].word
    OBVIOUS
  <2> QED
    BY <2>1, RankOfTerm
<1> QED
  BY <1>1, <1>2

(* The files of a list of words that are all asked for have them.          *)
LEMMA FilesKept ==
  ASSUME RankInv, NEW op \in Operators, NEW w \in RankWords, ParseTermOf(op, w), AllAsked',
         NEW CONSTANT f \in DOMAIN ranks'
  PROVE  \A k \in DOMAIN terms' : terms'[k].word \in RankWords /\ f \in FilesOf(terms'[k].word)
<1>1. PICK size \in Nat :
           /\ size = Len(terms) /\ DOMAIN terms = 1..size /\ DOMAIN terms' = 1..(size + 1)
           /\ \A k \in 1..size : terms'[k] = terms[k] /\ terms[k].word \in RankWords
           /\ terms'[size + 1] = [op |-> op, word |-> w]
           /\ AllAsked
  BY TermAppended
<1>2. f \in FilesOf(w) /\ (size # 0 => f \in DOMAIN ranks)
  BY <1>1, AskedTogether
<1>3. ASSUME NEW k \in 1..(size + 1)
      PROVE  terms'[k].word \in RankWords /\ f \in FilesOf(terms'[k].word)
  <2>1. CASE k = size + 1
    <3>1. terms'[k].word = w
      BY <1>1, <2>1
    <3> QED
      BY <1>2, <3>1
  <2>2. CASE k # size + 1
    <3>1. k \in 1..size /\ size # 0
      BY <2>2
    <3>2. f \in FilesOf(terms[k].word)
      BY <1>1, <1>2, <3>1 DEF RankInv
    <3> QED
      BY <1>1, <3>1, <3>2
  <2> QED
    BY <2>1, <2>2
<1> QED
  BY <1>1, <1>3

(* The average is kept.                                                    *)
LEMMA AverageKept ==
  ASSUME LogarithmsRise, RankInv, NEW op \in Operators, NEW w \in RankWords, ParseTermOf(op, w)
  PROVE  AveragesTerms'
<1>1. SUFFICES ASSUME AllAsked', NEW CONSTANT f \in DOMAIN ranks'
               PROVE  TotalOf(Each(f)') - Len(terms') * ranks'[f]
                        \in 0..((Len(terms') * (Len(terms') - 1)) \div 2)
  BY DEF AveragesTerms, Each
<1>2. PICK size \in Nat :
           /\ size = Len(terms) /\ Len(terms') = size + 1
           /\ DOMAIN terms = 1..size /\ DOMAIN terms' = 1..(size + 1)
           /\ \A k \in 1..size : terms'[k] = terms[k] /\ terms[k].word \in RankWords
           /\ terms'[size + 1] = [op |-> op, word |-> w]
           /\ AllAsked
  BY <1>1, TermAppended
<1>3. index' = index /\ scheme' = scheme
  BY DEF ParseTermOf
<1>4. index \in RankTexts /\ NumbersFit /\ AveragesTerms
  BY DEF RankInv
<1>5. ASSUME NEW CONSTANT k \in 1..(size + 1) PROVE GetRank(terms'[k].word, f) \in Nat
  <2>1. PICK v : v = terms'[k].word
    OBVIOUS
  <2>2. v \in RankWords /\ f \in FilesOf(v)
    BY <1>1, <1>2, <2>1, FilesKept
  <2>3. GetRank(v, f) \in Nat
    BY <1>4, <2>2, GetRankType
  <2> QED
    BY <2>1, <2>3
<1>6. PICK u : u = [k \in 1..(size + 1) |-> GetRank(terms'[k].word, f)] /\ u = Each(f)'
  <2>1. size + 1 \in Nat
    OBVIOUS
  <2> QED
    BY <1>2, <1>3, <2>1, EachIs
<1>7. PICK s : s = [k \in 1..size |-> GetRank(terms[k].word, f)] /\ s = Each(f)
  BY <1>2 DEF Each
<1>8. u \in [1..(size + 1) -> Int]
  BY <1>5, <1>6
<1>9. \A k \in 1..size : u[k] = s[k]
  <2>1. ASSUME NEW CONSTANT k \in 1..size PROVE u[k] = s[k]
    <3>1. k \in 1..(size + 1) /\ terms'[k] = terms[k]
      BY <1>2
    <3>2. u[k] = GetRank(terms'[k].word, f) /\ s[k] = GetRank(terms[k].word, f)
      BY <1>6, <1>7, <3>1
    <3> QED
      BY <3>1, <3>2
  <2> QED
    BY <2>1
<1>10. s \in [1..size -> Int]
  <2>1. ASSUME NEW k \in 1..size PROVE s[k] \in Int
    <3>1. k \in 1..(size + 1)
      OBVIOUS
    <3> QED
      BY <1>8, <1>9, <3>1
  <2> QED
    BY <1>7, <2>1
<1>11. PICK x \in Nat : x = GetRank(w, f) /\ u[size + 1] = x
  <2>1. size + 1 \in 1..(size + 1) /\ terms'[size + 1].word = w
    BY <1>2
  <2>2. u[size + 1] = GetRank(terms'[size + 1].word, f)
    BY <1>6, <2>1
  <2> QED
    BY <1>5, <2>1, <2>2
<1>12. TotalOf(s) \in Int /\ TotalOf(u) = TotalOf(s) + x
  BY <1>8, <1>9, <1>10, <1>11, TotalNext
<1>13. CASE size = 0
  <2>1. ranks'[f] = x
    BY <1>1, <1>2, <1>11, <1>13, AskedTogether
  <2>2. TotalOf(s) = 0
    BY <1>10, <1>13, TotalOfNone
  <2>3. TotalOf(u) - (0 + 1) * x = 0
    BY <1>12, <2>2
  <2>4. ((0 + 1) * 0) \div 2 = 0
    OBVIOUS
  <2> QED
    BY <1>2, <1>6, <1>13, <2>1, <2>3, <2>4
<1>14. CASE size # 0
  <2>1. f \in DOMAIN ranks /\ ranks'[f] = (ranks[f] * size + x) \div (size + 1)
    BY <1>1, <1>2, <1>11, <1>14, AskedTogether
  <2>2. PICK r \in Nat : r = ranks[f]
    BY <2>1 DEF RankInv
  <2>3. TotalOf(s) - size * r \in 0..((size * (size - 1)) \div 2)
    BY <1>2, <1>4, <1>7, <2>1, <2>2, AveragesIs
  <2>4. (TotalOf(s) + x) - (size + 1) * ((r * size + x) \div (size + 1)) \in 0..(((size + 1) * size) \div 2)
    BY <1>12, <1>14, <2>3, AverageStep
  <2>5. (size + 1) - 1 = size
    OBVIOUS
  <2> QED
    BY <1>2, <1>6, <1>12, <2>1, <2>2, <2>4, <2>5
<1> QED
  BY <1>13, <1>14

LEMMA TermStep ==
  ASSUME LogarithmsRise, RankInv, NEW op \in Operators, NEW w \in RankWords, ParseTermOf(op, w)
  PROVE  RankInv'
<1>1. index' = index /\ scheme' = scheme /\ bigrank' = Unsorted
  BY DEF ParseTermOf
<1>2. index' \in RankTexts /\ NumbersFit'
  BY <1>1, FitsKept DEF RankInv
<1>3. PICK size \in Nat :
           /\ size = Len(terms) /\ size + 1 <= MaxTerms /\ Len(terms') = size + 1
           /\ DOMAIN terms' = 1..(size + 1)
           /\ terms' \in Seq([op : Operators, word : RankWords])
  BY TermAppended
<1>4. Len(terms') <= MaxTerms /\ terms' # <<>>
  BY <1>3
<1>5. andLevel' \in Nat
  BY DEF ParseTermOf, NextLevel, RankInv
<1>6. \A f \in DOMAIN ranks' : ranks'[f] \in Nat /\ MaxTerms * ranks'[f] <= Len(terms') * (Fine * Hundredth)
  BY RanksBounded DEF Bound
<1>7. ASSUME AllAsked'
      PROVE  /\ andLevel' = Len(terms') - 1
             /\ \A f \in DOMAIN ranks' : \A k \in DOMAIN terms' : f \in FilesOf(terms'[k].word)
  <2>1. andLevel' = size
    BY <1>3, <1>7, AskedTogether
  <2> QED
    BY <1>3, <1>7, <2>1, FilesKept
<1>8. ASSUME AllAsked'
      PROVE  (\A f \in DOMAIN ranks : \A k \in DOMAIN terms : f \in FilesOf(terms[k].word))'
  <2>1. ASSUME NEW CONSTANT f \in DOMAIN ranks', NEW CONSTANT k \in DOMAIN terms'
        PROVE  f \in FilesOf(terms[k].word)'
    <3>1. PICK v : v = terms'[k].word
      OBVIOUS
    <3>2. f \in FilesOf(v)
      BY <1>7, <1>8, <3>1
    <3> QED
      BY <1>1, <3>1, <3>2, RankOfTerm
  <2> QED
    BY <2>1
<1>9. ShownInOrder'
  BY <1>1 DEF ShownInOrder
<1>10. AveragesTerms'
  BY AverageKept
<1> QED
  BY <1>2, <1>3, <1>4, <1>5, <1>6, <1>7, <1>8, <1>9, <1>10 DEF RankInv

(* The results are sorted and shown.                                       *)
LEMMA ShowStep ==
  ASSUME LogarithmsRise, RankInv, SortAndShow
  PROVE  ShownInOrder'
<1>1. PICK big \in {0} \cup {ranks[f] : f \in DOMAIN ranks} :
           /\ \A f \in DOMAIN ranks : ranks[f] <= big
           /\ shown' = [f \in DOMAIN ranks |-> Displayed(ranks[f], Scale(big))]
  BY DEF SortAndShow
<1>2. ranks' = ranks
  BY DEF SortAndShow
<1>3. \A f \in DOMAIN ranks : ranks[f] \in Nat /\ MaxTerms * ranks[f] <= Len(terms) * Bound
  BY DEF RankInv, Bound
<1>4. PICK B \in Nat \ {0} : B = Bound
  BY BoundType
<1>5. PICK M \in Nat \ {0} : M = MaxTerms
  BY BoundType
<1>6. big \in Nat /\ big <= B
  <2>1. CASE big = 0
    BY <2>1
  <2>2. CASE big # 0
    <3>1. big \in Nat /\ M * big <= Len(terms) * B
      BY <1>1, <1>3, <1>4, <1>5, <2>2
    <3>2. PICK size \in Nat : size = Len(terms)
      BY DEF RankInv
    <3>3. size <= M
      BY <1>5, <3>2 DEF RankInv
    <3>4. size * B <= M * B /\ M * big = big * M /\ M * B = B * M
      BY <3>1, <3>3, RankProducts
    <3>5. size * B \in Int /\ M * big \in Int /\ M * B \in Int
      BY <3>1
    <3>6. big * M <= B * M
      BY <3>1, <3>2, <3>4, <3>5
    <3> QED
      BY <3>1, <3>6, RankFactor
  <2> QED
    BY <2>1, <2>2
<1>7. Scale(big) \in Nat \ {0}
  BY <1>4, <1>6, ScaleType DEF Bound
<1>8. PICK scale \in Nat \ {0} : scale = Scale(big)
  BY <1>7
<1>9. ASSUME NEW CONSTANT f \in DOMAIN ranks, NEW CONSTANT g \in DOMAIN ranks
      PROVE  shown'[f] \in 1..Fine /\ (ranks[f] <= ranks[g] => shown'[f] <= shown'[g])
  <2>1. shown'[f] = Displayed(ranks[f], scale) /\ shown'[g] = Displayed(ranks[g], scale)
    BY <1>1, <1>8
  <2> QED
    BY <1>3, <2>1, DisplayedInOrder
<1> QED
  BY <1>2, <1>9 DEF ShownInOrder

(* What a step that leaves the query and the list alone keeps.             *)
LEMMA RankInvKept ==
  ASSUME RankInv, UNCHANGED <<index, scheme, terms, andLevel, ranks>>, ShownInOrder'
  PROVE  RankInv'
<1>1. index' = index /\ scheme' = scheme /\ terms' = terms /\ ranks' = ranks /\ andLevel' = andLevel
  OBVIOUS
<1>2. NumbersFit'
  BY <1>1, FitsKept DEF RankInv
<1>3. PICK size \in Nat : size = Len(terms) /\ DOMAIN terms = 1..size
  BY DEF RankInv
<1>4. AllAsked' <=> AllAsked
  BY <1>1 DEF AllAsked
<1>5. AveragesTerms'
  <2>1. SUFFICES ASSUME AllAsked', NEW CONSTANT f \in DOMAIN ranks'
                 PROVE  TotalOf(Each(f)') - Len(terms') * ranks'[f]
                          \in 0..((Len(terms') * (Len(terms') - 1)) \div 2)
    BY DEF AveragesTerms, Each
  <2>2. Each(f)' = [k \in 1..size |-> GetRank(terms'[k].word, f)]
    BY <1>1, <1>3, EachIs
  <2>3. Each(f) = [k \in 1..size |-> GetRank(terms[k].word, f)]
    BY <1>3 DEF Each
  <2>4. Each(f)' = Each(f)
    BY <1>1, <2>2, <2>3
  <2>5. AveragesTerms /\ AllAsked
    BY <1>4, <2>1 DEF RankInv
  <2> QED
    BY <1>1, <2>1, <2>4, <2>5, AveragesIs
<1>6. ASSUME AllAsked
      PROVE  (\A f \in DOMAIN ranks : \A k \in DOMAIN terms : f \in FilesOf(terms[k].word))'
  <2>1. ASSUME NEW CONSTANT f \in DOMAIN ranks', NEW CONSTANT k \in DOMAIN terms'
        PROVE  f \in FilesOf(terms[k].word)'
    <3>1. PICK v : v = terms'[k].word
      OBVIOUS
    <3>2. f \in FilesOf(terms[k].word) /\ v = terms[k].word
      BY <1>1, <1>6, <2>1, <3>1 DEF RankInv
    <3> QED
      BY <1>1, <3>1, <3>2, RankOfTerm
  <2> QED
    BY <2>1
<1> QED
  BY <1>1, <1>2, <1>4, <1>5, <1>6 DEF RankInv

LEMMA RankStep ==
  ASSUME LogarithmsRise, RankInv, [RankNext]_rankVars
  PROVE  RankInv'
<1>1. ASSUME NEW op \in Operators, NEW w \in RankWords, ParseTermOf(op, w) PROVE RankInv'
  BY <1>1, TermStep
<1>2. CASE SortAndShow
  <2>1. UNCHANGED <<index, scheme, terms, andLevel, ranks>>
    BY <1>2 DEF SortAndShow
  <2> QED
    BY <1>2, <2>1, ShowStep, RankInvKept
<1>3. CASE UNCHANGED rankVars
  <2>1. UNCHANGED <<index, scheme, terms, andLevel, ranks>> /\ bigrank' = bigrank /\ shown' = shown
    BY <1>3 DEF rankVars
  <2>2. ShownInOrder'
    BY <2>1 DEF ShownInOrder, RankInv
  <2> QED
    BY <2>1, <2>2, RankInvKept
<1> QED
  BY <1>1, <1>2, <1>3 DEF RankNext

(* Of words that are all asked for the rank is the average, a file with a  *)
(* word in better places or in more is not ranked lower, and what is shown *)
(* is from 1 to 1000 in the order of the ranks (getrank, andresultlists    *)
(* and sortresults): for every index, query and table of logarithms, as    *)
(* long as no number outgrows an int.                                      *)
THEOREM RanksFairAlways ==
  ASSUME LogarithmsRise
  PROVE  RankSpec /\ NumbersFit => []RanksFair
<1>1. RankInit /\ NumbersFit => RankInv
  BY InitRank
<1>2. RankInv /\ [RankNext]_rankVars => RankInv'
  BY RankStep
<1>3. RankInv => RanksFair
  BY BetterPlacesHold DEF RankInv, RanksFair
<1> QED
  BY <1>1, <1>2, <1>3, PTL DEF RankSpec
=============================================================================
