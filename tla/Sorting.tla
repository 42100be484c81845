------------------------------- MODULE Sorting -------------------------------
(***************************************************************************)
(* The order of results (-s): the tables made of properties when an index  *)
(* is written (pre_sort.c, with swish_qsort.c), their slots in the index   *)
(* (db_native.c), and the sorting of the results of a search with and      *)
(* without them (result_sort.c, Compare_Properties and getDocProperty in   *)
(* docprop.c).                                                             *)
(*                                                                         *)
(* A value of a property is a sequence of bytes, <<>> if the document has  *)
(* none.  Numbers are stored with their most significant byte first, here  *)
(* two digits to the base Base.  Left out: strcoll, the pages of the       *)
(* arrays (PagedArray), and results that are not all read (Results).       *)
(***************************************************************************)
EXTENDS Integers, Sequences, SequencesExt, FiniteSets, Functions

CONSTANTS
  SortProps,      \* the properties of the header: [name, kind, len], where kind
                  \* is "number", "string", "nocase" or "internal", len sort_len
  SortInputs,     \* [indexes, presorted, searches]: see below
  Base,           \* numbers are of two digits 0..Base - 1
  InsertionBelow, MedianAbove, NintherAbove   \* swish_qsort's 7, 7 and 40

\* An input: the documents of every index, each from property names to bytes;
\* the names given to PreSortedIndex; and searches, each of the keys
\* [prop, direction] (1 descending, -1 ascending) and of the results of every
\* index, sequences of [file, rank].

VARIABLES
  input,
  slots,      \* per index: the slots of the presorted file, [prop, table]
  written,    \* per index: sortFileProperties is done
  opened,     \* per index: cur_presorted_propid and cur_presorted_array
  sortedData, \* per index: sorted_data of the properties whose loading was tried
  done,       \* searches carried out
  order       \* the results of the last one, as <<index, result>>

sortVars == <<input, slots, written, opened, sortedData, done, order>>

SortIndexes == DOMAIN input.indexes
Documents(i) == DOMAIN input.indexes[i]
PropOf(name) == SortProps[CHOOSE k \in DOMAIN SortProps : SortProps[k].name = name]
NoData == <<>>     \* a NULL table

-----------------------------------------------------------------------------
(* swish_qsort, of a sequence by a comparison.                             *)

Median(s, cmp, a, b, c) ==
  IF cmp[s[a], s[b]] < 0
  THEN IF cmp[s[b], s[c]] < 0 THEN b ELSE IF cmp[s[a], s[c]] < 0 THEN c ELSE a
  ELSE IF cmp[s[b], s[c]] > 0 THEN b ELSE IF cmp[s[a], s[c]] < 0 THEN a ELSE c

Swap(s, a, b) == [s EXCEPT ![a] = s[b], ![b] = s[a]]

InsertionSort(s, cmp) ==
  LET sink[t \in Seq(Range(s)), k \in Nat] ==
        IF k > 1 /\ cmp[t[k - 1], t[k]] > 0 THEN sink[Swap(t, k, k - 1), k - 1] ELSE t
  IN  FoldLeft(LAMBDA t, k : sink[t, k], s, [k \in 1..Len(s) |-> k])

\* The element the others are compared with: the middle one, the median of
\* three, or of the medians of three threes.
Pivot(s, cmp) ==
  LET n == Len(s)
      mid == n \div 2 + 1
      d == n \div 8
  IN  IF n <= MedianAbove THEN mid
      ELSE IF n <= NintherAbove THEN Median(s, cmp, 1, mid, n)
      ELSE Median(s, cmp, Median(s, cmp, 1, 1 + d, 1 + 2 * d),
                          Median(s, cmp, mid - d, mid, mid + d),
                          Median(s, cmp, n - 2 * d, n - d, n))

\* Elements equal to the first are put at both ends, smaller ones before b,
\* greater ones behind c; st is [s, a, b, c, d, swapped], the pointers pa to
\* pd.
Partition(s, cmp) ==
  LET Equal(st, k, end) == [st EXCEPT !.s = Swap(st.s, k, end), !.swapped = TRUE]
      up[st \in [s : Seq(Range(s)), a : Nat, b : Nat, c : Nat, d : Nat, swapped : BOOLEAN]] ==
        IF st.b > st.c \/ cmp[st.s[st.b], st.s[1]] > 0 THEN st
        ELSE IF cmp[st.s[st.b], st.s[1]] = 0
        THEN up[[Equal(st, st.a, st.b) EXCEPT !.a = @ + 1, !.b = @ + 1]]
        ELSE up[[st EXCEPT !.b = @ + 1]]
      down[st \in [s : Seq(Range(s)), a : Nat, b : Nat, c : Nat, d : Nat, swapped : BOOLEAN]] ==
        IF st.b > st.c \/ cmp[st.s[st.c], st.s[1]] < 0 THEN st
        ELSE IF cmp[st.s[st.c], st.s[1]] = 0
        THEN down[[Equal(st, st.c, st.d) EXCEPT !.c = @ - 1, !.d = @ - 1]]
        ELSE down[[st EXCEPT !.c = @ - 1]]
      rounds[st \in [s : Seq(Range(s)), a : Nat, b : Nat, c : Nat, d : Nat, swapped : BOOLEAN]] ==
        LET met == down[up[st]]
        IN  IF met.b > met.c THEN met
            ELSE rounds[[Equal(met, met.b, met.c) EXCEPT !.b = @ + 1, !.c = @ - 1]]
  IN  rounds[[s |-> s, a |-> 2, b |-> 2, c |-> Len(s), d |-> Len(s), swapped |-> FALSE]]

SwishQsort(s0, cmp) ==
  LET sort[s \in Seq(Range(s0))] ==
        IF Len(s) < InsertionBelow THEN InsertionSort(s, cmp)
        ELSE LET p == Partition(Swap(s, 1, Pivot(s, cmp)), cmp)
             IN  IF ~p.swapped THEN InsertionSort(p.s, cmp)
                 ELSE sort[SubSeq(p.s, p.a, p.b - 1)]
                      \o SubSeq(p.s, 1, p.a - 1) \o SubSeq(p.s, p.d + 1, Len(s))
                      \o sort[SubSeq(p.s, p.c + 1, p.d)]
  IN  sort[SubSeq(s0, 1, Len(s0))]

-----------------------------------------------------------------------------
(* Comparing values.                                                       *)

\* memcmp, strncmp and, with letters folded, strncasecmp of two values as far
\* as the shorter goes, then Compare_Properties' difference of lengths.
Upper == 10     \* a letter and the same letter, upper case, differ by it
Fold(c) == c % Upper
CompareBytes(v, w, nocase) ==
  LET fold(c) == IF nocase THEN Fold(c) ELSE c
      common == 1..(IF Len(v) < Len(w) THEN Len(v) ELSE Len(w))
      different == {k \in common : fold(v[k]) # fold(w[k])}
      first == CHOOSE k \in different : \A j \in different : k <= j
  IN  IF different # {} THEN fold(v[first]) - fold(w[first]) ELSE Len(v) - Len(w)

CompareProperties(p, v, w) ==
  IF v = <<>> \/ w = <<>>
  THEN (IF v = <<>> THEN 0 ELSE 1) - (IF w = <<>> THEN 0 ELSE 1)
  ELSE CompareBytes(v, w, p.kind = "nocase")

\* ReadSingleDocPropertiesFromDisk with the length for sorting.
StoredValue(i, f, p) ==
  LET v == input.indexes[i][f][p.name]
  IN  IF p.kind \in {"string", "nocase"} /\ p.len < Len(v) THEN SubSeq(v, 1, p.len) ELSE v

PackLong(k) == <<k \div Base, k % Base>>

\* getDocProperty: one property is made during the search.
GetDocProperty(i, f, p) ==
  IF p.kind = "internal" THEN PackLong(f) ELSE StoredValue(i, f, p)

-----------------------------------------------------------------------------
(* sortFileProperties, at the end of indexing.                             *)

IsPresorted(name) == name \in input.presorted

\* Slip: every document has a number of its own.
RaisedAlways(sorted, k, cmp) == TRUE

\* Neighbours of one value have one number.
Raised(sorted, k, cmp) == k > 1 /\ cmp[sorted[k - 1], sorted[k]] # 0

CreatePropSortArray(i, p) ==
  LET cmp[f, g \in Documents(i)] == CompareProperties(p, StoredValue(i, f, p), StoredValue(i, g, p))
      sorted == SwishQsort([f \in Documents(i) |-> f], cmp)
      number == FoldLeft(LAMBDA ks, k :
                  Append(ks, (IF k = 1 THEN 1 ELSE ks[k - 1])
                             + (IF Raised(sorted, k, cmp) THEN 1 ELSE 0)),
                  <<>>, [k \in DOMAIN sorted |-> k])
  IN  [f \in Documents(i) |-> number[CHOOSE k \in DOMAIN sorted : sorted[k] = f]]

SortFileProperties(i) ==
  /\ ~written[i]
  /\ slots' = [slots EXCEPT ![i] =
       FoldLeft(LAMBDA stored, p :
           IF IsPresorted(p.name) /\ p.kind # "internal"
           THEN Append(stored, [prop |-> p.name, table |-> CreatePropSortArray(i, p)])
           ELSE stored,
         <<>>, SortProps)]
  /\ written' = [written EXCEPT ![i] = TRUE]
  /\ UNCHANGED <<input, opened, sortedData, done, order>>

-----------------------------------------------------------------------------
(* Sorting the results of a search.                                        *)

\* Slip: a property that is not found leaves the table found before.
NotFoundKeeps(cur) == cur
NotFound(cur) == [prop |-> cur.prop, table |-> NoData]

\* DB_ReadSortedIndex.
ReadSortedIndex(cur, stored, name) ==
  IF cur.table # NoData /\ cur.prop = name THEN cur
  ELSE IF \E k \in DOMAIN stored : stored[k].prop = name
  THEN stored[CHOOSE k \in DOMAIN stored : stored[k].prop = name]
  ELSE NotFound(cur)

\* LoadSortedProps of the properties of the keys, each tried once: an index's
\* cur_presorted_array and sorted_data afterwards.
LoadSortedProps(i, keys) ==
  FoldLeft(LAMBDA db, key :
      IF key.prop = "rank" \/ key.prop \in DOMAIN db.data THEN db
      ELSE LET cur == ReadSortedIndex(db.cur, slots[i], key.prop)
           IN  [cur |-> cur, data |-> [q \in {key.prop} |-> cur.table] @@ db.data],
    [cur |-> opened[i], data |-> sortedData[i]], keys)

\* The comparison by the first key that tells two results apart.
ByKeys(keys, compared) ==
  LET telling == {k \in DOMAIN keys : compared[keys[k]] # 0}
  IN  IF telling = {} THEN 0
      ELSE LET k == CHOOSE k \in telling : \A j \in telling : k <= j
           IN  compared[keys[k]] * keys[k].direction

\* compare_results_single_index.
CompareSingle(i, keys, data, r, s) ==
  ByKeys(keys, [key \in Range(keys) |->
    IF key.prop = "rank" THEN r.rank - s.rank
    ELSE IF data[key.prop] # NoData THEN data[key.prop][r.file] - data[key.prop][s.file]
    ELSE LET p == PropOf(key.prop)
         IN  CompareProperties(p, GetDocProperty(i, r.file, p), GetDocProperty(i, s.file, p))])

\* compare_results, of the results of two indexes.
CompareResults(keys, r, s) ==
  ByKeys(keys, [key \in Range(keys) |->
    IF key.prop = "rank" THEN r[2].rank - s[2].rank
    ELSE LET p == PropOf(key.prop)
         IN  CompareProperties(p, GetDocProperty(r[1], r[2].file, p),
                                  GetDocProperty(s[1], s[2].file, p))])

\* sort_single_index_results: the list is built from the end of the array.
SortSingleIndex(i, keys, data, results) ==
  LET compared[r, s \in Range(results)] == CompareSingle(i, keys, data, r, s)
      sorted == Reverse(SwishQsort(results, compared))
  IN  [k \in DOMAIN sorted |-> <<i, sorted[k]>>]

\* SwishNextResult: the best of the first of the lists, until all are empty.
MergeLists(keys, lists) ==
  LET Best(heads) ==
        FoldLeft(LAMBDA best, i :
            IF heads[i] = <<>> THEN best
            ELSE IF best = 0 THEN i
            ELSE IF CompareResults(keys, heads[best][1], heads[i][1]) < 0 THEN i ELSE best,
          0, [i \in DOMAIN heads |-> i])
      merge[heads \in Seq(Seq(SortIndexes \X UNION {Range(input.searches[k].found[i]) :
                              k \in DOMAIN input.searches, i \in SortIndexes}))] ==
        IF Best(heads) = 0 THEN <<>>
        ELSE <<heads[Best(heads)][1]>> \o merge[[heads EXCEPT ![Best(heads)] = Tail(@)]]
  IN  merge[lists]

SortInit ==
  /\ input \in SortInputs
  /\ slots = [i \in SortIndexes |-> <<>>]
  /\ written = [i \in SortIndexes |-> FALSE]
  /\ opened = [i \in SortIndexes |-> [prop |-> "none", table |-> NoData]]
  /\ sortedData = [i \in SortIndexes |-> <<>>]
  /\ done = 0
  /\ order = <<>>

SortResults ==
  /\ \A i \in SortIndexes : written[i]
  /\ done < Len(input.searches)
  /\ LET search == input.searches[done + 1]
     IN  \E loaded \in {[i \in SortIndexes |-> LoadSortedProps(i, search.keys)]} :
           /\ opened' = [i \in SortIndexes |-> loaded[i].cur]
           /\ sortedData' = [i \in SortIndexes |-> loaded[i].data]
           /\ \E lists \in {[i \in SortIndexes |->
                  SortSingleIndex(i, search.keys, loaded[i].data, search.found[i])]} :
                order' = MergeLists(search.keys, lists)
  /\ done' = done + 1
  /\ UNCHANGED <<input, slots, written>>

SortNext == (\E i \in SortIndexes : SortFileProperties(i)) \/ SortResults

SortSpec == SortInit /\ [][SortNext]_sortVars

-----------------------------------------------------------------------------
(* What is promised.                                                       *)

\* The number a value sorts as: of numbers their value, of texts the letters
\* that count, each a digit, from the left.
Weight(p, v) ==
  LET digits == [k \in 1..(IF p.kind \in {"string", "nocase"} THEN p.len ELSE 2) |->
                   IF k > Len(v) THEN 0 ELSE (IF p.kind = "nocase" THEN Fold(v[k]) ELSE v[k]) + 1]
  IN  FoldLeft(LAMBDA w, d : w * 32 + d, 0, digits)

Sense(key, r) ==
  (IF key.prop = "rank" THEN r[2].rank
   ELSE LET p == PropOf(key.prop)
        IN  IF p.kind = "internal" THEN r[2].file
            ELSE Weight(p, input.indexes[r[1]][r[2].file][p.name])) * key.direction

\* The results of a search are all those found, and whichever of them have
\* tables of their properties' order, come in the order of the keys asked for:
\* no result stands before one that a key puts before it and on which the keys
\* before that one agree.
OrderAsked ==
  done > 0 =>
    LET search == input.searches[done]
    IN  /\ Range(order) = UNION {{<<i, r>> : r \in Range(search.found[i])} : i \in SortIndexes}
        /\ IsInjective(order)
        /\ \A j \in 1..(Len(order) - 1), k \in DOMAIN search.keys :
             (\A h \in 1..(k - 1) : Sense(search.keys[h], order[j]) = Sense(search.keys[h], order[j + 1]))
               => Sense(search.keys[k], order[j]) >= Sense(search.keys[k], order[j + 1])
=============================================================================
