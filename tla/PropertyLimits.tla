--------------------------- MODULE PropertyLimits ---------------------------
(***************************************************************************)
(* Limits of a search object to ranges of property values (-L:             *)
(* proplimit.c, with the presorted orders of pre_sort.c and the calls in   *)
(* search.c).  Limits are collected, made into tables at the first         *)
(* execution, and kept until they are reset.                               *)
(*                                                                         *)
(* A table is made from the order of the documents by a property, stored   *)
(* in the index, with a binary search that reads the documents' values.    *)
(* Values are numbers: 0 stands for a document without the property, which *)
(* is less than any, and for an open end of a range.                       *)
(***************************************************************************)
EXTENDS Integers, Sequences, FiniteSets

CONSTANTS
  Properties,   \* property names
  LimitLists,   \* index files: sequences of [value, presorted]
  Limits,       \* limits asked for: [prop, lo, hi]
  MaxLimits     \* bound: limits collected

ASSUME LimitsAssumption ==
  /\ LimitLists \subseteq Seq([value : [Properties -> Seq(Nat)],
                               presorted : [Properties -> BOOLEAN]])
  /\ \A list \in LimitLists : \A i \in DOMAIN list : \A p, q \in Properties :
       Len(list[i].value[p]) = Len(list[i].value[q])
  /\ \A p \in Limits : p.lo \in Nat /\ p.hi \in Nat

VARIABLES
  indexes,      \* value[p][f], and for which properties there is an order
  params,       \* limit_params, the last one first
  prepared,     \* limits_prepared # 0
  limits,       \* prop_limits: per index and property [lo, hi, inRange]
  answer        \* of the last execution: the documents that passed, as
                \* <<index, file>>, or nothing or an error

limVars == <<indexes, params, prepared, limits, answer>>

Nothing == [kind |-> "nothing", found |-> {}]
Failed == [kind |-> "error", found |-> {}]
Passed(found) == [kind |-> "results", found |-> found]

FilesIn(index) == 1..Len(index.value[CHOOSE p \in Properties : TRUE])

NoTable == {-1}     \* inPropRange = NULL
NoLimit == [lo |-> 0, hi |-> 0, inRange |-> NoTable]

-----------------------------------------------------------------------------
(* Tables.                                                                 *)

(* CreatePropSortArray: equal values have equal numbers.                   *)
SortNumber(value, f) == Cardinality({value[g] : g \in {h \in DOMAIN value : value[h] < value[f]}})

(* Equal ones may stand in any order in the array.                         *)
Before(value, f, g) ==
  \/ SortNumber(value, f) < SortNumber(value, g)
  \/ SortNumber(value, f) = SortNumber(value, g) /\ f < g
Place(value, f) == Cardinality({g \in DOMAIN value : Before(value, g, f)})

(* The documents as create_lookup_array has sorted them by those numbers,  *)
(* and their values.                                                       *)
LookupOrder(value) ==
  [i \in DOMAIN value |-> CHOOSE f \in DOMAIN value : Place(value, f) = i - 1]
SortedValues(value) == [i \in DOMAIN value |-> value[LookupOrder(value)[i]]]

(* test_prop: the sign of the comparison.                                  *)
TestProp(key, v) == IF key < v THEN -1 ELSE IF key > v THEN 1 ELSE 0

(* Slip: the search stops at the first match.                              *)
AfterMatchStops(cmp, direction) == IF cmp = 0 THEN -direction ELSE cmp

(* Among equal values the search goes on in its direction.                 *)
AfterMatch(cmp, direction) == IF cmp = 0 THEN direction ELSE cmp

(* The elements still looked at are num from low on; exact is the last     *)
(* match. Indices are those of C, from 0.                                  *)
Part(low, num, exact) == [low |-> low, num |-> num, exact |-> exact]

(* One round of binary_search, with at least two elements.                 *)
Halved(s, key, direction, part) ==
  LET half == part.num \div 2
      left == IF part.num % 2 = 1 THEN half ELSE half - 1
      mid == part.low + left
      cmp == TestProp(key, s[mid + 1])
      exact == IF cmp = 0 THEN mid ELSE part.exact
  IN  IF part.num < 2 THEN part
      ELSE IF AfterMatch(cmp, direction) < 0 THEN Part(part.low, left, exact)
      ELSE Part(mid + 1, half, exact)

(* An element or none is left.                                             *)
Narrowed(s, key, direction) ==
  LET part[n \in 0..Len(s)] ==
        IF n = 0 THEN Part(0, Len(s), -1) ELSE Halved(s, key, direction, part[n - 1])
  IN  part[Len(s)]

Found(found, at) == [found |-> found, at |-> at]

LastCompared(s, key, low) ==
  LET cmp == TestProp(key, s[low + 1])
  IN  IF cmp = 0 THEN Found(TRUE, low)
      ELSE IF cmp > 0 THEN Found(FALSE, low + 1)
      ELSE IF low > 0 /\ TestProp(key, s[low]) < 0 THEN Found(FALSE, low - 1)
      ELSE Found(FALSE, low)

BinarySearch(s, key, part) ==
  IF part.num = 0 THEN Found(FALSE, part.low) ELSE LastCompared(s, key, part.low)

(* An end of the range: an exact match seen on the way counts as found.    *)
ExactOrNear(search, exact) ==
  IF ~search.found /\ exact >= 0 THEN Found(TRUE, exact) ELSE search
SearchedEnd(s, key, part) == ExactOrNear(BinarySearch(s, key, part), part.exact)
RangeEnd(s, key, direction, open) ==
  IF key = 0 THEN Found(TRUE, open) ELSE SearchedEnd(s, key, Narrowed(s, key, direction))

(* find_prop: the positions in range.                                      *)
Between(low, high) ==
  IF ~low.found /\ ~high.found /\ low.at = high.at THEN {}
  ELSE low.at..(IF ~high.found /\ low.at < high.at THEN high.at - 1 ELSE high.at)
FindProp(s, lo, hi) ==
  (0..(Len(s) - 1)) \cap Between(RangeEnd(s, lo, -1, 0), RangeEnd(s, hi, 1, Len(s) - 1))

(* create_lookup_array: the documents in range; no table if all are.       *)
TableOf(value, selected) ==
  IF selected # {} /\ {0, Len(value) - 1} \subseteq selected THEN NoTable
  ELSE {LookupOrder(value)[j + 1] : j \in selected}
LookupArray(value, lo, hi) == TableOf(value, FindProp(SortedValues(value), lo, hi))

-----------------------------------------------------------------------------
(* load_index for one index.                                               *)

WrongParam(p) == p.prop \notin Properties \/ (p.lo # 0 /\ p.hi # 0 /\ p.lo > p.hi)

(* What one parameter makes of the index's limits.                         *)
Limit(lo, hi, inRange) == [lo |-> lo, hi |-> hi, inRange |-> inRange]
LimitOf(index, p) ==
  Limit(p.lo, p.hi, IF WrongParam(p) \/ ~index.presorted[p.prop] THEN NoTable
                    ELSE LookupArray(index.value[p.prop], p.lo, p.hi))
WithParam(index, lims, p) ==
  IF p.prop \notin Properties THEN lims ELSE [lims EXCEPT ![p.prop] = LimitOf(index, p)]

(* A parameter in error or an empty table ends the loading.                *)
Load(lims, state) == [lims |-> lims, state |-> state]
LoadedAs(lims, p) ==
  Load(lims, IF WrongParam(p) THEN "error"
             ELSE IF lims[p.prop].inRange = {} THEN "no docs" ELSE "ok")
Unlimited == [p \in Properties |-> NoLimit]
Loaded(index) ==
  LET load[n \in 0..Len(params)] ==
        IF n = 0 THEN Load(Unlimited, "ok")
        ELSE IF load[n - 1].state # "ok" THEN load[n - 1]
        ELSE LoadedAs(WithParam(index, load[n - 1].lims, params[n]), params[n])
  IN  load[Len(params)]

(* LimitByProperty: the document is not in a table, or its value not in a  *)
(* range that has no table.                                                *)
LimitByProperty(index, lims, f) ==
  \E p \in Properties :
    LET limit == lims[p]
        v == index.value[p][f]
    IN  /\ limit.lo # 0 \/ limit.hi # 0
        /\ IF limit.inRange # NoTable THEN f \notin limit.inRange
           ELSE v < limit.lo \/ (limit.hi # 0 /\ v > limit.hi)

Searched == UNION {{i} \X FilesIn(indexes[i]) : i \in DOMAIN indexes}

(* The documents that pass; the query selects all of them.                 *)
Passing(lims) ==
  {d \in Searched : ~LimitByProperty(indexes[d[1]], lims[d[1]], d[2])}

-----------------------------------------------------------------------------
(* The search object.                                                      *)

LimInit ==
  /\ indexes \in LimitLists
  /\ params = <<>> /\ prepared = FALSE
  /\ limits = [i \in DOMAIN indexes |-> Unlimited]
  /\ answer = Nothing

(* SwishSetSearchLimit: an error after an execution, or for a property     *)
(* that is limited already.                                                *)
SetSearchLimit(p) ==
  /\ Len(params) < MaxLimits
  /\ IF prepared \/ \E i \in 1..Len(params) : params[i].prop = p.prop
     THEN answer' = Failed /\ UNCHANGED params
     ELSE answer' = Nothing /\ params' = <<p>> \o params
  /\ UNCHANGED <<indexes, prepared, limits>>

(* Prepare_PropLookup.  An index in error ends the preparation, but        *)
(* prepared it is.                                                         *)
PreparePropLookup(loaded) ==
  LET failed == {i \in DOMAIN indexes : loaded[i].state = "error"}
      reached(i) == \A j \in failed : i <= j
  IN  /\ prepared' = TRUE
      /\ limits' = [i \in DOMAIN indexes |->
                      IF reached(i) THEN loaded[i].lims ELSE limits[i]]
      /\ answer' = IF failed # {} THEN Failed
                   ELSE IF \A i \in DOMAIN indexes : loaded[i].state = "no docs"
                   THEN Passed({}) ELSE Passed(Passing(limits'))

(* SwishExecute: the preparation, at the first, and the results filtered.  *)
Execute ==
  /\ UNCHANGED <<indexes, params>>
  /\ IF params = <<>> \/ prepared
     THEN answer' = Passed(Passing(limits)) /\ UNCHANGED <<prepared, limits>>
     ELSE \E loaded \in {[i \in DOMAIN indexes |-> Loaded(indexes[i])]} :
            PreparePropLookup(loaded)

Cleared == [i \in DOMAIN limits |-> Unlimited]

(* SwishResetSearchLimit.                                                  *)
ResetSearchLimit ==
  /\ params' = <<>> /\ answer' = Nothing
  /\ prepared' = FALSE
  /\ limits' = IF prepared THEN Cleared ELSE limits
  /\ UNCHANGED indexes

LimNext ==
  \/ Execute \/ ResetSearchLimit
  \/ \E p \in Limits : SetSearchLimit(p)

LimSpec == LimInit /\ [][LimNext]_limVars

-----------------------------------------------------------------------------
(* Properties.                                                             *)

(* The documents whose properties are all in the ranges asked for.         *)
Meant ==
  {d \in Searched :
     \A n \in 1..Len(params) :
       LET v == indexes[d[1]].value[params[n].prop][d[2]]
       IN  params[n].lo <= v /\ (params[n].hi = 0 \/ v <= params[n].hi)}

Sensible == \A n \in 1..Len(params) : ~WrongParam(params[n])

(* A range without lower end whose upper end is below the values of all    *)
(* the documents of an index.                                              *)
BelowAll ==
  \E i \in DOMAIN indexes, n \in 1..Len(params) :
    /\ params[n].lo = 0
    /\ \A f \in FilesIn(indexes[i]) : indexes[i].value[params[n].prop][f] > params[n].hi

(* An execution answers with the documents in range (pod/SWISH-RUN.pod,    *)
(* -L).                                                                    *)
LimitsMeant == answer.kind = "results" /\ Sensible => answer.found = Meant

(* But for that case it does: whatever duplicates, missing properties and  *)
(* ranges between or outside the values the search meets, with or without  *)
(* an order in the index, for the first index as for the last, the first   *)
(* time as after any resets; an object whose limits were in error is not   *)
(* asked again.                                                            *)
LimitsFollowed == ~BelowAll => LimitsMeant
=============================================================================
