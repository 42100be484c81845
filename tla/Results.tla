------------------------------ MODULE Results ------------------------------
(***************************************************************************)
(* A search over several index files and the reading of its results:       *)
(* SwishExecute, query_index, limit_result_list, SwishSeekResult and       *)
(* SwishNextResult (search.c), sortresults and compare_results             *)
(* (result_sort.c).  Each index is queried on its own - it may find the    *)
(* query malformed, made of its stop words only, or name a metaname it     *)
(* lacks - and sorted on its own; the lists are merged while they are read.*)
(*                                                                         *)
(* What one index makes of the query is module Query; here it is any       *)
(* outcome.  Results are ordered by one key.  Left out: the scaling of     *)
(* ranks, the loading of property arrays, allocation.                      *)
(***************************************************************************)
EXTENDS Integers, Sequences, SequencesExt, FiniteSets, FiniteSetsExt

CONSTANTS
  MaxIndexes,    \* a handle has 1..MaxIndexes index files
  FileNumbers,         \* the file numbers of an index
  Key,           \* Key[index][file]: the value sorted by, the greatest first
  MaxRec,        \* a bound on cur_rec_number, for reading and seeking
  None           \* a model value: no result

ASSUME ResultsAssumption ==
  /\ MaxIndexes \in Nat \ {0}
  /\ MaxRec \in Nat
  /\ IsFiniteSet(FileNumbers)
  /\ \A i \in 1..MaxIndexes, f \in FileNumbers : Key[i][f] \in Nat

\* error.h: the codes query_index and SwishExecute can leave, as the enum has
\* them.
RC_OK               == 0
NO_WORDS_IN_SEARCH  == -253
WORDS_TOO_COMMON    == -252
INDEX_FILE_IS_EMPTY == -251
UNKNOWN_METANAME    == -246
QUERY_SYNTAX_ERROR  == -237

VARIABLES
  n,             \* the index files of the handle are 1..n
  phase,         \* "query", "sort", "read", or "failed" on a malformed query
  cur,           \* the index queried next
  totalFiles,    \* results->total_files
  wordsFound,    \* results->search_words_found
  indexResults,    \* indexResults[i]: the results of index i
  swError,       \* sw->lasterror
  resError,      \* results->lasterror
  sorted,        \* sorted[i]: db_results->sortresultlist
  current,       \* current[i]: the part of sorted[i] from currentresult on
  totalResults,  \* results->total_results
  recNumber,     \* results->cur_rec_number
  handed,        \* the result SwishNextResult returned last
  sought,        \* what the last SwishSeekResult answered
  counted,       \* FALSE after a seek that left cur_rec_number as it was
  errors         \* a history of the errors the indexes reported

execVars == <<totalFiles, wordsFound, indexResults, resError, totalResults, errors>>
resultsVars == <<n, phase, cur, execVars, swError, sorted, current, recNumber, handed, sought, counted>>

Indexes == 1..n

ResultsInit ==
  /\ n \in 1..MaxIndexes
  /\ phase = "query"
  /\ cur = 1
  /\ totalFiles = 0 /\ wordsFound = 0
  /\ indexResults = [i \in 1..n |-> {}]
  /\ swError = RC_OK /\ resError = RC_OK
  /\ sorted = [i \in 1..n |-> <<>>]
  /\ current = [i \in 1..n |-> <<>>]
  /\ totalResults = 0 /\ recNumber = 0
  /\ handed = None /\ sought = "ok" /\ counted = TRUE
  /\ errors = {}

----------------------------------------------------------------------------
(* SwishExecute.                                                           *)

\* A slip: the last error counts, whichever it is.
RecordedLast(e) == e

\* Errors that do not end the search leave the smallest code.
Recorded(e) == IF e < resError THEN e ELSE resError

\* What SwishExecute does with the error query_index left.
AfterQuery(e) ==
  /\ errors' = errors \cup ({e} \ {RC_OK})
  /\ IF e = QUERY_SYNTAX_ERROR
       THEN phase' = "failed" /\ swError' = e /\ UNCHANGED <<cur, resError>>
       ELSE /\ resError' = IF e = RC_OK THEN resError ELSE Recorded(e)
            /\ swError' = RC_OK
            /\ cur' = cur + 1
            /\ phase' = IF cur = n THEN "sort" ELSE "query"

\* query_index: parse_swish_query returned no list.
QueryFails ==
  /\ phase = "query"
  /\ \E header \in {0, Cardinality(FileNumbers)},
        e \in {RC_OK, NO_WORDS_IN_SEARCH, WORDS_TOO_COMMON, UNKNOWN_METANAME, QUERY_SYNTAX_ERROR} :
       /\ totalFiles' = totalFiles + header
       /\ AfterQuery(e)
  /\ UNCHANGED <<n, wordsFound, indexResults, sorted, current, totalResults,
                 recNumber, handed, sought, counted>>

\* query_index: parseterm found some files, limit_result_list left some.
QueryFinds ==
  /\ phase = "query"
  /\ \E header \in {0, Cardinality(FileNumbers)}, files \in SUBSET FileNumbers :
       /\ header = 0 => files = {}
       /\ indexResults' = [indexResults EXCEPT ![cur] = files]
       /\ totalFiles' = totalFiles + header
  /\ wordsFound' = wordsFound + 1
  /\ AfterQuery(RC_OK)
  /\ UNCHANGED <<n, sorted, current, totalResults, recNumber, handed, sought, counted>>

KeyOf(r) == Key[r[1]][r[2]]

\* sort_single_index_results: by key, equal keys in any order (qsort).
Sortings(i) ==
  {s \in SetToSeqs({<<i, f>> : f \in indexResults[i]}) :
     \A j, k \in 1..Len(s) : j < k => KeyOf(s[j]) >= KeyOf(s[k])}

FoundResults == UNION {{<<i, f>> : f \in indexResults[i]} : i \in Indexes}
Total == Cardinality(FoundResults)

FinalError ==
  IF totalFiles = 0 THEN INDEX_FILE_IS_EMPTY
  ELSE IF wordsFound = 0 THEN (IF resError # RC_OK THEN resError ELSE NO_WORDS_IN_SEARCH)
  ELSE IF Total = 0 THEN resError
  ELSE RC_OK

\* The end of SwishExecute: without words there is no sorting.
Sort ==
  /\ phase = "sort"
  /\ phase' = "read"
  /\ swError' = FinalError
  /\ IF totalFiles = 0 \/ wordsFound = 0
       THEN UNCHANGED <<sorted, current, totalResults>>
       ELSE /\ sorted' \in {s \in [Indexes -> UNION {Sortings(i) : i \in Indexes}] :
                              \A i \in Indexes : s[i] \in Sortings(i)}
            /\ current' = sorted'
            /\ totalResults' = Total
  /\ UNCHANGED <<n, cur, totalFiles, wordsFound, indexResults, resError, errors,
                 recNumber, handed, sought, counted>>

----------------------------------------------------------------------------
(* Reading.                                                                *)

Live(lists) == {i \in Indexes : lists[i] # <<>>}

\* A slip: the least of the next results wins.
WinnerLeast(lists) ==
  CHOOSE i \in Live(lists) :
    \A j \in Live(lists) : KeyOf(lists[i][1]) <= KeyOf(lists[j][1])

\* The tape merge: the first of the indexes whose next result is the greatest.
Winner(lists) ==
  CHOOSE i \in Live(lists) :
    \A j \in Live(lists) :
      \/ KeyOf(lists[i][1]) > KeyOf(lists[j][1])
      \/ KeyOf(lists[i][1]) = KeyOf(lists[j][1]) /\ i <= j

Pop(lists) ==
  IF Live(lists) = {} THEN lists ELSE [lists EXCEPT ![Winner(lists)] = Tail(@)]

SwishNextResult ==
  /\ phase \in {"read", "failed"}
  /\ recNumber <= MaxRec
  /\ IF Live(current) = {}
       THEN handed' = None /\ UNCHANGED recNumber
       ELSE /\ handed' = current[Winner(current)][1]
            /\ recNumber' = recNumber + 1
  /\ current' = Pop(current)
  /\ swError' = RC_OK
  /\ UNCHANGED <<n, phase, cur, execVars, sorted, sought, counted>>

\* One index: the pointer walks along its list.
SeekOne ==
  /\ phase \in {"read", "failed"} /\ n = 1
  /\ recNumber <= MaxRec
  /\ \E p \in 0..(totalResults + 1) :
       LET left == SubSeq(sorted[1], p + 1, Len(sorted[1]))
       IN /\ current' = [current EXCEPT ![1] = left]
          /\ IF left # <<>> THEN sought' = "ok" /\ recNumber' = p /\ counted' = TRUE
                            ELSE sought' = "eof" /\ counted' = FALSE /\ UNCHANGED recNumber
  /\ swError' = RC_OK
  /\ UNCHANGED <<n, phase, cur, execVars, sorted, handed>>

\* The lists after p readings.
Popped(lists, p) ==
  LET after[k \in 0..p] == IF k = 0 THEN lists ELSE Pop(after[k - 1])
  IN  after[p]

\* A slip: the pointers are not put back before the results are read again.
SeekManyOnward ==
  /\ phase \in {"read", "failed"} /\ n > 1
  /\ recNumber <= MaxRec
  /\ \E p \in 1..(totalResults + 1) :
       /\ current' = Popped(current, p)
       /\ IF p <= totalResults
               THEN sought' = "ok" /\ recNumber' = p /\ counted' = TRUE
               ELSE sought' = "eof" /\ counted' = FALSE /\ UNCHANGED recNumber
  /\ swError' = RC_OK
  /\ UNCHANGED <<n, phase, cur, execVars, sorted, handed>>

\* Several: all pointers go back, and SwishNextResult is called p times or
\* until it has nothing left, counting on in cur_rec_number.
SeekMany ==
  /\ phase \in {"read", "failed"} /\ n > 1
  /\ recNumber <= MaxRec
  /\ \E p \in 1..(totalResults + 1) :
       /\ current' = Popped(sorted, p)
       /\ IF p <= totalResults
               THEN sought' = "ok" /\ recNumber' = p /\ counted' = TRUE
               ELSE /\ sought' = "eof" /\ counted' = FALSE
                    /\ recNumber' = recNumber + totalResults
  /\ swError' = RC_OK
  /\ UNCHANGED <<n, phase, cur, execVars, sorted, handed>>

\* Several, to the first result: an early return, before cur_rec_number is set.
SeekStart ==
  /\ phase \in {"read", "failed"} /\ n > 1
  /\ current' = sorted
  /\ sought' = "ok"
  /\ counted' = (recNumber = 0)
  /\ swError' = RC_OK
  /\ UNCHANGED <<n, phase, cur, execVars, sorted, recNumber, handed>>

----------------------------------------------------------------------------
ResultsNext ==
  \/ QueryFails
  \/ QueryFinds
  \/ Sort
  \/ SwishNextResult
  \/ SeekOne
  \/ SeekMany
  \/ SeekStart

ResultsSpec == ResultsInit /\ [][ResultsNext]_resultsVars

----------------------------------------------------------------------------
(* Properties.                                                             *)

AllResults == {<<i, f>> : i \in 1..MaxIndexes, f \in FileNumbers}

ResultsTypeOK ==
  /\ n \in 1..MaxIndexes /\ cur \in 1..(n + 1)
  /\ phase \in {"query", "sort", "read", "failed"}
  /\ totalFiles \in Nat /\ wordsFound \in 0..n
  /\ indexResults \in [Indexes -> SUBSET FileNumbers]
  /\ {swError, resError} \subseteq {RC_OK, NO_WORDS_IN_SEARCH, WORDS_TOO_COMMON,
       INDEX_FILE_IS_EMPTY, UNKNOWN_METANAME, QUERY_SYNTAX_ERROR}
  /\ sorted \in [Indexes -> Seq(AllResults)] /\ current \in [Indexes -> Seq(AllResults)]
  /\ totalResults \in 0..Cardinality(AllResults) /\ recNumber \in Nat
  /\ handed \in AllResults \cup {None}
  /\ sought \in {"ok", "eof"} /\ counted \in BOOLEAN
  /\ \A i \in Indexes : IsSuffix(current[i], sorted[i])

\* The error reported depends on what the indexes said and not on their order:
\* none when any of them found a result, else the smallest code.  (A malformed
\* query ends the search at once.)
ErrorOrderFree ==
  [][phase = "sort" =>
       swError' = IF Total > 0 THEN RC_OK
                  ELSE IF totalFiles = 0 THEN INDEX_FILE_IS_EMPTY
                  ELSE IF errors # {} THEN Min(errors)
                  ELSE IF wordsFound > 0 THEN RC_OK ELSE NO_WORDS_IN_SEARCH]_resultsVars

\* The lists of all indexes in the order of the merge: the best key first, equal
\* keys by index, those of one index as they were sorted.
Slots == UNION {{<<i, k>> : k \in 1..Len(sorted[i])} : i \in Indexes}
Precedes(x, y) ==
  LET a == KeyOf(sorted[x[1]][x[2]])
      b == KeyOf(sorted[y[1]][y[2]])
  IN IF x[1] = y[1] THEN x[2] < y[2] ELSE a > b \/ (a = b /\ x[1] < y[1])
Merged ==
  [k \in 1..Cardinality(Slots) |->
     LET at == CHOOSE x \in Slots : Cardinality({y \in Slots : Precedes(y, x)}) = k - 1
     IN sorted[at[1]][at[2]]]

\* The slots before the places the lists are read from.
Behind(lists) == {x \in Slots : x[2] <= Len(sorted[x[1]]) - Len(lists[x[1]])}
Position == Cardinality(Behind(current))

Abstract == INSTANCE ResultCursor WITH
  Results <- AllResults,
  Rank    <- KeyOf,
  found   <- FoundResults,
  ready   <- phase = "read",
  list    <- Merged,
  pos     <- Position

\* Whatever the indexes found and in whatever order equal keys came out of the
\* sorting, the merge hands out every result once and in order, and seeking,
\* forwards or backwards, before or after the end, goes on from the place asked
\* for: the results object implements one list with a cursor.
ImplementsCursor == Abstract!Spec

\* swishreccount, the record number the properties of a result are printed
\* with, counts the results up to the one handed out, also after seeking - but
\* for the early return of a seek to the start of several indexes.
RecordNumber ==
  phase = "read" /\ counted => recNumber = Position
=============================================================================
