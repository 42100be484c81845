------------------------------- MODULE Library -------------------------------
(***************************************************************************)
(* The library and its Perl module (swish2.c, search.c, headers.c,         *)
(* metanames.c, docprop.c, stemmer.c, error.c, perl/API.xs): the objects a *)
(* program holds, who keeps whom in memory, the error of the last call and *)
(* the sort keys of a search, on which the program may crash.  One action  *)
(* is one call, or one variable of the program that goes out of scope.     *)
(*                                                                         *)
(* Left out: how a query is answered (module Query) and results are put in *)
(* order (Results), limits (PropertyLimits), and the values of properties  *)
(* and headers, which the Perl module copies at once.                      *)
(***************************************************************************)
EXTENDS Integers, Sequences, SequencesExt, FiniteSets, FiniteSetsExt

CONSTANTS
  IndexFacts, \* the indexes: for each, its properties and their types
  Answers,    \* the queries, and what each index has to say to them:
              \* [error, words |-> BOOLEAN, hits]
  NoQuery,    \* the empty query
  SortWords,  \* the arguments tried for SwishSetSort, words in a row
  SortStep,   \* the keys sort_data grows by
  ErrorNumber,\* the errors of queries, and their place in the enumeration
  Ids         \* of the objects besides the handle

ASSUME LibraryFacts ==
  /\ DOMAIN IndexFacts = 1..Len(IndexFacts) /\ Len(IndexFacts) \in Nat
  /\ SortStep \in Nat \ {0}

VARIABLES
  objects,    \* what the program refers to: [kind, of, refs, held, ...]
  memory,     \* the structures of the library that are not freed
  lastError,  \* sw->lasterror
  crashed     \* the program ended in a call

libVars == <<objects, memory, lastError, crashed>>

OK == "RC_OK"
Handle == "handle"
Places == DOMAIN IndexFacts
Held(kind) == {o \in DOMAIN objects : objects[o].kind = kind /\ objects[o].held}
Usable == {o \in Held("handle") : objects[o].opened}

----------------------------------------------------------------------------
(* Objects.  Each counts in the one it came from: results in their results, *)
(* these, searches and metanames in the handle.                            *)

New(o, object) ==
  objects' = [x \in DOMAIN objects \cup {o} |->
                IF x = o THEN object
                ELSE IF x = object.of THEN [objects[x] EXCEPT !.refs = @ + 1]
                ELSE objects[x]]

\* SvREFCNT_dec: what nothing refers to any more is gone.
CountedDown(f, o) ==
  IF f[o].refs > 1 THEN [f EXCEPT ![o].refs = @ - 1]
  ELSE [x \in DOMAIN f \ {o} |-> f[x]]

\* A slip: an object does not count down in the one it came from.
DroppedAlone(f, o) == CountedDown(f, o)

\* Its DESTROY frees the structure and then counts down in the object it came
\* from.
DroppedWith(f, o, of) ==
  IF o \in DOMAIN CountedDown(f, o) THEN CountedDown(f, o)
  ELSE CountedDown(CountedDown(f, o), of)
Dropped(f, o) ==
  IF o = Handle THEN CountedDown(f, o)
  ELSE IF f[o].of = Handle THEN DroppedWith(f, o, Handle)
  ELSE IF o \in DOMAIN CountedDown(f, o) THEN CountedDown(f, o)
  ELSE DroppedWith(CountedDown(f, o), f[o].of, Handle)

\* Freed in DESTROY; a result is part of its results, a metaname of the handle.
Structures(f) == {o \in DOMAIN f : f[o].kind \in {"handle", "search", "results"}}

Scope ==
  /\ \E o \in DOMAIN objects :
       /\ objects[o].held
       /\ objects' = Dropped([objects EXCEPT ![o].held = FALSE], o)
  /\ memory' = memory \ (Structures(objects) \ Structures(objects'))
  /\ UNCHANGED <<lastError, crashed>>

\* reset_lasterror, and the error this call finds.
Outcome(error) == lastError' = error

\* SwishInit: there is a handle also if an index cannot be opened.
SwishInit ==
  /\ objects = <<>>
  /\ \E opened \in BOOLEAN :
       /\ objects' = [o \in {Handle} |->
            [kind |-> "handle", of |-> Handle, refs |-> 1, held |-> TRUE, opened |-> opened]]
       /\ Outcome(IF opened THEN OK ELSE "INDEX_FILE_ERROR")
  /\ memory' = {Handle}
  /\ UNCHANGED crashed

----------------------------------------------------------------------------
(* Searches.                                                               *)

NewSearchObject ==
  /\ Usable # {}
  /\ \E o \in Ids \ DOMAIN objects, q \in DOMAIN Answers \cup {NoQuery} :
       /\ New(o, [kind |-> "search", of |-> Handle, refs |-> 1, held |-> TRUE,
                  sort |-> <<>>, query |-> q])
       /\ memory' = memory \cup {o}
  /\ Outcome(OK)
  /\ UNCHANGED crashed

\* An empty string leaves what was set.
SwishSetSort ==
  /\ \E o \in Held("search"), words \in SortWords :
       objects' = IF words = <<>> THEN objects ELSE [objects EXCEPT ![o].sort = words]
  /\ UNCHANGED <<memory, lastError, crashed>>

\* The keys: a name, and its direction if the next word is one.
SortKeys(words) ==
  LET directed(k) == k < Len(words) /\ words[k + 1] \in {"asc", "desc"}
      from[k \in 1..(Len(words) + 1)] ==
        IF k > Len(words) THEN <<>>
        ELSE IF directed(k) THEN <<<<words[k], words[k + 1]>>>> \o from[k + 2]
        ELSE <<<<words[k], "asc">>>> \o from[k + 1]
  IN from[1]

\* sort_data is cleared whenever it grows; the keys it held have no property
\* any more.
Cleared(keys) == {i \in DOMAIN keys : i <= SortStep * ((Len(keys) - 1) \div SortStep)}

\* Key by key, index by index: a property must be known, and of the type it
\* has in the index before.
BadKeys(keys, p) ==
  {i \in DOMAIN keys :
     \/ keys[i][1] \notin DOMAIN IndexFacts[p]
     \/ /\ p > 1 /\ keys[i][1] \in DOMAIN IndexFacts[p - 1]
        /\ IndexFacts[p - 1][keys[i][1]] # IndexFacts[p][keys[i][1]]}

SortError(keys) ==
  LET bad == {p \in Places : BadKeys(keys, p) # {}}
  IN IF bad = {} THEN [error |-> OK, read |-> Len(IndexFacts)]
     ELSE LET p == Min(bad)
              i == Min(BadKeys(keys, p))
          IN [read |-> p,
              error |-> IF keys[i][1] \notin DOMAIN IndexFacts[p]
                          THEN "UNKNOWN_PROPERTY_NAME_IN_SEARCH_SORT" ELSE "INVALID_PROPERTY_TYPE"]

\* The next index compares its keys with those of the one before, the first key
\* first; without a property there is nothing to compare it with.
ComparesCleared(keys) ==
  /\ Cleared(keys) # {} /\ Len(IndexFacts) > 1 /\ BadKeys(keys, 1) = {}
  /\ keys[1][1] \in DOMAIN IndexFacts[2]

\* query_index for each index in turn.  The error is kept if it is less than
\* the one before.
Asked(s, a) ==
  IF s.stop THEN s
  ELSE [stop  |-> a.error = "QUERY_SYNTAX_ERROR",
        words |-> s.words \/ a.words,
        hits  |-> s.hits + a.hits,
        error |-> IF a.error # OK /\ ErrorNumber[a.error] < ErrorNumber[s.error] THEN a.error ELSE s.error]
AllAsked(q) ==
  FoldLeft(Asked, [stop |-> FALSE, words |-> FALSE, hits |-> 0, error |-> OK], Answers[q])

\* SwishExecute: there are results, to be freed by the caller, whatever happens;
\* unless a cleared key is compared or sorted by.
Found(o, q, sort) ==
  LET keys == SortKeys(sort)
      bad  == SortError(keys)
      s    == AllAsked(q)
      end  == IF s.stop THEN "QUERY_SYNTAX_ERROR"
              ELSE IF ~s.words THEN (IF s.error = OK THEN "NO_WORDS_IN_SEARCH" ELSE s.error)
              ELSE IF s.hits = 0 THEN s.error ELSE OK
      sorted == bad.error = OK /\ q # NoQuery /\ end = OK /\ s.hits > 0
      made(hits, error) ==
        /\ New(o, [kind |-> "results", of |-> Handle, refs |-> 1, held |-> TRUE,
                   hits |-> hits, at |-> 0, read |-> bad.read, keys |-> keys])
        /\ memory' = memory \cup {o}
        /\ Outcome(error)
        /\ UNCHANGED crashed
  IN IF ComparesCleared(keys) \/ (sorted /\ Cleared(keys) # {})
       THEN crashed' = TRUE /\ UNCHANGED <<objects, memory, lastError>>
     ELSE IF bad.error # OK THEN made(0, bad.error)
     ELSE IF q = NoQuery THEN made(0, "NO_WORDS_IN_SEARCH")
     ELSE made(IF end = OK THEN s.hits ELSE 0, end)

\* On a search that is kept, with another query or not ...
SwishExecute ==
  \E o \in Held("search"), r \in Ids \ DOMAIN objects :
    Found(r, objects[o].query, objects[o].sort)

SwishSetQuery ==
  /\ \E o \in Held("search"), q \in DOMAIN Answers : objects' = [objects EXCEPT ![o].query = q]
  /\ UNCHANGED <<memory, lastError, crashed>>

\* ... and on one of its own, freed before the call returns.
SwishQuery ==
  /\ Usable # {}
  /\ \E r \in Ids \ DOMAIN objects, q \in DOMAIN Answers \cup {NoQuery} :
       Found(r, q, <<>>)

----------------------------------------------------------------------------
(* Results, and what is known of the index.                                *)

SwishNextResult ==
  /\ \E r \in Held("results") :
       IF objects[r].at < objects[r].hits
         THEN \E o \in Ids \ DOMAIN objects, p \in Places :
                objects' = [x \in DOMAIN objects \cup {o} |->
                  IF x = o THEN [kind |-> "result", of |-> r, refs |-> 1, held |-> TRUE, place |-> p]
                  ELSE IF x = r THEN [objects[x] EXCEPT !.refs = @ + 1, !.at = @ + 1]
                  ELSE objects[x]]
         ELSE UNCHANGED objects
  /\ Outcome(OK)
  /\ UNCHANGED <<memory, crashed>>

SwishSeekResult ==
  /\ \E r \in Held("results"), pos \in 0..2 :
       /\ objects' = [objects EXCEPT ![r].at = IF pos < objects[r].hits THEN pos ELSE objects[r].hits]
       /\ Outcome(IF IF objects[r].read = 1 THEN pos >= objects[r].hits ELSE pos > objects[r].hits
              THEN "SWISH_LISTRESULTS_EOF" ELSE OK)
  /\ UNCHANGED <<memory, crashed>>

\* SwishResultPropertyStr and getResultPropValue.
SwishProperty ==
  /\ \E t \in Held("result"), name \in UNION {DOMAIN IndexFacts[p] : p \in Places} :
       IF name \in DOMAIN IndexFacts[objects[t].place]
         THEN Outcome(OK)
         ELSE Outcome("UNKNOWN_PROPERTY_NAME_IN_SEARCH_DISPLAY")
  /\ UNCHANGED <<objects, memory, crashed>>

\* SwishMetaList and SwishPropertyList, of one index by its name: nothing is
\* reset.  push_meta_list dies if there is an error.
SwishMetaList ==
  /\ Usable # {}
  /\ \/ Outcome("HEADER_READ_ERROR") /\ UNCHANGED objects
     \/ /\ lastError = OK
        /\ \E o \in Ids \ DOMAIN objects :
             New(o, [kind |-> "meta", of |-> Handle, refs |-> 1, held |-> TRUE])
        /\ UNCHANGED lastError
  /\ UNCHANGED <<memory, crashed>>

\* SwishHeaderValue, SwishFuzzify and SwishWordsByLetter of no index; of one
\* they change nothing.
SwishHeaderValue ==
  /\ Usable # {}
  /\ Outcome("HEADER_READ_ERROR")
  /\ UNCHANGED <<objects, memory, crashed>>

----------------------------------------------------------------------------
LibInit ==
  /\ objects = <<>> /\ memory = {}
  /\ lastError = OK /\ crashed = FALSE

LibNext ==
  /\ ~crashed
  /\ \/ SwishInit \/ NewSearchObject \/ SwishSetSort \/ SwishSetQuery \/ SwishExecute
     \/ SwishQuery \/ SwishNextResult \/ SwishSeekResult \/ SwishProperty \/ SwishMetaList
     \/ SwishHeaderValue \/ Scope

LibSpec == LibInit /\ [][LibNext]_libVars

----------------------------------------------------------------------------
\* What a call on o reads, and DESTROY: its structure, and those it is part of.
Reads(o) ==
  (IF objects[o].kind \in {"result", "meta"} THEN {} ELSE {o}) \cup {objects[o].of, Handle}

\* In whatever order the variables of a program go out of scope, what is left
\* in memory is what the others still read, and nothing else: a result keeps
\* its results, these and a search keep the handle, results outlive their
\* search, and at the end all is freed.
MemoryExact ==
  memory = UNION {Reads(o) : o \in {x \in DOMAIN objects : objects[x].held}}

\* The results of several indexes can be compared: each index has every sort
\* key, and with the same type.
KeysComparable ==
  \A r \in Held("results") :
    objects[r].hits > 0 =>
      \A i \in DOMAIN objects[r].keys, p, q \in Places :
        /\ objects[r].keys[i][1] \in DOMAIN IndexFacts[p]
        /\ IndexFacts[p][objects[r].keys[i][1]] = IndexFacts[q][objects[r].keys[i][1]]

\* The same for both: what a program holds can be used.
ObjectsUsable == MemoryExact /\ KeysComparable

\* What holds after every call, for the proof: an object came from one that is
\* still there, and its count is that of the objects which came from it, and
\* of the program's variable.
Came(f, o) == {c \in DOMAIN f \ {Handle} : f[c].of = o}
Referring(f, o) == Cardinality(Came(f, o)) + (IF f[o].held THEN 1 ELSE 0)
ObjectOK(f, o) ==
  /\ f[o].refs \in Nat /\ f[o].held \in BOOLEAN
  /\ {"kind", "of", "refs", "held"} \subseteq DOMAIN f[o]
  /\ f[o].kind = "results" => {"hits", "keys"} \subseteq DOMAIN f[o]
  /\ Handle \in DOMAIN f /\ (o = Handle <=> f[o].kind = "handle")
  /\ f[o].kind \in {"handle", "search", "results", "meta"} => f[o].of = Handle
  /\ f[o].kind \notin {"handle", "search", "results", "meta"} =>
       f[o].kind = "result" /\ f[o].of \in DOMAIN f /\ f[f[o].of].kind = "results"
Counted(f) == \A o \in DOMAIN f : f[o].refs = Referring(f, o) /\ f[o].refs > 0
LibInv ==
  /\ IsFiniteSet(DOMAIN objects)
  /\ \A o \in DOMAIN objects : ObjectOK(objects, o)
  /\ Counted(objects)
  /\ memory = Structures(objects)
  /\ KeysComparable

\* Whatever keys results are to be sorted by, the call returns.
SearchReturns == ~crashed
=============================================================================
