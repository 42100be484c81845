---------------------------- MODULE ResultCursor ----------------------------
(***************************************************************************)
(* What a results object promises the caller of the library, however many  *)
(* indexes were searched (pod/SWISH-LIBRARY.pod, "Reading Results"): one   *)
(* list, best rank first, with every result once, and a position in it.    *)
(***************************************************************************)
EXTENDS Integers, Sequences

CONSTANTS
  Results,       \* the results there can be
  Rank(_),       \* the sort key of a result: the greatest comes first
  None           \* no result

VARIABLES
  found,    \* the results of the search
  ready,    \* the search is over and they can be read
  list,     \* the results in order
  pos,      \* how many are before the cursor
  handed,   \* what the last reading gave
  sought    \* what the last seek answered: "ok", "eof"

vars == <<found, ready, list, pos, handed, sought>>

Init ==
  /\ found = {} /\ ready = FALSE
  /\ list = <<>> /\ pos = 0
  /\ handed = None /\ sought = "ok"

\* The search goes on, in one index after the other.
Find ==
  /\ ~ready
  /\ found' \in SUBSET Results
  /\ found \subseteq found'
  /\ UNCHANGED <<ready, list, pos, handed, sought>>

InOrder(s) == \A i, j \in 1..Len(s) : i < j => Rank(s[i]) >= Rank(s[j])

\* Every result is in the list, and once.
OnceEach(s) ==
  /\ \A i, j \in 1..Len(s) : i # j => s[i] # s[j]
  /\ {s[i] : i \in 1..Len(s)} = found

Deliver ==
  /\ ~ready
  /\ ready' = TRUE
  /\ list' \in Seq(Results) /\ InOrder(list') /\ OnceEach(list')
  /\ UNCHANGED <<found, pos, handed, sought>>

Next_ ==
  /\ IF pos < Len(list)
       THEN handed' = list[pos + 1] /\ pos' = pos + 1
       ELSE handed' = None /\ UNCHANGED pos
  /\ UNCHANGED <<found, ready, list, sought>>

\* A position past the last result is an error; the library does not say what
\* one just behind it is, and one index answers it unlike several.
Seek ==
  /\ \E p \in 0..(Len(list) + 1) :
       /\ pos' = IF p < Len(list) THEN p ELSE Len(list)
       /\ sought' \in {a \in {"ok", "eof"} : (p < Len(list) => a = "ok") /\ (p > Len(list) => a = "eof")}
  /\ UNCHANGED <<found, ready, list, handed>>

Next == Find \/ Deliver \/ Next_ \/ Seek

Spec == Init /\ [][Next]_vars
=============================================================================
