------------------------------ MODULE IndexStore -----------------------------
(***************************************************************************)
(* What swish-e promises about reindexing and searching at the same time:  *)
(* one index at a time is current, a new one replaces it in one step, and  *)
(* a searcher that gets a handle at all gets the index that was current    *)
(* when it looked, whole, however many replacements follow.                *)
(***************************************************************************)
EXTENDS Naturals

CONSTANTS Readers, MaxBuilds

VARIABLES
  current,  \* the build that is the current index, 0 before the first
  looked,   \* looked[r]: the build searcher r found and is opening, or 0
  view      \* view[r]: the build searcher r searches, or 0

vars == <<current, looked, view>>

Init ==
  /\ current = 0
  /\ looked = [r \in Readers |-> 0]
  /\ view = [r \in Readers |-> 0]

Replace ==
  /\ \E b \in 1..MaxBuilds : b > current /\ current' = b
  /\ UNCHANGED <<looked, view>>

Look(r) ==
  /\ looked[r] = 0 /\ view[r] = 0 /\ current # 0
  /\ looked' = [looked EXCEPT ![r] = current]
  /\ UNCHANGED <<current, view>>

Accept(r) ==
  /\ looked[r] # 0
  /\ view' = [view EXCEPT ![r] = looked[r]]
  /\ looked' = [looked EXCEPT ![r] = 0]
  /\ UNCHANGED current

Refuse(r) ==
  /\ looked[r] # 0
  /\ looked' = [looked EXCEPT ![r] = 0]
  /\ UNCHANGED <<current, view>>

Release(r) ==
  /\ view[r] # 0
  /\ view' = [view EXCEPT ![r] = 0]
  /\ UNCHANGED <<current, looked>>

Next ==
  \/ Replace
  \/ \E r \in Readers : Look(r) \/ Accept(r) \/ Refuse(r) \/ Release(r)

Spec == Init /\ [][Next]_vars
=============================================================================
