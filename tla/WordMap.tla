------------------------------- MODULE WordMap -------------------------------
(***************************************************************************)
(* What BTREE_Insert and BTREE_Update promise their callers: a map from    *)
(* words to ids, and an answer that says whether the word was new, or      *)
(* there.                                                                  *)
(***************************************************************************)
EXTENDS Integers, TLC

CONSTANTS Keys, Ids

VARIABLES map, answer

Init == map = [k \in {} |-> 0] /\ answer = 0

Insert(k, id) ==
  IF k \in DOMAIN map
  THEN answer' = -1 /\ UNCHANGED map
  ELSE answer' = 0 /\ map' = k :> id @@ map

Update(k, id) ==
  IF k \in DOMAIN map
  THEN answer' = 0 /\ map' = [map EXCEPT ![k] = id]
  ELSE answer' = -1 /\ UNCHANGED map

Next == \E k \in Keys, id \in Ids : Insert(k, id) \/ Update(k, id)

Spec == Init /\ [][Next]_<<map, answer>>
=============================================================================
