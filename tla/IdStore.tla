------------------------------- MODULE IdStore -------------------------------
(***************************************************************************)
(* What WORDDATA_Put, WORDDATA_Get and WORDDATA_Del promise their callers: *)
(* data is kept under an id until it is deleted, and no id is given twice. *)
(***************************************************************************)
CONSTANTS Ids, Data

VARIABLE store   \* the data kept, by id

TypeOK == \E S \in SUBSET Ids : store \in [S -> Data]

Init == store = [i \in {} |-> {}]

Put(i, d) ==
  /\ i \notin DOMAIN store
  /\ store' = [j \in DOMAIN store \cup {i} |-> IF j = i THEN d ELSE store[j]]

Del(i) == store' = [j \in DOMAIN store \ {i} |-> store[j]]

Next == \E i \in Ids : Del(i) \/ \E d \in Data : Put(i, d)

Spec == Init /\ [][Next]_store
=============================================================================
