---------------------------- MODULE DocumentStore ----------------------------
(***************************************************************************)
(* What update mode promises (pod/SWISH-RUN.pod, -u and -r): the index     *)
(* shows at most one version of every path; an update shows the given      *)
(* version unless the one there is as new, a removal shows none.           *)
(***************************************************************************)
EXTENDS Naturals

CONSTANTS Paths, MaxDate

NoDocument == MaxDate + 1   \* not a date

VARIABLE docs   \* docs[p]: the date of the version shown for p

(* Date 0 is "no date": a version without one yields to a dated one, and   *)
(* of two versions without dates the later one given wins.                 *)
Newer(old, new) == old < new \/ (old = 0 /\ new = 0)

Init == docs \in {[p \in Paths |-> IF p = q THEN d ELSE NoDocument] :
                    q \in Paths, d \in 0..MaxDate}

(* A version without words, or one its parser refuses, shows nothing.      *)
Update(p, d) ==
  /\ docs[p] = NoDocument \/ Newer(docs[p], d)
  /\ \E shown \in {d, NoDocument} : docs' = [docs EXCEPT ![p] = shown]

Remove(p) == docs' = [docs EXCEPT ![p] = NoDocument]

Next == \E p \in Paths : Remove(p) \/ \E d \in 0..MaxDate : Update(p, d)

Spec == Init /\ [][Next]_docs
=============================================================================
