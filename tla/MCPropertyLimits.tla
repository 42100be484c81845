-------------------------- MODULE MCPropertyLimits --------------------------
(* Limits with one end open, on indexes of up to three documents.          *)
EXTENDS PropertyLimits

MCLimits ==
  [prop : {"p"}, lo : {0}, hi : 1..3] \cup [prop : {"p"}, lo : 1..3, hi : {0}]
MCLists ==
  {<<[value |-> [p \in Properties |-> s], presorted |-> [p \in Properties |-> b]]>> :
     s \in UNION {[1..n -> 0..3] : n \in 1..3}, b \in BOOLEAN}
=============================================================================
