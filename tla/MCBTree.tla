------------------------------- MODULE MCBTree -------------------------------
(* Model-checking instances of BTree: a page has room for three words, or   *)
(* for four if two of them are short and there are ten bytes.               *)
EXTENDS BTree, TLC

CONSTANTS MaxKey, Short

WordKeys == 1..MaxKey
WordLength == [k \in WordKeys |-> IF k \in Short THEN 1 ELSE 2]
==============================================================================
