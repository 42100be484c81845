----------------------------- MODULE MCUpdateMode -----------------------------
(* Model-checking instances of UpdateMode.                                 *)
EXTENDS UpdateMode, TLC

CONSTANTS p1, p2

TwoPaths == {p1, p2}
CountedKinds == {"text", "empty", "refused"}
AllKinds == {"text", "empty", "bare", "refused"}

(* Paths are alike.                                                        *)
PathSymmetry == Permutations(TwoPaths)
=============================================================================
