----------------------------- MODULE MCStorage -----------------------------
(* The files of an index, each by itself: a behaviour is one of the file   *)
(* of word data, of the B-tree of words (in the others, one its first word *)
(* is being put in), of the two arrays, of the properties, or of the words *)
(* of an index of two files.                                               *)
EXTENDS WordData, MCBTree, PagedArray, Properties, NativeWords

CONSTANTS one, two, big

(* one takes a block; two takes two, of which deleting it frees one; big    *)
(* takes a run of two pages.                                                *)
Sizes == {one, two, big}
SizeBytes == [d \in Data |-> IF d = one THEN 1 ELSE IF d = two THEN 2 ELSE 10]

VARIABLE part   \* "data", "tree", "array", "properties" or "words"

(* All elements are in the second chain, in its first, second and third    *)
(* page; one of them changes.                                              *)
MCElements == {3, 7, 11}
MCValues == [i \in Elements |-> IF i = 7 THEN {0, 3} ELSE {i}]

(* A date and a string of three characters; the texts are a number, one    *)
(* that fills the string, one of nothing but space, and one that leaves    *)
(* room for a separator only.                                              *)
MCProps == <<1, 2>>
MCMaxLen == [p \in {1, 2} |-> IF p = 2 THEN 3 ELSE 0]
MCTexts == {<<"1">>, <<"a", "\n", "b">>, <<"\n">>, <<" ", "b", "a">>}

(* Words that begin like others, and alone; three of an entry, and two.    *)
MCWords == {<<1>>, <<1, 1>>, <<1, 2>>, <<2, 1>>, <<3>>}
MCHash == [w \in MCWords |-> IF w \in {<<1>>, <<1, 2>>, <<3>>} THEN 1 ELSE 2]

TreePinned ==
  /\ treeDisk = <<EmptyPage(FALSE, FALSE)>>
  /\ treeCache = <<EmptyPage(TRUE, TRUE)>>
  /\ treeModified = {1} /\ root = 1 /\ answer = 0
  /\ path = <<1>> /\ calls = <<Call(1, 1, 1, FALSE, FALSE)>>

StorageInit ==
  /\ DataInit /\ ArrayInit
  /\ part \in {"data", "tree", "array", "properties", "words"}
  /\ IF part = "tree" THEN TreeInit ELSE TreePinned
  /\ PropInit /\ (part = "properties" \/ ~incremental)
  /\ NativeInit /\ (part = "words" \/ Len(todo) = Cardinality(Words))

StorageNext ==
  \/ part = "data" /\ DataNext /\ UNCHANGED <<part, treeVars, arrayVars, propVars, nativeVars>>
  \/ part = "tree" /\ TreeNext /\ UNCHANGED <<part, dataVars, arrayVars, propVars, nativeVars>>
  \/ part = "array" /\ ArrayNext /\ UNCHANGED <<part, dataVars, treeVars, propVars, nativeVars>>
  \/ part = "properties" /\ PropNext
     /\ UNCHANGED <<part, dataVars, treeVars, arrayVars, nativeVars>>
  \/ part = "words" /\ NativeNext
     /\ UNCHANGED <<part, dataVars, treeVars, arrayVars, propVars>>

StorageSpec ==
  StorageInit
  /\ [][StorageNext]_<<part, dataVars, treeVars, arrayVars, propVars, nativeVars>>
=============================================================================
