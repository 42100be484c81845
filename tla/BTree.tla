-------------------------------- MODULE BTree --------------------------------
(***************************************************************************)
(* The B-tree of the incremental index format (btree.c), which maps words  *)
(* to the ids of their data: pages in a file and, in memory, a cache of    *)
(* those touched since the tree was opened.                                *)
(*                                                                         *)
(* A key is a number, its order memcmp's; Length[k] are its bytes. Every   *)
(* page above the leaves has for each child the first key of the child.    *)
(* Positions count from 0, as in the code. Pages that were only read are   *)
(* not kept in cache: they are what the file has.                          *)
(***************************************************************************)
EXTENDS Integers, Sequences, FiniteSets, SequencesExt, FiniteSetsExt

CONSTANTS
  Keys,         \* words, a set of positive numbers
  Length,       \* the length of each
  WordIds,          \* ids of word data, positive
  Overhead,     \* bytes an entry of a page takes besides its key ...
  MaxOverhead,  \* ... and those asked for before it is known how many
  PageRoom,         \* bytes a page has for entries
  OffsetBytes,  \* sizeof(sw_off_t) and sizeof(long)
  Updatable,    \* bound: the keys whose id is changed
  Deepening     \* bound: may a new first key split the root above a leaf?

ASSUME BTreeAssumption ==
  /\ Keys \subseteq Nat \ {0} /\ WordIds \subseteq Nat \ {0}
  /\ Length \in [Keys -> Nat \ {0}]
  /\ Overhead \in Nat /\ MaxOverhead >= Overhead
  /\ \A k \in Keys : 3 * (Length[k] + MaxOverhead) <= PageRoom
  /\ OffsetBytes \in {4, 8} /\ Updatable \subseteq Keys
  /\ Deepening \in BOOLEAN

VARIABLES
  treeDisk,      \* the pages in the file; page numbers start at 1, 0 is NULL
  treeCache,     \* the pages changed in memory, by number
  treeModified,  \* those the closing flush will write
  root,      \* root_page
  path,      \* b->tree and the leaf it led to, of the insertion under way
  calls,     \* calls of BTREE_InsertInPage to be made, the next one first
  answer     \* what the last insertion or update returned

treeVars == <<treeDisk, treeCache, treeModified, root, path, calls, answer>>

-----------------------------------------------------------------------------
(* Pages.                                                                  *)

EmptyPage(leaf, isRoot) ==
  [leaf |-> leaf, root |-> isRoot, prev |-> 0, next |-> 0,
   keys |-> <<>>, ptrs |-> <<>>]

Used(page) == FoldLeft(LAMBDA n, k : n + Length[k] + Overhead, 0, page.keys)

Fits(page, key) == Length[key] + MaxOverhead <= PageRoom - Used(page)

HasKey(page, key) == key \in Range(page.keys)

(* BTREE_GetPositionForKey, and the step behind the last key smaller: the  *)
(* place of the key, or the one it would have.                             *)
Position(page, key) ==
  Cardinality({i \in DOMAIN page.keys : page.keys[i] < key})

(* Slip: the step back is also taken from the key itself.                  *)
ChoiceBefore(page, key) == Max({0, Position(page, key) - 1})

(* BTREE_GetKeyFromPage: the last key not greater, or the first.           *)
Choice(page, key) ==
  IF HasKey(page, key) THEN Position(page, key)
  ELSE Max({0, Position(page, key) - 1})

AddKey(page, pos, key, ptr) ==
  [page EXCEPT !.keys = InsertAt(@, pos + 1, key),
               !.ptrs = InsertAt(@, pos + 1, ptr)]

DelKey(page, pos) ==
  [page EXCEPT !.keys = RemoveAt(@, pos + 1), !.ptrs = RemoveAt(@, pos + 1)]

(* A key put in its place; an update takes out the key it replaces, the    *)
(* first greater one.                                                      *)
Placed(page, key, ptr, update) ==
  LET pos == Position(page, key)
  IN  AddKey(IF update /\ ~page.leaf THEN DelKey(page, pos) ELSE page,
             pos, key, ptr)

(* What BTREE_ReadPageFromDisk makes of what BTREE_WritePageToDisk wrote:  *)
(* the fields of the header are cut to an int after they were turned to    *)
(* big-endian, and of eight bytes that leaves the four that are zero.      *)
Stored(page) == IF OffsetBytes = 4 THEN page ELSE EmptyPage(FALSE, FALSE)

-----------------------------------------------------------------------------
(* The tree in memory.                                                     *)

TreePage(p) == IF p \in DOMAIN treeCache THEN treeCache[p] ELSE treeDisk[p]

(* f changed at the arguments of g                                         *)
Over(g, f) == [x \in DOMAIN f \cup DOMAIN g |->
                 IF x \in DOMAIN g THEN g[x] ELSE f[x]]

(* Slip: new pages are not marked.                                         *)
WriteKnown(changed) ==
  /\ treeCache' = Over(changed, treeCache)
  /\ treeModified' = treeModified \cup (DOMAIN changed \cap DOMAIN treeDisk)

(* Pages changed in the cache and marked by BTREE_WritePage.               *)
Write(changed) ==
  /\ treeCache' = Over(changed, treeCache)
  /\ treeModified' = treeModified \cup DOMAIN changed

(* BTREE_NewPage takes room at the end of the file at once.                *)
NewPage == Len(treeDisk) + 1
Extend(n) == treeDisk' = treeDisk \o [i \in 1..n |-> EmptyPage(FALSE, FALSE)]

(* BTREE_Walk: the way from the root down to a leaf. A way that leaves the *)
(* tree ends in 0.                                                         *)
Child(page, key) ==
  IF page.keys = <<>> THEN 0 ELSE page.ptrs[Choice(page, key) + 1]

Walk(key) ==
  LET Descend[p \in 0..Len(treeDisk)] ==
        IF p = 0 \/ TreePage(p).leaf THEN <<p>>
        ELSE <<p>> \o Descend[Child(TreePage(p), key)]
  IN  Descend[root]

Leaf(key) == Last(Walk(key))

-----------------------------------------------------------------------------
(* Insertion.                                                              *)

(* A call of BTREE_InsertInPage for the page at a level of the path. One   *)
(* that comes after the first key of the page was changed walks again to   *)
(* the key before it takes the page of that level.                         *)
Call(key, ptr, level, update, again) ==
  [key |-> key, ptr |-> ptr, level |-> level, update |-> update,
   again |-> again]

Way(call) == IF call.again THEN Walk(call.key) ELSE path

(* There is room: a page that gets a new first key has it changed above.   *)
InsertHere(p, call) ==
  /\ Fits(TreePage(p), call.key)
  /\ Write(p :> Placed(TreePage(p), call.key, call.ptr, call.update))
  /\ calls' = (IF Position(TreePage(p), call.key) = 0 /\ ~TreePage(p).root
               THEN <<Call(call.key, p, call.level - 1, TRUE, FALSE)>>
               ELSE <<>>) \o Tail(calls)
  /\ UNCHANGED <<treeDisk, root>>

(* BTREE_SplitPage, and the links around the new page q: the halves of the *)
(* page, with the key in one of them.                                      *)
Halves(p, q, call) ==
  LET page  == TreePage(p)
      keep  == Len(page.keys) - Len(page.keys) \div 2
      high  == [page EXCEPT !.keys = SubSeq(@, keep + 1, Len(@)),
                            !.ptrs = SubSeq(@, keep + 1, Len(@)),
                            !.prev = p]
      low   == [page EXCEPT !.keys = SubSeq(@, 1, keep),
                            !.ptrs = SubSeq(@, 1, keep), !.next = q]
      In(half) == Placed(half, call.key, call.ptr, call.update)
  IN  IF call.key > high.keys[1] THEN <<low, In(high)>> ELSE <<In(low), high>>

Neighbour(p, q) ==
  IF TreePage(p).next = 0 THEN <<>>
  ELSE TreePage(p).next :> [TreePage(TreePage(p).next) EXCEPT !.prev = q]

(* There is none: the page splits and the new half is added above, after   *)
(* the change of the first key if the key became it.                       *)
InsertSplitting(p, call) ==
  LET q     == NewPage
      low   == Halves(p, q, call)[1]
      high  == Halves(p, q, call)[2]
      first == high.keys[1]
      isLow == low.keys[1] = call.key
  IN  /\ ~Fits(TreePage(p), call.key) /\ ~TreePage(p).root
      /\ Extend(1)
      /\ Write(Over(p :> low @@ q :> high, Neighbour(p, q)))
      /\ calls' = (IF isLow
                   THEN <<Call(call.key, p, call.level - 1, TRUE, FALSE)>>
                   ELSE <<>>)
                    \o <<Call(first, q, call.level - 1, FALSE, isLow)>>
                    \o Tail(calls)
      /\ UNCHANGED root

(* The halves of the root become the children of a new one.                *)
InsertSplittingRoot(p, call) ==
  LET q     == NewPage
      halves == Halves(p, q, call)
      above == [EmptyPage(FALSE, TRUE) EXCEPT
                  !.keys = <<halves[1].keys[1], halves[2].keys[1]>>,
                  !.ptrs = <<p, q>>]
  IN  /\ ~Fits(TreePage(p), call.key) /\ TreePage(p).root
      /\ Deepening \/ \A i \in 2..Len(calls) : ~calls[i].again
      /\ Extend(2)
      /\ Write(p :> [halves[1] EXCEPT !.root = FALSE]
                 @@ q :> [halves[2] EXCEPT !.root = FALSE] @@ q + 1 :> above)
      /\ root' = q + 1
      /\ calls' = Tail(calls)

InsertInPage ==
  /\ calls # <<>>
  /\ LET p == Way(Head(calls))[Head(calls).level]
     IN  \/ InsertHere(p, Head(calls))
         \/ InsertSplitting(p, Head(calls))
         \/ InsertSplittingRoot(p, Head(calls))
  /\ path' = IF calls' = <<>> THEN <<>> ELSE Way(Head(calls))
  /\ answer' = 0

-----------------------------------------------------------------------------
(* Operations.                                                             *)

(* BTREE_Insert. What happens after a walk that left the tree is not       *)
(* defined.                                                                *)
Insert(key, id) ==
  /\ calls = <<>> /\ Leaf(key) # 0
  /\ IF HasKey(TreePage(Leaf(key)), key)
     THEN answer' = -1 /\ UNCHANGED <<path, calls>>
     ELSE /\ path' = Walk(key)
          /\ calls' = <<Call(key, id, Len(Walk(key)), FALSE, FALSE)>>
          /\ UNCHANGED answer
  /\ UNCHANGED <<treeDisk, treeCache, treeModified, root>>

(* BTREE_Update                                                            *)
Update(key, id) ==
  LET page == TreePage(Leaf(key)) IN
  /\ calls = <<>> /\ Leaf(key) # 0
  /\ IF HasKey(page, key)
     THEN /\ answer' = 0
          /\ Write(Leaf(key) :>
               [page EXCEPT !.ptrs = ReplaceAt(@, Position(page, key) + 1, id)])
     ELSE answer' = -1 /\ UNCHANGED <<treeCache, treeModified>>
  /\ UNCHANGED <<treeDisk, root, path, calls>>

(* BTREE_Close writes the modified pages; BTREE_Open of a later session    *)
(* finds what was written.                                                 *)
ReopenTree ==
  /\ calls = <<>>
  /\ treeDisk' = [p \in DOMAIN treeDisk |->
                IF p \in treeModified THEN Stored(treeCache[p]) ELSE treeDisk[p]]
  /\ treeCache' = <<>> /\ treeModified' = {}
  /\ UNCHANGED <<root, path, calls, answer>>

(* BTREE_Create                                                            *)
TreeInit ==
  /\ treeDisk = <<EmptyPage(FALSE, FALSE)>>
  /\ treeCache = <<EmptyPage(TRUE, TRUE)>>
  /\ treeModified = {1}
  /\ root = 1 /\ path = <<>> /\ calls = <<>> /\ answer = 0

TreeNext ==
  \/ InsertInPage
  \/ \E k \in Keys : Insert(k, Min(WordIds))
  \/ \E k \in Updatable, id \in WordIds : Update(k, id)
  \/ ReopenTree

TreeSpec == TreeInit /\ [][TreeNext]_treeVars

-----------------------------------------------------------------------------
(* Reading.                                                                *)

(* BTREE_Next goes from leaf to leaf: the leaves from p on, and the keys   *)
(* in a sequence of leaves.                                                *)
Leaves(first) ==
  LET Onward[p \in 0..Len(treeDisk)] ==
        IF p = 0 THEN <<>> ELSE <<p>> \o Onward[TreePage(p).next]
  IN  Onward[first]

KeysOf(leaves) == FlattenSeq([i \in DOMAIN leaves |-> TreePage(leaves[i]).keys])

(* Where BTREE_Search leaves the cursor: the keys from there on.           *)
From(key) ==
  LET p == Leaf(key) IN
  IF p = 0 \/ TreePage(p).keys = <<>> THEN <<>>
  ELSE SubSeq(TreePage(p).keys, Choice(TreePage(p), key) + 1, Len(TreePage(p).keys))
         \o KeysOf(Leaves(TreePage(p).next))

(* BTREE_Search of exactly this key: its id, or -1.                        *)
Search(key) ==
  LET p == Leaf(key) IN
  IF p = 0 \/ ~HasKey(TreePage(p), key) THEN -1
  ELSE TreePage(p).ptrs[Choice(TreePage(p), key) + 1]

(* DB_ReadFirstWordInvertedIndex and DB_ReadNextWordInvertedIndex, until   *)
(* the latter has no more words. The words that begin like word are those  *)
(* from word to below limit. The first word found is skipped if it is      *)
(* smaller than word, and looked at no further if it is not.               *)
WordsLike(word, limit) ==
  LET found == From(word)
      start == IF found # <<>> /\ Head(found) < word THEN 2 ELSE 1
      ends  == {n \in 2..Len(found) : found[n] \notin word..(limit - 1)}
  IN  SubSeq(found, start, Min(ends \cup {Len(found) + 1}) - 1)

-----------------------------------------------------------------------------
(* Properties.                                                             *)

TreePages == DOMAIN treeDisk

(* The leaf a word is in, and the words of all leaves with their ids.      *)
Home(key) == {p \in TreePages : TreePage(p).leaf /\ HasKey(TreePage(p), key)}

IdIn(page, key) == page.ptrs[Position(page, key) + 1]

Content ==
  [k \in {j \in Keys : Home(j) # {}} |->
     IdIn(TreePage(CHOOSE p \in Home(k) : TRUE), k)]

(* A page is never filled past its size, also when a key is put in one of  *)
(* the halves of a split page, and has ids in a leaf and pages above.      *)
PageOK(page) ==
  /\ page.leaf \in BOOLEAN /\ page.root \in BOOLEAN
  /\ page.prev \in 0..Len(treeDisk) /\ page.next \in 0..Len(treeDisk)
  /\ Range(page.keys) \subseteq Keys /\ Len(page.keys) = Len(page.ptrs)
  /\ Used(page) <= PageRoom
  /\ Range(page.ptrs) \subseteq IF page.leaf THEN WordIds ELSE TreePages

TreeTypeOK ==
  /\ \A p \in TreePages : PageOK(treeDisk[p])
  /\ treeModified \subseteq TreePages
  /\ DOMAIN treeCache \subseteq TreePages /\ \A p \in DOMAIN treeCache : PageOK(treeCache[p])
  /\ root \in TreePages
  /\ \A i \in DOMAIN path : path[i] \in TreePages
  /\ \A i \in DOMAIN calls : calls[i].key \in Keys /\ calls[i].level \in Nat
  /\ answer \in {0, -1}

(* Between insertions: keys ascend in every page, the key above a page is  *)
(* its first, root alone is marked as the root, brothers are leaves or not *)
(* together, and neighbours point at each other.                           *)
TreeShape ==
  calls = <<>> => \A p \in TreePages :
    LET page == TreePage(p) IN
    /\ \A i, j \in DOMAIN page.keys : i < j => page.keys[i] < page.keys[j]
    /\ page.root <=> p = root
    /\ page.next # 0 => TreePage(page.next).prev = p
    /\ ~page.leaf => \A i \in DOMAIN page.keys :
         /\ TreePage(page.ptrs[i]).keys[1] = page.keys[i]
         /\ TreePage(page.ptrs[i]).leaf = TreePage(page.ptrs[1]).leaf

(* Between insertions: every word of the leaves is found from the root,    *)
(* with its id, and no other word is.                                      *)
EveryWordFound ==
  calls = <<>> =>
    \A k \in Keys :
      Search(k) = IF Home(k) = {} THEN -1
                  ELSE IdIn(TreePage(CHOOSE p \in Home(k) : TRUE), k)

(* And the words that begin alike are read each once, in order - except    *)
(* that a beginning below all words finds the first word.                  *)
WordsFound ==
  /\ EveryWordFound
  /\ calls = <<>> =>
       LET words == DOMAIN Content IN
       \A word, limit \in Keys :
         word < limit /\ (\E k \in words : k < limit) =>
           LET read == WordsLike(word, limit) IN
           /\ Range(read) = words \cap word..(limit - 1)
           /\ \A i \in 2..Len(read) : read[i - 1] < read[i]

(* The tree is sound and leads to its words.                               *)
TreeSound == TreeShape /\ WordsFound

(* The leaves are a map from words to ids: inserting, splitting, closing   *)
(* and opening again change nothing else.  (Map!Spec, but that steps which *)
(* leave the tree alone are not looked into.)                              *)
Map == INSTANCE WordMap WITH map <- Content, Ids <- WordIds
ImplementsWordMap ==
  Map!Init /\ [][UNCHANGED treeVars \/ Map!Next]_<<Content, answer>>
=============================================================================
