----------------------------- MODULE PagedArray -----------------------------
(***************************************************************************)
(* The arrays of the incremental index format (array.c): word counts and   *)
(* places of properties by file number, two arrays in the pages of one     *)
(* file, each with a cache of its own.                                     *)
(*                                                                         *)
(* The root page of an array has for each of its slots the first page of a *)
(* chain. The pages of the elements take turns in the chains. Slots count  *)
(* from 0, as in the code, and a slot holds a file offset as well as an    *)
(* element (sizeof(long) = sizeof(sw_off_t)). Pages that were only read    *)
(* are not kept in arrayCache: they are what the file has.                 *)
(***************************************************************************)
EXTENDS Integers, Sequences, SequencesExt, FiniteSets

CONSTANTS
  Arrays,    \* the arrays in the file
  Slots,     \* elements in a page
  Elements,  \* the indexes used
  Values     \* the values put at each

ASSUME ArrayAssumption ==
  /\ IsFiniteSet(Arrays)
  /\ Slots \in Nat \ {0} /\ Elements \subseteq Nat
  /\ Values \in [Elements -> SUBSET Nat]

VARIABLES
  arrayFile,   \* the pages of the file; 0 is no page
  arrayCache,  \* of each array: the pages changed in memory, by number
  arrayRoot,   \* root_page of each
  arrayGiven   \* history: what was put last, 0 if nothing

arrayVars == <<arrayFile, arrayCache, arrayRoot, arrayGiven>>

Blank == [next |-> 0, slots |-> [s \in 0..(Slots - 1) |-> 0]]

(* ARRAY_Create: a root page for each, one after the other.                *)
ArrayInit ==
  LET order == SetToSeq(Arrays)
  IN  /\ arrayFile = [n \in DOMAIN order |-> Blank]
      /\ arrayRoot = [a \in Arrays |-> CHOOSE n \in DOMAIN order : order[n] = a]
      /\ arrayCache = [a \in Arrays |-> <<>>]
      /\ arrayGiven = [a \in Arrays |-> [i \in Elements |-> 0]]

(* ARRAY_ReadPage                                                          *)
PageOf(a, p) == IF p \in DOMAIN arrayCache[a] THEN arrayCache[a][p] ELSE arrayFile[p]

-----------------------------------------------------------------------------
(* Where an element is: its slot in the page that many steps down the      *)
(* chain of a slot of the root.                                            *)
PageIndex(i) == i % Slots
Hashed(i) == (i \div Slots) % Slots
PageReads(i) == (i \div Slots) \div Slots

(* A page with another next page, or another value in a slot.              *)
WithNext(page, p) == [next |-> p, slots |-> page.slots]
WithSlot(page, slot, value) ==
  [next |-> page.next, slots |-> [page.slots EXCEPT ![slot] = value]]

(* The pages of a chain.                                                   *)
PagesOf(a) == [p \in DOMAIN arrayFile |-> PageOf(a, p)]
PagesFrom(pages, first) ==
  LET from[p \in {0} \cup DOMAIN pages] ==
        IF p = 0 THEN <<>> ELSE <<p>> \o from[pages[p].next]
  IN  from[first]
ChainOf(a, slot) == PagesFrom(PagesOf(a), PageOf(a, arrayRoot[a]).slots[slot])

(* ARRAY_NewPage takes room at the end of the file at once: as many pages  *)
(* as the chain lacks for an element, if any.                              *)
Lacking(a, i) ==
  LET have == Len(ChainOf(a, Hashed(i)))
  IN  IF have > PageReads(i) THEN 0 ELSE PageReads(i) + 1 - have
NewPages(a, i) == [k \in 1..Lacking(a, i) |-> Len(arrayFile) + k]

(* Slip: a new first page of a chain is always put in the first slot.      *)
LinkedFirst(a, i, first) ==
  LET old == ChainOf(a, Hashed(i))
  IN  IF old # <<>> THEN [p \in {Last(old)} |-> WithNext(PageOf(a, p), first)]
      ELSE [p \in {arrayRoot[a]} |-> WithSlot(PageOf(a, p), 0, first)]

(* The new pages are linked to the last of the chain, or to the root.      *)
Linked(a, i, first) ==
  LET old == ChainOf(a, Hashed(i))
  IN  IF old # <<>> THEN [p \in {Last(old)} |-> WithNext(PageOf(a, p), first)]
      ELSE [p \in {arrayRoot[a]} |-> WithSlot(PageOf(a, p), Hashed(i), first)]

(* The new pages themselves, in a chain.                                   *)
Unused(new) ==
  [p \in ToSet(new) |-> WithNext(Blank, IF p = Last(new) THEN 0 ELSE p + 1)]

Changed(f, g) == [p \in DOMAIN f \cup DOMAIN g |-> IF p \in DOMAIN g THEN g[p] ELSE f[p]]

(* ARRAY_Put                                                               *)
PutElement(a, i, value) ==
  LET new == NewPages(a, i)
      target == (ChainOf(a, Hashed(i)) \o new)[PageReads(i) + 1]
      links == IF new = <<>> THEN arrayCache[a]
               ELSE Changed(Changed(arrayCache[a], Linked(a, i, new[1])), Unused(new))
      page == IF target \in DOMAIN links THEN links[target] ELSE arrayFile[target]
  IN  /\ arrayFile' = arrayFile \o [k \in 1..Len(new) |-> Blank]
      /\ arrayCache' = [arrayCache EXCEPT ![a] =
                          Changed(links, [p \in {target} |->
                                            WithSlot(page, PageIndex(i), value)])]
      /\ arrayGiven' = [arrayGiven EXCEPT ![a] = [@ EXCEPT ![i] = value]]
      /\ UNCHANGED arrayRoot

(* ARRAY_Close writes the changed pages; ARRAY_Open of a later session.    *)
ReopenArray(a) ==
  /\ arrayFile' = PagesOf(a)
  /\ arrayCache' = [arrayCache EXCEPT ![a] = <<>>]
  /\ UNCHANGED <<arrayRoot, arrayGiven>>

ArrayNext ==
  \E a \in Arrays :
    ReopenArray(a) \/ \E i \in Elements : \E value \in Values[i] : PutElement(a, i, value)

ArraySpec == ArrayInit /\ [][ArrayNext]_arrayVars

-----------------------------------------------------------------------------
(* Reading.                                                                *)

(* ARRAY_Get: 0 of an element whose page there is not.                     *)
GetElement(a, i) ==
  LET chain == ChainOf(a, Hashed(i))
  IN  IF Len(chain) <= PageReads(i) THEN 0
      ELSE PageOf(a, chain[PageReads(i) + 1]).slots[PageIndex(i)]

(* An element is what was put there last, in whatever order the elements   *)
(* were put, whichever pages the other array took in between, and whenever *)
(* one of the arrays was closed and opened again.                          *)
ArrayHolds == \A a \in Arrays, i \in Elements : GetElement(a, i) = arrayGiven[a][i]
=============================================================================
