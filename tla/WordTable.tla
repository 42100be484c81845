------------------------------ MODULE WordTable ------------------------------
(***************************************************************************)
(* The word table an index is collected in (index.c, compress.c): a hash   *)
(* of chains of entries, one per word, each with its locations.            *)
(*                                                                         *)
(* The locations of the document being parsed are uncompressed; at its end *)
(* they are compressed, from time to time coalesced; with option -e the    *)
(* coalesced ones go to a file at once.  A parser may abort                *)
(* after it has added words (FileRules title, robots meta tag): then       *)
(* remove_last_file_from_list takes the document's words out again, and    *)
(* the next document gets the same number.  At the end IgnoreLimit takes   *)
(* out the words that occur in too many files.                             *)
(*                                                                         *)
(* A location is a file number and a meta name; positions are left out.    *)
(***************************************************************************)
EXTENDS Integers, Sequences, SequencesExt, FiniteSets

CONSTANTS
  Words,      \* the words that occur
  Hash,       \* verybighash: Hash[w] is the chain of word w
  Metas,      \* meta names
  PLimit,     \* IgnoreLimit: percentage of the files ...
  FLimit,     \* ... and number of files; PLimit > 100 is no limit
  ChunkDocs,  \* documents between coalescings
  MaxDocs     \* bound: documents parsed, aborted ones included

Chains == {Hash[w] : w \in Words}
NoLimit == 101   \* NO_PLIMIT

ASSUME WordTableAssumption ==
  /\ PLimit \in Nat /\ FLimit \in Nat /\ MaxDocs \in Nat
  /\ ChunkDocs \in Nat \ {0}

VARIABLES
  swap_locdata, \* option -e: coalesced locations are swapped to files
  chain,     \* chain[h]: the entries' words, first to last
  dirty,     \* chains looked up for the current document
  fresh,     \* fresh[w]: meta names of w's uncompressed locations
  chunk,     \* chunk[w]: files of its compressed locations, newest chunk
  old,       \* old[w]: files of its coalesced locations, swapped ones too
  tfreq,     \* tfreq[w]: its entry's tfrequency
  last,      \* last[w]: its entry's last_filenum
  filenum,   \* file number given last; also header.totalfiles
  total,     \* header.totalwords
  pc,        \* "between" documents, in one ("parsing"), "written"
  docs,      \* docs[n]: the words given in indexed document n
  doc,       \* the words given so far in the document being parsed
  stop,      \* words put on the stop list by IgnoreLimit
  parsedDocs     \* documents parsed

tableVars == <<swap_locdata, chain, dirty, fresh, chunk, old, tfreq, last, filenum, total, pc,
          docs, doc, stop, parsedDocs>>
entryVars == <<fresh, chunk, old, tfreq, last>>

TableTypeOK ==
  /\ swap_locdata \in BOOLEAN
  /\ chain \in [Chains -> SeqOf(Words, Cardinality(Words))]
  /\ dirty \subseteq Chains
  /\ fresh \in [Words -> SUBSET Metas]
  /\ chunk \in [Words -> SUBSET (1..MaxDocs)]
  /\ old \in [Words -> SUBSET (1..MaxDocs)]
  /\ tfreq \in [Words -> 0..MaxDocs]
  /\ last \in [Words -> 0..MaxDocs]
  /\ filenum \in 0..MaxDocs
  /\ total \in 0..(Cardinality(Words) * (MaxDocs + 1))
  /\ pc \in {"between", "parsing", "written"}
  /\ docs \in SeqOf(SUBSET Words, MaxDocs)
  /\ doc \subseteq Words
  /\ stop \subseteq Words
  /\ parsedDocs \in 0..MaxDocs

TableInit ==
  /\ swap_locdata \in BOOLEAN
  /\ chain = [h \in Chains |-> <<>>]
  /\ dirty = {}
  /\ fresh = [w \in Words |-> {}]
  /\ chunk = [w \in Words |-> {}]
  /\ old = [w \in Words |-> {}]
  /\ tfreq = [w \in Words |-> 0]
  /\ last = [w \in Words |-> 0]
  /\ filenum = 0
  /\ total = 0
  /\ pc = "between"
  /\ docs = <<>>
  /\ doc = {}
  /\ stop = {}
  /\ parsedDocs = 0

InTable(w) == \E i \in 1..Len(chain[Hash[w]]) : chain[Hash[w]][i] = w

(* do_index_file takes the next file number.                               *)
BeginDoc ==
  /\ pc = "between"
  /\ parsedDocs < MaxDocs
  /\ pc' = "parsing"
  /\ filenum' = filenum + 1
  /\ doc' = {}
  /\ parsedDocs' = parsedDocs + 1
  /\ UNCHANGED <<swap_locdata, chain, dirty, entryVars, total, docs, stop>>

(* getentry: a word met for the first time gets an empty entry, at the     *)
(* head of its chain.                                                      *)
GetEntry(w) ==
  IF InTable(w) THEN UNCHANGED <<chain, total>>
  ELSE /\ chain' = [chain EXCEPT ![Hash[w]] = <<w>> \o @]
       /\ total' = total + 1

(* w's tfrequency with one more position, under meta name m.               *)
Frequency(w, m) ==
  IF tfreq[w] = 0 THEN 1
  ELSE IF m \notin fresh[w] /\ last[w] # filenum THEN tfreq[w] + 1
  ELSE tfreq[w]

(* addentry, for one more position of w under meta name m.                 *)
AddWord(w, m) ==
  /\ pc = "parsing"
  /\ GetEntry(w)
  /\ dirty' = dirty \cup {Hash[w]}
  /\ fresh' = [fresh EXCEPT ![w] = @ \cup {m}]
  /\ tfreq' = [tfreq EXCEPT ![w] = Frequency(w, m)]
  /\ last' = [last EXCEPT ![w] =
                IF tfreq[w] = 0 \/ m \notin fresh[w] THEN filenum ELSE @]
  /\ doc' = doc \cup {w}
  /\ UNCHANGED <<swap_locdata, chunk, old, filenum, pc, docs, stop, parsedDocs>>

(* CompressCurrentLocEntry for the entries of the dirty chains.            *)
Packed(w) ==
  IF Hash[w] \in dirty /\ fresh[w] # {} THEN chunk[w] \cup {filenum}
  ELSE chunk[w]

(* The end of a document; coalesce_word_locations for all entries when a   *)
(* chunk of documents is complete or the memory zone is large.             *)
EndDoc ==
  /\ pc = "parsing"
  /\ pc' = "between"
  /\ dirty' = {}
  /\ fresh' = [w \in Words |-> IF Hash[w] \in dirty THEN {} ELSE fresh[w]]
  /\ \/ /\ old' = [w \in Words |-> old[w] \cup Packed(w)]
        /\ chunk' = [w \in Words |-> {}]
     \/ /\ filenum % ChunkDocs # 0
        /\ chunk' = [w \in Words |-> Packed(w)]
        /\ UNCHANGED old
  /\ docs' = Append(docs, doc)
  /\ UNCHANGED <<swap_locdata, chain, tfreq, last, filenum, total, doc, stop,
                 parsedDocs>>

-----------------------------------------------------------------------------
(* remove_last_file_from_list.                                             *)

Touched(w) == fresh[w] # {}

(* add_coalesced leaves no trace in an entry of locations that it swaps.   *)
NoOther(w) == chunk[w] = {} /\ (swap_locdata \/ old[w] = {})

(* One turn of the walk along a chain: s.out is what is linked so far,     *)
(* s.prev the place in it of prev_ep, 0 for NULL.  An entry that loses its *)
(* locations but stays does not become prev_ep; unlinking an entry links   *)
(* prev_ep to the one after it.                                            *)
WalkTurn(s, w) ==
  IF ~Touched(w) THEN [out |-> Append(s.out, w), prev |-> Len(s.out) + 1]
  ELSE IF NoOther(w) THEN [out |-> SubSeq(s.out, 1, s.prev), prev |-> s.prev]
  ELSE [out |-> Append(s.out, w), prev |-> s.prev]

Walk(c) ==
  LET turn[i \in 0..Len(c)] ==
        IF i = 0 THEN [out |-> <<>>, prev |-> 0] ELSE WalkTurn(turn[i - 1], c[i])
  IN  turn[Len(c)].out

(* Slip: last_filenum is not reset.                                        *)
RemovedLastKept(w) == last[w]

(* last_filenum of an entry that loses its newest locations.               *)
RemovedLast(w) == 0

(* numWords and totalwords go down by one for each entry unlinked.         *)
Unlinked ==
  Cardinality({w \in Words : Hash[w] \in dirty /\ Touched(w) /\ NoOther(w)})

(* An entry that is no longer in its chain is lost with all it knows; its  *)
(* word gets a new one when it is met again.                               *)
AbortDoc ==
  /\ pc = "parsing"
  /\ pc' = "between"
  /\ dirty' = {}
  /\ chain' = [h \in Chains |-> IF h \in dirty THEN Walk(chain[h]) ELSE chain[h]]
  /\ LET takenFrom == {w \in Words : Hash[w] \in dirty /\ Touched(w)}
         lost == {w \in Words : ~InTable(w)'}
     IN  /\ fresh' = [w \in Words |->
                        IF w \in takenFrom \cup lost THEN {} ELSE fresh[w]]
         /\ chunk' = [w \in Words |-> IF w \in lost THEN {} ELSE chunk[w]]
         /\ old' = [w \in Words |-> IF w \in lost THEN {} ELSE old[w]]
         /\ tfreq' = [w \in Words |-> IF w \in lost THEN 0
                                     ELSE IF w \in takenFrom THEN tfreq[w] - 1
                                     ELSE tfreq[w]]
         /\ last' = [w \in Words |-> IF w \in lost THEN 0
                                    ELSE IF w \in takenFrom THEN RemovedLast(w)
                                    ELSE last[w]]
  /\ total' = total - Unlinked
  /\ filenum' = filenum - 1
  /\ UNCHANGED <<swap_locdata, docs, doc, stop, parsedDocs>>

-----------------------------------------------------------------------------
(* write_index_file.                                                       *)

TooCommon(w) ==
  /\ PLimit < NoLimit
  /\ (tfreq[w] * 100) \div filenum >= PLimit
  /\ tfreq[w] >= FLimit

(* A chain without the words in W.                                         *)
Unlisted(c, W) ==
  LET rest[i \in 0..Len(c)] ==
        IF i = 0 THEN <<>>
        ELSE IF c[i] \in W THEN rest[i - 1] ELSE Append(rest[i - 1], c[i])
  IN  rest[Len(c)]

(* coalesce_all_word_locations, getPositionsFromIgnoreLimitWords.  Without *)
(* words there is nothing to do (and the index is not written).            *)
WriteTable ==
  /\ pc = "between"
  /\ total # 0
  /\ pc' = "written"
  /\ old' = [w \in Words |-> old[w] \cup chunk[w]]
  /\ chunk' = [w \in Words |-> {}]
  /\ LET common == {w \in Words : InTable(w) /\ TooCommon(w)}
     IN  /\ chain' = [h \in Chains |-> Unlisted(chain[h], common)]
         /\ total' = total - Cardinality(common)
         /\ stop' = common
  /\ UNCHANGED <<swap_locdata, dirty, fresh, tfreq, last, filenum, docs, doc,
                 parsedDocs>>

TableNext ==
  \/ BeginDoc \/ EndDoc \/ AbortDoc \/ WriteTable
  \/ \E w \in Words, m \in Metas : AddWord(w, m)

TableSpec == TableInit /\ [][TableNext]_tableVars

-----------------------------------------------------------------------------
(***************************************************************************)
(* Properties: the table against the documents that were given.            *)
(***************************************************************************)
(* The files word w was given in, the one being parsed included.           *)
GivenIn(w) ==
  {n \in 1..Len(docs) : w \in docs[n]}
    \cup (IF pc = "parsing" /\ w \in doc THEN {filenum} ELSE {})

(* The files of the locations that w's entry has.                          *)
EntryFiles(w) ==
  chunk[w] \cup old[w] \cup (IF fresh[w] # {} THEN {filenum} ELSE {})

(* The entries of w in its chain.                                          *)
Linked(w) ==
  Cardinality({i \in 1..Len(chain[Hash[w]]) : chain[Hash[w]][i] = w})

(* Every word of an indexed document can be looked up, once, whatever      *)
(* other documents were aborted and whichever words share its chain; and a *)
(* word only aborted documents had is gone.                                *)
WordsReachable ==
  \A w \in Words :
    Linked(w) = IF GivenIn(w) # {} /\ w \notin stop THEN 1 ELSE 0

(* A word's locations are the files it was given in: an aborted document   *)
(* whose number is used again leaves none behind.                          *)
LocationsGiven == \A w \in Words : EntryFiles(w) = GivenIn(w)

(* tfrequency, which IgnoreLimit and ranking use, is the number of files a *)
(* listed word is in, also when a document takes the number of an aborted  *)
(* one.                                                                    *)
FrequencyExact ==
  \A w \in Words : InTable(w) => tfreq[w] = Cardinality(GivenIn(w))

(* header.totalwords is the number of words in the table.                  *)
TotalWordsExact == total = Cardinality({w \in Words : InTable(w)})

(* An entry has no location of an aborted document, and counts the files   *)
(* of those it has; a word has one entry at most.                          *)
NothingLeft ==
  \A w \in Words :
    /\ Linked(w) <= 1
    /\ EntryFiles(w) \subseteq GivenIn(w)
    /\ InTable(w) => tfreq[w] = Cardinality(EntryFiles(w))

(* The entries agree with the documents that were kept.  With option -e    *)
(* only one half of it is so: aborted documents leave nothing behind, but  *)
(* words of kept documents, and their number, may go with them.            *)
EntriesExact ==
  /\ NothingLeft
  /\ ~swap_locdata =>
       WordsReachable /\ LocationsGiven /\ FrequencyExact /\ TotalWordsExact
=============================================================================
