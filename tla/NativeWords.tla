---------------------------- MODULE NativeWords ----------------------------
(* The words of an index of two files: the part of db_native.c that is not *)
(* USE_BTREE, and write_index, which calls it. The words are written in    *)
(* ascending order, then chained to the entries of a hash table, then      *)
(* their data are written, in the order of the hash table in memory; the   *)
(* chains and the places of the data, kept in memory until then, are put   *)
(* into the words at the end. A searcher follows a chain to find a word,   *)
(* and reads from the first word with the same first letter to find those  *)
(* that begin with a word; between two of these it reads data and looks    *)
(* for other words in the same file.                                       *)
(* A word is a sequence of letters, a letter a number; the data of a word  *)
(* are the word itself. The words of the file are numbered; a place in it  *)
(* is the number of the word read next.                                    *)
EXTENDS Naturals, SequencesExt, FiniteSets

CONSTANTS
  Letters,   \* the letters words begin with
  Words,     \* words there may be, and be looked for
  Hash       \* verybighash: the entry of each word in the table

ASSUME WordsAssumption ==
  /\ Letters \subseteq Nat /\ Words \subseteq Seq(Nat)
  /\ \A w \in Words : w # <<>> /\ w[1] \in Letters
  /\ Hash \in [Words -> Nat]

VARIABLES
  written,   \* how far write_index is: "words", "hash", "data" or "all"
  todo,      \* the words of its loop that are still to come
  entries,   \* the hash table in memory, entry after entry
  wordFile,  \* the words on disk: the word, its hash chain, its data pointer
  dataFile,  \* the data on disk
  offsets,   \* offsets[]: for each letter its first word
  hashoffsets, lasthashval,   \* for each entry its first word, and its last
  wordhashdata,  \* for each word the chain and the place of its data
  fp,        \* where the searcher's DB->fp stands
  nextwordoffset,
  like, read, ended   \* history: the search for words that begin with like

nativeVars == <<written, todo, entries, wordFile, dataFile, offsets, hashoffsets,
                lasthashval, wordhashdata, fp, nextwordoffset, like, read, ended>>

Entries == {Hash[w] : w \in Words}

(* strcmp(v, w) < 0 *)
Less(v, w) ==
  \/ IsStrictPrefix(v, w)
  \/ \E i \in DOMAIN v \cap DOMAIN w :
       v[i] < w[i] /\ \A j \in 1..(i - 1) : v[j] = w[j]

Ascending(list) == \A i, j \in DOMAIN list : i < j => Less(list[i], list[j])

(* The words in ascending order.                                           *)
Sorted(words) == {s \in [1..Cardinality(words) -> words] : Ascending(s)}

Indexed == {wordFile[i].word : i \in DOMAIN wordFile}
Number(word) == CHOOSE i \in DOMAIN wordFile : wordFile[i].word = word

(* The words in the order of the hash table in memory: entry by entry, and *)
(* in each in any order.                                                   *)
InTable ==
  {s \in Bijection(DOMAIN wordFile, Indexed) :
     \A i, j \in DOMAIN s : i < j => Hash[s[i]] <= Hash[s[j]]}

OnDisk(word, chain, data) == [word |-> word, chain |-> chain, data |-> data]
InMemory(chain, data) == [chain |-> chain, data |-> data]

-----------------------------------------------------------------------------
NativeInit ==
  /\ written = "words"
  /\ \E words \in SUBSET Words : words # {} /\ IsFiniteSet(words) /\ todo \in Sorted(words)
  /\ entries = <<>> /\ wordFile = <<>> /\ dataFile = <<>>
  /\ offsets = [l \in Letters |-> 0]
  /\ hashoffsets = [h \in Entries |-> 0] /\ lasthashval = hashoffsets
  /\ wordhashdata = <<>>
  /\ fp = 1 /\ nextwordoffset = 0
  /\ like = <<>> /\ read = <<>> /\ ended = FALSE

readVars == <<fp, nextwordoffset, like, read, ended>>

(* The place is the first of its letter, or of its entry.                  *)
FirstAt(first, l, place) == [first EXCEPT ![l] = IF first[l] = 0 THEN place ELSE first[l]]

WriteWord ==
  /\ written = "words" /\ todo # <<>>
  /\ wordFile' = Append(wordFile, OnDisk(Head(todo), 0, 0))
  /\ offsets' = FirstAt(offsets, Head(todo)[1], Len(wordFile) + 1)
  /\ todo' = Tail(todo)
  /\ UNCHANGED <<written, entries, dataFile, hashoffsets, lasthashval, wordhashdata, readVars>>

WordsWritten ==
  /\ written = "words" /\ todo = <<>>
  /\ entries' \in InTable
  /\ todo' = entries' /\ written' = "hash"
  /\ wordhashdata' = [i \in DOMAIN wordFile |-> InMemory(0, 0)]
  /\ UNCHANGED <<wordFile, dataFile, offsets, hashoffsets, lasthashval, readVars>>

(* The last word of the entry points to the new one.                       *)
Chained(id, h) ==
  IF lasthashval[h] = 0 THEN wordhashdata
  ELSE [wordhashdata EXCEPT ![lasthashval[h]] = InMemory(id, wordhashdata[lasthashval[h]].data)]

WriteWordHash ==
  /\ written = "hash" /\ todo # <<>>
  /\ wordhashdata' = Chained(Number(Head(todo)), Hash[Head(todo)])
  /\ hashoffsets' = FirstAt(hashoffsets, Hash[Head(todo)], Number(Head(todo)))
  /\ lasthashval' = [lasthashval EXCEPT ![Hash[Head(todo)]] = Number(Head(todo))]
  /\ todo' = Tail(todo)
  /\ UNCHANGED <<written, entries, wordFile, dataFile, offsets, readVars>>

HashWritten ==
  /\ written = "hash" /\ todo = <<>>
  /\ todo' = entries /\ written' = "data"
  /\ UNCHANGED <<entries, wordFile, dataFile, offsets, hashoffsets, lasthashval,
                 wordhashdata, readVars>>

WriteWordData ==
  /\ written = "data" /\ todo # <<>>
  /\ dataFile' = Append(dataFile, Head(todo))
  /\ wordhashdata' = [wordhashdata EXCEPT ![Number(Head(todo))] =
                        InMemory(wordhashdata[Number(Head(todo))].chain, Len(dataFile) + 1)]
  /\ todo' = Tail(todo)
  /\ UNCHANGED <<written, entries, wordFile, offsets, hashoffsets, lasthashval, readVars>>

EndWriteWords ==
  /\ written = "data" /\ todo = <<>>
  /\ wordFile' = [i \in DOMAIN wordFile |->
                    OnDisk(wordFile[i].word, wordhashdata[i].chain, wordhashdata[i].data)]
  /\ written' = "all"
  /\ UNCHANGED <<todo, entries, dataFile, offsets, hashoffsets, lasthashval,
                 wordhashdata, readVars>>

-----------------------------------------------------------------------------
(* Reading.                                                                *)

EndWordPos == Len(wordFile) + 1

(* DB_ReadWordHash_Native: the chain of the word's entry up to the word.   *)
Followed(word, place) ==
  IF place = 0 \/ wordFile[place].word = word THEN place ELSE wordFile[place].chain
EndOfChain(word) ==
  LET at[n \in 0..Len(wordFile)] ==
        IF n = 0 THEN hashoffsets[Hash[word]] ELSE Followed(word, at[n - 1])
  IN  at[Len(wordFile)]

ReadWordHash(word) ==
  IF EndOfChain(word) = 0 THEN 0 ELSE wordFile[EndOfChain(word)].data

(* strncmp(word, other, strlen(word)) < 0 *)
Beyond(word, other) ==
  Less(word, SubSeq(other, 1, Min({Len(word), Len(other)})))

(* Where DB_ReadFirstWordInvertedIndex_Native ends: at a word that begins  *)
(* with this one, at one beyond it, or at the last.                        *)
FirstStop(word) ==
  Min({i \in offsets[word[1]]..Len(wordFile) :
         \/ IsPrefix(word, wordFile[i].word)
         \/ Beyond(word, wordFile[i].word)
         \/ i + 1 = EndWordPos})

(* A searcher asks for a word that it has no star behind, or reads data.   *)
LookUp ==
  /\ written = "all"
  /\ fp' \in 1..EndWordPos
  /\ UNCHANGED <<written, todo, entries, wordFile, dataFile, offsets, hashoffsets,
                 lasthashval, wordhashdata, nextwordoffset, like, read, ended>>

ReadFirstWord(word) ==
  /\ written = "all"
  /\ like' = word
  /\ IF offsets[word[1]] = 0 THEN read' = <<>> /\ ended' = TRUE /\ UNCHANGED <<fp, nextwordoffset>>
     ELSE /\ fp' = FirstStop(word) + 1
          /\ IF IsPrefix(word, wordFile[FirstStop(word)].word)
             THEN /\ read' = <<wordFile[FirstStop(word)].data>>
                  /\ nextwordoffset' = FirstStop(word) + 1 /\ ended' = FALSE
             ELSE read' = <<>> /\ ended' = TRUE /\ UNCHANGED nextwordoffset
  /\ UNCHANGED <<written, todo, entries, wordFile, dataFile, offsets, hashoffsets,
                 lasthashval, wordhashdata>>

(* Slip: the next word is read where the file stands.                      *)
NextPlaceHere == fp
NextPlace == nextwordoffset

ReadNextWord ==
  /\ written = "all" /\ like # <<>> /\ ~ended
  /\ IF NextPlace \in {0, EndWordPos}
     THEN ended' = TRUE /\ UNCHANGED <<fp, nextwordoffset, read>>
     ELSE /\ fp' = NextPlace + 1
          /\ IF IsPrefix(like, wordFile[NextPlace].word)
             THEN /\ read' = Append(read, wordFile[NextPlace].data)
                  /\ nextwordoffset' = NextPlace + 1 /\ ended' = FALSE
             ELSE read' = read /\ nextwordoffset' = 0 /\ ended' = TRUE
  /\ UNCHANGED <<written, todo, entries, wordFile, dataFile, offsets, hashoffsets,
                 lasthashval, wordhashdata, like>>

NativeNext ==
  \/ WriteWord \/ WordsWritten \/ WriteWordHash \/ HashWritten \/ WriteWordData
  \/ EndWriteWords
  \/ LookUp \/ (\E word \in Words : ReadFirstWord(word)) \/ ReadNextWord

NativeSpec == NativeInit /\ [][NativeNext]_nativeVars

-----------------------------------------------------------------------------
(* A word is found with its data if it was indexed and else not, whatever  *)
(* shares its entry; a search with a star reads the data of the words that *)
(* begin so, in their order, and ends when it has read them all, also when *)
(* other words or data are read in between.                                *)
NativeWordsFound ==
  written = "all" =>
    /\ \A w \in Words :
         LET place == ReadWordHash(w)
         IN  IF w \in Indexed THEN place # 0 /\ dataFile[place] = w ELSE place = 0
    /\ like # <<>> =>
         LET found == [n \in DOMAIN read |-> dataFile[read[n]]]
         IN  /\ Ascending(found)
             /\ \A n \in DOMAIN found : found[n] \in Indexed /\ IsPrefix(like, found[n])
             /\ \A w \in Indexed :
                  IsPrefix(like, w) =>
                    \/ \E n \in DOMAIN found : found[n] = w
                    \/ ~ended /\ \A n \in DOMAIN found : Less(found[n], w)
=============================================================================
