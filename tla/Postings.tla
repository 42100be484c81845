------------------------------ MODULE Postings ------------------------------
(***************************************************************************)
(* The word data of one word, from the documents to the index and back to  *)
(* a search (index.c, compress.c, db_write.c, search.c).                   *)
(*                                                                         *)
(* Locations - the positions of the word in a file under a metaname - are  *)
(* packed as they come, coalesced to blocks from time to time, put         *)
(* together when the index is written, adjusted for the words IgnoreLimit  *)
(* takes out, and in update mode added to the data the index has.  File    *)
(* numbers are stored as differences: within a block, then within a        *)
(* metaname.  The bytes are those of the code, but that a long is one.     *)
(***************************************************************************)
EXTENDS Integers, Sequences, SequencesExt, FiniteSets, FiniteSetsExt

CONSTANTS
  WordMetas,      \* metanames, by number
  WordTexts,        \* what a document may say: Texts[..][m] are the positions
                \*   of the word under metaname m, each [pos, str]
  TakenOut,     \* the positions of another word of it, that IgnoreLimit may
                \*   take out: TakenOut[text][m]
  OldFiles,     \* files of the index that do not have the word
  ChunkSize,    \* chunk_size
  BlockSize,    \* COALESCE_BUFFER_MAX_SIZE, in locations
  MaxFiles,     \* bound: files with the word
  MaxWrites     \* bound: sessions

VARIABLES
  fileNumber,   \* idx->filenum
  economic,     \* swap_locdata: option -e
  chunkLocs,    \* currentChunkLocationList: [meta, file, data]
  allLocs,      \* allLocationList: [meta, data], or the swap file
  tfrequency,   \* of the entry
  worddata,     \* of the word in the index, <<>> if it has none
  given,        \* history: what the documents said
  fromFile,     \* history: files before this session
  writes        \* sessions so far

postingVars == <<fileNumber, economic, chunkLocs, allLocs, tfrequency,
                 worddata, given, fromFile, writes>>

IN_FILE == 1
IN_HTML_BODY == 9     \* IN_BODY | IN_FILE

-----------------------------------------------------------------------------
(* Numbers.                                                                *)

(* compress3: seven bits a byte, the high ones first; of a number below 0  *)
(* the code does not come to an end.                                       *)
Compress3(n) ==
  LET size == CHOOSE k \in 1..5 : n < 128 ^ k /\ (k > 1 => n >= 128 ^ (k - 1))
  IN  IF n < 0 THEN <<>>
      ELSE [i \in 1..size |-> ((n \div 128 ^ (size - i)) % 128) + (IF i < size THEN 128 ELSE 0)]

(* uncompress2: the number at i and where it ends.                         *)
Uncompress2(s, i) ==
  LET last == Min({j \in i..Min({i + 4, Len(s)}) : s[j] < 128})
  IN  [num |-> FoldLeft(LAMBDA n, b : n * 128 + (b % 128), 0, SubSeq(s, i, last)),
       next |-> last + 1]

-----------------------------------------------------------------------------
(* Locations.                                                              *)

Flag == 128
Position4Bit == 16
CommonFlag(structure) ==
  CASE structure = IN_FILE -> 32 [] structure = IN_HTML_BODY -> 64 [] OTHER -> 96

Deltas(p) == [i \in 1..(Len(p) - 1) |-> p[i + 1].pos - p[i].pos]
Common(p) == \A i \in DOMAIN p : p[i].str = p[1].str
FourBit(p) == \A i \in 1..(Len(p) - 1) : p[i + 1].pos - p[i].pos < 16

(* Two differences of positions in a byte.                                 *)
Halves(d) ==
  [b \in 1..((Len(d) + 1) \div 2) |->
     16 * d[2 * b - 1] + (IF 2 * b <= Len(d) THEN d[2 * b] ELSE 0)]

(* compress_location_values and _positions: a location is a flag, the file *)
(* number and the positions.  One position below 128 of a plain file is    *)
(* the flag itself.                                                        *)
CompressLocation(file, p) ==
  LET frequency == Len(p)
      flag == Flag + (IF frequency < 16 THEN frequency ELSE 0)
                + (IF Common(p) THEN CommonFlag(p[1].str) ELSE 0)
                + (IF FourBit(p) THEN Position4Bit ELSE 0)
  IN  IF frequency = 1 /\ p[1].pos < 128 /\ p[1].str = IN_FILE
      THEN <<p[1].pos>> \o Compress3(file)
      ELSE <<flag>> \o Compress3(file)
             \o (IF frequency < 16 THEN <<>> ELSE Compress3(frequency))
             \o (IF Common(p) /\ CommonFlag(p[1].str) = 96 THEN <<p[1].str>> ELSE <<>>)
             \o Compress3(p[1].pos)
             \o (IF FourBit(p) THEN Halves(Deltas(p))
                 ELSE FlattenSeq([i \in 1..(frequency - 1) |-> Compress3(p[i + 1].pos - p[i].pos)]))
             \o (IF Common(p) THEN <<>> ELSE [i \in 1..frequency |-> p[i].str])

(* Numbers from i on, n of them, each begun where the one before ended.    *)
Numbers(s, i, n) ==
  FoldLeft(LAMBDA r, k : LET number == Uncompress2(s, r.next)
                         IN  [nums |-> Append(r.nums, number.num), next |-> number.next],
           [nums |-> <<>>, next |-> i], [k \in 1..n |-> k])

(* uncompress_location_values: the file and the number of positions of a   *)
(* location with a flag.                                                   *)
FrequencyAt(s, flag, next) ==
  IF flag % 16 > 0 THEN [num |-> flag % 16, next |-> next] ELSE Uncompress2(s, next)
FileAndFrequency(s, flag, file) ==
  [file |-> file.num, frequency |-> FrequencyAt(s, flag, file.next)]

(* uncompress_location_positions: the differences, the structures, and the *)
(* positions.                                                              *)
PositionDeltas(s, flag, i, frequency) ==
  IF (flag \div 16) % 2 = 0 THEN Numbers(s, i, frequency - 1)
  ELSE [nums |-> [k \in 1..(frequency - 1) |->
                    IF k % 2 = 1 THEN s[i + (k - 1) \div 2] \div 16
                    ELSE s[i + (k - 1) \div 2] % 16],
        next |-> i + frequency \div 2]

Structures(s, flag, common, i, frequency) ==
  [k \in 1..frequency |->
     CASE flag = 0 -> s[i + k - 1] [] flag = 1 -> IN_FILE
       [] flag = 2 -> IN_HTML_BODY [] flag = 3 -> common]

Posdata(first, deltas, structures) ==
  FoldLeft(LAMBDA p, k : Append(p, [pos |-> p[k - 1].pos + deltas[k - 1], str |-> structures[k]]),
           <<[pos |-> first, str |-> structures[1]]>>, [k \in 1..Len(deltas) |-> k + 1])

Located(s, flag, values, first, deltas) ==
  LET structure == (flag \div 32) % 4
      frequency == values.frequency.num
  IN  [file |-> values.file,
       next |-> deltas.next + (IF structure = 0 THEN frequency ELSE 0),
       posdata |-> Posdata(first, deltas.nums,
                     Structures(s, structure, s[values.frequency.next], deltas.next, frequency))]

AfterFirst(s, flag, values, first) ==
  Located(s, flag, values, first.num,
          PositionDeltas(s, flag, first.next, values.frequency.num))

AfterValues(s, flag, values) ==
  AfterFirst(s, flag, values,
             Uncompress2(s, values.frequency.next + (IF (flag \div 32) % 4 = 3 THEN 1 ELSE 0)))

OnePosition(position, file) ==
  [file |-> file.num, next |-> file.next, posdata |-> <<[pos |-> position, str |-> IN_FILE]>>]

(* The location at i.                                                      *)
UncompressLocation(s, i) ==
  IF s[i] < Flag THEN OnePosition(s[i], Uncompress2(s, i + 1))
  ELSE AfterValues(s, s[i], FileAndFrequency(s, s[i], Uncompress2(s, i + 1)))

(* Locations with the differences of their file numbers.                   *)
Differences(locs) ==
  FlattenSeq([i \in DOMAIN locs |->
    CompressLocation(locs[i].file - (IF i = 1 THEN 0 ELSE locs[i - 1].file), locs[i].posdata)])

-----------------------------------------------------------------------------
(* Blocks.                                                                 *)

MetaOrder == SetToSortSeq(WordMetas, <)

Before(a, b) == a.meta < b.meta \/ (a.meta = b.meta /\ a.file < b.file)

(* coalesce_word_locations: the locations of the chunk, sorted by metaname *)
(* and file, as blocks of one metaname, of so many locations at most.      *)
Blocks(locs) ==
  LET sorted == SortSeq([i \in DOMAIN locs |->
                           [meta |-> locs[i].meta, file |-> locs[i].file,
                            posdata |-> UncompressLocation(locs[i].data, 1).posdata]], Before)
      of(m) == SelectSeq(sorted, LAMBDA l : l.meta = m)
      blocks(m) == (Len(of(m)) + BlockSize - 1) \div BlockSize
      block(m, b) == SubSeq(of(m), (b - 1) * BlockSize + 1, Min({b * BlockSize, Len(of(m))}))
  IN  FlattenSeq([i \in 1..Cardinality(WordMetas) |->
        LET m == MetaOrder[i]
        IN  [b \in 1..blocks(m) |-> [meta |-> m, data |-> Differences(block(m, b))]]])

(* add_coalesced: kept sorted by metaname.  With option -e blocks are put  *)
(* at the end of a file.                                                   *)
AddCoalesced(all, block) ==
  LET before == SelectSeq(all, LAMBDA l : l.meta <= block.meta)
      rest == SelectSeq(all, LAMBDA l : l.meta > block.meta)
  IN  IF economic THEN Append(all, block) ELSE before \o <<block>> \o rest

Coalesced(all, locs) == FoldLeft(AddCoalesced, all, Blocks(locs))

(* unSwapLocData gives the blocks back in reverse; sortSwapLocData sorts   *)
(* them by metaname, and within one from the last to the first.            *)
Unswapped(all) ==
  FlattenSeq([i \in 1..Cardinality(WordMetas) |->
    SelectSeq(all, LAMBDA l : l.meta = MetaOrder[i])])

-----------------------------------------------------------------------------
(* The word data.                                                          *)

(* build_worddata: the data of a metaname, a zero after every block.       *)
Built(all, m) ==
  FlattenSeq([i \in 1..Len(SelectSeq(all, LAMBDA l : l.meta = m)) |->
                SelectSeq(all, LAMBDA l : l.meta = m)[i].data \o <<0>>])

(* What IgnoreLimit took out of a file that stands before a position.      *)
Shifted(file, m, p, ignored) ==
  LET out == IF ignored /\ file > fromFile THEN TakenOut[given[file - OldFiles].text][m] ELSE {}
  IN  [k \in DOMAIN p |->
         [p[k] EXCEPT !.pos = @ - Cardinality({q \in out : q <= @})]]

(* adjustWordPositions reads location by location; file numbers start anew *)
(* after the zero of a block.                                              *)
Read(r, l, ended) ==
  [locs |-> Append(r.locs, [delta |-> l.file, posdata |-> l.posdata, ended |-> ended]),
   next |-> IF ended THEN l.next + 1 ELSE l.next]
InBlock(s, r, l) == Read(r, l, s[l.next] = 0)
BlockLocations(s) ==
  FoldLeft(LAMBDA r, k : IF r.next > Len(s) THEN r
                         ELSE InBlock(s, r, UncompressLocation(s, r.next)),
           [locs |-> <<>>, next |-> 1], s).locs

FileNumbers(locs) ==
  FoldLeft(LAMBDA r, l :
             Append(r, [file |-> (IF r = <<>> \/ Last(r).ended THEN 0 ELSE Last(r).file) + l.delta,
                        posdata |-> l.posdata, ended |-> l.ended]),
           <<>>, locs)

AllShifted(locs, m, ignored) ==
  [i \in DOMAIN locs |->
     [locs[i] EXCEPT !.posdata = Shifted(locs[i].file, m, @, ignored)]]
Adjusted(s, m, ignored) ==
  Differences(AllShifted(FileNumbers(BlockLocations(s)), m, ignored))

(* The metanames of the word, each with its data: build_worddata.          *)
Sections(all, ignored) ==
  LET metas == SelectSeq(MetaOrder, LAMBDA m : \E l \in ToSet(all) : l.meta = m)
  IN  [i \in DOMAIN metas |->
         [meta |-> metas[i], data |-> Adjusted(Built(all, metas[i]), metas[i], ignored)]]

(* remove_worddata_longs: the data as written, with its lengths.           *)
Written(tfreq, sections) ==
  Compress3(tfreq) \o
  FlattenSeq([i \in DOMAIN sections |->
    Compress3(sections[i].meta) \o Compress3(Len(sections[i].data)) \o sections[i].data])

(* The metanames in written data, from i on.                               *)
Section(s, meta, length) ==
  [meta |-> meta, data |-> SubSeq(s, length.next, length.next + length.num - 1),
   end |-> length.next + length.num]
SectionAt(s, meta) == Section(s, meta.num, Uncompress2(s, meta.next))
SectionsAt(s, start) ==
  FoldLeft(LAMBDA r, m : IF r # <<>> /\ Last(r).end > Len(s) THEN r
                         ELSE Append(r, SectionAt(s,
                                Uncompress2(s, IF r = <<>> THEN start ELSE Last(r).end))),
           <<>>, MetaOrder)

(* The locations in the data of a metaname.                                *)
Locations(s) ==
  FileNumbers(FoldLeft(LAMBDA r, k : IF r.next > Len(s) THEN r
                         ELSE Read(r, UncompressLocation(s, r.next), FALSE),
                       [locs |-> <<>>, next |-> 1], s).locs)

(* Slip: the new data is appended as it is.                                *)
AppendedAsIs(old, new) == old \o new

(* add_worddata, of a metaname both have: the first new file number is     *)
(* changed to its difference from the last old one, the rest copied.       *)
AppendedAfter(old, last, new, first) ==
  old \o CompressLocation(first.file - last, first.posdata)
      \o SubSeq(new, first.next, Len(new))
Appended(old, new) ==
  AppendedAfter(old, Last(Locations(old)).file, new, UncompressLocation(new, 1))

(* add_worddata: the metanames of both, merged.                            *)
DataOf(sections, m) ==
  FlattenSeq([i \in DOMAIN sections |-> IF sections[i].meta = m THEN sections[i].data ELSE <<>>])
DataOfBoth(old, new) ==
  IF old = <<>> THEN new ELSE IF new = <<>> THEN old ELSE Appended(old, new)
AddWorddata(old, new) ==
  LET metas == SelectSeq(MetaOrder, LAMBDA m : \E x \in ToSet(old) \cup ToSet(new) : x.meta = m)
  IN  [i \in DOMAIN metas |->
         [meta |-> metas[i],
          data |-> DataOfBoth(DataOf(old, metas[i]), DataOf(new, metas[i]))]]

-----------------------------------------------------------------------------
(* Indexing.                                                               *)

PostingsInit ==
  /\ economic \in BOOLEAN
  /\ fileNumber = OldFiles /\ fromFile = OldFiles
  /\ chunkLocs = <<>> /\ allLocs = <<>> /\ tfrequency = 0
  /\ worddata = <<>> /\ given = <<>> /\ writes = 0

(* do_index_file: addentry of every position, packing by                   *)
(* CompressCurrentLocEntry, and coalescing at the end of a chunk of        *)
(* documents or when their memory is full.                                 *)
IndexDoc(text) ==
  /\ writes < MaxWrites /\ Len(given) < MaxFiles
  /\ fileNumber' = fileNumber + 1
  /\ given' = Append(given, [text |-> text, ignored |-> FALSE])
  /\ LET metas == SelectSeq(MetaOrder, LAMBDA m : WordTexts[text][m] # <<>>)
         file == fileNumber + 1
     IN  /\ tfrequency' = IF metas = <<>> THEN tfrequency ELSE tfrequency + 1
         /\ \E new \in {chunkLocs \o [i \in DOMAIN metas |->
                           [meta |-> metas[i], file |-> file,
                            data |-> CompressLocation(file, WordTexts[text][metas[i]])]]} :
              \/ chunkLocs' = <<>> /\ \E all \in {Coalesced(allLocs, new)} : allLocs' = all
              \/ file % ChunkSize # 0 /\ chunkLocs' = new /\ UNCHANGED allLocs
  /\ UNCHANGED <<economic, worddata, fromFile, writes>>

(* write_index_file of this word; the next session, in update mode, starts *)
(* with nothing in memory.                                                 *)
WriteIndex(ignored) ==
  /\ writes < MaxWrites
  /\ writes' = writes + 1
  /\ \E all \in {Coalesced(allLocs, chunkLocs)} :
       \E new \in {Sections(IF economic THEN Unswapped(all) ELSE all, ignored)} :
         \E data \in {IF tfrequency = 0 THEN worddata
                     ELSE IF worddata = <<>> THEN Written(tfrequency, new)
                     ELSE LET tfreq == Uncompress2(worddata, 1)
                          IN  Written(tfreq.num + tfrequency,
                                      AddWorddata(SectionsAt(worddata, tfreq.next), new))} :
           worddata' = data
  /\ given' = [n \in DOMAIN given |->
                 [given[n] EXCEPT !.ignored = @ \/ (ignored /\ n + OldFiles > fromFile)]]
  /\ fromFile' = fileNumber
  /\ chunkLocs' = <<>> /\ allLocs' = <<>> /\ tfrequency' = 0
  /\ UNCHANGED <<fileNumber, economic>>

PostingsNext ==
  \/ \E text \in DOMAIN WordTexts : IndexDoc(text)
  \/ \E ignored \in BOOLEAN : WriteIndex(ignored)

PostingsSpec == PostingsInit /\ [][PostingsNext]_postingVars

-----------------------------------------------------------------------------
(* Searching.                                                              *)

(* getfileinfo: the locations of the word under a metaname.  Metanames     *)
(* before it are passed over.                                              *)
GetFileInfo(meta) ==
  LET sections == SectionsAt(worddata, Uncompress2(worddata, 1).next)
      at == {i \in DOMAIN sections :
               /\ sections[i].meta >= meta
               /\ \A j \in 1..(i - 1) : sections[j].meta < meta}
  IN  IF at = {} \/ sections[Max(at)].meta # meta THEN <<>>
      ELSE Locations(sections[Max(at)].data)

(* What a document says, but for the words IgnoreLimit took out, which do  *)
(* not count for positions.                                                *)
Said(n, m) ==
  LET p == WordTexts[given[n].text][m]
      out == IF given[n].ignored THEN TakenOut[given[n].text][m] ELSE {}
  IN  [k \in DOMAIN p |-> [p[k] EXCEPT !.pos = @ - Cardinality({q \in out : q < @})]]

(* A search reads what the documents of all sessions said: every file that *)
(* has the word under the metaname, in ascending order, with every         *)
(* position, and the number of files; whatever was coalesced when, by      *)
(* option -e or not, and however often the data was added to.              *)
SearchReads ==
  chunkLocs = <<>> /\ allLocs = <<>> /\ fromFile = fileNumber =>
    LET having(metas) == SelectSeq([n \in DOMAIN given |-> n],
                           LAMBDA n : \E m \in metas : WordTexts[given[n].text][m] # <<>>)
    IN  IF having(WordMetas) = <<>> THEN worddata = <<>>
        ELSE /\ Uncompress2(worddata, 1).num = Len(having(WordMetas))
             /\ \A m \in WordMetas :
                  GetFileInfo(m) = [i \in DOMAIN having({m}) |->
                                     [file |-> OldFiles + having({m})[i],
                                      posdata |-> Said(having({m})[i], m), ended |-> FALSE]]
=============================================================================
