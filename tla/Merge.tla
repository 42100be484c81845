-------------------------------- MODULE Merge --------------------------------
(***************************************************************************)
(* Merging indexes into a new one (merge.c, option -M).                    *)
(*                                                                         *)
(* The files of all indexes are read in the order of their paths, each     *)
(* index with one path read ahead; of files with the same path the newest  *)
(* is taken. Then the words are read, and for every word its locations,    *)
(* index by index, with files and metanames mapped to those of the new     *)
(* index. Each index numbers its metanames as they came up.                *)
(*                                                                         *)
(* A location is a file and a metaname; its positions are copied.          *)
(***************************************************************************)
EXTENDS Naturals, Sequences, SequencesExt, FiniteSets, FiniteSetsExt

CONSTANTS
  MergeWords,  \* words
  MergeInputs  \* the lists of indexes that may be merged; an index is
               \*   header: what check_header_match compares
               \*   metas:  [name, kind, alias] by number, kind its type,
               \*           alias the number of what it is an alias for, or 0
               \*   files:  [path, mtime, words, props] by number, no path
               \*           twice; words are [word, meta], props [prop, value]

IsSeq(s) == s \in Seq(ToSet(s))

(* The metanames that something is stored under: those that are no alias.  *)
NoAlias(metas) == {m \in DOMAIN metas : metas[m].alias = 0}

ASSUME MergeAssumption ==
  \A list \in MergeInputs : IsSeq(list) /\ \A i \in DOMAIN list :
    LET metas == list[i].metas
        files == list[i].files
    IN  /\ IsSeq(metas) /\ IsSeq(files)
        /\ \A m \in DOMAIN metas : metas[m].alias \in 0..(m - 1)
        /\ \A m, k \in DOMAIN metas : metas[m].name = metas[k].name => m = k
        /\ \A n, k \in DOMAIN files : files[n].path = files[k].path => n = k
        /\ \A n \in DOMAIN files :
             /\ files[n].path \in Nat \ {0} /\ files[n].mtime \in Nat
             /\ files[n].words \subseteq [word : MergeWords, meta : NoAlias(metas)]
             /\ \A p \in files[n].props :
                  p.prop \in NoAlias(metas) /\ p = [prop |-> p.prop, value |-> p.value]

VARIABLES
  inputs,       \* sw_input->indexlist
  stage,        \* "open", "files", "words", "data", "done", or "refused"
  opened,       \* indexes opened, later read for words
  outMetas,     \* metaEntryArray of the output
  metaMap,      \* meta_map of each index
  currentFile,  \* current_file of each index
  curProp,      \* cur_prop of each index: a path, or 0 for NULL
  outFiles,     \* files of the output and, as in the temporary file, where
                \*   each came from: [path, props, index, filenum]
  wordsLeft,    \* entries whose data is still to be merged
  locations,    \* of each word of the output: [file, meta], as they came
  frequency     \* tfrequency of each, 0 also if it has no entry

mergeVars == <<inputs, stage, opened, outMetas, metaMap, currentFile,
               curProp, outFiles, wordsLeft, locations, frequency>>

Indexes == DOMAIN inputs

(* cmd_merge: the output is empty.                                         *)
MergeBegins ==
  /\ stage = "open" /\ opened = 0
  /\ outMetas = <<>>
  /\ metaMap = [i \in Indexes |-> <<>>]
  /\ currentFile = [i \in Indexes |-> 0]
  /\ curProp = [i \in Indexes |-> 0]
  /\ outFiles = <<>>
  /\ wordsLeft = {}
  /\ locations = [w \in MergeWords |-> <<>>]
  /\ frequency = [w \in MergeWords |-> 0]

MergeInit == inputs \in MergeInputs /\ MergeBegins

-----------------------------------------------------------------------------
(* Metanames.                                                              *)

(* getMetaNameByNameNoAlias and getPropNameByNameNoAlias: 0 if there is    *)
(* none. (Metanames and properties are in one array, but apart.)           *)
ByName(metas, name) ==
  Max({0} \cup {m \in DOMAIN metas : metas[m].name = name})

MetaEntry(name, kind, alias) == [name |-> name, kind |-> kind, alias |-> alias]

(* A metaname is added under the next number if the output lacks it.       *)
Grown(out, meta) ==
  IF ByName(out, meta.name) # 0 THEN out
  ELSE Append(out, MetaEntry(meta.name, meta.kind, 0))

(* What it is an alias for, looked up by name.                             *)
BaseOf(out, metas, m) ==
  IF metas[m].alias = 0 THEN 0 ELSE ByName(out, metas[metas[m].alias].name)

Aliased(out, id, base) ==
  IF base = 0 THEN out
  ELSE [out EXCEPT ![id] = MetaEntry(out[id].name, out[id].kind, base)]

(* A metaname of another kind, or an alias for something else, ends the    *)
(* program.                                                                *)
Matches(out, id, base, meta) ==
  out[id].kind = meta.kind /\ (base # 0 => out[id].alias \in {0, base})

(* make_meta_map, one metaname.                                            *)
Made(out, map, wrong) == [out |-> out, map |-> map, wrong |-> wrong]
Mapped(r, metas, m) ==
  LET out == Grown(r.out, metas[m])
      id == ByName(out, metas[m].name)
      base == BaseOf(out, metas, m)
  IN  Made(Aliased(out, id, base), Append(r.map, id),
           IF Matches(out, id, base, metas[m]) THEN r.wrong ELSE r.wrong \cup {m})

MakeMetaMap(metas) ==
  LET made[m \in 0..Len(metas)] ==
        IF m = 0 THEN Made(outMetas, <<>>, {}) ELSE Mapped(made[m - 1], metas, m)
  IN  made[Len(metas)]

(* The loop over the indexes: dup_header for the first, check_header_match *)
(* for the others, make_meta_map.                                          *)
OpenIndex ==
  /\ stage = "open" /\ opened < Len(inputs)
  /\ opened' = opened + 1
  /\ LET made == MakeMetaMap(inputs[opened'].metas)
     IN  IF inputs[opened'].header = inputs[1].header /\ made.wrong = {}
         THEN /\ outMetas' = made.out
              /\ metaMap' = [metaMap EXCEPT ![opened'] = made.map]
              /\ stage' = IF opened' = Len(inputs) THEN "files" ELSE stage
         ELSE stage' = "refused" /\ UNCHANGED <<outMetas, metaMap>>
  /\ UNCHANGED <<inputs, currentFile, curProp, outFiles, wordsLeft, locations,
                 frequency>>

-----------------------------------------------------------------------------
(* Files.                                                                  *)

(* load_filename_sort: path_order, file numbers in the order of paths.     *)
Place(files, n) == Cardinality({k \in DOMAIN files : files[k].path < files[n].path})
PathOrder(i) ==
  [at \in DOMAIN inputs[i].files |->
     CHOOSE n \in DOMAIN inputs[i].files : Place(inputs[i].files, n) = at - 1]

FileAt(i, current) == inputs[i].files[PathOrder(i)[current + 1]]

(* Where reading is, the paths read ahead, and the winner so far.          *)
Reading(current, prop, winner) == [current |-> current, prop |-> prop, winner |-> winner]

(* Slip: the path read ahead of a file thrown away stays.                  *)
PassedStale(r, i) == Reading([r.current EXCEPT ![i] = @ + 1], r.prop, r.winner)

(* A file of index i is passed: the next has to be read.                   *)
Passed(r, i) ==
  Reading([r.current EXCEPT ![i] = @ + 1], [r.prop EXCEPT ![i] = 0], r.winner)

ReadAhead(r, i) ==
  IF r.prop[i] # 0 THEN r
  ELSE Reading(r.current, [r.prop EXCEPT ![i] = FileAt(i, r.current[i]).path], r.winner)

Won(r, i) == Reading(r.current, r.prop, i)

(* Index i, with its path read, against the winner w so far: the smaller   *)
(* path, and of equal ones the newer.                                      *)
Against(r, i, w) ==
  IF w = 0 \/ r.prop[i] < r.prop[w] THEN Won(r, i)
  ELSE IF r.prop[i] > r.prop[w] THEN r
  ELSE IF FileAt(i, r.current[i]).mtime > FileAt(w, r.current[w]).mtime
  THEN Won(Passed(r, w), i)
  ELSE Passed(r, i)

(* get_next_file_in_order                                                  *)
Contest(r, i) ==
  IF r.current[i] >= Len(inputs[i].files) THEN r ELSE Against(ReadAhead(r, i), i, r.winner)

Contested ==
  LET contest[i \in 0..Len(inputs)] ==
        IF i = 0 THEN Reading(currentFile, curProp, 0) ELSE Contest(contest[i - 1], i)
  IN  contest[Len(inputs)]

(* add_file: its properties under the numbers of the output.               *)
MappedProps(i, n) ==
  {[prop |-> metaMap[i][p.prop], value |-> p.value] : p \in inputs[i].files[n].props}
AddFile(i, n) ==
  Append(outFiles, [path |-> inputs[i].files[n].path, props |-> MappedProps(i, n),
                    index |-> i, filenum |-> n])

NextFile ==
  /\ stage = "files"
  /\ LET r == Contested
         taken == Passed(r, r.winner)
     IN  IF r.winner # 0
         THEN /\ outFiles' = AddFile(r.winner, PathOrder(r.winner)[r.current[r.winner] + 1])
              /\ currentFile' = taken.current /\ curProp' = taken.prop
              /\ UNCHANGED <<stage, opened>>
         ELSE /\ stage' = "words" /\ opened' = 0
              /\ UNCHANGED <<outFiles, currentFile, curProp>>
  /\ UNCHANGED <<inputs, outMetas, metaMap, wordsLeft, locations, frequency>>

-----------------------------------------------------------------------------
(* Words.                                                                  *)

(* dump_index_words: every word of the index gets an entry.                *)
ReadWords ==
  /\ stage = "words" /\ opened < Len(inputs)
  /\ opened' = opened + 1
  /\ wordsLeft' = wordsLeft \cup
       {l.word : l \in UNION {f.words : f \in ToSet(inputs[opened'].files)}}
  /\ stage' = IF opened' = Len(inputs) THEN "data" ELSE stage
  /\ UNCHANGED <<inputs, outMetas, metaMap, currentFile, curProp, outFiles,
                 locations, frequency>>

(* get_map: the number file n of index i has in the output, or 0.          *)
FileMap(i, n) ==
  Max({0} \cup {k \in DOMAIN outFiles : outFiles[k].index = i /\ outFiles[k].filenum = n})

(* A word's data in index i: by metaname, then by file.                    *)
DataIn(i, w, m, n) ==
  IF [word |-> w, meta |-> m] \in inputs[i].files[n].words
  THEN <<[file |-> n, meta |-> m]>> ELSE <<>>
WordDataOf(i, w) ==
  FlattenSeq([m \in DOMAIN inputs[i].metas |->
    FlattenSeq([n \in DOMAIN inputs[i].files |-> DataIn(i, w, m, n)])])

(* write_word_pos: a location of a file that was replaced is passed over.  *)
WriteWordPos(i, l) ==
  IF FileMap(i, l.file) = 0 THEN <<>>
  ELSE <<[file |-> FileMap(i, l.file), meta |-> metaMap[i][l.meta]]>>

(* addentry counts a file when it is not the one counted last.             *)
Counted(locs) ==
  Cardinality({k \in DOMAIN locs : k = 1 \/ locs[k].file # locs[k - 1].file})

WrittenOf(i, data) == FlattenSeq([k \in DOMAIN data |-> WriteWordPos(i, data[k])])
MergedData(w) == FlattenSeq([i \in Indexes |-> WrittenOf(i, WordDataOf(i, w))])

(* The loop over the entries of the output, in the order of the hash.      *)
MergeWord(w) ==
  /\ stage = "data" /\ w \in wordsLeft
  /\ locations' = [locations EXCEPT ![w] = MergedData(w)]
  /\ frequency' = [frequency EXCEPT ![w] = Counted(MergedData(w))]
  /\ wordsLeft' = wordsLeft \ {w}
  /\ UNCHANGED <<inputs, stage, opened, outMetas, metaMap, currentFile, curProp,
                 outFiles>>

(* Entries with a tfrequency of 0 are removed, write_index_file.           *)
WriteMerged ==
  /\ stage = "data" /\ wordsLeft = {}
  /\ stage' = "done"
  /\ UNCHANGED <<inputs, opened, outMetas, metaMap, currentFile, curProp,
                 outFiles, wordsLeft, locations, frequency>>

MergeNext ==
  \/ OpenIndex \/ NextFile \/ ReadWords \/ WriteMerged
  \/ \E w \in MergeWords : MergeWord(w)

MergeSpec == MergeInit /\ [][MergeNext]_mergeVars

-----------------------------------------------------------------------------
(* Properties.                                                             *)

(* getMetaNameByName: what a name stands for, its alias followed.          *)
Meaning(metas, name) ==
  LET m == ByName(metas, name)
  IN  IF m # 0 /\ metas[m].alias # 0 THEN metas[m].alias ELSE m

(* What a search or a result shows of a file by the names of metanames.    *)
NamesIn(metas) == {m.name : m \in ToSet(metas)}
ShownWords(metas, words) ==
  {x \in NamesIn(metas) \X MergeWords :
     [word |-> x[2], meta |-> Meaning(metas, x[1])] \in words}
ShownProps(metas, props) ==
  {x \in NamesIn(metas) \X {p.value : p \in props} :
     [prop |-> Meaning(metas, x[1]), value |-> x[2]] \in props}

(* The files of the indexes merged, and the newest of them of a path.      *)
FilesMerged == UNION {{i} \X DOMAIN inputs[i].files : i \in Indexes}
MergedFile(x) == inputs[x[1]].files[x[2]]
Newest(path) ==
  {x \in FilesMerged :
     /\ MergedFile(x).path = path
     /\ \A y \in FilesMerged :
          MergedFile(y).path = path => MergedFile(x).mtime >= MergedFile(y).mtime}

(* The words that the merged index has of its file k.                      *)
WordsMerged(k) ==
  {x \in [word : MergeWords, meta : DOMAIN outMetas] :
     [file |-> k, meta |-> x.meta] \in ToSet(locations[x.word])}

(* A merged index has every path once, as the newest of the files with it, *)
(* whichever indexes they are in; and shows each as its own index did: the *)
(* same words under the same names, the same properties.                   *)
MergedNewest ==
  stage = "done" =>
    /\ {f.path : f \in ToSet(outFiles)} = {MergedFile(x).path : x \in FilesMerged}
    /\ IsInjective([k \in DOMAIN outFiles |-> outFiles[k].path])
    /\ \A k \in DOMAIN outFiles :
         \E x \in Newest(outFiles[k].path) :
           LET metas == inputs[x[1]].metas
           IN  /\ ShownWords(outMetas, WordsMerged(k)) = ShownWords(metas, MergedFile(x).words)
               /\ ShownProps(outMetas, outFiles[k].props) = ShownProps(metas, MergedFile(x).props)
    /\ \A w \in MergeWords : \A l \in ToSet(locations[w]) : l.file \in DOMAIN outFiles
=============================================================================
