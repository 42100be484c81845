------------------------------ MODULE UpdateMode ------------------------------
(***************************************************************************)
(* Updating an index of the incremental format in place (swish-e -u, -r):  *)
(* index.c do_index_file and check_for_replace, swish.c cmd_index,         *)
(* fhash.c, array.c and db_native.c for what reaches the disk and when.    *)
(*                                                                         *)
(* A document is a path and a date; its words stand for its content.  The  *)
(* word files post them under a file number.  Removing a document puts 0   *)
(* in its entry of the word-count array; its postings stay.                *)
(*                                                                         *)
(* Kinds of document: "text" has words; "empty" has none; "bare" has none  *)
(* that its parser counts, but words of its path or title are indexed      *)
(* (MetaNames swishdocpath, ExtractPath); "refused" is one whose parser    *)
(* aborts (FileRules title, robots meta tag).                              *)
(***************************************************************************)
EXTENDS Naturals, FiniteSets

CONSTANTS
  Paths,       \* document paths
  Kinds,       \* the kinds of document that occur
  MaxDate,     \* bound: dates are 1..MaxDate, 0 is a document without one
  MaxFile,     \* bound: file numbers; one less is the bound on documents given
  MaxSessions, \* bound: update sessions
  MaxCrashes   \* bound: sessions cut short

ASSUME UpdateAssumption ==
  /\ Kinds \subseteq {"text", "empty", "bare", "refused"}
  /\ MaxDate \in Nat /\ MaxFile \in Nat \ {0}
  /\ MaxSessions \in Nat /\ MaxCrashes \in Nat

VARIABLES
  onDisk,      \* the index as a searcher or the next session opens it
  mem,       \* the index as the session under way sees it
  wpc,       \* what the session is doing
  runMode,   \* -u or -r
  flushed,   \* the parts of mem that have reached disk
  given,     \* documents given to the sessions so far
  sessions, crashes   \* counters

updateVars == <<onDisk, mem, wpc, runMode, flushed, given, sessions, crashes>>

None == ""   \* no path, no header

FileNums == 1..MaxFile
Dates == 0..MaxDate

(* total, removed: header.totalfiles and removedfiles.  count: totwords_array *)
(* (0 for a removed file).  path, date: the stored properties.  names: the    *)
(* FHASH from paths to file numbers.  words: <<n, p, d>> when the words of    *)
(* version d of p are posted under file number n.                             *)
Image ==
  [total : 0..MaxFile, removed : 0..MaxFile, count : [FileNums -> 0..1],
   path : [FileNums -> Paths \cup {None}], date : [FileNums -> Dates],
   names : [Paths -> 0..MaxFile], words : SUBSET (FileNums \X Paths \X Dates)]

UpdateTypeOK ==
  /\ onDisk \in Image
  /\ mem \in Image
  /\ wpc \in {"idle", "documents", "closing"}
  /\ runMode \in {"update", "remove"}
  /\ flushed \subseteq {"header", "words", "array"}
  /\ given \in 0..(MaxFile - 1)
  /\ sessions \in 0..MaxSessions
  /\ crashes \in 0..MaxCrashes

(* An index freshly built from one document.                               *)
BuiltFrom(p, d) ==
  [total |-> 1, removed |-> 0,
   count |-> [n \in FileNums |-> IF n = 1 THEN 1 ELSE 0],
   path |-> [n \in FileNums |-> IF n = 1 THEN p ELSE None],
   date |-> [n \in FileNums |-> IF n = 1 THEN d ELSE 0],
   names |-> [q \in Paths |-> IF q = p THEN 1 ELSE 0],
   words |-> {<<1, p, d>>}]

UpdateInit ==
  /\ \E p \in Paths, d \in Dates : onDisk = BuiltFrom(p, d)
  /\ mem = onDisk
  /\ wpc = "idle"
  /\ runMode = "update"
  /\ flushed = {}
  /\ given = 0
  /\ sessions = 0
  /\ crashes = 0

(* cmd_index: open DB_READWRITE; file numbers go on after totalfiles.      *)
Begin ==
  /\ wpc = "idle"
  /\ sessions < MaxSessions
  /\ wpc' = "documents"
  /\ runMode' \in {"update", "remove"}
  /\ mem' = onDisk
  /\ flushed' = {}
  /\ sessions' = sessions + 1
  /\ UNCHANGED <<onDisk, given, crashes>>

(* extprog: a document's Update-Mode header, None without one, overrides  *)
(* the mode of the run; "Index" selects MODE_UPDATE.                       *)
Headers == {None, "Update", "Remove", "Index"}
ModeOf(h) ==
  CASE h = None -> runMode
    [] h = "Remove" -> "remove"
    [] h \in {"Update", "Index"} -> "update"

(* Slip: a file without a date counts as newer than any.                   *)
NewerOrUndated(old, new) == old < new \/ new = 0

(* file_is_newer_than_existing: Compare_Properties, and the exception for  *)
(* two files without a date.                                               *)
Newer(old, new) == old < new \/ (old = 0 /\ new = 0)

(* Slip: the word count is not looked at.                                  *)
ExistingOrDeleted(I, p) == I.names[p] # 0

(* existing_filenum has words: it is indexed and not removed.              *)
Existing(I, p) == I.names[p] # 0 /\ I.count[I.names[p]] # 0

(* DB_RemoveFileNum and the header's counter.                              *)
RemoveExisting(I, p) ==
  [total |-> I.total, removed |-> I.removed + 1,
   count |-> [I.count EXCEPT ![I.names[p]] = 0],
   path |-> I.path, date |-> I.date, names |-> I.names, words |-> I.words]

(* do_index_file after a successful parse: properties, FHASH, word count.  *)
AddFile(I, p, d, k) ==
  LET n == I.total + 1
  IN  [total |-> n,
       removed |-> I.removed,
       count |-> [I.count EXCEPT ![n] = IF k = "text" THEN 1 ELSE 0],
       path |-> [I.path EXCEPT ![n] = p],
       date |-> [I.date EXCEPT ![n] = d],
       names |-> [I.names EXCEPT ![p] = n],
       words |-> IF k \in {"text", "bare"} THEN I.words \cup {<<n, p, d>>}
                                           ELSE I.words]

(* check_for_replace and do_index_file for one document.  A refused one    *)
(* takes a file number and gives it back (remove_last_file_from_list), but *)
(* the version it was to replace has been removed by then.                 *)
IndexDocument(p, d, k, h) ==
  /\ wpc = "documents"
  /\ given < MaxFile - 1
  /\ given' = given + 1
  /\ LET mode == ModeOf(h)
         replaces == /\ Existing(mem, p)
                     /\ mode = "remove" \/ Newer(mem.date[mem.names[p]], d)
         keeps == Existing(mem, p) /\ ~replaces
         checked == IF replaces THEN RemoveExisting(mem, p) ELSE mem
     IN  mem' = IF mode = "remove" \/ keeps \/ k = "refused"
                THEN checked ELSE AddFile(checked, p, d, k)
  /\ UNCHANGED <<onDisk, wpc, runMode, flushed, sessions, crashes>>

(* The documents are read; write_index_file and DB_Close_Native follow.    *)
EndDocuments ==
  /\ wpc = "documents"
  /\ wpc' = "closing"
  /\ UNCHANGED <<onDisk, mem, runMode, flushed, given, sessions, crashes>>

(* write_header fills a stdio buffer that reaches the file when it is full *)
(* or at the fseek in DB_EndWriteWords, so before or after the words.      *)
FlushHeader ==
  /\ wpc = "closing" /\ "header" \notin flushed
  /\ onDisk' = [onDisk EXCEPT !.total = mem.total, !.removed = mem.removed]
  /\ flushed' = flushed \cup {"header"}
  /\ UNCHANGED <<mem, wpc, runMode, given, sessions, crashes>>

(* write_index, WORDDATA_Close and BTREE_Close in DB_EndWriteWords.        *)
FlushWords ==
  /\ wpc = "closing" /\ "words" \notin flushed
  /\ onDisk' = [onDisk EXCEPT !.words = mem.words]
  /\ flushed' = flushed \cup {"words"}
  /\ UNCHANGED <<mem, wpc, runMode, given, sessions, crashes>>

(* ARRAY_Close of the word counts and of the property positions.           *)
FlushArray ==
  /\ wpc = "closing" /\ flushed = {"header", "words"}
  /\ onDisk' = [onDisk EXCEPT !.count = mem.count, !.path = mem.path,
                          !.date = mem.date]
  /\ flushed' = flushed \cup {"array"}
  /\ UNCHANGED <<mem, wpc, runMode, given, sessions, crashes>>

(* Slip: the path hash is closed as soon as the documents are read.        *)
FlushNamesFirst ==
  /\ wpc = "closing"
  /\ onDisk' = [onDisk EXCEPT !.names = mem.names]
  /\ wpc' = IF flushed = {"header", "words", "array"} THEN "idle" ELSE wpc
  /\ UNCHANGED <<mem, runMode, flushed, given, sessions, crashes>>

(* FHASH_Close writes the bucket table; the main file's offsets follow.    *)
FlushNames ==
  /\ wpc = "closing" /\ flushed = {"header", "words", "array"}
  /\ onDisk' = [onDisk EXCEPT !.names = mem.names]
  /\ wpc' = "idle"
  /\ UNCHANGED <<mem, runMode, flushed, given, sessions, crashes>>

(* The process stops; what has not been flushed is lost.                   *)
Crash ==
  /\ wpc # "idle"
  /\ crashes < MaxCrashes
  /\ crashes' = crashes + 1
  /\ wpc' = "idle"
  /\ UNCHANGED <<onDisk, mem, runMode, flushed, given, sessions>>

UpdateNext ==
  \/ Begin \/ EndDocuments
  \/ FlushHeader \/ FlushWords \/ FlushArray \/ FlushNames \/ Crash
  \/ \E p \in Paths, d \in Dates, k \in Kinds, h \in Headers :
       IndexDocument(p, d, k, h)

UpdateSpec == UpdateInit /\ [][UpdateNext]_updateVars

-----------------------------------------------------------------------------
(* Searching an image.                                                     *)

(* getfileinfo: a posting is a result unless the header says there are     *)
(* removed files and the file's word count is 0.                           *)
Shown(I, n) == I.removed = 0 \/ I.count[n] # 0
ShownWords(I) == {t \in I.words : Shown(I, t[1])}

(* notresultlist: all file numbers but the removed ones and those given.   *)
NotResults(I, found) ==
  {n \in 1..I.total : n \notin found /\ I.count[n] # 0}

(* The index as its user sees it: during a session, as it will be.         *)
Current == IF wpc = "idle" THEN onDisk ELSE mem

-----------------------------------------------------------------------------
(* Properties.  NamesAgree and OneVersionShown apart, they are about       *)
(* sessions that run to their end: what holds of an index until a crash.   *)

(* A path is shown under one file number: an updated or removed document   *)
(* leaves no old version behind.                                           *)
OneVersionShown ==
  \A s, t \in ShownWords(Current) : s[2] = t[2] => s[1] = t[1]

(* Word searches and NOT searches draw on the same files, though one asks  *)
(* the header first and the other only the word-count array.               *)
WordAndNotAgree ==
  crashes = 0 =>
    {t[1] : t \in ShownWords(Current)} = NotResults(Current, {})

(* removedfiles counts the posted files that are gone, each once, so that  *)
(* totalfiles - removedfiles is right in ranking and in the header.        *)
RemovedCounted ==
  crashes = 0 =>
    Current.removed =
      Cardinality({n \in 1..Current.total :
                     /\ Current.count[n] = 0
                     /\ \E t \in Current.words : t[1] = n})

(* The two records of a removal, in the word-count array and in the        *)
(* header's counter, say the same to all who read one of them.             *)
RemovalsAgree == WordAndNotAgree /\ RemovedCounted

(* A path's entry in the FHASH, also one read after a crash, is a number   *)
(* the header covers, of a file with that path: an update or removal never *)
(* takes away another path's document.                                     *)
NamesAgree ==
  \A p \in Paths :
    onDisk.names[p] # 0 => /\ onDisk.names[p] <= onDisk.total
                         /\ onDisk.path[onDisk.names[p]] = p

-----------------------------------------------------------------------------
(* Refinement: what is shown for a path, if anything.  Several versions at *)
(* once are no state of the store.                                         *)
ShownFor(p) ==
  LET dates == {t[3] : t \in {s \in ShownWords(Current) : s[2] = p}}
  IN  IF dates = {} THEN MaxDate + 1
      ELSE IF Cardinality(dates) = 1 THEN CHOOSE d \in dates : TRUE
      ELSE MaxDate + 2

ShownDocs == [p \in Paths |-> ShownFor(p)]

Docs == INSTANCE DocumentStore WITH docs <- ShownDocs

(* Sessions of updates and removals implement the document store, until a  *)
(* crash.                                                                  *)
ImplementsDocumentStore ==
  Docs!Init /\ [][crashes' # 0 \/ Docs!Next]_<<ShownDocs, crashes>>
=============================================================================
