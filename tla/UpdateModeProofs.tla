-------------------------- MODULE UpdateModeProofs --------------------------
(***************************************************************************)
(* Proofs about UpdateMode, for any paths, dates, bounds and number of     *)
(* crashes.                                                                *)
(***************************************************************************)
EXTENDS UpdateMode, FiniteSetTheorems, TLAPS

Postings == FileNums \X Paths \X Dates

(* What an image is, field by field.                                       *)
LEMMA ImageFields ==
  ASSUME NEW I \in Image
  PROVE  /\ I.total \in 0..MaxFile /\ I.removed \in 0..MaxFile
         /\ I.count \in [FileNums -> 0..1]
         /\ I.path \in [FileNums -> Paths \cup {None}]
         /\ I.date \in [FileNums -> Dates]
         /\ I.names \in [Paths -> 0..MaxFile]
         /\ I.words \subseteq Postings
BY DEF Image, Postings

(* And what makes one.                                                     *)
LEMMA ImageOf ==
  ASSUME NEW total \in 0..MaxFile, NEW removed \in 0..MaxFile,
         NEW count \in [FileNums -> 0..1],
         NEW path \in [FileNums -> Paths \cup {None}],
         NEW date \in [FileNums -> Dates],
         NEW names \in [Paths -> 0..MaxFile],
         NEW words \in SUBSET Postings
  PROVE  [total |-> total, removed |-> removed, count |-> count,
          path |-> path, date |-> date, names |-> names, words |-> words]
           \in Image
BY Zenon DEF Image, Postings

(* An index freshly built from one document is one.                        *)
LEMMA BuiltImage ==
  ASSUME NEW p \in Paths, NEW d \in Dates
  PROVE  BuiltFrom(p, d) \in Image
<1>1. 1 \in 0..MaxFile /\ 0 \in 0..MaxFile /\ 1 \in FileNums /\ 0 \in Dates
  BY UpdateAssumption DEF FileNums, Dates
<1>2. {<<1, p, d>>} \in SUBSET Postings
  BY <1>1 DEF Postings
<1>3. /\ [n \in FileNums |-> IF n = 1 THEN 1 ELSE 0] \in [FileNums -> 0..1]
      /\ [n \in FileNums |-> IF n = 1 THEN p ELSE None] \in [FileNums -> Paths \cup {None}]
      /\ [n \in FileNums |-> IF n = 1 THEN d ELSE 0] \in [FileNums -> Dates]
      /\ [q \in Paths |-> IF q = p THEN 1 ELSE 0] \in [Paths -> 0..MaxFile]
  BY <1>1, UpdateAssumption
<1> QED
  BY <1>1, <1>2, <1>3, ImageOf DEF BuiltFrom

(* What DB_RemoveFileNum leaves of an image is one.                        *)
LEMMA RemoveExistingImage ==
  ASSUME NEW I \in Image, NEW p \in Paths, I.names[p] # 0, I.removed < MaxFile
  PROVE  RemoveExisting(I, p) \in Image
<1> DEFINE count == [I.count EXCEPT ![I.names[p]] = 0]
           J == [total |-> I.total, removed |-> I.removed + 1,
                 count |-> count, path |-> I.path, date |-> I.date,
                 names |-> I.names, words |-> I.words]
<1>0. /\ I.total \in 0..MaxFile /\ I.removed \in 0..MaxFile
      /\ I.count \in [FileNums -> 0..1]
      /\ I.path \in [FileNums -> Paths \cup {None}]
      /\ I.date \in [FileNums -> Dates]
      /\ I.names \in [Paths -> 0..MaxFile]
      /\ I.words \subseteq Postings
  BY Zenon, ImageFields
<1>1. I.removed + 1 \in 0..MaxFile
  BY <1>0, UpdateAssumption
<1>2. count \in [FileNums -> 0..1]
  BY <1>0, UpdateAssumption DEF FileNums
<1>3. J \in Image
  <2> HIDE DEF count
  <2> QED
    BY <1>0, <1>1, <1>2, ImageOf
<1>4. RemoveExisting(I, p) = J
  BY Zenon DEF RemoveExisting
<1> QED
  BY <1>3, <1>4

(* What indexing a document makes of an image is one.                      *)
LEMMA AddFileImage ==
  ASSUME NEW I \in Image, I.total < MaxFile,
         NEW p \in Paths, NEW d \in Dates, NEW k \in Kinds
  PROVE  AddFile(I, p, d, k) \in Image
<1> DEFINE n == I.total + 1
           count == [I.count EXCEPT ![n] = IF k = "text" THEN 1 ELSE 0]
           path == [I.path EXCEPT ![n] = p]
           date == [I.date EXCEPT ![n] = d]
           names == [I.names EXCEPT ![p] = n]
           words == IF k \in {"text", "bare"}
                    THEN I.words \cup {<<n, p, d>>} ELSE I.words
<1>0. /\ I.total \in 0..MaxFile /\ I.removed \in 0..MaxFile
      /\ I.count \in [FileNums -> 0..1]
      /\ I.path \in [FileNums -> Paths \cup {None}]
      /\ I.date \in [FileNums -> Dates]
      /\ I.names \in [Paths -> 0..MaxFile]
      /\ I.words \subseteq Postings
  BY Zenon, ImageFields
<1>1. n \in FileNums /\ n \in 0..MaxFile
  BY <1>0, UpdateAssumption DEF FileNums
<1>2. AddFile(I, p, d, k) =
        [total |-> n, removed |-> I.removed, count |-> count, path |-> path,
         date |-> date, names |-> names, words |-> words]
  BY Zenon DEF AddFile
<1> HIDE DEF n
<1>3. /\ count \in [FileNums -> 0..1]
      /\ path \in [FileNums -> Paths \cup {None}]
      /\ date \in [FileNums -> Dates]
      /\ names \in [Paths -> 0..MaxFile]
  BY <1>0, <1>1, UpdateAssumption
<1>4. words \in SUBSET Postings
  BY <1>0, <1>1 DEF Postings
<1> HIDE DEF count, path, date, names, words
<1> QED
  <2>1. [total |-> n, removed |-> I.removed, count |-> count, path |-> path,
         date |-> date, names |-> names, words |-> words] \in Image
    BY <1>0, <1>1, <1>3, <1>4, ImageOf
  <2> QED
    BY Zenon, <1>2, <2>1

(* check_for_replace and do_index_file leave the index alone, remove the   *)
(* version there, add one where there was none, or replace one.            *)
LEMMA DocumentCases ==
  ASSUME NEW p \in Paths, NEW d \in Dates, NEW k \in Kinds, NEW h \in Headers,
         IndexDocument(p, d, k, h)
  PROVE  \/ mem' = mem
         \/ Existing(mem, p) /\ mem' = RemoveExisting(mem, p)
         \/ ~Existing(mem, p) /\ k # "refused" /\ mem' = AddFile(mem, p, d, k)
         \/ /\ Existing(mem, p) /\ Newer(mem.date[mem.names[p]], d)
            /\ k # "refused"
            /\ mem' = AddFile(RemoveExisting(mem, p), p, d, k)
<1> DEFINE mode == ModeOf(h)
           newer == Newer(mem.date[mem.names[p]], d)
           replaces == Existing(mem, p) /\ (mode = "remove" \/ newer)
           keeps == Existing(mem, p) /\ ~replaces
           checked == IF replaces THEN RemoveExisting(mem, p) ELSE mem
           stays == mode = "remove" \/ keeps \/ k = "refused"
<1>1. mem' = IF stays THEN checked ELSE AddFile(checked, p, d, k)
  BY DEF IndexDocument
<1>2. CASE stays
  BY <1>1, <1>2
<1>3. CASE ~stays
  <2>1. mem' = AddFile(checked, p, d, k) /\ k # "refused"
    BY <1>1, <1>3
  <2>2. CASE Existing(mem, p)
    BY <1>3, <2>1, <2>2
  <2>3. CASE ~Existing(mem, p)
    BY <2>1, <2>3
  <2> QED
    BY <2>2, <2>3
<1> QED
  BY <1>2, <1>3

-----------------------------------------------------------------------------
(***************************************************************************)
(* Type correctness.  Every document given adds at most one file and       *)
(* removes at most one.                                                    *)
(***************************************************************************)
Bounded(I) == I.total <= given + 1 /\ I.removed <= given

UpdateTypeInv == UpdateTypeOK /\ Bounded(mem) /\ Bounded(onDisk)

(* The initial index has one file and none removed.                        *)
LEMMA UpdateTypeInit == UpdateInit => UpdateTypeInv
<1> SUFFICES ASSUME UpdateInit PROVE UpdateTypeInv
  OBVIOUS
<1>1. PICK p \in Paths, d \in Dates : onDisk = BuiltFrom(p, d)
  BY DEF UpdateInit
<1>2. onDisk \in Image /\ mem \in Image
  BY <1>1, BuiltImage DEF UpdateInit
<1>3. Bounded(onDisk) /\ Bounded(mem)
  BY <1>1 DEF UpdateInit, Bounded, BuiltFrom
<1> QED
  BY <1>2, <1>3, UpdateAssumption DEF UpdateInit, UpdateTypeInv, UpdateTypeOK

(* No step of a session leaves the types.                                  *)
LEMMA UpdateTypeStep ==
  UpdateTypeInv /\ [UpdateNext]_updateVars => UpdateTypeInv'
<1> SUFFICES ASSUME UpdateTypeInv, [UpdateNext]_updateVars
             PROVE  UpdateTypeInv'
  OBVIOUS
<1> USE UpdateAssumption
<1>0. /\ onDisk \in Image /\ mem \in Image /\ given \in 0..(MaxFile - 1)
      /\ mem.total \in 0..MaxFile /\ mem.removed \in 0..MaxFile
      /\ onDisk.total \in 0..MaxFile /\ onDisk.removed \in 0..MaxFile
  BY ImageFields DEF UpdateTypeInv, UpdateTypeOK
<1>1. CASE Begin
  BY <1>1 DEF Begin, UpdateTypeInv, UpdateTypeOK, Bounded
<1>2. CASE EndDocuments
  BY <1>2 DEF EndDocuments, UpdateTypeInv, UpdateTypeOK, Bounded
<1>9. CASE Crash
  BY <1>0, <1>9 DEF Crash, UpdateTypeInv, UpdateTypeOK, Bounded
<1>3. CASE FlushHeader
  <2>1. onDisk' \in Image
    BY <1>0, <1>3 DEF FlushHeader, Image
  <2> QED
    BY <1>0, <1>3, <2>1 DEF FlushHeader, UpdateTypeInv, UpdateTypeOK, Bounded, Image
<1>4. CASE FlushWords
  <2>1. onDisk' \in Image
    BY <1>0, <1>4 DEF FlushWords, Image
  <2> QED
    BY <1>0, <1>4, <2>1 DEF FlushWords, UpdateTypeInv, UpdateTypeOK, Bounded, Image
<1>5. CASE FlushArray
  <2>1. onDisk' \in Image
    BY <1>0, <1>5 DEF FlushArray, Image
  <2> QED
    BY <1>0, <1>5, <2>1 DEF FlushArray, UpdateTypeInv, UpdateTypeOK, Bounded, Image
<1>6. CASE FlushNames
  <2>1. onDisk' \in Image
    BY <1>0, <1>6 DEF FlushNames, Image
  <2> QED
    BY <1>0, <1>6, <2>1 DEF FlushNames, UpdateTypeInv, UpdateTypeOK, Bounded, Image
<1>7. ASSUME NEW p \in Paths, NEW d \in Dates, NEW k \in Kinds,
             NEW h \in Headers, IndexDocument(p, d, k, h)
      PROVE  UpdateTypeInv'
  <2>1. /\ given < MaxFile - 1 /\ given' = given + 1
        /\ mem.total <= given + 1 /\ mem.removed <= given
        /\ onDisk.total <= given + 1 /\ onDisk.removed <= given
        /\ UNCHANGED <<onDisk, wpc, runMode, flushed, sessions, crashes>>
    BY <1>7 DEF IndexDocument, UpdateTypeInv, Bounded
  <2>0. /\ mem.removed < MaxFile /\ mem.total < MaxFile
        /\ Existing(mem, p) => mem.names[p] # 0
    BY <1>0, <2>1 DEF Existing
  <2>2. mem' \in Image /\ mem'.total <= given' + 1 /\ mem'.removed <= given'
    <3>1. CASE mem' = mem
      BY <1>0, <2>1, <3>1
    <3>2. CASE Existing(mem, p) /\ mem' = RemoveExisting(mem, p)
      <4> DEFINE J == RemoveExisting(mem, p)
      <4>1. J \in Image /\ J.total = mem.total /\ J.removed = mem.removed + 1
        BY Zenon, <1>0, <2>0, <3>2, RemoveExistingImage DEF RemoveExisting
      <4> HIDE DEF J
      <4> QED
        BY <1>0, <2>1, <3>2, <4>1 DEF J
    <3>3. CASE ~Existing(mem, p) /\ mem' = AddFile(mem, p, d, k)
      <4> DEFINE J == AddFile(mem, p, d, k)
      <4>1. J \in Image /\ J.total = mem.total + 1 /\ J.removed = mem.removed
        BY <1>0, <2>0, AddFileImage DEF AddFile
      <4> HIDE DEF J
      <4> QED
        BY <1>0, <2>1, <3>3, <4>1 DEF J
    <3>4. CASE Existing(mem, p) /\ mem' = AddFile(RemoveExisting(mem, p), p, d, k)
      <4> DEFINE J == RemoveExisting(mem, p)
      <4>1. J \in Image /\ J.total = mem.total /\ J.removed = mem.removed + 1
        BY Zenon, <1>0, <2>0, <3>4, RemoveExistingImage DEF RemoveExisting
      <4> DEFINE K == AddFile(J, p, d, k)
      <4> HIDE DEF J
      <4>2. K \in Image /\ K.total = J.total + 1 /\ K.removed = J.removed
        <5>1. J.total < MaxFile
          BY <2>0, <4>1
        <5> QED
          BY <4>1, <5>1, AddFileImage DEF AddFile
      <4> HIDE DEF K
      <4> QED
        BY <1>0, <2>1, <3>4, <4>1, <4>2 DEF J, K
    <3> QED
      BY <1>7, <3>1, <3>2, <3>3, <3>4, DocumentCases
  <2> QED
    BY <1>0, <2>1, <2>2 DEF UpdateTypeInv, UpdateTypeOK, Bounded
<1>8. CASE UNCHANGED updateVars
  BY <1>8 DEF updateVars, UpdateTypeInv, UpdateTypeOK, Bounded
<1> QED
  BY <1>1, <1>2, <1>3, <1>4, <1>5, <1>6, <1>7, <1>8, <1>9 DEF UpdateNext

(* The state of an update session has its types, and file numbers stay     *)
(* within the bound that the documents given set.                          *)
THEOREM UpdateTypeCorrect == UpdateSpec => []UpdateTypeOK
<1>1. UpdateTypeInv => UpdateTypeOK
  BY DEF UpdateTypeInv
<1> QED
  BY <1>1, UpdateTypeInit, UpdateTypeStep, PTL DEF UpdateSpec

-----------------------------------------------------------------------------
(***************************************************************************)
(* The path hash.  Its file on disk is written last, over an index whose   *)
(* other parts may be those of a later session that was cut short: every   *)
(* entry must be right for the header and the properties of any session    *)
(* since, because the files it names are neither taken away nor renumbered.*)
(***************************************************************************)
NamesOK(I) ==
  \A p \in Paths : I.names[p] # 0 => /\ I.names[p] <= I.total
                                     /\ I.path[I.names[p]] = p

(* What D's hash says is true of the files of I.                           *)
Precedes(D, I) ==
  /\ D.total <= I.total
  /\ \A p \in Paths : D.names[p] # 0 => I.path[D.names[p]] = p

(* What has been flushed is what the session has.                          *)
Synced ==
  /\ wpc = "documents" => flushed = {}
  /\ wpc = "closing" =>
       /\ "header" \in flushed => /\ onDisk.total = mem.total
                                 /\ onDisk.removed = mem.removed
       /\ "words" \in flushed => onDisk.words = mem.words
       /\ "array" \in flushed => /\ onDisk.count = mem.count
                                /\ onDisk.path = mem.path
                                /\ onDisk.date = mem.date

NamesInv ==
  /\ UpdateTypeInv
  /\ Synced
  /\ NamesOK(onDisk)
  /\ wpc # "idle" => NamesOK(mem) /\ Precedes(onDisk, mem)

(* A removal leaves the names alone.                                       *)
LEMMA NamesKeptByRemoval ==
  ASSUME NEW I, NEW p, NamesOK(I)
  PROVE  /\ NamesOK(RemoveExisting(I, p))
         /\ \A D : Precedes(D, I) => Precedes(D, RemoveExisting(I, p))
BY DEF NamesOK, Precedes, RemoveExisting

(* A new file takes a number no name had.                                  *)
LEMMA NamesKeptByAddition ==
  ASSUME NEW I \in Image, NEW D \in Image, I.total < MaxFile,
         NEW p \in Paths, NEW d \in Dates, NEW k \in Kinds,
         NamesOK(I), NamesOK(D), Precedes(D, I)
  PROVE  NamesOK(AddFile(I, p, d, k)) /\ Precedes(D, AddFile(I, p, d, k))
<1> DEFINE J == AddFile(I, p, d, k)
           n == I.total + 1
<1>0. /\ I.total \in 0..MaxFile /\ D.total \in 0..MaxFile
      /\ I.path \in [FileNums -> Paths \cup {None}]
      /\ I.names \in [Paths -> 0..MaxFile]
      /\ D.names \in [Paths -> 0..MaxFile]
  BY Zenon, ImageFields
<1>1. /\ J.total = n /\ J.path = [I.path EXCEPT ![n] = p]
      /\ J.names = [I.names EXCEPT ![p] = n]
  BY DEF AddFile
<1>2. n \in FileNums
  BY <1>0, UpdateAssumption DEF FileNums
<1> HIDE DEF J
<1>3. NamesOK(J)
  BY <1>0, <1>1, <1>2, UpdateAssumption DEF NamesOK, FileNums
<1>4. Precedes(D, J)
  BY <1>0, <1>1, <1>2, UpdateAssumption DEF NamesOK, Precedes, FileNums
<1> QED
  BY <1>3, <1>4 DEF J

(* An index built from one document has one name.                          *)
LEMMA NamesInit == UpdateInit => NamesInv
<1> SUFFICES ASSUME UpdateInit PROVE NamesInv
  OBVIOUS
<1>1. PICK p \in Paths, d \in Dates : onDisk = BuiltFrom(p, d)
  BY DEF UpdateInit
<1>2. NamesOK(BuiltFrom(p, d))
  BY UpdateAssumption DEF NamesOK, BuiltFrom, FileNums
<1> QED
  BY <1>1, <1>2, UpdateTypeInit DEF UpdateInit, NamesInv, Synced

(* No step makes an entry of the hash wrong, in memory or on disk.         *)
LEMMA NamesStep == NamesInv /\ [UpdateNext]_updateVars => NamesInv'
<1> SUFFICES ASSUME NamesInv, [UpdateNext]_updateVars
             PROVE  NamesInv'
  OBVIOUS
<1> USE UpdateAssumption
<1>t. UpdateTypeInv'
  BY UpdateTypeStep DEF NamesInv
<1>0. /\ onDisk \in Image /\ mem \in Image
      /\ onDisk' \in Image /\ mem' \in Image
      /\ wpc \in {"idle", "documents", "closing"}
  BY <1>t DEF NamesInv, UpdateTypeInv, UpdateTypeOK
<1>1. CASE Begin
  <2>1. Precedes(onDisk, onDisk)
    BY <1>0, ImageFields DEF NamesInv, NamesOK, Precedes
  <2> QED
    BY <1>1, <1>t, <2>1 DEF Begin, NamesInv, Synced
<1>2. CASE EndDocuments
  BY <1>2, <1>t DEF EndDocuments, NamesInv, Synced
<1>3. CASE FlushHeader
  <2>1. /\ onDisk'.total = mem.total /\ onDisk'.removed = mem.removed
        /\ onDisk'.names = onDisk.names /\ onDisk'.path = onDisk.path
        /\ onDisk'.words = onDisk.words /\ onDisk'.count = onDisk.count
        /\ onDisk'.date = onDisk.date
    BY <1>0, <1>3 DEF FlushHeader, Image
  <2>2. NamesOK(onDisk') /\ Precedes(onDisk', mem)
    <3>1. /\ onDisk.total \in 0..MaxFile /\ mem.total \in 0..MaxFile
          /\ onDisk.names \in [Paths -> 0..MaxFile]
      BY Zenon, <1>0, ImageFields
    <3> QED
      BY <1>3, <2>1, <3>1 DEF FlushHeader, NamesInv, NamesOK, Precedes
  <2> QED
    BY <1>3, <1>t, <2>1, <2>2 DEF FlushHeader, NamesInv, Synced
<1>4. CASE FlushWords
  <2>1. /\ onDisk'.total = onDisk.total /\ onDisk'.removed = onDisk.removed
        /\ onDisk'.names = onDisk.names /\ onDisk'.path = onDisk.path
        /\ onDisk'.words = mem.words /\ onDisk'.count = onDisk.count
        /\ onDisk'.date = onDisk.date
    BY <1>0, <1>4 DEF FlushWords, Image
  <2> QED
    BY <1>4, <1>t, <2>1 DEF FlushWords, NamesInv, Synced, NamesOK, Precedes
<1>5. CASE FlushArray
  <2>1. /\ onDisk'.total = onDisk.total /\ onDisk'.removed = onDisk.removed
        /\ onDisk'.names = onDisk.names /\ onDisk'.path = mem.path
        /\ onDisk'.words = onDisk.words /\ onDisk'.count = mem.count
        /\ onDisk'.date = mem.date
    BY <1>0, <1>5 DEF FlushArray, Image
  <2> QED
    BY <1>5, <1>t, <2>1 DEF FlushArray, NamesInv, Synced, NamesOK, Precedes
<1>6. CASE FlushNames
  <2>1. /\ onDisk'.total = onDisk.total /\ onDisk'.path = onDisk.path
        /\ onDisk'.names = mem.names
    BY <1>0, <1>6 DEF FlushNames, Image
  <2> QED
    BY <1>6, <1>t, <2>1 DEF FlushNames, NamesInv, Synced, NamesOK
<1>7. ASSUME NEW p \in Paths, NEW d \in Dates, NEW k \in Kinds,
             NEW h \in Headers, IndexDocument(p, d, k, h)
      PROVE  NamesInv'
  <2>1. /\ wpc = "documents" /\ mem.total < MaxFile /\ onDisk' = onDisk
        /\ wpc' = wpc /\ flushed' = flushed
    <3>1. given \in 0..(MaxFile - 1) /\ mem.total \in 0..MaxFile
      BY <1>0, ImageFields DEF NamesInv, UpdateTypeInv, UpdateTypeOK
    <3> QED
      BY <1>7, <3>1 DEF IndexDocument, NamesInv, UpdateTypeInv, Bounded
  <2>2. NamesOK(mem) /\ NamesOK(onDisk) /\ Precedes(onDisk, mem)
    BY <2>1 DEF NamesInv
  <2>3. NamesOK(mem') /\ Precedes(onDisk, mem')
    <3>1. CASE mem' = mem
      BY <2>2, <3>1
    <3>2. CASE Existing(mem, p) /\ mem' = RemoveExisting(mem, p)
      BY <2>2, <3>2, NamesKeptByRemoval
    <3>3. CASE mem' = AddFile(mem, p, d, k)
      BY Zenon, <1>0, <2>1, <2>2, <3>3, NamesKeptByAddition
    <3>4. CASE Existing(mem, p) /\ mem' = AddFile(RemoveExisting(mem, p), p, d, k)
      <4> DEFINE J == RemoveExisting(mem, p)
      <4>1. J \in Image /\ J.total < MaxFile
        <5>1. mem.removed < MaxFile
          <6>1. given \in 0..(MaxFile - 1) /\ mem.removed \in 0..MaxFile
            BY <1>0, ImageFields DEF NamesInv, UpdateTypeInv, UpdateTypeOK
          <6> QED
            BY <6>1 DEF NamesInv, UpdateTypeInv, Bounded
        <5>2. J.total = mem.total /\ mem.names[p] # 0
          BY <3>4 DEF RemoveExisting, Existing
        <5> QED
          BY Zenon, <1>0, <2>1, <5>1, <5>2, RemoveExistingImage
      <4>2. NamesOK(J) /\ Precedes(onDisk, J)
        BY <2>2, NamesKeptByRemoval
      <4> HIDE DEF J
      <4>3. NamesOK(AddFile(J, p, d, k)) /\ Precedes(onDisk, AddFile(J, p, d, k))
        BY Zenon, <1>0, <2>2, <4>1, <4>2, NamesKeptByAddition
      <4> QED
        BY <3>4, <4>3 DEF J
    <3> QED
      BY <1>7, <3>1, <3>2, <3>3, <3>4, DocumentCases
  <2> QED
    BY <1>t, <2>1, <2>2, <2>3 DEF NamesInv, Synced
<1>8. CASE UNCHANGED updateVars
  BY <1>8, <1>t DEF updateVars, NamesInv, Synced, NamesOK, Precedes
<1>9. CASE Crash
  BY <1>9, <1>t DEF Crash, NamesInv, Synced
<1> QED
  BY <1>1, <1>2, <1>3, <1>4, <1>5, <1>6, <1>7, <1>8, <1>9 DEF UpdateNext

(* A path's entry in the hash is a file of that path within the header's   *)
(* total, whatever sessions were cut short: do_index_file never takes away *)
(* or keeps a document for another path's.                                 *)
THEOREM NamesAgreeAlways == UpdateSpec => []NamesAgree
<1>1. NamesInv => NamesAgree
  BY DEF NamesInv, NamesOK, NamesAgree
<1> QED
  BY <1>1, NamesInit, NamesStep, PTL DEF UpdateSpec

-----------------------------------------------------------------------------
(***************************************************************************)
(* The records of a removal.  As long as no session has been cut short,    *)
(* and no document has words that its parser does not count, the postings, *)
(* the word counts, the path hash and the header's counter tell one story. *)
(***************************************************************************)
Posted(I, n) == \E t \in I.words : t[1] = n
Gone(I) == {n \in 1..I.total : I.count[n] = 0 /\ Posted(I, n)}

Consistent(I) ==
  /\ NamesOK(I)
  /\ \A t \in I.words :
       /\ t[1] <= I.total /\ t[2] = I.path[t[1]] /\ t[3] = I.date[t[1]]
       /\ I.count[t[1]] # 0 => I.names[t[2]] = t[1]
  /\ \A n \in 1..I.total : I.count[n] # 0 => Posted(I, n)
  /\ I.removed = Cardinality(Gone(I))

(* A consistent image has its removed files counted one by one.            *)
LEMMA GoneFinite ==
  ASSUME NEW I \in Image
  PROVE  IsFiniteSet(Gone(I)) /\ Cardinality(Gone(I)) \in Nat
<1>1. I.total \in Nat
  BY ImageFields, UpdateAssumption
<1>2. IsFiniteSet(1..I.total)
  BY <1>1, FS_Interval
<1>3. IsFiniteSet(Gone(I))
  BY <1>2, FS_Subset DEF Gone
<1> QED
  BY <1>3, FS_CardinalityType

(* The index built from one document is consistent.                        *)
LEMMA ConsistentInit ==
  ASSUME NEW p \in Paths, NEW d \in Dates
  PROVE  Consistent(BuiltFrom(p, d))
<1> DEFINE I == BuiltFrom(p, d)
<1>1. /\ I.total = 1 /\ I.removed = 0 /\ I.words = {<<1, p, d>>}
      /\ I.count = [n \in FileNums |-> IF n = 1 THEN 1 ELSE 0]
      /\ I.path = [n \in FileNums |-> IF n = 1 THEN p ELSE None]
      /\ I.date = [n \in FileNums |-> IF n = 1 THEN d ELSE 0]
      /\ I.names = [q \in Paths |-> IF q = p THEN 1 ELSE 0]
  BY DEF BuiltFrom
<1> HIDE DEF I
<1>2. 1 \in FileNums
  BY UpdateAssumption DEF FileNums
<1>3. Gone(I) = {}
  BY <1>1, <1>2 DEF Gone
<1>4. NamesOK(I)
  BY <1>1, <1>2 DEF NamesOK
<1>5. \A n \in 1..I.total : I.count[n] # 0 => Posted(I, n)
  BY <1>1 DEF Posted
<1>6. I.removed = Cardinality(Gone(I))
  BY <1>1, <1>3, FS_EmptySet
<1> QED
  BY <1>1, <1>2, <1>4, <1>5, <1>6 DEF Consistent, I

(* Removing a document that is there keeps the image consistent: the file  *)
(* had words and had not been counted.                                     *)
LEMMA ConsistentRemove ==
  ASSUME NEW I \in Image, NEW p \in Paths, Consistent(I), Existing(I, p)
  PROVE  /\ Consistent(RemoveExisting(I, p))
         /\ ~Existing(RemoveExisting(I, p), p)
<1> DEFINE J == RemoveExisting(I, p)
           n == I.names[p]
<1>0. /\ I.total \in 0..MaxFile /\ I.removed \in 0..MaxFile
      /\ I.count \in [FileNums -> 0..1]
      /\ I.names \in [Paths -> 0..MaxFile]
      /\ I.words \subseteq Postings
  BY Zenon, ImageFields
<1>1. /\ J.total = I.total /\ J.removed = I.removed + 1
      /\ J.count = [I.count EXCEPT ![n] = 0]
      /\ J.path = I.path /\ J.date = I.date
      /\ J.names = I.names /\ J.words = I.words
  BY DEF RemoveExisting
<1>2. n \in 1..I.total /\ n \in FileNums /\ I.count[n] # 0
  BY <1>0, UpdateAssumption DEF Existing, Consistent, NamesOK, FileNums
<1> HIDE DEF J, n
<1>3. ~Existing(J, p)
  BY <1>0, <1>1, <1>2 DEF Existing, n
<1>4. NamesOK(J)
  BY <1>1 DEF Consistent, NamesOK
<1>5. \A t \in J.words :
        /\ t[1] <= J.total /\ t[2] = J.path[t[1]] /\ t[3] = J.date[t[1]]
        /\ J.count[t[1]] # 0 => J.names[t[2]] = t[1]
  <2> SUFFICES ASSUME NEW t \in J.words
               PROVE  /\ t[1] <= J.total /\ t[2] = J.path[t[1]]
                      /\ t[3] = J.date[t[1]]
                      /\ J.count[t[1]] # 0 => J.names[t[2]] = t[1]
    OBVIOUS
  <2>1. /\ t[1] <= I.total /\ t[2] = I.path[t[1]] /\ t[3] = I.date[t[1]]
        /\ I.count[t[1]] # 0 => I.names[t[2]] = t[1]
    BY <1>1 DEF Consistent
  <2>2. t[1] \in FileNums
    BY <1>0, <1>1 DEF Postings
  <2> QED
    BY <1>0, <1>1, <1>2, <2>1, <2>2
<1>6. \A m \in 1..J.total : J.count[m] # 0 => Posted(J, m)
  <2> SUFFICES ASSUME NEW m \in 1..I.total, J.count[m] # 0
               PROVE  Posted(J, m)
    BY <1>1
  <2>1. I.count[m] # 0
    BY <1>0, <1>1, <1>2, UpdateAssumption DEF FileNums
  <2>2. Posted(I, m)
    BY <2>1 DEF Consistent
  <2> QED
    BY <1>1, <2>2 DEF Posted
<1>7. Gone(J) = Gone(I) \cup {n} /\ n \notin Gone(I)
  <2>1. \A m : Posted(J, m) <=> Posted(I, m)
    BY <1>1 DEF Posted
  <2>2. Posted(I, n)
    BY <1>2 DEF Consistent
  <2>3. \A m \in 1..I.total : J.count[m] = 0 <=> I.count[m] = 0 \/ m = n
    BY <1>0, <1>1, <1>2, UpdateAssumption DEF FileNums
  <2> QED
    BY <1>1, <1>2, <2>1, <2>2, <2>3 DEF Gone
<1>8. J.removed = Cardinality(Gone(J))
  BY <1>1, <1>7, GoneFinite, FS_AddElement DEF Consistent
<1> QED
  BY <1>3, <1>4, <1>5, <1>6, <1>8 DEF Consistent, J

(* Indexing a document where no version is there keeps the image           *)
(* consistent: only its own postings name its file number.                 *)
LEMMA ConsistentAdd ==
  ASSUME NEW I \in Image, I.total < MaxFile, Consistent(I),
         NEW p \in Paths, NEW d \in Dates, NEW k \in {"text", "empty"},
         ~Existing(I, p)
  PROVE  Consistent(AddFile(I, p, d, k))
<1> DEFINE J == AddFile(I, p, d, k)
           n == I.total + 1
           new == IF k = "text" THEN {<<n, p, d>>} ELSE {}
           has == IF k = "text" THEN 1 ELSE 0
<1>0. /\ I.total \in 0..MaxFile /\ I.removed \in 0..MaxFile
      /\ I.count \in [FileNums -> 0..1]
      /\ I.path \in [FileNums -> Paths \cup {None}]
      /\ I.date \in [FileNums -> Dates]
      /\ I.names \in [Paths -> 0..MaxFile]
      /\ I.words \subseteq Postings
  BY Zenon, ImageFields
<1>1. /\ J.total = n /\ J.removed = I.removed
      /\ J.count = [I.count EXCEPT ![n] = has]
      /\ J.path = [I.path EXCEPT ![n] = p]
      /\ J.date = [I.date EXCEPT ![n] = d]
      /\ J.names = [I.names EXCEPT ![p] = n]
      /\ J.words = I.words \cup new
  BY DEF AddFile
<1>2. n \in FileNums /\ n \in 1..n /\ 1..n = 1..I.total \cup {n} /\ n \notin 1..I.total
  BY <1>0, UpdateAssumption DEF FileNums
<1>3. \A t \in I.words :
        /\ t[1] \in 1..I.total /\ t[1] \in FileNums /\ t[1] # n /\ t[2] \in Paths
        /\ t[2] = I.path[t[1]] /\ t[3] = I.date[t[1]]
        /\ I.count[t[1]] # 0 => I.names[t[2]] = t[1] /\ t[2] # p
  <2> SUFFICES ASSUME NEW t \in I.words
               PROVE  /\ t[1] \in 1..I.total /\ t[1] \in FileNums /\ t[1] # n
                      /\ t[2] \in Paths
                      /\ t[2] = I.path[t[1]] /\ t[3] = I.date[t[1]]
                      /\ I.count[t[1]] # 0 => I.names[t[2]] = t[1] /\ t[2] # p
    OBVIOUS
  <2>1. /\ t[1] <= I.total /\ t[2] = I.path[t[1]] /\ t[3] = I.date[t[1]]
        /\ I.count[t[1]] # 0 => I.names[t[2]] = t[1]
    BY DEF Consistent
  <2>2. t[1] \in FileNums /\ t[2] \in Paths
    BY <1>0 DEF Postings
  <2>3. t[1] \in 1..I.total /\ t[1] # n /\ t[1] # 0
    BY <1>0, <2>1, <2>2, UpdateAssumption DEF FileNums
  <2>4. I.count[t[1]] # 0 => t[2] # p
    BY <2>1, <2>3 DEF Existing
  <2> QED
    BY <2>1, <2>2, <2>3, <2>4
<1>4. \A m : Posted(J, m) <=> Posted(I, m) \/ (m = n /\ k = "text")
  <2>1. \A t : t \in J.words <=> t \in I.words \/ (t = <<n, p, d>> /\ k = "text")
    BY <1>1
  <2>2. <<n, p, d>>[1] = n
    OBVIOUS
  <2> HIDE DEF J, n
  <2> QED
    BY <2>1, <2>2 DEF Posted
<1>5. ~Posted(I, n)
  BY <1>3 DEF Posted
<1> HIDE DEF J, n
<1>6. NamesOK(J)
  BY <1>0, <1>1, <1>2, UpdateAssumption DEF Consistent, NamesOK, FileNums
<1>7. \A t \in J.words :
        /\ t[1] <= J.total /\ t[2] = J.path[t[1]] /\ t[3] = J.date[t[1]]
        /\ J.count[t[1]] # 0 => J.names[t[2]] = t[1]
  <2> SUFFICES ASSUME NEW t \in J.words
               PROVE  /\ t[1] <= J.total /\ t[2] = J.path[t[1]]
                      /\ t[3] = J.date[t[1]]
                      /\ J.count[t[1]] # 0 => J.names[t[2]] = t[1]
    OBVIOUS
  <2>1. CASE t \in I.words
    BY <1>0, <1>1, <1>2, <1>3, <2>1, UpdateAssumption
  <2>2. CASE t = <<n, p, d>>
    BY <1>0, <1>1, <1>2, <2>2, UpdateAssumption
  <2> QED
    BY <1>1, <2>1, <2>2
<1>8. \A m \in 1..J.total : J.count[m] # 0 => Posted(J, m)
  <2> SUFFICES ASSUME NEW m \in 1..n, J.count[m] # 0
               PROVE  Posted(J, m)
    BY <1>1
  <2>1. CASE m = n
    BY <1>0, <1>1, <1>2, <1>4, <2>1
  <2>2. CASE m # n
    <3>1. m \in 1..I.total
      BY <1>2, <2>2
    <3>2. J.count[m] = I.count[m]
      BY <1>0, <1>1, <1>2, <2>2, <3>1, UpdateAssumption DEF FileNums
    <3> QED
      BY <1>4, <3>1, <3>2 DEF Consistent
  <2> QED
    BY <2>1, <2>2
<1>9. Gone(J) = Gone(I)
  <2>1. \A m \in 1..I.total : J.count[m] = I.count[m]
    BY <1>0, <1>1, <1>2, UpdateAssumption DEF FileNums
  <2>2. J.count[n] = 0 => ~Posted(J, n)
    BY <1>0, <1>1, <1>2, <1>4, <1>5
  <2>3. \A m \in 1..I.total : Posted(J, m) <=> Posted(I, m)
    BY <1>2, <1>4
  <2> QED
    BY <1>1, <1>2, <2>1, <2>2, <2>3 DEF Gone
<1>10. J.removed = Cardinality(Gone(J))
  BY <1>1, <1>9 DEF Consistent
<1> QED
  BY <1>6, <1>7, <1>8, <1>10 DEF Consistent, J

-----------------------------------------------------------------------------
(* What the session under way, or the next one, sees is consistent until a *)
(* session is cut short.                                                   *)
ConsistentInv ==
  /\ NamesInv
  /\ crashes = 0 => Consistent(Current)

(* The index first built is consistent.                                    *)
LEMMA ConsistentInvInit == UpdateInit => ConsistentInv
<1> SUFFICES ASSUME UpdateInit PROVE ConsistentInv
  OBVIOUS
<1>1. PICK p \in Paths, d \in Dates : onDisk = BuiltFrom(p, d)
  BY DEF UpdateInit
<1>2. Consistent(onDisk)
  BY <1>1, ConsistentInit
<1> QED
  BY <1>2, NamesInit DEF ConsistentInv, UpdateInit, Current

(* No step but a crash makes it inconsistent.                              *)
LEMMA ConsistentInvStep ==
  ASSUME "bare" \notin Kinds
  PROVE  ConsistentInv /\ [UpdateNext]_updateVars => ConsistentInv'
<1> SUFFICES ASSUME ConsistentInv, [UpdateNext]_updateVars
             PROVE  ConsistentInv'
  OBVIOUS
<1>n. NamesInv /\ NamesInv'
  BY NamesStep DEF ConsistentInv
<1>0. /\ onDisk \in Image /\ mem \in Image /\ onDisk' \in Image
      /\ wpc \in {"idle", "documents", "closing"} /\ crashes \in Nat
  BY <1>n, UpdateAssumption DEF NamesInv, UpdateTypeInv, UpdateTypeOK
<1>1. CASE Begin
  BY <1>1, <1>n DEF Begin, ConsistentInv, Current
<1>2. CASE EndDocuments
  BY <1>2, <1>n DEF EndDocuments, ConsistentInv, Current
<1>3. CASE FlushHeader \/ FlushWords \/ FlushArray
  <2>1. wpc = "closing" /\ UNCHANGED <<mem, wpc, crashes>>
    BY <1>3 DEF FlushHeader, FlushWords, FlushArray
  <2> QED
    BY <1>n, <2>1 DEF ConsistentInv, Current
<1>4. CASE FlushNames
  <2>1. /\ onDisk'.total = mem.total /\ onDisk'.removed = mem.removed
        /\ onDisk'.names = mem.names /\ onDisk'.path = mem.path
        /\ onDisk'.words = mem.words /\ onDisk'.count = mem.count
        /\ onDisk'.date = mem.date
    <3>1. /\ onDisk'.total = onDisk.total /\ onDisk'.removed = onDisk.removed
          /\ onDisk'.names = mem.names /\ onDisk'.path = onDisk.path
          /\ onDisk'.words = onDisk.words /\ onDisk'.count = onDisk.count
          /\ onDisk'.date = onDisk.date
      BY <1>0, <1>4 DEF FlushNames, Image
    <3> QED
      BY <1>4, <1>n, <3>1 DEF FlushNames, NamesInv, Synced
  <2>2. Consistent(mem) => Consistent(onDisk')
    BY <2>1 DEF Consistent, NamesOK, Gone, Posted
  <2> QED
    BY <1>4, <1>n, <2>2 DEF FlushNames, ConsistentInv, Current
<1>5. ASSUME NEW p \in Paths, NEW d \in Dates, NEW k \in Kinds,
             NEW h \in Headers, IndexDocument(p, d, k, h)
      PROVE  ConsistentInv'
  <2>1. wpc = "documents" /\ UNCHANGED <<wpc, crashes>>
    BY <1>5 DEF IndexDocument
  <2>2. SUFFICES ASSUME crashes = 0, Consistent(mem)
                 PROVE  Consistent(mem')
    BY <1>n, <2>1 DEF ConsistentInv, Current
  <2>3. k # "refused" => k \in {"text", "empty"}
    BY UpdateAssumption
  <2>4. mem.total < MaxFile /\ mem.removed < MaxFile
    <3>1. /\ given \in 0..(MaxFile - 1) /\ mem.total \in 0..MaxFile
          /\ mem.removed \in 0..MaxFile
      BY <1>0, <1>n, ImageFields DEF NamesInv, UpdateTypeInv, UpdateTypeOK
    <3> QED
      BY <1>5, <1>n, <3>1, UpdateAssumption
      DEF IndexDocument, NamesInv, UpdateTypeInv, Bounded
  <2>5. CASE mem' = mem
    BY <2>2, <2>5
  <2>6. CASE Existing(mem, p) /\ mem' = RemoveExisting(mem, p)
    BY Zenon, <1>0, <2>2, <2>6, ConsistentRemove
  <2>7. CASE ~Existing(mem, p) /\ k # "refused" /\ mem' = AddFile(mem, p, d, k)
    BY Zenon, <1>0, <2>2, <2>3, <2>4, <2>7, ConsistentAdd
  <2>8. CASE /\ Existing(mem, p) /\ k # "refused"
             /\ mem' = AddFile(RemoveExisting(mem, p), p, d, k)
    <3> DEFINE J == RemoveExisting(mem, p)
    <3>1. J.total = mem.total /\ mem.names[p] # 0
      BY <2>8 DEF RemoveExisting, Existing
    <3>2. J \in Image /\ J.total < MaxFile
      BY Zenon, <1>0, <2>4, <3>1, RemoveExistingImage
    <3>3. Consistent(J) /\ ~Existing(J, p)
      BY Zenon, <1>0, <2>2, <2>8, ConsistentRemove
    <3> HIDE DEF J
    <3>4. Consistent(AddFile(J, p, d, k))
      BY Zenon, <2>3, <2>8, <3>2, <3>3, ConsistentAdd
    <3> QED
      BY <2>8, <3>4 DEF J
  <2> QED
    BY <1>5, <2>5, <2>6, <2>7, <2>8, DocumentCases
<1>6. CASE Crash
  BY <1>0, <1>6, <1>n DEF Crash, ConsistentInv
<1>7. CASE UNCHANGED updateVars
  BY <1>7, <1>n DEF updateVars, ConsistentInv, Current
<1> QED
  BY <1>1, <1>2, <1>3, <1>4, <1>5, <1>6, <1>7 DEF UpdateNext

(* In a consistent image a posting is shown when its file has words left.  *)
LEMMA ShownExact ==
  ASSUME NEW I \in Image, Consistent(I)
  PROVE  ShownWords(I) = {t \in I.words : I.count[t[1]] # 0}
<1> SUFFICES ASSUME NEW t \in I.words, I.removed = 0
             PROVE  I.count[t[1]] # 0
  BY DEF ShownWords, Shown
<1>1. Gone(I) = {}
  BY GoneFinite, FS_EmptySet DEF Consistent
<1>2. t[1] \in 1..I.total /\ Posted(I, t[1])
  <2>1. t[1] \in FileNums /\ I.total \in 0..MaxFile
    BY ImageFields DEF Postings
  <2>2. t[1] <= I.total
    BY DEF Consistent
  <2> QED
    BY <2>1, <2>2, UpdateAssumption DEF FileNums, Posted
<1> QED
  BY <1>1, <1>2 DEF Gone

(* Removals of sessions that run to their end are recorded alike where     *)
(* word searches and NOT searches look, and counted once each.  (Documents *)
(* with words their parser does not count, "bare" ones, are the exception  *)
(* that the README describes.)                                             *)
THEOREM RemovalsAgreeAlways ==
  ASSUME "bare" \notin Kinds
  PROVE  UpdateSpec => []RemovalsAgree
<1>1. ConsistentInv => RemovalsAgree
  <2> SUFFICES ASSUME ConsistentInv, crashes = 0
               PROVE  /\ {t[1] : t \in ShownWords(Current)} = NotResults(Current, {})
                      /\ Current.removed = Cardinality(Gone(Current))
    BY DEF RemovalsAgree, WordAndNotAgree, RemovedCounted, Gone, Posted
  <2> DEFINE I == Current
  <2>1. I \in Image /\ Consistent(I)
    BY DEF ConsistentInv, NamesInv, UpdateTypeInv, UpdateTypeOK, Current
  <2> HIDE DEF I
  <2>2. ShownWords(I) = {t \in I.words : I.count[t[1]] # 0}
    BY <2>1, ShownExact
  <2>3. \A t \in I.words : t[1] \in 1..I.total
    <3>1. I.total \in 0..MaxFile /\ I.words \subseteq Postings
      BY <2>1, ImageFields
    <3> QED
      BY <2>1, <3>1, UpdateAssumption DEF Consistent, Postings, FileNums
  <2>4. {t[1] : t \in ShownWords(I)} = NotResults(I, {})
    BY <2>1, <2>2, <2>3 DEF NotResults, Consistent, Posted
  <2> QED
    BY <2>1, <2>4 DEF Consistent, I
<1> QED
  BY <1>1, ConsistentInvInit, ConsistentInvStep, PTL DEF UpdateSpec

-----------------------------------------------------------------------------
(***************************************************************************)
(* Refinement: what a consistent image shows for a path is the version     *)
(* that its name leads to, if that has words left.                         *)
(***************************************************************************)
ShownIn(I) ==
  [p \in Paths |-> IF Existing(I, p) THEN I.date[I.names[p]] ELSE MaxDate + 1]

(* The refinement mapping, in terms of names.                              *)
LEMMA ShownByName ==
  ASSUME NEW I \in Image, Consistent(I), NEW p \in Paths
  PROVE  {t[3] : t \in {s \in ShownWords(I) : s[2] = p}} =
           IF Existing(I, p) THEN {I.date[I.names[p]]} ELSE {}
<1> DEFINE n == I.names[p]
           dates == {t[3] : t \in {s \in ShownWords(I) : s[2] = p}}
<1>0. /\ I.total \in 0..MaxFile /\ I.names \in [Paths -> 0..MaxFile]
      /\ I.words \subseteq Postings
  BY Zenon, ImageFields
<1>1. ShownWords(I) = {t \in I.words : I.count[t[1]] # 0}
  BY ShownExact
<1>2. \A t \in I.words :
        /\ t[1] # 0 /\ t[2] = I.path[t[1]] /\ t[3] = I.date[t[1]]
        /\ I.count[t[1]] # 0 => I.names[t[2]] = t[1]
  BY <1>0, UpdateAssumption DEF Consistent, Postings, FileNums
<1>3. CASE Existing(I, p)
  <2>1. n \in 1..I.total /\ I.count[n] # 0 /\ I.path[n] = p
    BY <1>0, <1>3, UpdateAssumption DEF Existing, Consistent, NamesOK
  <2>2. PICK t \in I.words : t[1] = n
    BY <2>1 DEF Consistent, Posted
  <2>3. t \in ShownWords(I) /\ t[2] = p /\ t[3] = I.date[n]
    BY <1>1, <1>2, <2>1, <2>2
  <2>4. \A s \in ShownWords(I) : s[2] = p => s[3] = I.date[n]
    BY <1>1, <1>2
  <2> HIDE DEF n
  <2>5. dates = {I.date[n]}
    BY <2>3, <2>4
  <2> QED
    BY <1>3, <2>5 DEF n
<1>4. CASE ~Existing(I, p)
  <2>1. \A s \in ShownWords(I) : s[2] # p
    BY <1>1, <1>2, <1>4 DEF Existing
  <2> QED
    BY <1>4, <2>1
<1> QED
  BY <1>3, <1>4

(* A removal shows nothing for the path and leaves the others.             *)
LEMMA RemovalShown ==
  ASSUME NEW I \in Image, Consistent(I), NEW p \in Paths, Existing(I, p)
  PROVE  ShownIn(RemoveExisting(I, p)) = [ShownIn(I) EXCEPT ![p] = MaxDate + 1]
<1> DEFINE J == RemoveExisting(I, p)
<1>0. /\ I.total \in 0..MaxFile /\ I.names \in [Paths -> 0..MaxFile]
      /\ I.count \in [FileNums -> 0..1]
  BY Zenon, ImageFields
<1>1. /\ J.date = I.date /\ J.names = I.names
      /\ J.count = [I.count EXCEPT ![I.names[p]] = 0]
  BY DEF RemoveExisting
<1> HIDE DEF J
<1>2. I.names[p] \in FileNums
  BY <1>0, UpdateAssumption DEF Existing, FileNums
<1>3. \A q \in Paths : I.names[q] # 0 => I.names[q] \in FileNums
  BY <1>0, UpdateAssumption DEF FileNums
<1>4. \A q \in Paths : q # p /\ Existing(I, q) => I.names[q] # I.names[p]
  BY DEF Existing, Consistent, NamesOK
<1>5. ~Existing(J, p)
  BY <1>0, <1>1, <1>2 DEF Existing
<1>6. ASSUME NEW q \in Paths, q # p
      PROVE  Existing(J, q) <=> Existing(I, q)
  BY <1>0, <1>1, <1>2, <1>3, <1>4, <1>6 DEF Existing
<1> QED
  BY <1>1, <1>5, <1>6 DEF ShownIn, J

(* Indexing shows the version given, or nothing if it has no words.        *)
LEMMA AdditionShown ==
  ASSUME NEW I \in Image, I.total < MaxFile, Consistent(I),
         NEW p \in Paths, NEW d \in Dates, NEW k \in {"text", "empty"}
  PROVE  ShownIn(AddFile(I, p, d, k)) =
           [ShownIn(I) EXCEPT ![p] = IF k = "text" THEN d ELSE MaxDate + 1]
<1> DEFINE J == AddFile(I, p, d, k)
           n == I.total + 1
           has == IF k = "text" THEN 1 ELSE 0
<1>0. /\ I.total \in 0..MaxFile /\ I.names \in [Paths -> 0..MaxFile]
      /\ I.count \in [FileNums -> 0..1] /\ I.date \in [FileNums -> Dates]
  BY Zenon, ImageFields
<1>1. /\ J.date = [I.date EXCEPT ![n] = d]
      /\ J.names = [I.names EXCEPT ![p] = n]
      /\ J.count = [I.count EXCEPT ![n] = has]
  BY DEF AddFile
<1>2. n \in FileNums /\ n # 0
  BY <1>0, UpdateAssumption DEF FileNums
<1>3. \A q \in Paths : I.names[q] # 0 => I.names[q] \in FileNums /\ I.names[q] # n
  BY <1>0, UpdateAssumption DEF FileNums, Consistent, NamesOK
<1> HIDE DEF J, n
<1>4. Existing(J, p) <=> k = "text"
  BY <1>0, <1>1, <1>2 DEF Existing
<1>5. J.date[J.names[p]] = d
  BY <1>0, <1>1, <1>2
<1>6. ASSUME NEW q \in Paths, q # p
      PROVE  /\ Existing(J, q) <=> Existing(I, q)
             /\ Existing(J, q) => J.date[J.names[q]] = I.date[I.names[q]]
  BY <1>0, <1>1, <1>2, <1>3, <1>6 DEF Existing
<1> QED
  BY <1>4, <1>5, <1>6 DEF ShownIn, J

(* The mapping of the state and of the state after a step.                 *)
LEMMA ShownDocsByName ==
  ASSUME "bare" \notin Kinds
  PROVE  ConsistentInv /\ crashes = 0 => ShownDocs = ShownIn(Current)
<1> SUFFICES ASSUME ConsistentInv, crashes = 0
             PROVE  ShownDocs = ShownIn(Current)
  OBVIOUS
<1> DEFINE I == Current
<1>1. I \in Image /\ Consistent(I)
  BY DEF ConsistentInv, NamesInv, UpdateTypeInv, UpdateTypeOK, Current
<1>2. ASSUME NEW p \in Paths
      PROVE  ShownFor(p) = ShownIn(I)[p]
  <2> HIDE DEF I
  <2>1. {t[3] : t \in {s \in ShownWords(I) : s[2] = p}} =
          IF Existing(I, p) THEN {I.date[I.names[p]]} ELSE {}
    BY <1>1, ShownByName
  <2>2. CASE Existing(I, p)
    <3> DEFINE date == I.date[I.names[p]]
    <3>1. Cardinality({date}) = 1 /\ {date} # {} /\ (CHOOSE x \in {date} : TRUE) = date
      BY FS_Singleton
    <3> QED
      BY <2>1, <2>2, <3>1 DEF ShownFor, ShownIn, I
  <2>3. CASE ~Existing(I, p)
    BY <2>1, <2>3 DEF ShownFor, ShownIn, I
  <2> QED
    BY <2>2, <2>3
<1> QED
  BY <1>2 DEF ShownDocs, ShownIn

(* The index first built shows its document.                               *)
LEMMA DocsInit ==
  ASSUME "bare" \notin Kinds
  PROVE  UpdateInit => Docs!Init
<1> SUFFICES ASSUME UpdateInit PROVE Docs!Init
  OBVIOUS
<1>1. PICK p \in Paths, d \in Dates : onDisk = BuiltFrom(p, d)
  BY DEF UpdateInit
<1>2. ShownDocs = ShownIn(BuiltFrom(p, d))
  BY <1>1, ConsistentInvInit, ShownDocsByName DEF UpdateInit, Current
<1>3. ShownIn(BuiltFrom(p, d)) = [q \in Paths |-> IF q = p THEN d ELSE MaxDate + 1]
  <2>1. 1 \in FileNums
    BY UpdateAssumption DEF FileNums
  <2> QED
    BY <2>1 DEF ShownIn, Existing, BuiltFrom
<1> QED
  BY <1>2, <1>3 DEF Docs!Init, Docs!NoDocument, Dates

(* Every step until a crash is one of the store's or changes nothing it    *)
(* shows.                                                                  *)
LEMMA DocsStep ==
  ASSUME "bare" \notin Kinds
  PROVE  ConsistentInv /\ ConsistentInv' /\ [UpdateNext]_updateVars =>
           [crashes' # 0 \/ Docs!Next]_<<ShownDocs, crashes>>
<1> SUFFICES ASSUME ConsistentInv, ConsistentInv', [UpdateNext]_updateVars,
                    crashes' = 0
             PROVE  Docs!Next \/ UNCHANGED <<ShownDocs, crashes>>
  OBVIOUS
<1>0. /\ onDisk \in Image /\ mem \in Image /\ onDisk' \in Image
      /\ wpc \in {"idle", "documents", "closing"} /\ crashes \in Nat
  BY UpdateAssumption DEF ConsistentInv, NamesInv, UpdateTypeInv, UpdateTypeOK
<1>1. ~Crash
  BY <1>0 DEF Crash
<1>2. crashes = 0
  BY <1>1 DEF UpdateNext, updateVars, Begin, EndDocuments, FlushHeader,
              FlushWords, FlushArray, FlushNames, IndexDocument
<1>s. ConsistentInv /\ crashes = 0 => ShownDocs = ShownIn(Current)
  BY ShownDocsByName
<1>p. (ConsistentInv /\ crashes = 0 => ShownDocs = ShownIn(Current))'
  BY ShownDocsByName, PTL
<1>3. ShownDocs = ShownIn(Current) /\ ShownDocs' = ShownIn(Current')
  BY <1>2, <1>s, <1>p DEF ShownIn, Existing
<1>4. CASE Begin \/ EndDocuments \/ FlushHeader \/ FlushWords \/ FlushArray
  <2>1. Current' = Current
    BY <1>0, <1>4 DEF Begin, EndDocuments, FlushHeader, FlushWords, FlushArray, Current
  <2> QED
    BY <1>2, <1>3, <2>1
<1>5. CASE FlushNames
  <2>1. /\ onDisk'.names = mem.names /\ onDisk'.count = onDisk.count
        /\ onDisk'.date = onDisk.date
    BY <1>0, <1>5 DEF FlushNames, Image
  <2>2. onDisk.count = mem.count /\ onDisk.date = mem.date
    BY <1>5 DEF FlushNames, ConsistentInv, NamesInv, Synced
  <2>3. ShownIn(onDisk') = ShownIn(mem)
    BY <2>1, <2>2 DEF ShownIn, Existing
  <2> QED
    BY <1>2, <1>3, <1>5, <2>3 DEF FlushNames, Current
<1>6. ASSUME NEW p \in Paths, NEW d \in Dates, NEW k \in Kinds,
             NEW h \in Headers, IndexDocument(p, d, k, h)
      PROVE  Docs!Next \/ UNCHANGED <<ShownDocs, crashes>>
  <2>1. wpc = "documents" /\ wpc' = "documents"
    BY <1>6 DEF IndexDocument
  <2>2. Consistent(mem) /\ ShownDocs = ShownIn(mem) /\ ShownDocs' = ShownIn(mem')
    BY <1>2, <1>3, <2>1 DEF ConsistentInv, Current
  <2>3. k # "refused" => k \in {"text", "empty"}
    BY UpdateAssumption
  <2>4. mem.total < MaxFile /\ mem.removed < MaxFile
    <3>1. /\ given \in 0..(MaxFile - 1) /\ mem.total \in 0..MaxFile
          /\ mem.removed \in 0..MaxFile
      BY <1>0, ImageFields
      DEF ConsistentInv, NamesInv, UpdateTypeInv, UpdateTypeOK
    <3> QED
      BY <1>6, <3>1, UpdateAssumption
      DEF IndexDocument, ConsistentInv, NamesInv, UpdateTypeInv, Bounded
  <2>5. CASE mem' = mem
    BY <1>2, <1>6, <2>2, <2>5 DEF IndexDocument
  <2>6. CASE Existing(mem, p) /\ mem' = RemoveExisting(mem, p)
    <3>1. ShownDocs' = [ShownDocs EXCEPT ![p] = MaxDate + 1]
      BY <1>0, <2>2, <2>6, RemovalShown
    <3> QED
      BY <3>1 DEF Docs!Next, Docs!Remove, Docs!NoDocument
  <2>7. CASE ~Existing(mem, p) /\ k # "refused" /\ mem' = AddFile(mem, p, d, k)
    <3>1. ShownDocs' = [ShownDocs EXCEPT ![p] = IF k = "text" THEN d ELSE MaxDate + 1]
      BY <1>0, <2>2, <2>3, <2>4, <2>7, AdditionShown
    <3>2. ShownDocs[p] = MaxDate + 1
      BY <2>2, <2>7 DEF ShownIn
    <3> QED
      BY <3>1, <3>2 DEF Docs!Next, Docs!Update, Docs!NoDocument, Dates
  <2>8. CASE /\ Existing(mem, p) /\ Newer(mem.date[mem.names[p]], d)
             /\ k # "refused"
             /\ mem' = AddFile(RemoveExisting(mem, p), p, d, k)
    <3> DEFINE J == RemoveExisting(mem, p)
               shown == IF k = "text" THEN d ELSE MaxDate + 1
    <3>1. J.total = mem.total /\ mem.names[p] # 0
      BY <2>8 DEF RemoveExisting, Existing
    <3>2. J \in Image /\ J.total < MaxFile
      BY Zenon, <1>0, <2>4, <3>1, RemoveExistingImage
    <3>3. Consistent(J)
      BY Zenon, <1>0, <2>2, <2>8, ConsistentRemove
    <3>4. ShownIn(J) = [ShownIn(mem) EXCEPT ![p] = MaxDate + 1]
      BY Zenon, <1>0, <2>2, <2>8, RemovalShown
    <3> HIDE DEF J
    <3>5. ShownIn(AddFile(J, p, d, k)) = [ShownIn(J) EXCEPT ![p] = shown]
      BY <2>3, <2>8, <3>2, <3>3, AdditionShown
    <3>6. ShownDocs' = [ShownDocs EXCEPT ![p] = shown]
      BY <2>2, <2>8, <3>4, <3>5 DEF ShownIn, J
    <3>7. ShownDocs[p] = mem.date[mem.names[p]]
      BY <2>2, <2>8 DEF ShownIn
    <3> QED
      BY <2>8, <3>6, <3>7 DEF Docs!Next, Docs!Update, Docs!NoDocument,
                              Docs!Newer, Newer, Dates
  <2> QED
    BY <1>6, <2>5, <2>6, <2>7, <2>8, DocumentCases
<1>7. CASE UNCHANGED updateVars
  <2>1. Current' = Current
    BY <1>7 DEF updateVars, Current
  <2> QED
    BY <1>2, <1>3, <1>7, <2>1
<1> QED
  BY <1>1, <1>4, <1>5, <1>6, <1>7 DEF UpdateNext

(* Sessions of updates and removals implement the document store that the  *)
(* manual describes (-u and -r), until one is cut short.                   *)
THEOREM DocumentStoreImplemented ==
  ASSUME "bare" \notin Kinds
  PROVE  UpdateSpec => ImplementsDocumentStore
<1>1. UpdateInit => Docs!Init
  BY DocsInit
<1>2. UpdateInit => ConsistentInv
  BY ConsistentInvInit
<1>3. ConsistentInv /\ [UpdateNext]_updateVars => ConsistentInv'
  BY ConsistentInvStep
<1>4. ConsistentInv /\ ConsistentInv' /\ [UpdateNext]_updateVars =>
        [crashes' # 0 \/ Docs!Next]_<<ShownDocs, crashes>>
  BY DocsStep
<1> QED
  BY <1>1, <1>2, <1>3, <1>4, PTL DEF UpdateSpec, ImplementsDocumentStore
=============================================================================
