----------------------------- MODULE Properties -----------------------------
(* The properties of documents: docprop.c, docprop_write.c and the property *)
(* file of db_native.c. A parser adds texts to the properties of the        *)
(* document; when it is done they are written one after another to the      *)
(* property file, and their places to a table with a row for each file      *)
(* number. In the two-file format the rows are appended to the main file,   *)
(* in the incremental format (USE_BTREE) they are kept in a paged array,    *)
(* the file of an index is opened again to add to it, and the date of an    *)
(* older document is read while those of new ones are being written.        *)
(* A text is a sequence of characters; a value that was written is a cell   *)
(* of the property file, whatever its length and its compression.           *)
EXTENDS Naturals, SequencesExt

CONSTANTS
  Props,       \* propIDX_to_metaID: the properties, in the order of their numbers
  Modified,    \* AUTOPROPERTY_LASTMODIFIED
  Numbers,     \* those that are numbers or dates
  NoStrip,     \* those of PropertyNamesNoStripChars
  MaxLen,      \* max_len of each, 0 for none (StoreDescription, PropertyNamesMaxLength)
  Texts,       \* what a parser may add
  MaxFiles,    \* bound: documents of an index
  MaxAdded,    \* bound: texts added in all
  MaxSessions  \* bound: times the index is opened to be written

PropSet == {Props[i] : i \in DOMAIN Props}

ASSUME PropsAssumption ==
  /\ Props \in Seq(PropSet) /\ IsInjective(Props) /\ Modified \in Numbers
  /\ Numbers \subseteq PropSet /\ NoStrip \subseteq PropSet \ Numbers
  /\ MaxLen \in [PropSet -> Nat] /\ Texts \subseteq Seq(STRING)

VARIABLES
  incremental, \* was swish-e compiled with USE_BTREE?
  propFile,    \* the property file, value by value
  at,          \* where DB->prop stands
  positions,   \* the table of places, row by row; 0 is no value
  filenum,     \* idx->filenum
  header,      \* the number of files the header on disk tells
  session,     \* how many sessions have begun; 0 for closed, see indexing
  indexing,    \* "closed", "ready" for a document, or "parsing" one
  document,    \* fi->docProperties; the empty text is no property
  given        \* history: the texts added to each property of each document

propVars == <<incremental, propFile, at, positions, filenum, header, session,
              indexing, document, given>>

NoProperties == [p \in PropSet |-> <<>>]
NoPlaces == [p \in PropSet |-> 0]

-----------------------------------------------------------------------------
(* Values.                                                                  *)

Space == " "
Control == {"\n"}       \* below a blank
White == {Space} \cup Control   \* isspace
Digits == {"1", "2"}

Trimmed(text) ==
  LET ink == {i \in DOMAIN text : text[i] \notin White}
  IN  IF ink = {} THEN <<>> ELSE SubSeq(text, Min(ink), Max(ink))

\* A character behind those that were copied.
Copied(done, c) ==
  IF c \notin Control THEN Append(done, c)
  ELSE IF done # <<>> /\ Last(done) # Space THEN Append(done, Space) ELSE done
Stripped(text) ==
  LET done[n \in 0..Len(text)] == IF n = 0 THEN <<>> ELSE Copied(done[n - 1], text[n])
  IN  done[Len(text)]

EncodeProperty(p, text) ==
  LET trimmed == Trimmed(text)
  IN  IF p \in Numbers THEN IF ToSet(trimmed) \subseteq Digits THEN trimmed ELSE <<>>
      ELSE IF p \in NoStrip THEN trimmed
      ELSE Stripped(trimmed)

Beginning(n, value) == IF n < Len(value) THEN SubSeq(value, 1, n) ELSE value

Cut(p, value) ==
  IF p \notin Numbers /\ MaxLen[p] > 0 THEN Beginning(MaxLen[p], value) ELSE value

CreateProperty(p, text) == Cut(p, EncodeProperty(p, text))

AppendProperty(p, value, text) ==
  LET new == EncodeProperty(p, text)
      space == IF Last(value) \in White THEN <<>> ELSE <<Space>>
      full == MaxLen[p] > 0 /\ Len(value) + Len(space) >= MaxLen[p]
  IN  IF new = <<>> \/ full THEN value ELSE Cut(p, value \o space \o new)

(* A text is appended to a string; a second number is refused.              *)
AddDocProperty(properties, p, text) ==
  [properties EXCEPT ![p] =
     IF properties[p] = <<>> THEN CreateProperty(p, text)
     ELSE IF p \in Numbers THEN properties[p]
     ELSE AppendProperty(p, properties[p], text)]

-----------------------------------------------------------------------------
(* The property file and the table.                                         *)

Output(file, place, places) == [file |-> file, at |-> place, places |-> places]
WriteProperty(w, p) ==
  IF document[p] = <<>> THEN w
  ELSE Output(IF w.at > Len(w.file) THEN Append(w.file, document[p])
              ELSE [w.file EXCEPT ![w.at] = document[p]],
              w.at + 1, [w.places EXCEPT ![p] = w.at])
AllWritten ==
  LET w[n \in 0..Len(Props)] ==
        IF n = 0 THEN Output(propFile, at, NoPlaces) ELSE WriteProperty(w[n - 1], Props[n])
  IN  w[Len(Props)]

WithRow(places) ==
  [i \in 1..Max({filenum, Len(positions)}) |->
     IF i = filenum THEN places ELSE IF i \in DOMAIN positions THEN positions[i] ELSE NoPlaces]

(* The numbers of files ascend; only the array looks at them.               *)
WritePropPositions(places) ==
  IF incremental THEN WithRow(places) ELSE Append(positions, places)

(* The value of a property of a file, cut to max_size if that is not 0.     *)
ReadProperty(file, p, maxSize) ==
  LET place == positions[file][p]
      value == propFile[place]
  IN  IF place = 0 THEN <<>>
      ELSE IF p \notin Numbers /\ maxSize > 0 THEN Beginning(maxSize, value) ELSE value

(* Slip: the file is left where the value ended.                            *)
AfterReadLeft(file, p) ==
  IF positions[file][p] = 0 THEN at ELSE positions[file][p] + 1

(* Where reading leaves the file: prev_seek_pos.                            *)
AfterRead(file, p) == at

-----------------------------------------------------------------------------
PropInit ==
  /\ incremental \in BOOLEAN
  /\ propFile = <<>> /\ at = 1 /\ positions = <<>>
  /\ filenum = 0 /\ header = 0 /\ session = 1 /\ indexing = "ready"
  /\ document = NoProperties /\ given = <<>>

(* do_index_file up to the parser: a document that was indexed before is    *)
(* replaced or kept for its date, which file_is_newer_than_existing reads.  *)
StartDocument ==
  /\ indexing = "ready" /\ filenum < MaxFiles
  /\ \/ at' = at
     \/ incremental /\ \E old \in 1..filenum : at' = AfterRead(old, Modified)
  /\ filenum' = filenum + 1 /\ indexing' = "parsing"
  /\ document' = NoProperties /\ given' = Append(given, NoProperties)
  /\ UNCHANGED <<incremental, propFile, positions, header, session>>

Added(p) == FoldLeft(LAMBDA n, doc : n + Len(doc[p]), 0, given)

Add(p, text) ==
  /\ indexing = "parsing"
  /\ FoldLeft(LAMBDA n, q : n + Added(q), 0, Props) < MaxAdded
  /\ document' = AddDocProperty(document, p, text)
  /\ given' = [given EXCEPT ![filenum] = [given[filenum] EXCEPT ![p] = Append(given[filenum][p], text)]]
  /\ UNCHANGED <<incremental, propFile, at, positions, filenum, header, session, indexing>>

(* remove_last_file_from_list: the number is given to the next document.    *)
Abort ==
  /\ indexing = "parsing"
  /\ filenum' = filenum - 1 /\ given' = Front(given)
  /\ document' = NoProperties /\ indexing' = "ready"
  /\ UNCHANGED <<incremental, propFile, at, positions, header, session>>

WritePropertiesToDisk ==
  /\ indexing = "parsing"
  /\ propFile' = AllWritten.file /\ at' = AllWritten.at
  /\ positions' = WritePropPositions(AllWritten.places)
  /\ document' = NoProperties /\ indexing' = "ready"
  /\ UNCHANGED <<incremental, filenum, header, session, given>>

Close ==
  /\ indexing = "ready"
  /\ header' = filenum /\ indexing' = "closed"
  /\ UNCHANGED <<incremental, propFile, at, positions, filenum, session, document, given>>

(* DB_Open_Native with DB_READWRITE: behind the last value, and with the    *)
(* number of files of the header.                                           *)
Open ==
  /\ incremental /\ indexing = "closed" /\ session < MaxSessions
  /\ session' = session + 1 /\ indexing' = "ready"
  /\ at' = Len(propFile) + 1 /\ filenum' = header
  /\ UNCHANGED <<incremental, propFile, positions, header, document, given>>

(* A session of an existing index is cut short. Its values may have reached *)
(* the disk, or the first of them, and its rows; the header has not.        *)
Crash ==
  /\ session > 1 /\ indexing # "closed"
  /\ \E n \in 0..Len(propFile), rows \in {header, Len(positions)} :
       /\ \A f \in 1..header, p \in PropSet : positions[f][p] <= n
       /\ rows >= header
       /\ propFile' = SubSeq(propFile, 1, n)
       /\ positions' = SubSeq(positions, 1, rows)
  /\ indexing' = "closed" /\ filenum' = header
  /\ document' = NoProperties /\ given' = SubSeq(given, 1, header)
  /\ UNCHANGED <<incremental, at, header, session>>

PropNext ==
  \/ StartDocument
  \/ \E p \in PropSet, text \in Texts : Add(p, text)
  \/ Abort \/ WritePropertiesToDisk \/ Close \/ Open \/ Crash

PropSpec == PropInit /\ [][PropNext]_propVars

-----------------------------------------------------------------------------
(* What was given for a property: its texts, or its first number.           *)
JoinedWith(p, all, text) ==
  IF text = <<>> THEN all
  ELSE IF all = <<>> THEN text
  ELSE IF p \in Numbers THEN all ELSE all \o <<Space>> \o text
Joined(p, texts) ==
  LET all[n \in 0..Len(texts)] ==
        IF n = 0 THEN <<>> ELSE JoinedWith(p, all[n - 1], EncodeProperty(p, texts[n]))
  IN  all[Len(texts)]

(* The value read is the texts joined by blanks, as far as the length       *)
(* allowed; a separator that would come last may be left out.               *)
Meant(p, texts, value, limit) ==
  LET all == Joined(p, texts)
      most == IF p \in Numbers \/ limit = 0 THEN all ELSE Beginning(limit, all)
  IN  value = most \/ (value # <<>> /\ most = Append(value, Space))

(* Every document that was written shows the values it was given, and no    *)
(* others: not those of a document that was aborted or lost with a session  *)
(* cut short and had the same number, and not values a later document was   *)
(* written over. A shorter reading shows the beginning of the same value.   *)
PropertiesKept ==
  \A f \in 1..(IF indexing = "parsing" THEN filenum - 1 ELSE filenum), p \in PropSet :
    /\ Meant(p, given[f][p], ReadProperty(f, p, 0), MaxLen[p])
    /\ ReadProperty(f, p, 1) =
         IF p \in Numbers THEN ReadProperty(f, p, 0)
         ELSE Beginning(1, ReadProperty(f, p, 0))
=============================================================================
