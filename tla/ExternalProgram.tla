-------------------------- MODULE ExternalProgram --------------------------
(***************************************************************************)
(* Documents from a program (-S prog: extprog.c, with do_index_file of     *)
(* index.c, read_stream and flush_stream of file.c, read_next_chunk of     *)
(* parser.c and save_to_temp_file).                                        *)
(*                                                                         *)
(* The program prints documents one after the other into a pipe: header    *)
(* lines, a blank line, as many units of content as Content-Length says.   *)
(* Nothing in the stream marks the end of a document: whatever becomes of  *)
(* it, all of its units have to be read, and what its headers set has to   *)
(* be reset, before the next header line is read.                          *)
(***************************************************************************)
EXTENDS Naturals, Sequences

CONSTANTS
  Documents,    \* what the program may print; see Lines for the fields
  MaxPrinted,   \* bound: documents printed
  RunUpdates,   \* -u or -r was given
  MtimeLimit,   \* -N: older documents are skipped; 0 for none
  NoType        \* no Document-Type

ASSUME DocumentsAssumption ==
  \A d \in Documents :
    /\ d.size \in Nat /\ d.mtime \in Nat
    /\ {d.hasLength, d.noContents, d.filter} \subseteq BOOLEAN

VARIABLES
  printed,    \* the documents printed so far
  pipe,       \* lines and units not read yet
  prog,       \* "headers", "error" after progerr, "closed"
  path,       \* real_path: document's place in printed, 0 for NULL
  fsize,      \* Content-Length, Missing before the first
  mtime, noContents, docType,
  updateMode, \* the mode in force, "run" for that of the command line
  taken       \* what do_index_file was called with, in order

progVars == <<printed, pipe, prog, path, fsize, mtime, noContents, docType,
              updateMode, taken>>
headerVars == <<path, fsize, mtime, noContents, docType, updateMode>>

Missing == 99   \* fsize = -1

Header(name, value) == [part |-> name, value |-> value]
Text(name, text) == [part |-> name, text |-> text]
Blank == Header("blank", 0)
Content == Header("content", 0)

Optional(given, line) == IF given THEN <<line>> ELSE <<>>

(* What the program prints for its n-th document.                          *)
Lines(d, n) ==
  <<Header("Path-Name", n)>>
    \o Optional(d.hasLength, Header("Content-Length", d.size))
    \o Optional(d.mtime # 0, Header("Last-Mtime", d.mtime))
    \o Optional(d.noContents, Header("No-Contents", 0))
    \o Optional(d.type # NoType, Text("Document-Type", d.type))
    \o Optional(d.mode # "run", Text("Update-Mode", d.mode))
    \o <<Blank>> \o [i \in 1..d.size |-> Content]

ProgInit ==
  /\ printed = <<>> /\ pipe = <<>> /\ prog = "headers"
  /\ path = 0 /\ fsize = Missing /\ mtime = 0
  /\ noContents = FALSE /\ docType = NoType /\ updateMode = "run"
  /\ taken = <<>>

(* The program is a document ahead of what is read, at most.               *)
WriteDocument(d) ==
  /\ prog = "headers"
  /\ Len(printed) < MaxPrinted
  /\ Len(SelectSeq(pipe, LAMBDA t : t.part = "blank")) < 2
  /\ printed' = Append(printed, d)
  /\ pipe' = pipe \o Lines(d, Len(printed) + 1)
  /\ UNCHANGED <<prog, headerVars, taken>>

AtBlank == Head(pipe).part = "blank"

(* One header line.  A line that is no header is skipped with a warning;   *)
(* what is left of a content is such lines.                                *)
ReadHeader ==
  /\ prog = "headers" /\ pipe # <<>> /\ ~AtBlank
  /\ pipe' = Tail(pipe)
  /\ LET line == Head(pipe)
         value(name, old) == IF line.part = name THEN line.value ELSE old
         text(name, old) == IF line.part = name THEN line.text ELSE old
     IN  /\ path' = value("Path-Name", path)
         /\ fsize' = value("Content-Length", fsize)
         /\ mtime' = value("Last-Mtime", mtime)
         /\ noContents' = (noContents \/ line.part = "No-Contents")
         /\ docType' = text("Document-Type", docType)
         /\ updateMode' = text("Update-Mode", updateMode)
         /\ prog' = IF line.part = "Update-Mode" /\ ~RunUpdates
                    THEN "error" ELSE prog
  /\ UNCHANGED <<printed, taken>>

(* A blank line before Path-Name, or with fsize still -1.                  *)
HeaderMissing ==
  /\ prog = "headers" /\ pipe # <<>> /\ AtBlank
  /\ path = 0 \/ fsize = Missing
  /\ prog' = "error"
  /\ UNCHANGED <<printed, pipe, headerVars, taken>>

-----------------------------------------------------------------------------
(* How much of a document is read from the pipe.                           *)

(* The libxml2 parsers read for themselves, others get a buffer.           *)
Streamed(type) == type \in {"HTML2", "XML2", "TXT2", NoType}

(* index_no_content calls a parser only for HTML documents.                *)
Unread(type) == noContents /\ type \in {"XML2", "TXT2"}

(* fprop->bytes_read after the parser, which may stop early but reads a    *)
(* chunk first (parse_chunks).  It counts what streaming parsers read.     *)
BytesRead(type) ==
  IF Unread(type) THEN {0}
  ELSE IF fsize = 0 THEN {0} ELSE 1..fsize

(* do_index_file once the parser is chosen: bytes_read, and the rest by    *)
(* flush_stream, which is called if a part was read.                       *)
Parsed(type) ==
  IF ~Streamed(type) THEN {fsize}
  ELSE {IF n # 0 /\ n < fsize THEN fsize ELSE n : n \in BytesRead(type)}

(* Slip: a document that is too old is left in the pipe.                   *)
SkippedUnflushed == 0

(* An old or unchanged document is flushed.                                *)
Skipped == fsize

(* Units read of a document.  With a filter, all are read and written to   *)
(* a temporary file first; old documents, and in update mode unchanged     *)
(* ones and those to remove, are skipped.                                  *)
Consumed(d, type) ==
  IF d.filter THEN {fsize}
  ELSE IF mtime < MtimeLimit THEN {Skipped}
  ELSE Parsed(type) \cup (IF RunUpdates THEN {Skipped} ELSE {})

(* sw->Index->update_mode = original_update_mode.                          *)
ResetMode == "run"

(* A blank line: the document is read and indexed, or not, and what the    *)
(* headers set is reset.  Content-Length is reset to 0.                    *)
IndexStreamed ==
  /\ prog = "headers" /\ pipe # <<>> /\ AtBlank
  /\ path # 0 /\ fsize # Missing
  /\ \E n \in Consumed(printed[path], docType) :
       pipe' = SubSeq(pipe, n + 2, Len(pipe))
  /\ taken' = Append(taken, [path |-> path, size |-> fsize, mtime |-> mtime,
                             noContents |-> noContents, type |-> docType,
                             mode |-> updateMode])
  /\ path' = 0 /\ fsize' = 0 /\ mtime' = 0
  /\ noContents' = FALSE /\ docType' = NoType
  /\ updateMode' = ResetMode
  /\ UNCHANGED <<printed, prog>>

(* The program ends; pclose.                                               *)
EndOfStream ==
  /\ prog = "headers" /\ pipe = <<>>
  /\ prog' = "closed"
  /\ UNCHANGED <<printed, pipe, headerVars, taken>>

ReadStream == ReadHeader \/ HeaderMissing \/ IndexStreamed \/ EndOfStream
ProgNext == ReadStream \/ \E d \in Documents : WriteDocument(d)

ProgSpec == ProgInit /\ [][ProgNext]_progVars

-----------------------------------------------------------------------------
(* What do_index_file must be called with for the n-th document.           *)
Given(d, n) ==
  [path |-> n, size |-> d.size, mtime |-> d.mtime,
   noContents |-> d.noContents, type |-> d.type, mode |-> d.mode]

(* After what documents swish is in step.  Without Content-Length one that *)
(* is not the first is taken for an empty one; with No-Contents XML and    *)
(* text are not read, and as bytes_read is 0 nothing is flushed.           *)
Careful(d) ==
  /\ ~d.hasLength => d.size = 0
  /\ d.noContents => d.filter \/ d.size = 0 \/ d.type \notin {"XML2", "TXT2"}
CarefulUpTo(n) == \A k \in 1..Len(printed) : k <= n => Careful(printed[k])

(* Up to the first document that is not careful, the documents taken from  *)
(* the pipe are those the program printed, one for one, each with its own  *)
(* headers and nothing left from one before; content is never read as      *)
(* headers, whatever parser, filter, date or update stopped the reading of *)
(* a document.                                                             *)
StreamInStep ==
  /\ \A n \in 1..Len(taken) : CarefulUpTo(n) => taken[n] = Given(printed[n], n)
  /\ CarefulUpTo(Len(taken)) /\ prog = "headers" /\ pipe # <<>> =>
       Head(pipe).part # "content"
=============================================================================
