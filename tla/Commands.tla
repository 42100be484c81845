------------------------------ MODULE Commands ------------------------------
(***************************************************************************)
(* The command line and the configuration files (get_command_line_params,  *)
(* fetch_search_params, fetch_indexing_params and the cmd_ functions of    *)
(* swish.c, getdefaults of parse_conffile.c): which work a command line    *)
(* means, on which indexes and documents, and what the files it names add. *)
(*                                                                         *)
(* The next word of the line, and the next line of a file, is chosen when  *)
(* it is read.  A word joined to its switch is the next word, as in the    *)
(* code.  Switches that set one thing and touch nothing else are alike;    *)
(* -V, -h and -T help, which print and exit, are left out.                 *)
(***************************************************************************)
EXTENDS Integers, Sequences, SequencesExt, FiniteSets

CONSTANTS
  Switches,      \* those tried, of Letters
  IndexNames,    \* words behind -f and -M, and IndexFile's
  Directories,   \* words behind -i, and IndexDir's
  ConfigNames,
  Numbers,       \* behind -v and -W, and in files
  MaxWords,      \* of the command line
  MaxLines,      \* of the files together
  MaxDepth       \* of files that include files

VARIABLES
  mode,          \* params->run_mode
  values,        \* what switches and directives set; see NoValues
  taking,        \* the switch read last, and the number of words it has had
  typed,         \* history: the length of the line, its switches, and the words behind each
  frames,        \* the configuration files being read, the innermost last
  hasDir, hasIndex,   \* the variables of cmd_index
  configured,    \* history: the number of lines of files, and the words of each directive
  commandStage,  \* "line", "files", "run", "done" or "refused" (progerr)
  readOnly,      \* index_read_only: the program is called swish-search
  output         \* the index written, or NoIndex

commandVars == <<mode, values, taking, typed, frames, hasDir, hasIndex, configured,
                 commandStage, readOnly, output>>

DefaultIndex == "index.swish-e"   \* INDEXFILE
NoIndex == "no index"
Unset == "unset"
Blank == ""

NoValues ==
  [dirs |-> <<>>, configs |-> <<>>, indexes |-> <<>>, query |-> <<>>, sort |-> <<>>, limits |-> <<>>,
   verbose |-> Unset, warn |-> Unset, merge |-> NoIndex, key |-> "no key"]

----------------------------------------------------------------------------
(* Switches.                                                               *)

Letters == {"w", "s", "L", "i", "c", "f", "M", "T", "v", "W", "k", "u", "r", "e"}
ASSUME CommandsAssumption == Switches \subseteq Letters /\ MaxWords \in Nat \ {0}

\* The words of a switch, and the fewest and most it takes.
Words == "word" \* any text
ParamsOf ==
  [w |-> {Words, Blank}, s |-> {Words}, L |-> {Words}, i |-> Directories, c |-> ConfigNames,
   f |-> IndexNames, M |-> IndexNames, T |-> {"INDEX_FILES", "REGEX"},
   v |-> Numbers, W |-> Numbers, k |-> {"*"}, u |-> {Words}, r |-> {Words}, e |-> {Words}]
Least == [s \in Switches |-> CASE s \in {"u", "r", "e", "T"} -> 0 [] s = "L" -> 3 [] OTHER -> 1]
Most ==
  [s \in Switches |->
     CASE s \in {"u", "r", "e"} -> 0 [] s \in {"v", "W", "k"} -> 1 [] s = "L" -> 3 [] OTHER -> MaxWords]

Updating == {"update", "remove"}

\* -i and -c leave the modes of -u and -r.
IndexingAnyway(m) == "index"
Indexing(m) == IF m \in Updating THEN m ELSE "index"

\* The mode after a word of a switch: blank words of a query do not count.
ModeAfter(m, s, w) ==
  CASE s \in {"i", "c"} -> Indexing(m)
    [] s = "w" /\ w # Blank -> "search"
    [] s = "M" -> "merge"
    [] s = "k" -> "words"
    [] s = "T" /\ w = "INDEX_FILES" -> "dump"
    [] OTHER -> m

Added(list, w, here) == IF here THEN Append(list, w) ELSE list

\* The last word of -M is the output; the one before turns out an input.
Taken(v, s, w, first) ==
  [dirs    |-> Added(v.dirs, w, s = "i"),
   configs |-> Added(v.configs, w, s = "c"),
   indexes |-> Added(Added(v.indexes, w, s = "f"), v.merge, s = "M" /\ ~first),
   query   |-> Added(v.query, w, s = "w" /\ w # Blank),
   sort    |-> Added(v.sort, w, s = "s"),
   limits  |-> Added(v.limits, w, s = "L"),
   verbose |-> IF s = "v" THEN w ELSE v.verbose,
   warn    |-> IF s = "W" THEN w ELSE v.warn,
   merge   |-> IF s = "M" THEN w ELSE v.merge,
   key     |-> IF s = "k" THEN w ELSE v.key]

\* What files change.
Changed(v, dirs, configs, indexes, verbose, warn) ==
  [dirs |-> dirs, configs |-> configs, indexes |-> indexes, query |-> v.query, sort |-> v.sort,
   limits |-> v.limits, verbose |-> verbose, warn |-> warn, merge |-> v.merge, key |-> v.key]

NoSwitch == [switch |-> "none", words |-> 0]
Complete == taking = NoSwitch \/ taking.words >= Least[taking.switch]

RefuseCommand ==
  /\ commandStage' = "refused"
  /\ UNCHANGED <<mode, values, taking, typed, frames, hasDir, hasIndex, configured, readOnly, output>>

\* One more word of the line.
WithSwitch(s) == [count |-> typed.count + 1, given |-> typed.given \cup {s}, behind |-> typed.behind]
WithWord(s, w) ==
  [count |-> typed.count + 1, given |-> typed.given,
   behind |-> [typed.behind EXCEPT ![s] = Append(typed.behind[s], w)]]

Line == commandStage = "line" /\ UNCHANGED <<frames, hasDir, hasIndex, configured, readOnly, output>>

\* A word that starts with a dash: get_command_line_params.
Switch(s) ==
  /\ Line /\ typed.count < MaxWords
  /\ typed' = WithSwitch(s)
  /\ LET m == CASE s = "u" -> "update" [] s = "r" -> "remove" [] OTHER -> mode
     IN IF Complete /\ ~(s \in {"u", "r"} /\ mode \in Updating /\ mode # m)
        THEN /\ taking' = [switch |-> s, words |-> 0]
             /\ mode' = m
             /\ UNCHANGED <<values, commandStage>>
        ELSE commandStage' = "refused" /\ UNCHANGED <<mode, values, taking>>

\* Another word, which a switch takes (next_param); one too many is refused,
\* for its missing dash, or because -u and -r take none.  Nothing is read
\* behind the word of -k.
Word(w) ==
  /\ Line /\ typed.count < MaxWords /\ taking # NoSwitch
  /\ LET s == taking.switch
     IN /\ typed' = WithWord(s, w)
        /\ IF taking.words = Most[s]
           THEN commandStage' = "refused" /\ UNCHANGED <<mode, values, taking>>
           ELSE /\ taking' = [switch |-> s, words |-> taking.words + 1]
                /\ mode' = ModeAfter(mode, s, w)
                /\ values' = Taken(values, s, w, taking.words = 0)
                /\ commandStage' = IF s = "k" THEN "files" ELSE "line"

EndLine ==
  /\ Line
  /\ commandStage' = IF Complete /\ taking # NoSwitch THEN "files" ELSE "refused"
  /\ UNCHANGED <<mode, values, taking, typed>>

----------------------------------------------------------------------------
(* Configuration files: cmd_index and getdefaults.                         *)

\* A file by the number of lines before it; gotdir, gotindex and hasbad.
Frame(place, got) == [place |-> place, got |-> got]
NewFrame(place) == Frame(place, {})

LinesLeft == MaxLines - configured.lines

\* The switches were read, and the work is one that looks at the files.
StartFiles ==
  /\ commandStage = "files" /\ frames = <<>>
  /\ hasDir = "unknown"
  /\ IF mode \in {"index"} \cup Updating
     THEN IF readOnly THEN RefuseCommand
          ELSE /\ hasDir' = IF values.dirs = <<>> THEN "no" ELSE "yes"
               /\ hasIndex' = IF values.indexes = <<>> THEN "no" ELSE "yes"
               /\ UNCHANGED <<mode, values, taking, typed, frames, configured, commandStage, readOnly, output>>
     ELSE /\ commandStage' = "run"
          /\ UNCHANGED <<mode, values, taking, typed, frames, hasDir, hasIndex, configured, readOnly, output>>

Files == commandStage = "files" /\ hasDir # "unknown" /\ UNCHANGED <<mode, taking, typed, readOnly, output>>

\* getdefaults begins: it lists the default index, whatever is listed.
Opened(v, configs) == Changed(v, v.dirs, configs, Append(v.indexes, DefaultIndex), v.verbose, v.warn)

OpenFile ==
  /\ Files /\ frames = <<>> /\ values.configs # <<>>
  /\ values' = Opened(values, Tail(values.configs))
  /\ frames' = <<NewFrame(configured.lines)>>
  /\ UNCHANGED <<hasDir, hasIndex, configured, commandStage>>

Top == Last(frames)
InFile == Files /\ frames # <<>> /\ LinesLeft > 0
TopGot(what) == frames' = Append(Front(frames), Frame(Top.place, Top.got \cup {what}))

Directives == {"IndexDir", "IndexFile", "IndexReport"}
Note(directive, w) ==
  configured' =
    [lines |-> configured.lines + 1,
     told |-> IF directive \notin Directives THEN configured.told
              ELSE [configured.told EXCEPT ![directive] =
                      Append(configured.told[directive], [place |-> Top.place, word |-> w])]]

IncludeConfigFile ==
  /\ InFile /\ Len(frames) < MaxDepth
  /\ values' = Opened(values, values.configs)
  /\ Note("IncludeConfigFile", Blank)
  /\ frames' = Append(frames, NewFrame(configured.lines + 1))
  /\ UNCHANGED <<hasDir, hasIndex, commandStage>>

IndexDir(d) ==
  /\ InFile
  /\ Note("IndexDir", d)
  /\ IF hasDir = "no"
     THEN /\ TopGot("dir")
          /\ values' = Changed(values, Append(values.dirs, d), values.configs, values.indexes, values.verbose, values.warn)
     ELSE UNCHANGED <<frames, values>>
  /\ UNCHANGED <<hasDir, hasIndex, commandStage>>

\* The first of the list is renamed.
IndexFile(f) ==
  /\ InFile
  /\ Note("IndexFile", f)
  /\ IF hasIndex = "no"
     THEN /\ TopGot("index")
          /\ values' = Changed(values, values.dirs, values.configs, [values.indexes EXCEPT ![1] = f], values.verbose, values.warn)
     ELSE UNCHANGED <<frames, values>>
  /\ UNCHANGED <<hasDir, hasIndex, commandStage>>

\* hasverbose: -v was typed.
IndexReport(n) ==
  /\ InFile
  /\ Note("IndexReport", n)
  /\ values' = IF "v" \in typed.given THEN values
               ELSE Changed(values, values.dirs, values.configs, values.indexes, n, values.warn)
  /\ UNCHANGED <<frames, hasDir, hasIndex, commandStage>>

ParserWarnLevel(n) ==
  /\ InFile
  /\ Note("ParserWarnLevel", n)
  /\ values' = Changed(values, values.dirs, values.configs, values.indexes, values.verbose, n)
  /\ UNCHANGED <<frames, hasDir, hasIndex, commandStage>>

\* A directive no module knows; the program goes on to the end of the file.
BadDirective ==
  /\ InFile
  /\ Note("BadDirective", Blank)
  /\ TopGot("bad")
  /\ UNCHANGED <<values, hasDir, hasIndex, commandStage>>

\* A known directive with a bad value: read_integer, getYesNoOrAbort, ...
BadValue == InFile /\ commandStage' = "refused" /\ UNCHANGED <<values, frames, hasDir, hasIndex, configured>>

EndFile ==
  /\ Files /\ frames # <<>>
  /\ IF "bad" \in Top.got THEN commandStage' = "refused" /\ UNCHANGED <<values, frames, hasDir, hasIndex, configured>>
     ELSE /\ frames' = Front(frames)
          /\ hasDir' = IF "dir" \in Top.got THEN "yes" ELSE hasDir
          /\ hasIndex' = IF "index" \in Top.got THEN "yes" ELSE hasIndex
          /\ UNCHANGED <<values, configured, commandStage>>

EndFiles ==
  /\ Files /\ frames = <<>> /\ values.configs = <<>>
  /\ commandStage' = IF hasDir = "yes" THEN "run" ELSE "refused"
  /\ UNCHANGED <<values, frames, hasDir, hasIndex, configured>>

----------------------------------------------------------------------------
(* The work.  Merging refuses an output that is there, and inputs that are *)
(* not, and so do updates and searches.                                    *)

Needed ==
  CASE mode = "index" -> {}
    [] mode \in Updating -> {values.indexes[1]}
    [] OTHER -> IF values.indexes = <<>> THEN {DefaultIndex} ELSE Range(values.indexes)

\* Where the work goes: DB_Create, or an index opened to be changed.
Target ==
  CASE mode = "merge" -> values.merge
    [] mode \in {"index"} \cup Updating -> Head(Append(values.indexes, DefaultIndex))
    [] OTHER -> NoIndex

Run(existing) ==
  /\ commandStage = "run"
  /\ LET refused ==
           \/ mode = "merge" /\ (readOnly \/ values.indexes = <<>> \/ values.merge \in existing)
           \/ ~(IF mode \in Updating THEN Target \in existing ELSE Needed \subseteq existing)
     IN /\ commandStage' = IF refused THEN "refused" ELSE "done"
        /\ output' = IF refused THEN NoIndex ELSE Target
  /\ UNCHANGED <<mode, values, taking, typed, frames, hasDir, hasIndex, configured, readOnly>>

CommandInit ==
  /\ mode = "search" /\ values = NoValues /\ taking = NoSwitch
  /\ typed = [count |-> 0, given |-> {}, behind |-> [s \in Letters |-> <<>>]]
  /\ frames = <<>> /\ hasDir = "unknown" /\ hasIndex = "unknown"
  /\ configured = [lines |-> 0, told |-> [d \in Directives |-> <<>>]]
  /\ commandStage = "line" /\ output = NoIndex
  /\ readOnly \in BOOLEAN

CommandNext ==
  \/ \E s \in Switches : Switch(s)
  \/ \E w \in IF taking = NoSwitch THEN {} ELSE ParamsOf[taking.switch] : Word(w)
  \/ EndLine \/ StartFiles
  \/ OpenFile \/ IncludeConfigFile
  \/ \E d \in Directories : IndexDir(d)
  \/ \E f \in IndexNames : IndexFile(f)
  \/ \E n \in Numbers : IndexReport(n) \/ ParserWarnLevel(n)
  \/ BadDirective \/ BadValue \/ EndFile \/ EndFiles
  \/ \E existing \in SUBSET (IndexNames \cup {DefaultIndex}) : Run(existing)

CommandSpec == CommandInit /\ [][CommandNext]_commandVars
----------------------------------------------------------------------------
(* Properties.                                                             *)

WordsBehind(s) == typed.behind[s]
Has(s) == s \in typed.given
Told(directive) == [i \in DOMAIN configured.told[directive] |-> configured.told[directive][i].word]
FilesWith(directive) == {configured.told[directive][i].place : i \in DOMAIN configured.told[directive]}

\* The kinds of work the switches of the line ask for.
Works ==
  (IF Has("i") \/ Has("c") THEN {"index"} ELSE {}) \cup (IF Has("M") THEN {"merge"} ELSE {})
  \cup (IF \E w \in Range(WordsBehind("w")) : w # Blank THEN {"search"} ELSE {})
  \cup (IF "INDEX_FILES" \in Range(WordsBehind("T")) THEN {"dump"} ELSE {})
  \cup (IF Has("k") THEN {"words"} ELSE {})

\* A command line that asks for one kind of work gets it, in whatever order
\* its switches come: -u and -r make indexing an update or a removal.
WorkAsked ==
  IF Has("u") \/ Has("r") THEN Works \subseteq {"index"} => mode = (IF Has("u") THEN "update" ELSE "remove")
  ELSE /\ Cardinality(Works) = 1 => mode \in Works
       /\ Works = {} => mode = "search"

\* An index is written by indexing, updating and merging only and never by
\* swish-search, and it is the one asked for: the output of -M, the first of
\* -f, or one of IndexFile, and the default one only where none was named.
OutputAsked ==
  /\ output # NoIndex => mode \in {"index", "merge"} \cup Updating /\ ~readOnly
  /\ mode = "merge" => output = Last(WordsBehind("M")) /\ output \notin Range(values.indexes)
  /\ mode \in {"index"} \cup Updating /\ ~Has("M") =>
       IF Has("f") THEN output = Head(WordsBehind("f"))
       ELSE IF Told("IndexFile") # <<>> THEN output \in Range(Told("IndexFile"))
       ELSE output = DefaultIndex

\* Documents are those of -i, or else those of IndexDir, from the first on
\* and all of them if one file names them; -v counts more than IndexReport.
ValuesAsked ==
  mode \in {"index"} \cup Updating =>
    /\ IF Has("i") THEN values.dirs = WordsBehind("i")
       ELSE /\ values.dirs # <<>> /\ IsPrefix(values.dirs, Told("IndexDir"))
            /\ Cardinality(FilesWith("IndexDir")) = 1 => values.dirs = Told("IndexDir")
    /\ Has("v") => values.verbose = Last(WordsBehind("v"))
    /\ ~Has("v") /\ Told("IndexReport") # <<>> => values.verbose = Last(Told("IndexReport"))

\* The work that is done is the one the command line and the files it names
\* ask for (SWISH-RUN, SWISH-CONFIG).
CommandObeyed == commandStage = "done" => WorkAsked /\ OutputAsked /\ ValuesAsked
=============================================================================
