------------------------------ MODULE MCProgram ------------------------------
(* What those who use the program meet, each part by itself: a behaviour   *)
(* is one of sessions that update an index, of the names in its header, of *)
(* a command line, of a program that uses the library, or of a text whose  *)
(* words are indexed and then asked for.                                   *)
EXTENDS MCUpdateMode, MCWords, Library, Names, Commands

VARIABLE part

(* The documents whose elements Names looks up.                            *)
MCDocuments == {<<"a", "b">>}

(* Two indexes that agree on one property, disagree on the type of another *)
(* and have one each of their own, and the errors of their queries.        *)
MCFacts ==
  <<("swishrank" :> "number") @@ ("title" :> "string") @@ ("size" :> "number") @@ ("one" :> "string"),
    ("swishrank" :> "number") @@ ("title" :> "string") @@ ("size" :> "date") @@ ("two" :> "string")>>

Answer(error, words, hits) == [error |-> error, words |-> words, hits |-> hits]
MCAnswers ==
  [q \in {"found", "syntax", "common"} |->
     CASE q = "found"   -> <<Answer(OK, TRUE, 1), Answer(OK, TRUE, 1)>>
       [] q = "syntax"  -> <<Answer(OK, TRUE, 1), Answer("QUERY_SYNTAX_ERROR", FALSE, 0)>>
       [] q = "common"  -> <<Answer("UNKNOWN_METANAME", FALSE, 0), Answer("WORDS_TOO_COMMON", FALSE, 0)>>]

MCSortWords ==
  {<<>>, <<"title", "desc">>, <<"title", "two">>, <<"size">>, <<"title", "asc", "swishrank", "title">>}

MCErrors ==
  [e \in {OK, "NO_WORDS_IN_SEARCH", "WORDS_TOO_COMMON", "UNKNOWN_METANAME", "QUERY_SYNTAX_ERROR"} |->
     CASE e = OK -> 0 [] e = "NO_WORDS_IN_SEARCH" -> -253 [] e = "WORDS_TOO_COMMON" -> -252
       [] e = "UNKNOWN_METANAME" -> -246 [] e = "QUERY_SYNTAX_ERROR" -> -237]

IdSymmetry == Permutations(Ids)

(* No session.                                                             *)
UpdateUnused ==
  /\ onDisk = BuiltFrom(p1, 0) /\ mem = BuiltFrom(p1, 0) /\ wpc = "idle" /\ runMode = "update"
  /\ flushed = {} /\ given = 0 /\ sessions = 0 /\ crashes = 0

(* No text.                                                                *)
WordsUnused ==
  /\ set = [word |-> {}] /\ text = <<>> /\ buf = <<>> /\ form = "plain"
  /\ wordPos = 1 /\ found = <<>> /\ tokens = <<>> /\ asked = <<>>
  /\ stemCache = <<>> /\ wordStage = "index"

CommandUnused == CommandInit /\ readOnly = FALSE

ProgramInit ==
  \/ part = "update" /\ UpdateInit /\ WordsUnused /\ LibInit /\ NamesInit /\ CommandUnused
  \/ part = "words" /\ UpdateUnused /\ WordsInit /\ LibInit /\ NamesInit /\ CommandUnused
  \/ part = "library" /\ UpdateUnused /\ WordsUnused /\ LibInit /\ NamesInit /\ CommandUnused
  \/ part = "names" /\ UpdateUnused /\ WordsUnused /\ LibInit /\ NamesInit /\ CommandUnused
  \/ part = "command" /\ UpdateUnused /\ WordsUnused /\ LibInit /\ NamesInit /\ CommandInit

ProgramNext ==
  \/ part = "update" /\ UpdateNext /\ UNCHANGED <<part, wordVars, libVars, namesVars, commandVars>>
  \/ part = "words" /\ WordsNext /\ UNCHANGED <<part, updateVars, libVars, namesVars, commandVars>>
  \/ part = "library" /\ LibNext /\ UNCHANGED <<part, updateVars, wordVars, namesVars, commandVars>>
  \/ part = "names" /\ NamesNext /\ UNCHANGED <<part, updateVars, wordVars, libVars, commandVars>>
  \/ part = "command" /\ CommandNext /\ UNCHANGED <<part, updateVars, wordVars, libVars, namesVars>>

ProgramSpec ==
  ProgramInit /\ [][ProgramNext]_<<part, updateVars, wordVars, libVars, namesVars, commandVars>>

(* Paths are alike, and so are what a program calls its objects.           *)
ProgramSymmetry == PathSymmetry \cup IdSymmetry
=============================================================================
