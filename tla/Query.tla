------------------------------- MODULE Query -------------------------------
(***************************************************************************)
(* One query against one index: query_index (search.c) and what it calls.  *)
(* swish_words.c rewrites the token list in passes - tokenize_query_string *)
(* ignore_words_in_query, expandphrase, fixmetanames, fixnot1, fixnot2 -   *)
(* and parseterm (search.c) evaluates what is left, recursively, left to   *)
(* right.  One action is one pass; ignore_words_in_query, which starts     *)
(* over after each removal, takes one step per removal.                    *)
(*                                                                         *)
(* Left out: characters (a token is a string here, an escaped operator     *)
(* does not occur; what a wildcard matches is a constant), buzzwords,      *)
(* ranks and the structure bits; removed files (module UpdateMode has      *)
(* them).                                                                  *)
(***************************************************************************)
EXTENDS Integers, Sequences, SequencesExt, FiniteSets, FiniteSetsExt

CONSTANTS
  MetaNames,    \* the metanames of the index header
  StopWords,    \* header.hashstoplist
  ShortWords,   \* the words outside minwordlimit..maxwordlimit
  Content,      \* Content[file][meta]: the words of a file under a metaname
  Distance,     \* the tokens that begin with "near", and the number behind
  Wild,         \* the tokens with a wildcard, and the words that match
  Converted,    \* the tokens parse_swish_words splits, or makes two codes of
  Queries,      \* the queries tried: [text |-> tokens, least |-> files it
                \* must find or Unknown, most |-> files it may find]
  Unknown       \* a model value: the query has no reference meaning

\* The tokens that are not words.  next_token delivers the operators, and
\* isBooleanOperatorWord writes the rules; whatever begins with "near" is one.
Delim   == "\""
Nears   == DOMAIN Distance
Rules   == {"AND", "OR", "NOT"} \cup Nears
AllFiles   == DOMAIN Content
Default == "swishdefault"                      \* the metaname numbered 1

\* The errors of the search, RC_OK included.
Errors == {"RC_OK", "UNKNOWN_METANAME", "QUERY_SYNTAX_ERROR",
           "WORDS_TOO_COMMON", "NO_WORDS_IN_SEARCH"}

VARIABLES
  query,       \* srch->query, already split into tokens, and its meaning
  swline,      \* the token list, as the passes leave it
  pass,        \* the next pass
  stopped,     \* stop_word_removed is not zero
  lasterror,   \* the error SwishExecute reports, with this one index
  resultlist   \* db_results->resultlist

queryVars == <<query, swline, pass, stopped, lasterror, resultlist>>

\* A RESULT_LIST: the files in it, each with the positions kept for it, in
\* series (separated by zeros) of which the terms joined by near have one
\* each, and with bArea, whether it was joined so.  The null list and a list
\* without results are told apart by no caller.
NoResults == [f \in {} |-> {}]

QueryInit ==
  /\ query \in Queries
  /\ swline = query.text
  /\ pass = "tokenize"
  /\ stopped = FALSE
  /\ lasterror = "RC_OK"
  /\ resultlist = NoResults

Fail(error) ==
  /\ lasterror' = error
  /\ pass' = "done"
  /\ UNCHANGED <<query, stopped, resultlist>>

Rewrite(from, to, new) ==
  /\ pass = from
  /\ pass' = to
  /\ swline' = new
  /\ UNCHANGED <<query, stopped, lasterror, resultlist>>

----------------------------------------------------------------------------
(* The passes over the token list.                                         *)

InPhrase(s, i) == Cardinality({j \in 1..(i - 1) : s[j] = Delim}) % 2 = 1

\* isMetaNameOpNext of the token at i.
EqualsNext(s, i) == i < Len(s) /\ s[i + 1] = "="

\* "and not" becomes "not": the AND is cut out.  A word is made what the
\* index has for it, of which a phrase and a metaname take no notice.
Tokens(s) ==
  FlattenSeq([i \in 1..Len(s) |->
    IF s[i] = "AND" /\ i < Len(s) /\ s[i + 1] = "NOT" THEN <<>>
    ELSE IF s[i] \in DOMAIN Converted /\ ~EqualsNext(s, i) THEN Converted[s[i]]
    ELSE <<s[i]>>])

Tokenize ==
  /\ pass = "tokenize"
  /\ IF swline = <<>>
       THEN Fail("NO_WORDS_IN_SEARCH") /\ UNCHANGED swline
     ELSE IF \E i \in 1..Len(swline) : /\ ~InPhrase(swline, i)
                                       /\ EqualsNext(swline, i)
                                       /\ swline[i] \notin MetaNames
       THEN Fail("UNKNOWN_METANAME") /\ UNCHANGED swline
     ELSE Rewrite("tokenize", "ignore", Tokens(swline))

IsRule(t) == t \in Rules

IsIgnored(s, i) ==
  IF InPhrase(s, i) THEN s[i] \in StopWords ELSE s[i] \in StopWords \cup ShortWords

\* Outside a phrase: an operator, or a metaname, is not a word of the query.
IsSearchWord(s, i) ==
  /\ s[i] # Delim
  /\ InPhrase(s, i) \/ (s[i] \notin Rules \cup {"(", ")", "="} /\ ~EqualsNext(s, i))

\* What remove is after the token at i: how many tokens go, ending at i.
EmptyPair(s, i) ==
  /\ i > 1
  /\ IF InPhrase(s, i) THEN s[i] = Delim /\ s[i - 1] = Delim
                       ELSE s[i] = ")" /\ s[i - 1] = "("
Dangling(s, i) == i = Len(s) /\ s[i] = "=" /\ i > 1
Misplaced(s, i) ==
  /\ IsRule(s[i]) /\ ~InPhrase(s, i) /\ ~EqualsNext(s, i)
  /\ IF i = 1 THEN s[i] # "NOT" ELSE IsRule(s[i - 1])
Removed(s, i) ==
  IF EmptyPair(s, i) \/ Dangling(s, i) THEN 2
  ELSE IF Misplaced(s, i) \/ (IsSearchWord(s, i) /\ IsIgnored(s, i)) THEN 1
  ELSE 0

Removable(s) == {i \in 1..Len(s) : Removed(s, i) > 0}

\* One removal; the scan then starts at the beginning again.  When the last
\* token goes there is no new scan, and the counters keep what the scan that
\* removed it had counted: a word of the wrong length was counted as a word,
\* no error is set, and SwishExecute takes the missing list for no words.
IgnoreWords ==
  /\ pass = "ignore"
  /\ Removable(swline) # {}
  /\ LET i    == Min(Removable(swline))
         n    == Removed(swline, i)
         left == SubSeq(swline, 1, i - n) \o SubSeq(swline, i + 1, Len(swline))
         stop == stopped \/ IsSearchWord(swline, i)
     IN /\ swline' = left
        /\ stopped' = stop
        /\ IF left # <<>>
             THEN UNCHANGED <<pass, lasterror>>
             ELSE /\ pass' = "done"
                  /\ lasterror' = IF stop /\ swline[i] \notin ShortWords \ StopWords
                                    THEN "WORDS_TOO_COMMON" ELSE "NO_WORDS_IN_SEARCH"
  /\ UNCHANGED <<query, resultlist>>

ParenCount(s) ==
  Cardinality({i \in 1..Len(s) : s[i] = "(" /\ ~InPhrase(s, i)})
    - Cardinality({i \in 1..Len(s) : s[i] = ")" /\ ~InPhrase(s, i)})

\* A scan that removes nothing reaches the end: the counters decide.
EndIgnoreWords ==
  /\ pass = "ignore"
  /\ Removable(swline) = {}
  /\ IF InPhrase(swline, Len(swline) + 1) \/ ParenCount(swline) # 0
       THEN Fail("QUERY_SYNTAX_ERROR") /\ UNCHANGED swline
     ELSE IF \A i \in 1..Len(swline) : ~IsSearchWord(swline, i)
       THEN /\ Fail(IF stopped THEN "WORDS_TOO_COMMON" ELSE "NO_WORDS_IN_SEARCH")
            /\ UNCHANGED swline
     ELSE Rewrite("ignore", "expandphrase", swline)

\* "a b c" becomes ( a PHRASE b PHRASE c ).
Expanded(s) ==
  FlattenSeq([i \in 1..Len(s) |->
    IF s[i] = Delim THEN <<IF InPhrase(s, i) THEN ")" ELSE "(">>
    ELSE IF InPhrase(s, i) /\ s[i - 1] # Delim THEN <<"PHRASE", s[i]>>
    ELSE <<s[i]>>])
ExpandPhrase == Rewrite("expandphrase", "fixmetanames", Expanded(swline))

\* The parentheses left open by tokens i..j of s.
Opened(s, i, j) ==
  Cardinality({k \in i..j : s[k] = "("}) - Cardinality({k \in i..j : s[k] = ")"})

\* The end of the metaname's value that starts at i: a word or a group.  Zero
\* when a group is never closed.
ValueEnd(s, i) ==
  IF s[i] # "(" THEN i
  ELSE LET closes == {j \in i..Len(s) : Opened(s, i, j) = 0}
       IN IF closes = {} THEN 0 ELSE Min(closes)

\* meta = value becomes ( meta = value ); inside the value nothing changes.
RECURSIVE MetaGrouped(_)
MetaGrouped(s) ==
  IF s = <<>> THEN <<>>
  ELSE IF ~EqualsNext(s, 1) THEN <<s[1]>> \o MetaGrouped(Tail(s))
  ELSE IF Len(s) = 2 THEN <<>>
  ELSE LET e == ValueEnd(s, 3)
       IN IF e = 0 THEN <<"(">> \o s
          ELSE <<"(">> \o SubSeq(s, 1, e) \o <<")">> \o MetaGrouped(SubSeq(s, e + 1, Len(s)))
FixMetaNames == Rewrite("fixmetanames", "fixnot1", MetaGrouped(swline))

\* A slip: a NOT at the start of a group is taken for the binary rule.
BinaryInGroup(s) ==
  [i \in 1..Len(s) |-> IF s[i] = "NOT" /\ i > 1 /\ s[i - 1] # "=" THEN "ANDNOT" ELSE s[i]]

\* A NOT that follows a term is the binary rule.
Binary(s) ==
  [i \in 1..Len(s) |-> IF s[i] = "NOT" /\ i > 1 /\ s[i - 1] \notin {"=", "("}
                         THEN "ANDNOT" ELSE s[i]]
FixNot1 == Rewrite("fixnot1", "fixnot2", Binary(swline))

\* Where the loop after a NOT stops: at the first token, other than a "(",
\* that it meets with no parenthesis open.  The ")" that closes a group is met
\* with the group still open, so the token after it is taken in as well.
OperandEnd(s) ==
  LET ends == {j \in 2..Len(s) : s[j] # "(" /\ Opened(s, 2, j - 1) = 0}
  IN IF ends = {} THEN 0 ELSE Min(ends)

\* One run over the list: NOT operand becomes ( MAGIC operand ).
RECURSIVE NotGrouped(_)
NotGrouped(s) ==
  IF s = <<>> THEN <<>>
  ELSE IF s[1] # "NOT" THEN <<s[1]>> \o NotGrouped(Tail(s))
  ELSE LET e == OperandEnd(s)
       IN IF e = 0 THEN <<"(", "MAGIC">> \o Tail(s)
          ELSE <<"(", "MAGIC">> \o SubSeq(s, 2, e) \o <<")">>
                 \o NotGrouped(SubSeq(s, e + 1, Len(s)))

\* Runs until no NOT is left - the operand may hold some - then MAGIC is NOT.
FixNot2 ==
  IF \E i \in 1..Len(swline) : swline[i] = "NOT"
    THEN Rewrite("fixnot2", "fixnot2", NotGrouped(swline))
    ELSE Rewrite("fixnot2", "parseterm",
           [i \in 1..Len(swline) |-> IF swline[i] = "MAGIC" THEN "NOT" ELSE swline[i]])

----------------------------------------------------------------------------
(* The evaluation.                                                         *)

Plain(series) == [at |-> series, area |-> FALSE]

\* getfileinfo: the words looked up.
Matching(word) == IF word \in DOMAIN Wild THEN Wild[word] ELSE {word}

\* The files with one of them under the metaname; the results of several are
\* merged by file, and their positions sorted.
Lookup(word, meta) ==
  LET words == Matching(word)
      at(f) == SelectSeq([i \in 1..Len(Content[f][meta]) |-> i],
                         LAMBDA i : Content[f][meta][i] \in words)
  IN [f \in {g \in AllFiles : Range(Content[g][meta]) \cap words # {}} |-> Plain(<<at(f)>>)]

\* CopyPositions of both: the last series of the one goes on with the first
\* of the other.
Both(l, r) == Plain(Front(l.at) \o <<Last(l.at) \o Head(r.at)>> \o Tail(r.at))

AndLists(l, r) == [f \in DOMAIN l \cap DOMAIN r |-> Both(l[f], r[f])]
OrLists(l, r) ==
  [f \in DOMAIN l \cup DOMAIN r |->
    IF f \notin DOMAIN r THEN l[f] ELSE IF f \notin DOMAIN l THEN r[f] ELSE Both(l[f], r[f])]
AndNotLists(l, r) == [f \in DOMAIN l \ DOMAIN r |-> l[f]]
PhraseLists(l, r) ==
  LET follows(f) == Range(FlattenSeq(r[f].at))
      hits(f) == SelectSeq(FlattenSeq(l[f].at), LAMBDA p : p + 1 \in follows(f))
  IN [f \in {g \in DOMAIN l \cap DOMAIN r : hits(g) # <<>>} |->
        Plain(<<[i \in DOMAIN hits(f) |-> hits(f)[i] + 1]>>)]
NotList(l) == [f \in AllFiles \ DOMAIN l |-> Plain(<<<<>>>>)]

Within(p, q, d) == p - q \in -d..d

\* KeepPos: if terms were joined by near before, each has a position near q.
KeepPos(x, q, d) ==
  x.area => \A i \in DOMAIN x.at : \E p \in Range(x.at[i]) : Within(p, q, d)

\* The two loops of nearresultlists over the positions of one file.  Each
\* series of x has a hit, as its flag starts anew with each; the flag of y does
\* so only at zeros, so that with several series the first and the last
\* position of x decide, and every one in between.
NearFound(x, y, d) ==
  LET hit(p, k) == \E q \in Range(y.at[k]) : Within(p, q, d) /\ KeepPos(x, q, d)
      flat == FlattenSeq(x.at)
      n == Len(flat)
      m == Len(y.at)
  IN /\ \A i \in DOMAIN x.at : \E p \in Range(x.at[i]) : \E k \in 1..m : hit(p, k)
     /\ m > 1 => /\ hit(flat[1], 1) /\ hit(flat[n], m)
                 /\ \A i \in 2..n : hit(flat[i - 1], m) \/ hit(flat[i], 1)
                 /\ \A i \in 1..n, k \in 2..(m - 1) : hit(flat[i], k)

\* The positions kept: of each series of x those with a hit, once for each, in
\* a last one (ended anew for each position of x) those of y.
NearPositions(x, y, d) ==
  LET hits(p, s) == SelectSeq(s, LAMBDA q : Within(p, q, d) /\ KeepPos(x, q, d))
      left(s) == FlattenSeq([i \in DOMAIN s |->
                   [j \in DOMAIN hits(s[i], FlattenSeq(y.at)) |-> s[i]]])
      flat == FlattenSeq(x.at)
      right(p) == [k \in DOMAIN y.at |-> hits(p, y.at[k])]
  IN [at |-> [i \in DOMAIN x.at |-> left(x.at[i])]
               \o FoldLeft(LAMBDA s, p : Both(Plain(s), Plain(right(p))).at, <<<<>>>>, flat),
      area |-> TRUE]

NearLists(l, r, d) ==
  IF d = 0 THEN AndLists(l, r)
  ELSE [f \in {g \in DOMAIN l \cap DOMAIN r : NearFound(l[g], r[g], d)} |->
          NearPositions(l[f], r[f], d)]

Combine(rule, l, r) ==
  CASE rule = "AND"    -> AndLists(l, r)
    [] rule = "OR"     -> OrLists(l, r)
    [] rule = "PHRASE" -> PhraseLists(l, r)
    [] rule = "ANDNOT" -> AndNotLists(l, r)
    [] rule \in Nears  -> NearLists(l, r, Distance[rule])

Joins == {"AND", "OR", "PHRASE", "ANDNOT"} \cup Nears

\* parseterm, its loop as a recursion: the list so far is l, the rule that
\* joins the next term to it is rule ("none" stands for the default, AND).
\* The result is the list and the tokens not read.
RECURSIVE ParseTerm(_, _, _, _, _)
ParseTerm(s, parseone, meta, l, rule) ==
  IF s = <<>> THEN [list |-> l, rest |-> s]
  ELSE
  LET w    == s[1]
      join == IF rule = "none" THEN "AND" ELSE rule
  IN CASE w = "NOT" ->
            LET t == ParseTerm(Tail(s), TRUE, meta, NoResults, "OR")
            IN ParseTerm(t.rest, parseone, meta, NotList(t.list), "none")
       [] w \in Joins ->
            ParseTerm(Tail(s), parseone, meta, l, w)
       [] w = "(" ->
            LET t == ParseTerm(Tail(s), FALSE, meta, NoResults, "OR")
            IN ParseTerm(t.rest, parseone, meta, Combine(join, l, t.list), "none")
       [] w = ")" -> [list |-> l, rest |-> Tail(s)]
       [] w \notin Joins \cup {"NOT", "(", ")"} /\ EqualsNext(s, 1) ->
            LET group == Len(s) > 2 /\ s[3] = "("
                t == ParseTerm(SubSeq(s, IF group THEN 4 ELSE 3, Len(s)),
                               ~group, w, NoResults, "OR")
            IN ParseTerm(t.rest, ~group, Default, Combine(join, l, t.list), "none")
       [] OTHER ->
            LET new == Combine(join, l, Lookup(w, meta))
            IN IF parseone THEN [list |-> new, rest |-> Tail(s)]
               ELSE ParseTerm(Tail(s), parseone, meta, new, "none")

Search ==
  /\ pass = "parseterm"
  /\ resultlist' = ParseTerm(swline, FALSE, Default, NoResults, "OR").list
  /\ pass' = "done"
  /\ UNCHANGED <<query, swline, stopped, lasterror>>

----------------------------------------------------------------------------
QueryNext ==
  \/ Tokenize
  \/ IgnoreWords
  \/ EndIgnoreWords
  \/ ExpandPhrase
  \/ FixMetaNames
  \/ FixNot1
  \/ FixNot2
  \/ Search

QuerySpec == QueryInit /\ [][QueryNext]_queryVars

----------------------------------------------------------------------------
(* Properties.                                                             *)

Passes == {"tokenize", "ignore", "expandphrase", "fixmetanames", "fixnot1",
           "fixnot2", "parseterm", "done"}
\* The passes keep the types of what they work on; the tokens they add are
\* gone, or known to parseterm, when it starts.
QueryTypeOK ==
  /\ query.text \in Seq(STRING)
  /\ pass \in Passes
  /\ swline \in Seq(STRING)
  /\ stopped \in BOOLEAN
  /\ lasterror \in Errors
  /\ DOMAIN resultlist \subseteq AllFiles
  /\ pass = "parseterm" => /\ Delim \notin Range(swline)
                           /\ "MAGIC" \notin Range(swline)

\* A query that SWISH-SEARCH.pod gives a meaning finds the files it means:
\* after stop words, phrases, metanames and rules have been rewritten in their
\* separate passes, what parseterm evaluates is still the query, joined from
\* left to right, each NOT bound to the term after it.  Of words joined by
\* near it finds the files with all of them in one area, and only files where
\* each is near to some of those before it.
MeaningFound ==
  pass = "done" /\ query.least # Unknown =>
    /\ lasterror = "RC_OK"
    /\ query.least \subseteq DOMAIN resultlist
    /\ DOMAIN resultlist \subseteq query.most

\* Outside the phrases, no prefix of s closes more than it opened.
Nested(s) ==
  /\ ParenCount(s) = 0
  /\ \A n \in 1..Len(s) : ParenCount(SubSeq(s, 1, n)) >= 0

\* parseterm reads a query with nested parentheses to its end: no pass leaves
\* a ")" too many, at which the evaluation would stop and drop the terms
\* behind it without an error.
AllTermsRead ==
  pass = "parseterm" /\ Nested(query.text) =>
    ParseTerm(swline, FALSE, Default, NoResults, "OR").rest = <<>>

\* A query is read to its end, as what it means.
QueryUnderstood == MeaningFound /\ AllTermsRead

WordsOf(s) == {i \in 1..Len(s) : IsSearchWord(s, i)}

\* The error depends on the query and not on the order of the removals, their
\* restarts and the counters they leave: a parenthesis or delimiter without its
\* partner is a syntax error, a query of ignored words is too common, one
\* without a word has no words.  (A too short or too long word that is removed
\* last may make it either of the last two.)
ErrorsExact ==
  LET q == query.text
      open == InPhrase(q, Len(q) + 1) \/ ParenCount(q) # 0
      kept == {i \in WordsOf(q) : ~IsIgnored(q, i)}
  IN pass = "done" /\ lasterror # "UNKNOWN_METANAME" =>
       /\ (lasterror = "QUERY_SYNTAX_ERROR") = open
       /\ ~open => ((lasterror = "RC_OK") = (kept # {}))
       /\ lasterror = "WORDS_TOO_COMMON" => WordsOf(q) # {}
       /\ lasterror = "NO_WORDS_IN_SEARCH" => \A i \in WordsOf(q) : q[i] \in ShortWords \/ \E j \in WordsOf(q) : q[j] \in ShortWords

\* A query is answered by what it means, or by the error that is in it.
QueryAnswered == QueryUnderstood /\ ErrorsExact

=============================================================================
