---------------------------- MODULE MCSearching -----------------------------
(* What is read from indexes, each part over its own inputs: a behaviour   *)
(* is one of the files of an index that is opened while it is replaced, of *)
(* results read from two indexes, whose keys tie with and between each     *)
(* other, of a search object with limits, of tables of properties and      *)
(* searches sorted with them, of the ranks a query gives, or of the passes  *)
(* over a query and its evaluation.                                        *)
EXTENDS IndexFiles, Results, PropertyLimits, Sorting, Ranking, MCQuery

CONSTANT r1
OneReader == {r1}

VARIABLE part   \* "files", "results", "limits", "sorting", "ranking" or "query"

MCKey == <<<<1, 1, 2>>, <<2, 1, 2>>>>

MCLimits ==
  [prop : {"p"}, lo : 0..3, hi : 1..3]
    \cup {[prop |-> "q", lo |-> 2, hi |-> 0], [prop |-> "q", lo |-> 1, hi |-> 2],
          [prop |-> "unknown", lo |-> 1, hi |-> 1]}

(* Indexes of up to three documents with all values, and larger ones whose *)
(* documents are in order already.                                         *)
Ascending(s) == \A i \in 1..(Len(s) - 1) : s[i] <= s[i + 1]
Values ==
  UNION {[1..k -> 0..3] : k \in 1..3}
    \cup {s \in [1..4 -> 0..3] \cup [1..5 -> 0..3] : Ascending(s)}
OneIndex(s, t, b) ==
  [value |-> [p \in Properties |-> IF p = "p" THEN s ELSE t],
   presorted |-> [p \in Properties |-> b]]
Twos(s) == [i \in DOMAIN s |-> 2]
Few == {<<1>>, <<3, 0>>, <<2, 2>>}
MCLists ==
  {<<OneIndex(s, s, TRUE)>> : s \in Values}
    \cup {<<OneIndex(s, Twos(s), b), OneIndex(u, u, TRUE)>> :
            s \in Few, u \in Few, b \in BOOLEAN}

MCSortProps == <<[name |-> "filenum", kind |-> "internal", len |-> 0],
                 [name |-> "title", kind |-> "nocase", len |-> 2],
                 [name |-> "size", kind |-> "number", len |-> 2]>>
SortDoc(t, s) == [title |-> t, size |-> s]
Titles == {<<>>, <<1>>, <<11, 2, 3>>, <<1, 2>>}
Sizes == {<<>>, <<0, 1>>, <<1, 0>>}
SortDocs == {SortDoc(t, s) : t \in Titles, s \in Sizes}
AllFound(docs) == [f \in DOMAIN docs |-> [file |-> f, rank |-> IF f = 1 THEN 1 ELSE 2]]
SortKey(p, d) == [prop |-> p, direction |-> d]
SortOrders == {<<SortKey("title", 1), SortKey("size", -1)>>, <<SortKey("rank", 1), SortKey("title", -1)>>,
           <<SortKey("size", -1), SortKey("filenum", 1)>>}
(* Two indexes searched twice, of two documents and of one.                *)
SmallInputs ==
  {[indexes |-> <<a, b>>, presorted |-> p,
    searches |-> [k \in 1..2 |-> [keys |-> IF k = 1 THEN q ELSE r, found |-> <<AllFound(a), AllFound(b)>>]]] :
     a \in [1..2 -> SortDocs], b \in {<<SortDoc(<<11, 2>>, <<0, 2>>)>>}, p \in SUBSET {"title", "size"},
     q \in SortOrders, r \in {<<SortKey("title", 1), SortKey("size", -1)>>, <<SortKey("size", 1), SortKey("title", -1)>>}}
(* One index of more documents, for the pivots of the sort.                *)
Numbered(s) == [f \in DOMAIN s |-> SortDoc(<<>>, <<0, s[f]>>)]
LongInputs ==
  {[indexes |-> <<Numbered(s)>>, presorted |-> p,
    searches |-> <<[keys |-> <<SortKey("size", d)>>, found |-> <<AllFound(Numbered(s))>>]>>] :
      s \in [1..6 -> 0..2] \cup [1..8 -> 1..2], p \in {{}, {"size"}}, d \in {1, -1}}
MCSortInputs == SmallInputs \cup LongInputs

(* Logarithms, exact for the powers of two and straight between them.      *)
Power(x) == CHOOSE k \in 0..28 : 2 ^ k <= x /\ x < 2 ^ (k + 1)
LogBetween(x, unit) ==
  LET p == Power(x)
      fraction == IF p > 10 THEN (x - 2 ^ p) \div 2 ^ (p - 10) ELSE (x - 2 ^ p) * 2 ^ (10 - p)
  IN  unit * p + (unit * fraction) \div 1024
MCLn(x) == LogBetween(x, 6931)
MCLog10(x) == LogBetween(x, 3010)
MCLnFine(x) == IF x = 0 THEN 0 ELSE MCLn(x) \div 10
Occurrences == {<<>>, <<{"title"}>>, <<{}, {"header"}>>, <<{}, {}, {}, {}>>}
MCRankTexts ==
  {[occurs |-> [w \in {"u", "v"} |-> IF w = "u" THEN u ELSE v],
    total |-> t, bias |-> b, ignoreTotal |-> i] :
   u \in [1..3 -> Occurrences], v \in {<<<<{}>>, <<{}, {}>>, <<{"title"}>>>>},
   t \in {<<8, 8, 20>>, <<30, 2000, 2000>>}, b \in {-2, 3}, i \in BOOLEAN}

AList == CHOOSE l \in LimitLists : TRUE
AnInput == CHOOSE x \in SortInputs : TRUE
AText == CHOOSE x \in RankTexts : TRUE
QueryUnused ==
  /\ query = [text |-> <<>>, least |-> Unknown, most |-> {}] /\ swline = <<>>
  /\ pass = "done" /\ stopped = FALSE /\ lasterror = "NO_WORDS_IN_SEARCH"
  /\ resultlist = NoResults
SearchingInit ==
  /\ part \in {"files", "results", "limits", "sorting", "ranking", "query"}
  /\ Init
  /\ (part = "results" \/ n = 1) /\ ResultsInit
  /\ (part = "limits" \/ indexes = AList) /\ LimInit
  /\ (part = "sorting" \/ input = AnInput) /\ SortInit
  /\ (part = "ranking" \/ (index = AText /\ scheme = 0)) /\ RankInit
  /\ IF part = "query" THEN QueryInit ELSE QueryUnused

SearchingNext ==
  \/ part = "files" /\ Next
     /\ UNCHANGED <<part, resultsVars, limVars, sortVars, rankVars, queryVars>>
  \/ part = "results" /\ ResultsNext
     /\ UNCHANGED <<part, vars, limVars, sortVars, rankVars, queryVars>>
  \/ part = "limits" /\ LimNext
     /\ UNCHANGED <<part, vars, resultsVars, sortVars, rankVars, queryVars>>
  \/ part = "sorting" /\ SortNext
     /\ UNCHANGED <<part, vars, resultsVars, limVars, rankVars, queryVars>>
  \/ part = "ranking" /\ RankNext
     /\ UNCHANGED <<part, vars, resultsVars, limVars, sortVars, queryVars>>
  \/ part = "query" /\ QueryNext
     /\ UNCHANGED <<part, vars, resultsVars, limVars, sortVars, rankVars>>

SearchingSpec ==
  /\ SearchingInit
  /\ [][SearchingNext]_<<part, vars, resultsVars, limVars, sortVars, rankVars, queryVars>>
  /\ Fairness
=============================================================================
