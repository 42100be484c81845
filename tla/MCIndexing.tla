----------------------------- MODULE MCIndexing -----------------------------
(* What indexing and merging do before an index is written, each part by   *)
(* itself: a behaviour is one of a source of documents, of a document      *)
(* being parsed, of the table of words, of the data of a word through      *)
(* three sessions, or of a merge.                                          *)
EXTENDS Sources, WordTable, Parser, Postings, Merge, TLC

-----------------------------------------------------------------------------
(* Sources: a web of seven pages on two equivalent servers, three          *)
(* directories with two files and up to two more entries, programs that    *)
(* print up to two documents.                                              *)

(* Pages 2 and 3 are the same one on two servers.  "all" begins every uri. *)
MCPages == 1..7
MCServer == <<"A", "A", "B", "A", "A", "A", "A">>
MCUri == <<1, 2, 2, 4, 5, 6, 7>>
MCEquivalent == {{"A", "B"}}
MCBelow == [v \in {"all", "some"} |-> IF v = "all" THEN {1, 2, 4, 5, 6, 7} ELSE {4}]

(* Every web of the first five in which a page has up to two links, not to *)
(* page 1; and one in which page 6 is met at two depths.                   *)
Page(kind, S) == [kind |-> kind, links |-> SetToSortSeq(S, <)]
HtmlPages == {Page("html", S) : S \in {T \in SUBSET (2..5) : Cardinality(T) <= 2}}
AnyPage == HtmlPages \cup {Page("moved", {p}) : p \in 2..5} \cup {Page("text", {})}
Gone == Page("gone", {})
Webs == {<<a, b, b, d, Gone, Gone, Gone>> : a \in HtmlPages, b \in AnyPage, d \in AnyPage}
DeepWeb == <<Page("html", {2, 4}), Page("html", {5}), Page("html", {5}), Page("html", {6}),
             Page("html", {6}), Page("html", {7}), Page("text", {})>>
FullWeb == [p \in MCPages |-> Page("html", {2, 4, 5})]

(* Every robots.txt of so many lines.                                      *)
FileLines ==
  [field : {"agent"}, value : {"swishspider", "*", "other"}]
    \cup [field : {"disallow"}, value : {"all", "some", ""}]
Files(n) == UNION {[1..m -> FileLines] : m \in 0..n}
Everywhere(file) == [server \in {"A", "B"} |-> file]

MCInputs ==
  [web : {DeepWeb}, robots : {Everywhere(<<>>)}, starts : {<<1>>}, maxdepth : 0..4]
    \cup
  [web : Webs, robots : {Everywhere(<<>>)}, starts : {<<1>>}, maxdepth : {0, 3}]
    \cup [web : {FullWeb}, robots : {Everywhere(f) : f \in Files(3)},
          starts : {<<1, 4>>}, maxdepth : {0}]
    \cup [web : {FullWeb}, robots : {Everywhere(f) : f \in Files(4)},
          starts : {<<>>}, maxdepth : {0}]

(* Directory 1 has directory 2 and file 4; 2 has directory 3 and file 5.   *)
(* Names 6 and 7 are hard links to the files or symbolic ones to anything. *)
MCInodes == 1..5
Entry(n, node, link) == [name |-> n, node |-> node, link |-> link]
Plain(d) == CASE d = 1 -> {Entry(2, 2, FALSE), Entry(4, 4, FALSE)}
              [] d = 2 -> {Entry(3, 3, FALSE), Entry(5, 5, FALSE)}
              [] d = 3 -> {}
Links6 == {[dir |-> d, e |-> Entry(6, i, l)] : d \in 1..3, i \in 1..5, l \in {TRUE}}
Links7 == {[dir |-> d, e |-> Entry(7, i, i < 4)] : d \in 1..3, i \in 1..5}
Entries(X) ==
  [d \in 1..3 |-> Plain(d) \cup {x.e : x \in {y \in X : y.dir = d}}]
LinkedEntries == {Entries({x, y}) : x \in Links6, y \in Links7}

(* One set of trees with rules about names, one about contents.            *)
MCTrees ==
  [dirs : {1..3}, entries : LinkedEntries, follow : BOOLEAN,
   dirRules : {{}, {3, 6}}, fileRules : {{4}}, fileMatch : {{}, {4, 7}},
   suffixes : {1..7, {4, 5}}, containsRules : {{}}, containsMatch : {{}}]
    \cup
  [dirs : {1..3}, entries : LinkedEntries, follow : {TRUE},
   dirRules : {{}}, fileRules : {{5}}, fileMatch : {{}},
   suffixes : {{4}}, containsRules : {{4}, {6}}, containsMatch : {{}, {5}, {7}}]

(* A plain document, and those that differ from it in up to two respects.  *)
PlainDocument ==
  [hasLength |-> TRUE, size |-> 1, mtime |-> 1, noContents |-> FALSE,
   type |-> NoType, mode |-> "run", filter |-> FALSE]
Kinds == [hasLength : BOOLEAN, size : 0..2, mtime : 0..1,
          noContents : BOOLEAN, type : {NoType, "HTML2", "XML2", "TXT"},
          mode : {"run", "Remove"}, filter : BOOLEAN]
Differs(d) ==
  Cardinality({f \in DOMAIN PlainDocument : d[f] # PlainDocument[f]})

UpToTwo == {d \in Kinds : Differs(d) <= 2}

-----------------------------------------------------------------------------
(* The table of words.                                                     *)

CONSTANTS a, b, c

ThreeWords == {a, b, c}

(* All words in one chain.                                                 *)
OneChain == (a :> 0) @@ (b :> 0) @@ (c :> 0)
TwoMetas == {1, 2}

-----------------------------------------------------------------------------
(* The documents of the parser: the settings, and the tags that occur.     *)

With(settings, tags) == {[s EXCEPT !.tags = tags] : s \in settings}
S(html, without, undefined, tags) ==
  [html |-> html, noContents |-> without, undefined |-> undefined, tags |-> tags]
AllSettings ==
  {S(TRUE, FALSE, "index", {"m", "r", "x", "b", "title"}),
   S(TRUE, FALSE, "index", {"m", "b", "head", "title"}),
   S(TRUE, FALSE, "ignore", {"m", "r", "u"}),
   S(TRUE, TRUE, "index", {"m", "head", "title"}),
   S(FALSE, FALSE, "index", {"m", "r", "x"}),
   S(FALSE, FALSE, "ignore", {"m", "r", "u"})}

-----------------------------------------------------------------------------
(* Five texts of a word, and the positions that IgnoreLimit takes out.     *)

P(pos, str) == [pos |-> pos, str |-> str]
MCTexts == <<
  [m \in WordMetas |-> <<>>],
  [m \in WordMetas |-> IF m = 1 THEN <<P(2, 1)>> ELSE <<>>],
  [m \in WordMetas |-> IF m = 1 THEN <<P(3, 9), P(20, 9)>> ELSE <<P(130, 1)>>],
  [m \in WordMetas |-> IF m = 1 THEN <<>> ELSE <<P(1, 1), P(5, 7), P(6, 1), P(200, 1)>>],
  [m \in WordMetas |-> IF m = 1 THEN [i \in 1..16 |-> P(3 * i, 73)] ELSE <<P(2, 7), P(4, 7)>>] >>
MCTakenOut == <<
  [m \in WordMetas |-> {1}],
  [m \in WordMetas |-> {1, 3}],
  [m \in WordMetas |-> {1, 2, 4, 5}],
  [m \in WordMetas |-> IF m = 1 THEN {} ELSE {3, 4}],
  [m \in WordMetas |-> IF m = 1 THEN {1, 2, 4} ELSE {3}] >>

-----------------------------------------------------------------------------
(* Merges: metaname 1 is from the configuration, title an alias for it;    *)
(* the others came up in the documents.                                    *)

Meta(name) == [name |-> name, kind |-> "meta", alias |-> 0]
MetaOrders == <<
  <<Meta("swishtitle"), [name |-> "title", kind |-> "meta", alias |-> 1], Meta("a"), Meta("b")>>,
  <<Meta("swishtitle"), [name |-> "title", kind |-> "meta", alias |-> 1], Meta("b"), Meta("c"), Meta("a")>>,
  <<Meta("swishtitle"), [name |-> "title", kind |-> "meta", alias |-> 1], Meta("c")>> >>

(* A file of path and date in index i: every index has words of its own.   *)
AFile(i, p, date) ==
  [path |-> p, mtime |-> date,
   words |-> {[word |-> "x", meta |-> 1], [word |-> "x", meta |-> 3],
              [word |-> IF date = 1 THEN "y" ELSE "z", meta |-> Len(MetaOrders[i])]},
   props |-> {[prop |-> 3, value |-> date]}]

UpToFiles(i, max) ==
  {f \in UNION {[1..n -> {AFile(i, p, date) : p \in 1..3, date \in 1..2}] : n \in 1..max} :
     \A n, k \in DOMAIN f : n # k => f[n].path # f[k].path}

AnIndex(i, f) == [header |-> "h", metas |-> MetaOrders[i], files |-> f]

(* Another header, a metaname of another kind, an alias for another name.  *)
Refused ==
  LET f == <<AFile(1, 1, 1)>>
  IN  {<<AnIndex(1, f), [AnIndex(1, f) EXCEPT !.header = "other"]>>,
       <<AnIndex(1, f), [AnIndex(1, f) EXCEPT !.metas[1].kind = "other"]>>,
       <<AnIndex(1, f), [AnIndex(1, f) EXCEPT !.metas =
           <<Meta("a"), [name |-> "title", kind |-> "meta", alias |-> 1],
             Meta("swishtitle"), Meta("b")>>]>>}

MCMergeInputs ==
  {<<AnIndex(1, f), AnIndex(2, g), AnIndex(3, h)>> :
     f \in UpToFiles(1, 2), g \in UpToFiles(2, 2), h \in UpToFiles(3, 1)} \cup Refused

-----------------------------------------------------------------------------
VARIABLE part   \* "sources", "parser", "table", "postings" or "merge"

(* The parts not looked at: a program that printed nothing, any document,  *)
(* any merge.                                                              *)
SourcesUnused ==
  /\ method = "prog" /\ FsUnused /\ SpiderUnused
  /\ printed = <<>> /\ pipe = <<>> /\ prog = "closed"
  /\ path = 0 /\ fsize = Missing /\ mtime = 0
  /\ noContents = FALSE /\ docType = NoType /\ updateMode = "run"
  /\ taken = <<>>
AMerge == <<AnIndex(1, <<AFile(1, 1, 1)>>), AnIndex(2, <<AFile(2, 1, 2)>>)>>
ADocument == CHOOSE s \in Settings : TRUE
MergeUnused == inputs = AMerge /\ MergeBegins
ParserUnused == set = ADocument /\ ParserInit
TableUnused == swap_locdata = FALSE /\ TableInit
PostingsUnused == economic = FALSE /\ PostingsInit

IndexingInit ==
  \/ /\ part = "sources" /\ SourcesInit
     /\ ParserUnused /\ TableUnused /\ PostingsUnused /\ MergeUnused
  \/ /\ part = "parser" /\ ParserInit
     /\ SourcesUnused /\ TableUnused /\ PostingsUnused /\ MergeUnused
  \/ /\ part = "table" /\ TableInit
     /\ SourcesUnused /\ ParserUnused /\ PostingsUnused /\ MergeUnused
  \/ /\ part = "postings" /\ PostingsInit
     /\ SourcesUnused /\ ParserUnused /\ TableUnused /\ MergeUnused
  \/ /\ part = "merge" /\ MergeInit
     /\ SourcesUnused /\ ParserUnused /\ TableUnused /\ PostingsUnused

IndexingNext ==
  \/ /\ part = "sources" /\ SourcesNext
     /\ UNCHANGED <<part, parserVars, tableVars, postingVars, mergeVars>>
  \/ /\ part = "parser" /\ ParserNext
     /\ UNCHANGED <<part, sourcesVars, tableVars, postingVars, mergeVars>>
  \/ /\ part = "table" /\ TableNext
     /\ UNCHANGED <<part, sourcesVars, parserVars, postingVars, mergeVars>>
  \/ /\ part = "postings" /\ PostingsNext
     /\ UNCHANGED <<part, sourcesVars, parserVars, tableVars, mergeVars>>
  \/ /\ part = "merge" /\ MergeNext
     /\ UNCHANGED <<part, sourcesVars, parserVars, tableVars, postingVars>>

IndexingSpec ==
  /\ IndexingInit
  /\ [][IndexingNext]_<<part, sourcesVars, parserVars, tableVars, postingVars, mergeVars>>
  /\ WF_sourcesVars(IndexPath)
=============================================================================
