------------------------------- MODULE Ranking -------------------------------
(***************************************************************************)
(* The rank of a result: what a word gives to a file by the two schemes    *)
(* (getrank, rank.c), what operators make of it while a query is evaluated *)
(* (parseterm, operate and the functions on result lists, search.c), and   *)
(* how it is scaled for display (sortresults, result_sort.c and            *)
(* getDocProperty, docprop.c).                                             *)
(*                                                                         *)
(* Which files an operator finds, and terms in parentheses, are module     *)
(* Query's; here a query is a chain of words.  Left out: the one sum of    *)
(* ranks a wildcard makes, and debugging output.                           *)
(***************************************************************************)
EXTENDS Integers, Sequences, FiniteSets

CONSTANTS
  RankWords,     \* the words of queries
  RankTexts,     \* indexes: [occurs, total, bias, ignoreTotal]
  Schemes,       \* values of -R: 0 or 1
  Ln(_), Log10(_), LnFine(_),   \* logarithms as the tables and log() give them
  FreqCap,       \* 100: occurrences counted by scheme 0
  Fine,          \* 1000: what scheme 1 multiplies its quotients by
  Coarse,        \* 100: what it divides a weight by, and scheme 0 a rank
  Hundredth,     \* 10000: what logarithms are multiplied by
  Width,         \* bits of an int
  MaxTerms       \* bound: words of a query

\* An index: occurs[w][f], the structures of the occurrences of a word in a
\* file; total[f], its words; bias, the rank bias of the metaname; and
\* IgnoreTotalWordCountWhenRanking.

VARIABLES
  index,      \* the index
  scheme,     \* sw->RankScheme
  terms,      \* a history of the query: [op, word]
  andLevel,   \* of parseterm
  ranks,      \* the result list: files and their ranks
  bigrank,    \* the largest rank of the results, once sorted
  shown       \* what is shown of them

rankVars == <<index, scheme, terms, andLevel, ranks, bigrank, shown>>

Unsorted == -1

\* The numbers of an int that are not below 0.
Numbers == 0..(2 ^ (Width - 1) - 1)

Operators == {"AND", "OR", "AND_NOT"}

Wrapped(x) ==
  LET half == 2 ^ (Width - 1)
  IN  ((x + half) % (2 * half)) - half

-----------------------------------------------------------------------------
(* The rank of a word in a file.                                           *)

\* build_struct_map: title, header, meta and comments.
Factor == [title |-> 7, header |-> 5, meta |-> 3, comments |-> 1, emphasized |-> 0]
FactorIn(bit, structure) == IF bit \in structure THEN Factor[bit] ELSE 0
StructureMap(structure) ==
  1 + FactorIn("title", structure) + FactorIn("header", structure)
    + FactorIn("meta", structure) + FactorIn("comments", structure)
    + FactorIn("emphasized", structure)

AtLeastOne(x) == IF x < 1 THEN 1 ELSE x

\* A sum of numbers, and one kept in an int.
TotalOf(numbers) ==
  LET sum[k \in 0..Len(numbers)] == IF k = 0 THEN 0 ELSE sum[k - 1] + numbers[k]
  IN  sum[Len(numbers)]
SumOf(numbers) ==
  LET sum[k \in 0..Len(numbers)] == IF k = 0 THEN 0 ELSE Wrapped(sum[k - 1] + numbers[k])
  IN  sum[Len(numbers)]

\* What the occurrences of a word give, the first so many of them.
Scores(places, count) == [k \in 1..count |-> StructureMap(places[k]) + index.bias]

\* What long files lose in scheme 0.
Reduction(words) ==
  IF words <= 10 THEN Hundredth ELSE IF words >= 100000 THEN 5 * Hundredth ELSE Log10(words)

\* getrankDEF.
RankDefault(w, f) ==
  LET all == index.occurs[w][f]
      counted == IF Len(all) > FreqCap THEN FreqCap ELSE Len(all)
      rank == Ln(AtLeastOne(1 + SumOf(Scores(all, counted))))
  IN  IF index.ignoreTotal THEN rank \div Coarse
      ELSE (rank * Coarse) \div Reduction(index.total[f])

TotalFiles == Len(index.total)
TotalWords == TotalOf(index.total)
FilesOf(w) == {f \in DOMAIN index.total : index.occurs[w][f] # <<>>}

\* getrankIDF: idf, density, word_weight, and what is made of them.
Rarity(w) == AtLeastOne(LnFine(TotalFiles \div Cardinality(FilesOf(w))))
Density(w, f) ==
  AtLeastOne((((TotalWords \div TotalFiles) * Fine) \div AtLeastOne(index.total[f]))
               * Len(index.occurs[w][f]))
WordWeight(w, f) == Wrapped(Density(w, f) * Rarity(w)) \div Coarse
Weighted(w, f) ==
  LET scores == Scores(index.occurs[w][f], Len(index.occurs[w][f]))
  IN  [k \in DOMAIN scores |-> WordWeight(w, f) * scores[k]]
RankIDF(w, f) == Ln(AtLeastOne(Wrapped(1 + SumOf(Weighted(w, f)))))

GetRank(w, f) == IF scheme = 1 THEN RankIDF(w, f) ELSE RankDefault(w, f)
GetFileInfo(w) == [f \in FilesOf(w) |-> GetRank(w, f)]

-----------------------------------------------------------------------------
(* Result lists.                                                           *)

AndResultLists(r1, r2, level) ==
  [f \in DOMAIN r1 \cap DOMAIN r2 |-> (r1[f] * level + r2[f]) \div (level + 1)]

OrResultLists(r1, r2) ==
  [f \in DOMAIN r1 \cup DOMAIN r2 |->
     IF f \notin DOMAIN r2 THEN r1[f] ELSE IF f \notin DOMAIN r1 THEN r2[f] ELSE r1[f] + r2[f]]

AndNotResultLists(r1, r2) == [f \in DOMAIN r1 \ DOMAIN r2 |-> r1[f]]

\* Slip: the average is always of two.
SecondLevel(op, level) == IF op = "AND" THEN 1 ELSE 0

\* parseterm: the terms ANDed before this one.
NextLevel(op, level) == IF op = "AND" THEN level + 1 ELSE 0

Operate(op, r1, r2, level) ==
  CASE op = "AND" -> AndResultLists(r1, r2, level)
    [] op = "OR" -> OrResultLists(r1, r2)
    [] op = "AND_NOT" -> AndNotResultLists(r1, r2)

-----------------------------------------------------------------------------

RankInit ==
  /\ index \in RankTexts
  /\ scheme \in {s \in Schemes : s = 1 => ~index.ignoreTotal}
  /\ terms = <<>>
  /\ andLevel = 0
  /\ ranks = <<>>
  /\ bigrank = Unsorted
  /\ shown = <<>>

\* One turn of parseterm.
ParseTermOf(op, w) ==
  /\ bigrank = Unsorted /\ Len(terms) < MaxTerms
  /\ terms = <<>> => op = "OR"
  /\ andLevel' = NextLevel(op, andLevel)
  /\ ranks' = Operate(op, ranks, GetFileInfo(w), andLevel')
  /\ terms' = Append(terms, [op |-> op, word |-> w])
  /\ UNCHANGED <<index, scheme, bigrank, shown>>

\* sortresults, and the property as getDocProperty gives it.
Scale(big) == IF big = 0 THEN Hundredth ELSE (Fine * Hundredth) \div big
Displayed(rank, scale) ==
  IF scale = 0 THEN rank
  ELSE LET k == (rank * scale) \div Hundredth
       IN  IF k >= Fine - 1 THEN Fine ELSE AtLeastOne(k)

SortAndShow ==
  /\ bigrank = Unsorted /\ terms # <<>>
  /\ \E big \in {r \in {0} \cup {ranks[f] : f \in DOMAIN ranks} :
                   \A f \in DOMAIN ranks : ranks[f] <= r} :
       /\ bigrank' = big
       /\ shown' = [f \in DOMAIN ranks |-> Displayed(ranks[f], Scale(big))]
  /\ UNCHANGED <<index, scheme, terms, andLevel, ranks>>

RankNext ==
  \/ \E op \in Operators, w \in RankWords : ParseTermOf(op, w)
  \/ SortAndShow

RankSpec == RankInit /\ [][RankNext]_rankVars

-----------------------------------------------------------------------------
(* What the numbers are.                                                   *)

ASSUME RankNumbers ==
  /\ MaxTerms \in Nat \ {0} /\ FreqCap \in Nat /\ Fine \in Nat \ {0, 1}
  /\ Coarse \in Nat \ {0} /\ Hundredth \in Nat \ {0} /\ 2 ^ (Width - 1) \in Nat \ {0}
  /\ \A x \in RankTexts :
       /\ x.total \in Seq(Numbers) /\ Len(x.total) \in Numbers /\ x.bias \in Int
       /\ \A w \in RankWords, f \in DOMAIN x.total :
            x.occurs[w][f] \in Seq(SUBSET DOMAIN Factor)

\* The logarithms are whole numbers, and those of words in a file above 10
\* and what Ln gives do not fall.
LogarithmsRise ==
  /\ \A x, y \in Numbers \ {0} : x <= y => Ln(x) \in Nat /\ Ln(x) <= Ln(y)
  /\ \A x \in Numbers : x > 10 => Log10(x) \in Nat \ {0}
  /\ \A x \in Numbers : LnFine(x) \in Int

\* Nothing that getrank adds and multiplies is more than an int holds, and the
\* ranks of so many words, added, leave a factor to scale them with.
NumbersFit ==
  LET most == StructureMap(DOMAIN Factor) + (IF index.bias < 0 THEN -index.bias ELSE index.bias)
  IN  \A w \in RankWords : \A f \in FilesOf(w) :
        /\ scheme # 1 => 1 + FreqCap * most \in Numbers
        /\ scheme = 1 => /\ (TotalWords \div TotalFiles) * Fine \in Numbers
                         /\ Density(w, f) * Rarity(w) \in Numbers
                         /\ 1 + Len(index.occurs[w][f]) * (WordWeight(w, f) * most) \in Numbers
        /\ MaxTerms * GetRank(w, f) <= Fine * Hundredth

-----------------------------------------------------------------------------
(* What is promised.                                                       *)

AllAsked == \A k \in 2..Len(terms) : terms[k].op = "AND"

\* Of words that are all asked for, the rank is the average of the ranks, but
\* for what the divisions drop, in whatever order they are asked for.
AveragesTerms ==
  AllAsked =>
    \A f \in DOMAIN ranks :
      LET each == [k \in DOMAIN terms |-> GetRank(terms[k].word, f)]
          off == TotalOf(each) - Len(terms) * ranks[f]
      IN  off \in 0..((Len(terms) * (Len(terms) - 1)) \div 2)

\* Of two files as long as each other, in which a word is found as often, the
\* one with it in better places is not ranked lower; by the first scheme
\* neither is one that has it in more, unless those count against it.
BetterPlaces ==
  terms = <<>> => \A w \in RankWords : \A f, g \in FilesOf(w) :
    LET p == index.occurs[w][f]
        q == index.occurs[w][g]
    IN  (/\ index.total[f] = index.total[g]
         /\ Len(p) = Len(q) \/ (scheme = 0 /\ index.bias >= 0 /\ Len(p) <= Len(q))
         /\ \A k \in DOMAIN p : p[k] \subseteq q[k])
        => GetRank(w, f) <= GetRank(w, g)

\* What is shown is from 1 to 1000, in the order of the ranks.
ShownInOrder ==
  bigrank # Unsorted =>
    \A f, g \in DOMAIN ranks :
      /\ shown[f] \in 1..Fine
      /\ ranks[f] <= ranks[g] => shown[f] <= shown[g]

RanksFair == AveragesTerms /\ BetterPlaces /\ ShownInOrder

\* What holds after every step, for the proof: a rank is not above what so
\* many words give; and of words that are all asked for, every file has all,
\* and the level is the number of words before the last.
RankInv ==
  /\ index \in RankTexts /\ NumbersFit
  /\ terms \in Seq([op : Operators, word : RankWords]) /\ Len(terms) <= MaxTerms
  /\ andLevel \in Nat
  /\ terms = <<>> => ranks = <<>>
  /\ \A f \in DOMAIN ranks :
       ranks[f] \in Nat /\ MaxTerms * ranks[f] <= Len(terms) * (Fine * Hundredth)
  /\ AllAsked =>
       /\ terms # <<>> => andLevel = Len(terms) - 1
       /\ \A f \in DOMAIN ranks : \A k \in DOMAIN terms : f \in FilesOf(terms[k].word)
  /\ AveragesTerms
  /\ ShownInOrder
=============================================================================
