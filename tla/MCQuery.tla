------------------------------ MODULE MCQuery ------------------------------
(* Query on fifteen files that tell two words, their phrase and one other  *)
(* metaname apart, and five that tell distances apart, for all short token *)
(* lists and for well-formed queries.                                      *)
EXTENDS Query

MCMetaNames  == {"swishdefault", "m"}
MCStopWords  == {"s"}
MCShortWords == {"x"}
MCDistance   == [t \in {"near0", "near1", "near2", "nearby"} |->
                  IF t = "near1" THEN 1 ELSE IF t = "near2" THEN 2 ELSE 0]
MCWild       == [t \in {"a*"} |-> {"a", "aa"}]
\* A word of two codes, and one of two words, as parse_swish_words writes them.
MCConverted  == [t \in {"k", "a-b"} |->
                  IF t = "k" THEN <<"(", "a", "OR", "c", ")">> ELSE <<"a", "b">>]

\* A file: the words of the default metaname, and those of m.
Texts  == <<<<>>, <<"a">>, <<"b">>, <<"a", "b">>, <<"b", "a">>>>
InM    == <<<<>>, <<"a">>, <<"b", "a">>>>
\* The first has a hit of a near1 b near1 c though no three words in a row
\* are all of them; the second a c far from what the other is near to.
Apart  == <<<<"b", "a", "c", "b", "a">>, <<"c", "nearby", "c", "s", "s", "aa", "b", "c">>, <<"a", "c", "b">>,
            <<"aa", "s", "b">>, <<"b", "c", "a", "b">>>>
MCContent ==
  [f \in 1..20 |-> [meta \in MCMetaNames |->
    IF meta = "m" THEN InM[(f % 3) + 1]
    ELSE IF f > 15 THEN Apart[f - 15] ELSE Texts[(f % 5) + 1]]]

----------------------------------------------------------------------------
\* A query together with what it means: the files, for each metaname that may
\* be in force.  Built from parts, so that no second parser is needed.
Doc(f, meta) == MCContent[f][meta]
ByMeta(F(_)) == [swishdefault |-> F("swishdefault"), m |-> F("m")]
Meaning(Holds(_, _)) ==
  ByMeta(LAMBDA meta : {f \in DOMAIN MCContent : Holds(f, meta)})

At(t, f, meta) ==
  LET words == IF t = "a*" THEN {"a", "aa"} ELSE IF t = "k" THEN {"a", "c"} ELSE {t}
  IN {i \in DOMAIN Doc(f, meta) : Doc(f, meta)[i] \in words}
Word(w) == [text |-> <<w>>, means |-> Meaning(LAMBDA f, meta : At(w, f, meta) # {})]
Phrase(t, v, w) ==
  [text |-> t,
   means |-> Meaning(LAMBDA f, meta :
     \E i \in DOMAIN Doc(f, meta) \ {1} : Doc(f, meta)[i - 1] = v /\ Doc(f, meta)[i] = w)]
Group(e) == [e EXCEPT !.text = <<"(">> \o e.text \o <<")">>]
InMeta(e) == [text |-> <<"m", "=">> \o e.text, means |-> ByMeta(LAMBDA meta : e.means["m"])]
Not(e) == [text |-> <<"NOT">> \o e.text,
           means |-> ByMeta(LAMBDA meta : DOMAIN MCContent \ e.means[meta])]
Join(op, l, r) ==
  [text |-> l.text \o op \o r.text,
   means |-> ByMeta(LAMBDA meta :
     IF op = <<"OR">> THEN l.means[meta] \cup r.means[meta]
     ELSE IF op \in {<<"NOT">>, <<"AND", "NOT">>} THEN l.means[meta] \ r.means[meta]
     ELSE l.means[meta] \cap r.means[meta])]
StopAfter(e) == [e EXCEPT !.text = @ \o <<"s">>]

Ops == {<<>>, <<"AND">>, <<"OR">>, <<"NOT">>, <<"AND", "NOT">>}

\* S itself; that it is counted makes TLC sort it, and unions with it quick.
Sorted(S) == IF Cardinality(S) = 0 THEN {} ELSE S

Simple  == {Word("a"), Word("b"), Phrase(<<"\"", "a", "b", "\"">>, "a", "b"),
            Phrase(<<"\"", "s", "b", "s", "a", "\"">>, "b", "a")}
Pairs   == {Join(op, l, r) : op \in Ops, l \in Simple, r \in Simple}
Groups  == {Group(e) : e \in Pairs \cup {Not(t) : t \in Simple} \cup {StopAfter(t) : t \in Simple}}
Valued  == {InMeta(t) : t \in Simple \cup Groups}
Terms   == Simple \cup Groups \cup Valued
Triples ==
  Sorted({Join(op, l, r) : op \in Ops, l \in Terms, r \in Simple})
    \cup {Join(op, l, r) : op \in Ops, l \in Simple \cup {Not(Word("a"))}, r \in Terms}
    \cup {Join(op, StopAfter(l), r) : op \in Ops, l \in Pairs, r \in {Word("a")}}
\* A NOT before a group that ends the query, or the group it stands in.
Negated == {Not(g) : g \in Groups} \cup {Join(<<"OR">>, Word("b"), Group(Not(g))) : g \in Groups}

Exactly(e) == [text |-> e.text, least |-> e.means["swishdefault"], most |-> e.means["swishdefault"]]

\* Two words, and three, joined by near; n is the number behind it.
CloseTo(p, q, n) == n = 0 \/ p - q \in -n..n
Near(t, n, v, w) ==
  [text |-> <<v, t, w>>,
   means |-> Meaning(LAMBDA f, meta :
     \E p \in At(v, f, meta), q \in At(w, f, meta) : CloseTo(p, q, n))]
NearPairs ==
  {Near(t, MCDistance[t], v, w) :
     t \in {"near0", "near1", "near2"}, v \in {"a", "b", "a*", "k"}, w \in {"b", "c", "a*"}}
NearTerms ==
  NearPairs
    \cup {Join(op, e, Word(w)) : op \in Ops, e \in NearPairs, w \in {"a", "c"}}
    \cup {Join(op, t, Group(e)) : op \in Ops, t \in {Word("c"), Not(Word("a"))}, e \in NearPairs}
    \cup {Not(Group(e)) : e \in NearPairs} \cup {InMeta(Group(e)) : e \in NearPairs}

\* Of three the files are found that have them in one area; those found have
\* a pair of the first two, and of each of them with the third.
NearChain(n, t, l, u, v, w) ==
  LET three == Meaning(LAMBDA f, meta :
        \E p \in At(u, f, meta), q \in At(v, f, meta), r \in At(w, f, meta) :
          CloseTo(p, q, n) /\ CloseTo(p, r, n) /\ CloseTo(q, r, n))
      pairs == Meaning(LAMBDA f, meta :
        \E p \in At(u, f, meta), q \in At(v, f, meta), r \in At(w, f, meta) :
          /\ \E i \in At(v, f, meta) : CloseTo(p, i, n)
          /\ \E i \in At(u, f, meta) : CloseTo(q, i, n)
          /\ CloseTo(p, r, n) /\ CloseTo(q, r, n))
  IN [text |-> l[1] \o <<u, t, v>> \o l[2] \o <<t, w>>,
      least |-> three["swishdefault"], most |-> pairs["swishdefault"]]
NearChains ==
  {NearChain(MCDistance[t], t, l, u, v, w) :
     t \in {"near1", "near2"}, l \in {<<<<>>, <<>>>>, <<<<"(">>, <<")">>>>},
     u \in {"a", "b", "c", "k"}, v \in {"a*", "b"}, w \in {"a", "b", "c"}}

WellFormed ==
  {Exactly(e) : e \in Sorted(Triples) \cup Terms \cup Negated \cup NearTerms
                         \cup {Word("k"), Not(Word("k")), InMeta(Word("k"))}}
    \cup {[Exactly(Join(<<>>, Word("a"), Word("b"))) EXCEPT !.text = <<"a-b">>]}
    \cup NearChains

\* No operator inside a phrase: next_token makes none.  No "=" at the start or
\* after a phrase: what it would make a metaname of, nothing checks.
Lists == {t \in BoundedSeq({"a", "s", "x", "m", "u", "AND", "OR", "NOT", "(", ")", "=", "\""}, 4) :
            \A i \in 1..Len(t) :
              /\ t[i] = "=" => i > 1 /\ t[i - 1] # "\""
              /\ InPhrase(t, i) => t[i] \in {"a", "s", "x", "m", "u", "\""}}
NearLists4 == BoundedSeq({"a", "c", "near1", "near2", "AND", "NOT", "(", ")"}, 4)
MCQueries ==
  Sorted(WellFormed)
    \cup {[text |-> t, least |-> Unknown, most |-> {}] :
            t \in Sorted(Lists) \cup NearLists4 \cup {<<"\"", "k", "b", "\"">>, <<"NOT", "a-b">>}}

\* A NOT before a group, a phrase or a metaname, with another term behind it.
NotGroupFirst ==
  {Exactly(Join(op, Not(t), Word("b"))) : op \in Ops, t \in Terms \ {Word("a"), Word("b")}}
=============================================================================
