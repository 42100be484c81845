-------------------------------- MODULE Words --------------------------------
(***************************************************************************)
(* What a word is: indexstring (index.c) cuts a text into words and gives  *)
(* them positions, tokenize_query_string (swish_words.c) cuts a query into *)
(* tokens and those into words, each with a next_swish_word of its own.  A *)
(* behaviour indexes one text and then asks for it.  One action is one     *)
(* word between white space, one token of the query, or one token's words. *)
(*                                                                         *)
(* A character is a string of one.  Left out: structure and metanames of a *)
(* text, the metaname before an equals sign (module Query has it), and the *)
(* algorithms of the stemmers, which are a table of the settings.          *)
(***************************************************************************)
EXTENDS Integers, Sequences, SequencesExt, FiniteSets, FiniteSetsExt

CONSTANTS
  Settings,   \* the headers tried: [word, begin, end, first, last, bump,
              \* number |-> characters, translate |-> function of characters,
              \* buzz, use, stop |-> words, min, max |-> length,
              \* codes |-> words and their codes, economic |-> BOOLEAN]
  Texts,      \* the texts tried, sequences of characters
  Lower,      \* the capitals, and the letters they become
  RowLimit,   \* IGNOREROWV, IGNOREROWC and IGNOREROWN
  SameLimit,  \* IGNORESAME
  Vowels, Digits, Puncts,   \* isvowel, isdigit and ispunct
  RuleWords   \* the boolean words of the language

\* What next_token takes for operators, outside a phrase and inside of one.
Quote   == "\""
Escape  == "\\"
Blanks  == {" ", "\n"}
Operators(inphrase) ==
  {"*", "?", Quote} \cup IF inphrase THEN {} ELSE {"(", ")", "="}

VARIABLES
  set,        \* the header
  text,       \* what is indexed
  buf,        \* what is left of the text, later of the query
  wordPos,    \* *position
  found,      \* the words entered: [word, at]
  stemCache,  \* hashstemcache: words with one code, and the code
  form,       \* how the text is asked for: "plain", "words" or "phrase"
  tokens,     \* the list of tokens of next_token
  asked,      \* the words and operators they became
  wordStage   \* "index", "tokens", "words", "done", or the error

wordVars == <<set, text, buf, wordPos, found, stemCache, form, tokens, asked, wordStage>>

Lowered(w) == [i \in DOMAIN w |-> IF w[i] \in DOMAIN Lower THEN Lower[w[i]] ELSE w[i]]
Translated(w) ==
  [i \in DOMAIN w |-> IF w[i] \in DOMAIN set.translate THEN set.translate[w[i]] ELSE w[i]]

\* The number of members of S that w begins, or ends, with.
Leading(w, S) == Max({n \in 0..Len(w) : \A i \in 1..n : w[i] \in S})
Trailing(w, S) == Leading(Reverse(w), S)
From(w, i) == SubSeq(w, i, Len(w))

\* A character removed takes the backslash that escapes it with it.
RECURSIVE StrippedLast(_), StrippedFirst(_)
StrippedLast(w) ==
  IF w = <<>> \/ Last(w) \notin set.last THEN w
  ELSE StrippedLast(IF Trailing(Front(w), {Escape}) % 2 = 1 THEN Front(Front(w)) ELSE Front(w))
StrippedFirst(w) ==
  LET k == IF w # <<>> /\ w[1] = Escape THEN 2 ELSE 1
  IN IF k > Len(w) \/ w[k] \notin set.first THEN w ELSE StrippedFirst(From(w, k + 1))
Stripped(w) == StrippedFirst(StrippedLast(w))

----------------------------------------------------------------------------
(* Indexing.                                                               *)

\* More than n characters of S in a row, punctuation not looked at.
InARow(w, S, n) ==
  \E i, j \in DOMAIN w :
     /\ \A k \in i..j : w[k] \in S \cup Puncts
     /\ Cardinality({k \in i..j : w[k] \in S}) > n
Consonants(w) == ToSet(w) \ (Vowels \cup Digits \cup Puncts)

IsOkWord(w) ==
  /\ w # <<>> /\ w \notin set.stop
  /\ Len(w) \in set.min..set.max
  /\ \A i, j \in DOMAIN w : j - i > SameLimit => \E k \in i..j : w[k] # w[i]
  /\ \A S \in {Vowels, Digits, Consonants(w)} : ~InARow(w, S, RowLimit)

Begins(w) == w # <<>> /\ w[1] \in set.begin
Ends(w) == Last(w) \in set.end
AllNumber(w) == set.number # {} /\ ToSet(w) \subseteq set.number

\* addword, for each code of a word; the cache, if there is one, has those of
\* words with one code.
Codes(w) == IF w \in DOMAIN set.codes THEN set.codes[w] ELSE <<w>>
CodesOrCache(w) == IF w \in DOMAIN stemCache THEN <<stemCache[w]>> ELSE Codes(w)
At(words, p) == [i \in DOMAIN words |-> [word |-> words[i], at |-> p]]

\* The swish words of w: what next_swish_word cuts off, is entered if nothing
\* is against it, and counts the position.
RECURSIVE Entered(_, _)
Entered(w, p) ==
  LET skip  == Leading(w, {c \in ToSet(w) : c \notin set.word})
      run   == Leading(From(w, skip + 1), set.word)
      word  == Stripped(SubSeq(w, skip + 1, skip + run))
      q     == IF \E i \in 1..(skip + run) : w[i] \in set.bump THEN p + 1 ELSE p
      taken == ~AllNumber(word) /\ Begins(word) /\ Ends(word) /\ IsOkWord(word)
      rest  == Entered(From(w, skip + run + 1), IF taken THEN q + 1 ELSE q)
  IN IF run = 0 THEN [words |-> <<>>, of |-> {}, next |-> q]
     ELSE IF ~taken THEN rest
     ELSE [words |-> At(CodesOrCache(word), q) \o rest.words,
           of |-> rest.of \cup {word}, next |-> rest.next]

\* A slip: the first code of a word with two is cached as well.
CachedFirst(words) ==
  IF set.economic THEN stemCache
  ELSE [w \in DOMAIN stemCache \cup words |-> Codes(w)[1]]

Cached(words) ==
  IF set.economic THEN stemCache
  ELSE [w \in DOMAIN stemCache \cup {v \in words : Len(Codes(v)) = 1} |-> Codes(w)[1]]

\* With UseWords nothing but the words listed, with Buzzwords these as they are.
IndexWord ==
  /\ wordStage = "index" /\ ~(ToSet(buf) \subseteq Blanks)
  /\ LET start == Leading(buf, Blanks)
         word  == Lowered(SubSeq(buf, start + 1,
                    start + Leading(From(buf, start + 1), ToSet(buf) \ Blanks)))
         bare  == IF set.buzz = {} THEN word ELSE Stripped(word)
         whole == IF set.use = {} THEN bare ELSE word
     IN /\ buf' = From(buf, start + Len(word) + 1)
        /\ \/ /\ whole \in IF set.use = {} THEN set.buzz ELSE set.use
              /\ found' = Append(found, [word |-> whole, at |-> wordPos])
              /\ wordPos' = wordPos + 1
              /\ UNCHANGED stemCache
           \/ /\ set.use # {} /\ whole \notin set.use
              /\ UNCHANGED <<found, wordPos, stemCache>>
           \/ /\ set.use = {} /\ whole \notin set.buzz
              /\ \E e \in {Entered(Translated(bare), wordPos)} :
                   /\ found' = found \o e.words
                   /\ wordPos' = e.next
                   /\ stemCache' = IF DOMAIN set.codes = {} THEN stemCache ELSE Cached(e.of)
  /\ UNCHANGED <<set, text, form, tokens, asked, wordStage>>

----------------------------------------------------------------------------
(* Searching.                                                              *)

\* The text as a query: with a backslash before each operator, in quotes.
Escaped(t) ==
  FlattenSeq([i \in DOMAIN t |->
    IF t[i] \in Operators(FALSE) \cup {Escape} THEN <<Escape, t[i]>> ELSE <<t[i]>>])
QueryOf(t, f) ==
  CASE f = "plain"  -> t
    [] f = "words"  -> Escaped(t)
    [] f = "phrase" -> <<Quote>> \o Escaped(t) \o <<Quote>>

EndText ==
  /\ wordStage = "index" /\ ToSet(buf) \subseteq Blanks
  /\ buf' = QueryOf(text, form)
  /\ wordStage' = "tokens"
  /\ UNCHANGED <<set, text, wordPos, found, stemCache, form, tokens, asked>>

\* One token from b: [word, left], or [error].
RECURSIVE Token(_, _, _)
Token(b, word, inphrase) ==
  IF b = <<>> \/ b[1] \in Blanks THEN [word |-> word, left |-> b]
  ELSE IF b[1] = Escape
    THEN IF Len(b) = 1 \/ b[2] \in Blanks THEN [word |-> word, left |-> Tail(b)]
         ELSE Token(From(b, 3), Append(word, b[2]), inphrase)
  ELSE IF b[1] \notin Operators(inphrase) THEN Token(Tail(b), Append(word, b[1]), inphrase)
  ELSE IF b[1] = "?"
    THEN IF word = <<>> THEN [error |-> "WILDCARD_NOT_ALLOWED_AT_WORD_START"]
         ELSE Token(Tail(b), Append(word, "?"), inphrase)
  ELSE IF word # <<>> THEN [word |-> word, left |-> b]
  ELSE IF b[1] = "*" /\ Len(b) > 1 /\ ~inphrase /\ b[2] \notin Blanks \cup Operators(FALSE)
    THEN [error |-> "WILDCARD_NOT_ALLOWED_WITHIN_WORD"]
  ELSE [word |-> <<b[1]>>, left |-> Tail(b)]

\* A star on its own is an error; a space before it says so.
NextTokenOf(b, inphrase) ==
  LET start == Leading(b, Blanks)
  IN IF start > 0 /\ start < Len(b) /\ b[start + 1] = "*"
       THEN [error |-> "UNIQUE_WILDCARD_NOT_ALLOWED_IN_WORD"]
       ELSE Token(From(b, start + 1), <<>>, inphrase)

Quoted(list) == Cardinality({i \in DOMAIN list : list[i] = <<Quote>>}) % 2 = 1

NextToken ==
  /\ wordStage = "tokens"
  /\ \E t \in {NextTokenOf(buf, Quoted(tokens))} :
       IF "error" \in DOMAIN t THEN wordStage' = t.error /\ UNCHANGED <<buf, tokens>>
       ELSE IF t.word = <<>>
         THEN wordStage' = (IF tokens = <<>> THEN "done" ELSE "words") /\ UNCHANGED <<buf, tokens>>
       ELSE tokens' = Append(tokens, t.word) /\ buf' = t.left /\ UNCHANGED wordStage
  /\ UNCHANGED <<set, text, wordPos, found, stemCache, form, asked>>

\* The words of a token, with a question mark as a character of words; a word
\* of which nothing is left ends the token.
RECURSIVE Split(_)
Split(w) ==
  LET chars == set.word \cup {"?"}
      skip  == Leading(w, ToSet(w) \ chars)
      run   == Leading(From(w, skip + 1), chars)
      word  == Stripped(SubSeq(w, skip + 1, skip + run))
      rest  == Split(From(w, skip + run + 1))
  IN IF run = 0 \/ word = <<>> THEN <<>>
     ELSE IF Begins(word) /\ Last(word) \in set.end \cup {"?"} THEN <<word>> \o rest
     ELSE rest

\* A word with two codes becomes a group of both.
Queried(word) ==
  LET codes == Codes(word)
  IN IF Len(codes) = 2 THEN <<<<"(">>, codes[1], <<"OR">>, codes[2], <<")">>>>
     ELSE <<codes[1]>>

IsOperator(token, inphrase) ==
  \/ Len(token) = 1 /\ token[1] \in Operators(inphrase)
  \/ ~inphrase /\ Lowered(token) \in RuleWords

\* checkbuzzword, and parse_swish_words if it is none.
Looked(token) ==
  LET bare == IF set.buzz = {} THEN token ELSE Stripped(token)
  IN IF bare \in set.buzz THEN [buzz |-> <<bare>>, words |-> <<>>]
     ELSE [buzz |-> <<>>, words |-> Split(Translated(bare))]

\* The first token left: an operator or a boolean word stays what it is.
TokenWords ==
  /\ wordStage = "words" /\ tokens # <<>>
  /\ \E t \in {Looked(Lowered(Head(tokens)))} :
       \/ /\ IsOperator(Head(tokens), Quoted(asked))
          /\ asked' = Append(asked, Lowered(Head(tokens)))
          /\ UNCHANGED wordStage
       \/ /\ ~IsOperator(Head(tokens), Quoted(asked))
          /\ \E i \in DOMAIN t.words : Len(t.words[i]) > set.max
          /\ wordStage' = "SEARCH_WORD_TOO_BIG"
          /\ UNCHANGED asked
       \/ /\ ~IsOperator(Head(tokens), Quoted(asked))
          /\ \A i \in DOMAIN t.words : Len(t.words[i]) <= set.max
          /\ asked' = asked \o t.buzz \o FlattenSeq([i \in DOMAIN t.words |-> Queried(t.words[i])])
          /\ UNCHANGED wordStage
  /\ tokens' = Tail(tokens)
  /\ UNCHANGED <<set, text, buf, wordPos, found, stemCache, form>>

\* fudge_wildcard: a star becomes part of the word before it.
RECURSIVE Glued(_)
Glued(list) ==
  IF Len(list) < 2 THEN list
  ELSE IF list[2] = <<"*">> THEN <<Append(list[1], "*")>> \o Glued(From(list, 3))
  ELSE <<list[1]>> \o Glued(Tail(list))

EndTokens ==
  /\ wordStage = "words" /\ tokens = <<>>
  /\ asked' = Glued(asked)
  /\ wordStage' = "done"
  /\ UNCHANGED <<set, text, buf, wordPos, found, stemCache, form, tokens>>

----------------------------------------------------------------------------
WordsInit ==
  /\ set \in Settings
  /\ text \in Texts
  /\ form \in {"plain", "words", "phrase"}
  /\ buf = text
  /\ wordPos = 1
  /\ found = <<>> /\ tokens = <<>> /\ asked = <<>>
  /\ stemCache = [w \in {} |-> <<>>]
  /\ wordStage = "index"

WordsNext == IndexWord \/ EndText \/ NextToken \/ TokenWords \/ EndTokens

WordsSpec == WordsInit /\ [][WordsNext]_wordVars

----------------------------------------------------------------------------
(* What the documentation says a word is.                                  *)

\* The ranges of w that lie in S and are as long as can be, in order.
Ranges(w, S) ==
  LET all == {r \in (1..Len(w)) \X (1..Len(w)) :
                /\ r[1] <= r[2] /\ \A i \in r[1]..r[2] : w[i] \in S
                /\ r[1] = 1 \/ w[r[1] - 1] \notin S
                /\ r[2] = Len(w) \/ w[r[2] + 1] \notin S}
  IN [k \in 1..Cardinality(all) |->
        CHOOSE r \in all : Cardinality({q \in all : q[1] < r[1]}) = k - 1]

\* What is not to be ignored of a range.
Bare(w, r) ==
  LET to   == Max({i \in r[1]..r[2] : w[i] \notin set.last} \cup {r[1] - 1})
      from == Min({i \in r[1]..to : w[i] \notin set.first} \cup {to + 1})
  IN <<from, to>>

Pieces == Ranges(text, ToSet(text) \ Blanks)
Piece(r) == SubSeq(Lowered(text), r[1], r[2])
IsWhole(r) ==
  IF set.use # {} THEN Piece(r) \in set.use
  ELSE set.buzz # {} /\ Piece(Bare(Lowered(text), r)) \in set.buzz

\* The words of a piece: itself, or its ranges of word characters.
WordsOf(r) ==
  LET chars == Translated(Lowered(text))
      runs  == SelectSeq(Ranges(chars, set.word), LAMBDA q : r[1] <= q[1] /\ q[2] <= r[2])
  IN IF IsWhole(r)
       THEN LET b == IF set.use # {} THEN r ELSE Bare(Lowered(text), r)
            IN <<[whole |-> TRUE, from |-> b[1], to |-> b[2], word |-> Piece(b)]>>
     ELSE IF set.use # {} THEN <<>>
     ELSE SelectSeq([k \in DOMAIN runs |->
                       [whole |-> FALSE, from |-> Bare(chars, runs[k])[1], to |-> Bare(chars, runs[k])[2],
                        word |-> SubSeq(chars, Bare(chars, runs[k])[1], Bare(chars, runs[k])[2])]],
                    LAMBDA m : Begins(m.word) /\ Ends(m.word))
Meant == FlattenSeq([k \in DOMAIN Pieces |-> WordsOf(Pieces[k])])

\* A text that is its own query: without wildcards, operators and boolean
\* words of its own.
IsPlain ==
  /\ form # "plain" /\ ToSet(text) \cap {"*", "?"} = {}
  /\ \A k \in DOMAIN Pieces : ~IsOperator(Piece(Pieces[k]), form = "phrase")

\* A piece with word characters all of which are ignored, but not its last.
IsCut ==
  \E k \in DOMAIN Pieces :
     LET r    == Pieces[k]
         runs == SelectSeq(Ranges(Translated(Lowered(text)), set.word),
                           LAMBDA q : r[1] <= q[1] /\ q[2] <= r[2])
     IN ~IsWhole(r) /\ \E i \in 1..(Len(runs) - 1) : Bare(Translated(Lowered(text)), runs[i])[1] > Bare(Translated(Lowered(text)), runs[i])[2]

\* The words of a text are entered, with their codes, in order, at positions
\* that follow each other if and only if no bump character is in between: the
\* whole way through white space, buzzwords, translation, word characters,
\* ignored ends and the cache of stems.
WordsEntered ==
  wordStage = "tokens" =>
    \E meant \in {SelectSeq(Meant, LAMBDA m :
                    m.whole \/ (IsOkWord(m.word) /\ ~AllNumber(m.word)))} :
      LET codes == [k \in DOMAIN meant |->
                      IF meant[k].whole THEN <<meant[k].word>> ELSE Codes(meant[k].word)]
          owner == FlattenSeq([k \in DOMAIN meant |-> [i \in DOMAIN codes[k] |-> k]])
      IN /\ [i \in DOMAIN found |-> found[i].word] = FlattenSeq(codes)
         /\ \A i \in 1..(Len(found) - 1) :
              LET gap  == found[i + 1].at - found[i].at
                  bump == \E j \in meant[owner[i]].to..meant[owner[i + 1]].from : text[j] \in set.bump
              IN IF owner[i] = owner[i + 1] THEN gap = 0
                 ELSE IF bump THEN gap > 1 ELSE gap = 1

\* Asking for a text by itself asks for its words: quoted or not, with a
\* backslash before what would be an operator.
WordsAsked ==
  (wordStage \notin {"index", "tokens", "words"} /\ IsPlain /\ set.use = {}) =>
    \E meant \in {Meant} :
      LET query == FlattenSeq([k \in DOMAIN meant |->
                     IF meant[k].whole THEN <<meant[k].word>> ELSE Queried(meant[k].word)])
      IN IF \E k \in DOMAIN meant : ~meant[k].whole /\ Len(meant[k].word) > set.max
           THEN wordStage = "SEARCH_WORD_TOO_BIG"
         ELSE wordStage = "done"
              /\ asked = IF form = "phrase" THEN <<<<Quote>>>> \o query \o <<<<Quote>>>> ELSE query

\* The same, but for texts with a word of which nothing is left.
WordsAgree == WordsEntered /\ (WordsAsked \/ IsCut)
=============================================================================
