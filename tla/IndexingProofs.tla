--------------------------- MODULE IndexingProofs ---------------------------
(***************************************************************************)
(* Proofs about WordTable, for any words, hash function, meta names,       *)
(* limits and number of documents; and about Merge, for any words and      *)
(* indexes.                                                                *)
(***************************************************************************)
EXTENDS WordTable, Merge, InductionLemmas

(* The words of a chain.                                                   *)
WordsOf(c) == {c[i] : i \in 1..Len(c)}

(* No word is linked twice.                                                *)
Distinct(c) == \A i, j \in 1..Len(c) : c[i] = c[j] => i = j

(* What a further entry at the end makes of a chain.                       *)
LEMMA AppendWords ==
  ASSUME NEW c \in Seq(Words), NEW w \in Words, Distinct(c), w \notin WordsOf(c)
  PROVE  /\ Append(c, w) \in Seq(Words)
         /\ WordsOf(Append(c, w)) = WordsOf(c) \cup {w}
         /\ Distinct(Append(c, w))
<1> DEFINE d == Append(c, w)
           n == Len(c)
<1>1. /\ d \in Seq(Words) /\ n \in Nat /\ Len(d) = n + 1 /\ d[n + 1] = w
      /\ \A i \in 1..n : d[i] = c[i]
  OBVIOUS
<1>2. 1..(n + 1) = 1..n \cup {n + 1} /\ n + 1 \notin 1..n
  BY <1>1
<1> HIDE DEF d, n
<1>3. \A i \in 1..n : c[i] \in WordsOf(c)
  BY DEF WordsOf, n
<1>4. WordsOf(d) = WordsOf(c) \cup {w}
  BY <1>1, <1>2 DEF WordsOf, n
<1>5. Distinct(d)
  BY <1>1, <1>2, <1>3 DEF Distinct, n
<1> QED
  BY <1>1, <1>4, <1>5 DEF d

(* And one at its head, where getentry puts it.                            *)
LEMMA PrependWords ==
  ASSUME NEW c \in Seq(Words), NEW w \in Words, Distinct(c), w \notin WordsOf(c)
  PROVE  /\ <<w>> \o c \in Seq(Words) /\ Len(<<w>> \o c) = Len(c) + 1
         /\ (<<w>> \o c)[1] = w
         /\ \A i \in 1..Len(c) : (<<w>> \o c)[i + 1] = c[i]
         /\ WordsOf(<<w>> \o c) = WordsOf(c) \cup {w}
         /\ Distinct(<<w>> \o c)
<1> DEFINE d == <<w>> \o c
           n == Len(c)
<1>1. /\ d \in Seq(Words) /\ n \in Nat /\ Len(d) = n + 1 /\ d[1] = w
      /\ \A i \in 1..n : d[i + 1] = c[i]
  OBVIOUS
<1>2. \A i \in 1..(n + 1) : i = 1 \/ (i - 1 \in 1..n /\ d[i] = c[i - 1])
  BY <1>1
<1> HIDE DEF d, n
<1>3. \A i \in 1..n : c[i] \in WordsOf(c)
  BY DEF WordsOf, n
<1>4. WordsOf(d) = WordsOf(c) \cup {w}
  <2>1. ASSUME NEW i \in 1..(n + 1) PROVE d[i] \in WordsOf(c) \cup {w}
    BY <1>1, <1>2, <1>3
  <2>2. w \in WordsOf(d)
    BY <1>1 DEF WordsOf
  <2>3. ASSUME NEW i \in 1..n PROVE c[i] \in WordsOf(d)
    <3>1. i + 1 \in 1..Len(d) /\ d[i + 1] = c[i]
      BY <1>1
    <3> QED
      BY <3>1 DEF WordsOf
  <2> QED
    BY <1>1, <2>1, <2>2, <2>3 DEF WordsOf, n
<1>5. Distinct(d)
  <2> SUFFICES ASSUME NEW i \in 1..(n + 1), NEW j \in 1..(n + 1), d[i] = d[j]
               PROVE  i = j
    BY <1>1 DEF Distinct
  <2>1. CASE i = 1 \/ j = 1
    BY <1>1, <1>2, <1>3, <2>1
  <2>2. CASE i # 1 /\ j # 1
    <3>1. i - 1 \in 1..n /\ j - 1 \in 1..n /\ c[i - 1] = c[j - 1]
      BY <1>2, <2>2
    <3>2. i - 1 = j - 1
      BY <3>1 DEF Distinct, n
    <3> QED
      BY <1>1, <3>1, <3>2
  <2> QED
    BY <2>1, <2>2
<1> QED
  BY <1>1, <1>4, <1>5 DEF d, n

-----------------------------------------------------------------------------
(***************************************************************************)
(* Unlinking the words that IgnoreLimit takes out.                         *)
(***************************************************************************)
(* The words that are left.                                                *)
LEMMA UnlistedWords ==
  ASSUME NEW c \in Seq(Words), NEW W, Distinct(c)
  PROVE  /\ Unlisted(c, W) \in Seq(Words)
         /\ WordsOf(Unlisted(c, W)) = WordsOf(c) \ W
         /\ Distinct(Unlisted(c, W))
<1> DEFINE Turn(s, w) == IF w \in W THEN s ELSE Append(s, w)
           rest[i \in 0..Len(c)] ==
             IF i = 0 THEN <<>>
             ELSE IF c[i] \in W THEN rest[i - 1] ELSE Append(rest[i - 1], c[i])
           next == [i \in 1..Len(c) |-> [s \in Seq(Words) |-> Turn(s, c[i])]]
           N == Len(c)
<1>1. Unlisted(c, W) = rest[N]
  BY DEF Unlisted
<1>2. N \in Nat /\ <<>> \in Seq(Words) /\ \A i \in 1..N : c[i] \in Words
  OBVIOUS
<1>3. next \in [1..N -> [Seq(Words) -> Seq(Words)]]
  BY <1>2
<1>4. PICK g : FoldOf(g, N, Seq(Words), <<>>, next)
  <2> HIDE DEF next
  <2> QED
    BY <1>2, <1>3, FoldExists
<1>5. \A i \in 1..N :
        g[i] = IF c[i] \in W THEN g[i - 1] ELSE Append(g[i - 1], c[i])
  <2> SUFFICES ASSUME NEW i \in 1..N
               PROVE  g[i] = Turn(g[i - 1], c[i])
    OBVIOUS
  <2>1. i - 1 \in 0..N /\ g[i - 1] \in Seq(Words)
    <3> HIDE DEF rest, next, N
    <3> QED
      BY <1>2, <1>4 DEF FoldOf
  <2>2. next[i][g[i - 1]] = Turn(g[i - 1], c[i])
    BY <2>1
  <2> QED
    BY <1>4, <2>2 DEF FoldOf
<1>6. g = [i \in 0..N |->
             IF i = 0 THEN <<>>
             ELSE IF c[i] \in W THEN g[i - 1] ELSE Append(g[i - 1], c[i])]
  <2> DEFINE h == [i \in 0..N |->
             IF i = 0 THEN <<>>
             ELSE IF c[i] \in W THEN g[i - 1] ELSE Append(g[i - 1], c[i])]
  <2>1. \A i \in 0..N : i = 0 \/ i \in 1..N
    BY <1>2
  <2>2. \A i \in 0..N : g[i] = h[i]
    BY <1>4, <1>5, <2>1 DEF FoldOf
  <2> HIDE DEF next, rest
  <2> QED
    BY <1>4, <2>2 DEF FoldOf
<1>7. rest = [i \in 0..N |->
             IF i = 0 THEN <<>>
             ELSE IF c[i] \in W THEN rest[i - 1] ELSE Append(rest[i - 1], c[i])]
  BY <1>6
<1>8. /\ rest[0] = <<>>
      /\ \A i \in 1..N :
           rest[i] = IF c[i] \in W THEN rest[i - 1] ELSE Append(rest[i - 1], c[i])
  <2> HIDE DEF rest
  <2>1. \A i \in 0..N :
          rest[i] = IF i = 0 THEN <<>>
                    ELSE IF c[i] \in W THEN rest[i - 1] ELSE Append(rest[i - 1], c[i])
    BY Zenon, <1>7
  <2>2. 0 \in 0..N /\ \A i \in 1..N : i \in 0..N /\ i # 0
    BY <1>2
  <2> HIDE DEF N
  <2> QED
    BY <2>1, <2>2
<1> HIDE DEF rest, next, N, Turn
<1> DEFINE Good(n) == /\ rest[n] \in Seq(Words) /\ Distinct(rest[n])
                      /\ WordsOf(rest[n]) = {c[i] : i \in 1..n} \ W
           S == {n \in 0..N : Good(n)}
<1>9. 0 \in S
  <2>1. Good(0)
    BY <1>8 DEF Distinct, WordsOf
  <2> HIDE DEF Good
  <2> QED
    BY <1>2, <2>1
<1>10. ASSUME NEW n \in 0..(N - 1), n \in S PROVE n + 1 \in S
  <2>1. n + 1 \in 1..N /\ (n + 1) - 1 = n /\ n + 1 \in 0..N
    BY <1>2
  <2>2. /\ {c[i] : i \in 1..(n + 1)} = {c[i] : i \in 1..n} \cup {c[n + 1]}
        /\ c[n + 1] \notin {c[i] : i \in 1..n}
    <3>1. 1..(n + 1) = 1..n \cup {n + 1} /\ n + 1 \notin 1..n /\ 1..n \subseteq 1..N
      BY <1>2
    <3> QED
      BY <2>1, <3>1 DEF Distinct, N
  <2>3. CASE c[n + 1] \in W
    <3>1. rest[n + 1] = rest[n]
      BY <1>8, <2>1, <2>3
    <3>2. Good(n + 1)
      BY <1>10, <2>2, <2>3, <3>1
    <3> HIDE DEF Good
    <3> QED
      BY <2>1, <3>2
  <2>4. CASE c[n + 1] \notin W
    <3>1. rest[n + 1] = Append(rest[n], c[n + 1])
      BY <1>8, <2>1, <2>4
    <3>2. c[n + 1] \in Words /\ c[n + 1] \notin WordsOf(rest[n])
      BY <1>2, <1>10, <2>1, <2>2
    <3>3. Good(n + 1)
      BY <1>10, <2>2, <2>4, <3>1, <3>2, AppendWords
    <3> HIDE DEF Good
    <3> QED
      BY <2>1, <3>3
  <2> QED
    BY <2>3, <2>4
<1>11. Good(N)
  <2>1. \A n \in 0..N : n \in S
    <3> HIDE DEF S
    <3> QED
      BY <1>2, <1>9, <1>10, UpTo
  <2> HIDE DEF Good
  <2> QED
    BY <1>2, <2>1
<1> QED
  BY <1>1, <1>11 DEF WordsOf, N

-----------------------------------------------------------------------------
(***************************************************************************)
(* Taking an aborted document's words out of a chain.  An entry that loses *)
(* locations but stays does not become prev_ep, so that unlinking an entry *)
(* behind it would cut it off.  It never happens where the entries to      *)
(* unlink come before all others, as getentry leaves them.                 *)
(***************************************************************************)
WalkStates ==
  {s \in [out : Seq(Words), prev : Nat] : s.prev <= Len(s.out)}

(* prev_ep is always an entry linked so far.                               *)
LEMMA WalkTurnState ==
  ASSUME NEW s \in WalkStates, NEW w \in Words
  PROVE  WalkTurn(s, w) \in WalkStates
<1>1. /\ s.out \in Seq(Words) /\ s.prev \in Nat /\ s.prev <= Len(s.out)
      /\ Len(s.out) \in Nat
  BY DEF WalkStates
<1>2. Append(s.out, w) \in Seq(Words) /\ Len(Append(s.out, w)) = Len(s.out) + 1
  BY <1>1
<1>3. SubSeq(s.out, 1, s.prev) \in Seq(Words) /\ Len(SubSeq(s.out, 1, s.prev)) = s.prev
  BY <1>1
<1> QED
  BY <1>1, <1>2, <1>3 DEF WalkTurn, WalkStates

(* The walk along a chain, turn by turn.                                   *)
LEMMA WalkTurns ==
  ASSUME NEW c \in Seq(Words)
  PROVE  \E t : /\ Walk(c) = t[Len(c)].out
                /\ t[0] = [out |-> <<>>, prev |-> 0]
                /\ \A i \in 1..Len(c) : t[i] = WalkTurn(t[i - 1], c[i])
<1> DEFINE start == [out |-> <<>>, prev |-> 0]
           turn[i \in 0..Len(c)] ==
             IF i = 0 THEN [out |-> <<>>, prev |-> 0] ELSE WalkTurn(turn[i - 1], c[i])
           next == [i \in 1..Len(c) |-> [s \in WalkStates |-> WalkTurn(s, c[i])]]
           N == Len(c)
<1>1. Walk(c) = turn[N].out
  BY DEF Walk
<1>2. N \in Nat /\ start \in WalkStates /\ \A i \in 1..N : c[i] \in Words
  BY DEF WalkStates
<1>3. next \in [1..N -> [WalkStates -> WalkStates]]
  BY <1>2, WalkTurnState
<1>4. PICK g : FoldOf(g, N, WalkStates, start, next)
  <2> HIDE DEF next, start
  <2> QED
    BY <1>2, <1>3, FoldExists
<1>5. \A i \in 1..N : g[i] = WalkTurn(g[i - 1], c[i])
  <2> SUFFICES ASSUME NEW i \in 1..N
               PROVE  g[i] = WalkTurn(g[i - 1], c[i])
    OBVIOUS
  <2>1. i - 1 \in 0..N /\ g[i - 1] \in WalkStates
    <3> HIDE DEF turn, next, start, N
    <3> QED
      BY <1>2, <1>4 DEF FoldOf
  <2>2. next[i][g[i - 1]] = WalkTurn(g[i - 1], c[i])
    BY <2>1
  <2> QED
    BY <1>4, <2>2 DEF FoldOf
<1>6. g = [i \in 0..N |-> IF i = 0 THEN start ELSE WalkTurn(g[i - 1], c[i])]
  <2> DEFINE h == [i \in 0..N |-> IF i = 0 THEN start ELSE WalkTurn(g[i - 1], c[i])]
  <2> HIDE DEF next, turn, start
  <2>1. \A i \in 0..N : i = 0 \/ i \in 1..N
    BY <1>2
  <2>2. \A i \in 0..N : g[i] = h[i]
    BY <1>4, <1>5, <2>1 DEF FoldOf
  <2> QED
    BY <1>4, <2>2 DEF FoldOf
<1>7. turn = [i \in 0..N |-> IF i = 0 THEN start ELSE WalkTurn(turn[i - 1], c[i])]
  BY <1>6
<1>8. turn[0] = start /\ \A i \in 1..N : turn[i] = WalkTurn(turn[i - 1], c[i])
  <2> HIDE DEF turn, start
  <2>1. \A i \in 0..N :
          turn[i] = IF i = 0 THEN start ELSE WalkTurn(turn[i - 1], c[i])
    BY Zenon, <1>7
  <2>2. 0 \in 0..N /\ \A i \in 1..N : i \in 0..N /\ i # 0
    BY <1>2
  <2> HIDE DEF N
  <2> QED
    BY <2>1, <2>2
<1> HIDE DEF turn, next, N
<1> QED
  BY <1>1, <1>8 DEF N

(* The words that are left are those with other locations.                 *)
LEMMA WalkWords ==
  ASSUME NEW c \in Seq(Words), Distinct(c),
         \A i \in 1..Len(c) : Touched(c[i]) \/ ~NoOther(c[i]),
         \A i, j \in 1..Len(c) : i < j /\ NoOther(c[j]) => NoOther(c[i])
  PROVE  /\ Walk(c) \in Seq(Words)
         /\ WordsOf(Walk(c)) = {w \in WordsOf(c) : ~NoOther(w)}
         /\ Distinct(Walk(c))
<1> DEFINE start == [out |-> <<>>, prev |-> 0]
           N == Len(c)
<1>0. PICK turn : /\ Walk(c) = turn[N].out /\ turn[0] = start
                  /\ \A i \in 1..N : turn[i] = WalkTurn(turn[i - 1], c[i])
  BY WalkTurns
<1>1. Walk(c) = turn[N].out
  BY <1>0
<1>2. N \in Nat /\ start \in WalkStates /\ \A i \in 1..N : c[i] \in Words
  BY DEF WalkStates
<1>8. turn[0] = start /\ \A i \in 1..N : turn[i] = WalkTurn(turn[i - 1], c[i])
  BY <1>0
<1> HIDE DEF N
<1> DEFINE Kept(n) == {c[i] : i \in {i \in 1..n : ~NoOther(c[i])}}
           Good(n) == /\ turn[n] \in WalkStates /\ Distinct(turn[n].out)
                      /\ WordsOf(turn[n].out) = Kept(n)
                      /\ (\A i \in 1..n : NoOther(c[i])) =>
                            turn[n].out = <<>> /\ turn[n].prev = 0
           S == {n \in 0..N : Good(n)}
<1>9. 0 \in S
  <2>1. Good(0)
    BY <1>2, <1>8 DEF Distinct, WordsOf
  <2> HIDE DEF Good
  <2> QED
    BY <1>2, <2>1
<1>10. ASSUME NEW n \in 0..(N - 1), n \in S PROVE n + 1 \in S
  <2> DEFINE w == c[n + 1]
             s == turn[n]
  <2>1. n + 1 \in 1..N /\ (n + 1) - 1 = n /\ n + 1 \in 0..N
    BY <1>2
  <2>2. /\ 1..(n + 1) = 1..n \cup {n + 1} /\ n + 1 \notin 1..n /\ 1..n \subseteq 1..N
        /\ \A i \in 1..n : i < n + 1
    BY <1>2
  <2>3. w \in Words /\ w \notin Kept(n)
    BY <1>2, <2>1, <2>2 DEF Distinct, N
  <2>4. turn[n + 1] = WalkTurn(s, w)
    BY <1>8, <2>1
  <2>5. /\ s.out \in Seq(Words) /\ s.prev \in Nat /\ Distinct(s.out)
        /\ WordsOf(s.out) = Kept(n) /\ s \in WalkStates
        /\ (\A i \in 1..n : NoOther(c[i])) => s.out = <<>> /\ s.prev = 0
    BY <1>10 DEF WalkStates
  <2>6. turn[n + 1] \in WalkStates
    BY <2>3, <2>4, <2>5, WalkTurnState
  <2>7. CASE NoOther(w)
    <3>1. \A i \in 1..n : NoOther(c[i])
      BY <2>1, <2>2, <2>7 DEF N
    <3>2. s.out = <<>> /\ s.prev = 0 /\ Touched(w)
      BY <2>1, <2>5, <2>7, <3>1 DEF N
    <3>3. turn[n + 1].out = <<>> /\ turn[n + 1].prev = 0
      BY <2>4, <2>7, <3>2 DEF WalkTurn
    <3>4. Kept(n + 1) = {}
      BY <2>2, <2>7, <3>1
    <3>5. Good(n + 1)
      BY <2>6, <3>3, <3>4 DEF Distinct, WordsOf
    <3> HIDE DEF Good
    <3> QED
      BY <2>1, <3>5
  <2>8. CASE ~NoOther(w)
    <3>1. turn[n + 1].out = Append(s.out, w)
      BY <2>4, <2>8 DEF WalkTurn
    <3>2. Kept(n + 1) = Kept(n) \cup {w}
      BY <2>2, <2>8
    <3>3. WordsOf(Append(s.out, w)) = Kept(n) \cup {w} /\ Distinct(Append(s.out, w))
      <4> HIDE DEF w, s, Kept
      <4> QED
        BY <2>3, <2>5, AppendWords
    <3>4. ~(\A i \in 1..(n + 1) : NoOther(c[i]))
      BY <2>2, <2>8
    <3>5. Good(n + 1)
      <4> HIDE DEF Kept, w, s
      <4> QED
        BY <2>6, <3>1, <3>2, <3>3, <3>4
    <3> HIDE DEF Good
    <3> QED
      BY <2>1, <3>5
  <2> QED
    BY <2>7, <2>8
<1>11. Good(N)
  <2>1. \A n \in 0..N : n \in S
    <3> HIDE DEF S
    <3> QED
      BY <1>2, <1>9, <1>10, UpTo
  <2> HIDE DEF Good
  <2> QED
    BY <1>2, <2>1
<1>12. Kept(N) = {w \in WordsOf(c) : ~NoOther(w)}
  BY DEF WordsOf, N
<1> QED
  BY <1>1, <1>11, <1>12 DEF WalkStates

-----------------------------------------------------------------------------
(***************************************************************************)
(* The invariant without option -e.  A word is listed when a document was  *)
(* given it, and has locations in the documents it was given in; the words *)
(* that only the document being parsed has come first in their chains.     *)
(***************************************************************************)
Listed == {w \in Words : InTable(w)}

TableTypes ==
  /\ swap_locdata \in BOOLEAN
  /\ chain \in [Chains -> Seq(Words)]
  /\ dirty \subseteq Chains
  /\ fresh \in [Words -> SUBSET Metas]
  /\ chunk \in [Words -> SUBSET Nat] /\ old \in [Words -> SUBSET Nat]
  /\ tfreq \in [Words -> Nat] /\ last \in [Words -> Nat]
  /\ filenum \in Nat
  /\ pc \in {"between", "parsing", "written"}
  /\ docs \in Seq(SUBSET Words) /\ doc \subseteq Words /\ stop \subseteq Words

(* The number of the document being parsed is one that no kept one has.    *)
Numbered == filenum = Len(docs) + (IF pc = "parsing" THEN 1 ELSE 0)

(* A chain has the words that hash to it, once each.                       *)
ChainsOK ==
  \A h \in Chains :
    Distinct(chain[h]) /\ \A w \in WordsOf(chain[h]) : Hash[w] = h

(* The uncompressed locations are those of the document being parsed.      *)
FreshIsDoc ==
  \A w \in Words :
    /\ fresh[w] # {} <=> pc = "parsing" /\ w \in doc
    /\ fresh[w] # {} => Hash[w] \in dirty

(* The compressed and coalesced ones are those of the documents kept.      *)
PackedIsDocs ==
  \A w \in Words : chunk[w] \cup old[w] = {n \in 1..Len(docs) : w \in docs[n]}

(* An entry remembers a file number only while that file has it.           *)
LastOK ==
  \A w \in Words :
    last[w] <= filenum /\ (pc = "parsing" => (last[w] = filenum <=> w \in doc))

NewestFirst ==
  \A h \in Chains : \A i, j \in 1..Len(chain[h]) :
    i < j /\ NoOther(chain[h][j]) => NoOther(chain[h][i])

ListedIsGiven ==
  \A w \in Words : InTable(w) <=> GivenIn(w) # {} /\ w \notin stop

TableInv ==
  /\ ~swap_locdata
  /\ TableTypes /\ Numbered /\ ChainsOK /\ FreshIsDoc /\ PackedIsDocs
  /\ LastOK /\ NewestFirst /\ ListedIsGiven
  /\ \A w \in Words : tfreq[w] = Cardinality(GivenIn(w))
  /\ IsFiniteSet(Listed) /\ total = Cardinality(Listed)
  /\ pc # "written" => stop = {}

-----------------------------------------------------------------------------
(* A word is given in finitely many documents, and the one being parsed is *)
(* none of those kept.                                                     *)
LEMMA GivenFinite ==
  ASSUME TableInv, NEW w \in Words
  PROVE  /\ IsFiniteSet(GivenIn(w)) /\ Cardinality(GivenIn(w)) \in Nat
         /\ Cardinality(GivenIn(w)) = 0 <=> GivenIn(w) = {}
         /\ pc = "parsing" => (filenum \in GivenIn(w) <=> w \in doc)
         /\ chunk[w] \cup old[w] \subseteq GivenIn(w)
<1>1. Len(docs) \in Nat /\ filenum \in Nat /\ filenum \in 0..(Len(docs) + 1)
  BY DEF TableInv, TableTypes, Numbered
<1>2. GivenIn(w) \subseteq 0..(Len(docs) + 1)
  BY <1>1 DEF GivenIn
<1>3. IsFiniteSet(0..(Len(docs) + 1))
  BY <1>1, FS_Interval
<1>4. IsFiniteSet(GivenIn(w))
  BY <1>2, <1>3, FS_Subset
<1>5. Cardinality(GivenIn(w)) \in Nat /\ (Cardinality(GivenIn(w)) = 0 <=> GivenIn(w) = {})
  BY <1>4, FS_CardinalityType, FS_EmptySet
<1>6. pc = "parsing" => (filenum \in GivenIn(w) <=> w \in doc)
  BY <1>1 DEF TableInv, Numbered, GivenIn
<1>7. chunk[w] \cup old[w] \subseteq GivenIn(w)
  BY DEF TableInv, PackedIsDocs, GivenIn
<1> QED
  BY <1>4, <1>5, <1>6, <1>7

LEMMA TableStarts == TableInit /\ ~swap_locdata => TableInv
<1> SUFFICES ASSUME TableInit, ~swap_locdata PROVE TableInv
  OBVIOUS
<1> USE DEF TableInit
<1>1. \A w \in Words : Hash[w] \in Chains /\ chain[Hash[w]] = <<>>
  BY DEF Chains
<1>2. \A w \in Words : ~InTable(w) /\ GivenIn(w) = {}
  BY <1>1 DEF InTable, GivenIn
<1>3. Listed = {}
  BY <1>2 DEF Listed
<1>4. IsFiniteSet(Listed) /\ Cardinality(Listed) = 0 /\ Cardinality({}) = 0
  BY <1>3, FS_EmptySet
<1>5. TableTypes
  BY DEF TableTypes
<1>6. Numbered /\ FreshIsDoc /\ PackedIsDocs /\ LastOK
  BY DEF Numbered, FreshIsDoc, PackedIsDocs, LastOK
<1>7. ChainsOK /\ NewestFirst
  BY DEF ChainsOK, NewestFirst, Distinct, WordsOf
<1>8. ListedIsGiven
  BY <1>2 DEF ListedIsGiven
<1> QED
  BY <1>2, <1>4, <1>5, <1>6, <1>7, <1>8 DEF TableInv

LEMMA BeginDocStep == TableInv /\ BeginDoc => TableInv'
<1> SUFFICES ASSUME TableInv, BeginDoc PROVE TableInv'
  OBVIOUS
<1> USE DEF BeginDoc, entryVars
<1>1. TableTypes /\ TableTypes'
  BY DEF TableInv, TableTypes
<1>2. Numbered'
  BY <1>1 DEF TableInv, Numbered, TableTypes
<1>3. \A w \in Words : (InTable(w)' <=> InTable(w)) /\ GivenIn(w)' = GivenIn(w)
  BY DEF InTable, GivenIn
<1>4. Listed' = Listed
  BY <1>3 DEF Listed
<1>5. ChainsOK' /\ PackedIsDocs'
  BY DEF TableInv, ChainsOK, PackedIsDocs
<1>6. NewestFirst'
  BY DEF TableInv, NewestFirst, NoOther
<1>7. FreshIsDoc'
  BY DEF TableInv, FreshIsDoc
<1>8. LastOK'
  BY <1>1 DEF TableInv, LastOK, TableTypes
<1>9. ListedIsGiven'
  BY <1>3 DEF TableInv, ListedIsGiven
<1> QED
  BY <1>1, <1>2, <1>3, <1>4, <1>5, <1>6, <1>7, <1>8, <1>9 DEF TableInv

(* getentry and addentry.                                                  *)
LEMMA AddWordStep ==
  ASSUME TableInv, NEW w \in Words, NEW m \in Metas, AddWord(w, m)
  PROVE  TableInv'
<1> USE DEF AddWord
<1> DEFINE new == ~InTable(w)
           N(v) == IF v = w THEN {w} ELSE {}
<1>1. TableTypes /\ Hash[w] \in Chains /\ stop = {} /\ filenum \in Nat
  BY DEF TableInv, TableTypes, Chains
<1>2. InTable(w) <=> GivenIn(w) # {}
  BY <1>1 DEF TableInv, ListedIsGiven
<1>3. \A v \in Words :
        GivenIn(v)' = IF v = w THEN GivenIn(w) \cup {filenum} ELSE GivenIn(v)
  BY <1>1 DEF GivenIn, TableTypes
<1>4. /\ IsFiniteSet(GivenIn(w)) /\ Cardinality(GivenIn(w)) \in Nat
      /\ Cardinality(GivenIn(w)) = 0 <=> GivenIn(w) = {}
      /\ filenum \in GivenIn(w) <=> w \in doc
      /\ chunk[w] \cup old[w] \subseteq GivenIn(w)
  BY GivenFinite
<1>5. tfreq[w] = Cardinality(GivenIn(w)) /\ (last[w] = filenum <=> w \in doc)
  BY DEF TableInv, LastOK
<1>6. fresh[w] # {} <=> w \in doc
  BY DEF TableInv, FreshIsDoc
<1>7. Frequency(w, m) = Cardinality(GivenIn(w) \cup {filenum})
  <2>1. Cardinality(GivenIn(w) \cup {filenum})
          = IF filenum \in GivenIn(w) THEN Cardinality(GivenIn(w))
            ELSE Cardinality(GivenIn(w)) + 1
    BY <1>4, FS_AddElement
  <2>2. CASE tfreq[w] = 0
    BY <1>4, <1>5, <2>1, <2>2 DEF Frequency
  <2>3. CASE tfreq[w] # 0
    BY <1>4, <1>5, <1>6, <2>1, <2>3 DEF Frequency
  <2> QED
    BY <2>2, <2>3
<1>8. \A v \in Words : tfreq'[v] = Cardinality(GivenIn(v)')
  <2> TAKE v \in Words
  <2>1. tfreq[v] = Cardinality(GivenIn(v)) /\ tfreq \in [Words -> Nat]
    BY <1>1 DEF TableInv, TableTypes
  <2>2. tfreq'[v] = IF v = w THEN Frequency(w, m) ELSE tfreq[v]
    BY <2>1
  <2> QED
    BY <1>3, <1>7, <2>1, <2>2
<1>9. Frequency(w, m) \in Nat
  BY <1>1 DEF Frequency, TableTypes
<1>10. /\ chain' \in [Chains -> Seq(Words)]
       /\ \A h \in Chains :
            /\ Distinct(chain'[h])
            /\ WordsOf(chain'[h])
                 = WordsOf(chain[h]) \cup (IF new /\ h = Hash[w] THEN {w} ELSE {})
            /\ new /\ h = Hash[w] =>
                 /\ Len(chain'[h]) = Len(chain[h]) + 1 /\ chain'[h][1] = w
                 /\ \A i \in 1..Len(chain[h]) : chain'[h][i + 1] = chain[h][i]
            /\ ~(new /\ h = Hash[w]) => chain'[h] = chain[h]
  <2>1. chain \in [Chains -> Seq(Words)] /\ \A h \in Chains : Distinct(chain[h])
    BY <1>1 DEF TableInv, TableTypes, ChainsOK
  <2>2. CASE ~new
    BY <2>1, <2>2 DEF GetEntry
  <2>3. CASE new
    <3> DEFINE c == chain[Hash[w]]
               d == <<w>> \o c
    <3>1. w \notin WordsOf(c) /\ Distinct(c) /\ c \in Seq(Words)
      BY <1>1, <2>1, <2>3 DEF InTable, WordsOf
    <3>2. chain' = [chain EXCEPT ![Hash[w]] = d]
      BY <2>3 DEF GetEntry
    <3> HIDE DEF c, d
    <3>3. \A h \in Chains : chain'[h] = IF h = Hash[w] THEN d ELSE chain[h]
      BY <2>1, <3>2
    <3>4. /\ d \in Seq(Words) /\ Len(d) = Len(c) + 1 /\ d[1] = w
          /\ \A i \in 1..Len(c) : d[i + 1] = c[i]
          /\ WordsOf(d) = WordsOf(c) \cup {w} /\ Distinct(d)
      BY <3>1, PrependWords DEF d
    <3>5. chain' \in [Chains -> Seq(Words)]
      BY <2>1, <3>2, <3>4
    <3> QED
      BY <2>1, <2>3, <3>3, <3>4, <3>5 DEF c
  <2> QED
    BY <2>2, <2>3
<1>11. \A v \in Words : InTable(v)' <=> InTable(v) \/ v = w
  <2> TAKE v \in Words
  <2>1. Hash[v] \in Chains
    BY DEF Chains
  <2>2. InTable(v)' <=> v \in WordsOf(chain'[Hash[v]])
    BY DEF InTable, WordsOf
  <2>3. InTable(v) <=> v \in WordsOf(chain[Hash[v]])
    BY DEF InTable, WordsOf
  <2> QED
    BY <1>1, <1>10, <2>1, <2>2, <2>3
<1>12. IsFiniteSet(Listed') /\ total' = Cardinality(Listed')
  <2>1. Listed' = Listed \cup {w} /\ (w \in Listed <=> InTable(w))
    BY <1>11 DEF Listed
  <2>2. IsFiniteSet(Listed) /\ total = Cardinality(Listed) /\ total \in Int
    BY FS_CardinalityType DEF TableInv
  <2>3. total' = IF w \in Listed THEN total ELSE total + 1
    BY <2>1 DEF GetEntry
  <2>4. /\ IsFiniteSet(Listed \cup {w})
        /\ Cardinality(Listed \cup {w})
             = IF w \in Listed THEN Cardinality(Listed) ELSE Cardinality(Listed) + 1
    BY <2>2, FS_AddElement
  <2> QED
    BY <2>1, <2>2, <2>3, <2>4
<1>13. TableTypes'
  <2>2. tfreq' \in [Words -> Nat]
    BY <1>1, <1>9 DEF TableTypes
  <2>3. last' \in [Words -> Nat]
    BY <1>1 DEF TableTypes
  <2>4. fresh' \in [Words -> SUBSET Metas] /\ dirty' \subseteq Chains /\ doc' \subseteq Words
    BY <1>1 DEF TableTypes
  <2> QED
    BY <1>1, <1>10, <2>2, <2>3, <2>4 DEF TableTypes
<1>14. Numbered' /\ PackedIsDocs'
  BY DEF TableInv, Numbered, PackedIsDocs
<1>15. ChainsOK'
  BY <1>10 DEF TableInv, ChainsOK
<1>16. FreshIsDoc'
  <2> SUFFICES ASSUME NEW v \in Words
               PROVE  /\ fresh'[v] # {} <=> v \in doc'
                      /\ fresh'[v] # {} => Hash[v] \in dirty'
    BY DEF FreshIsDoc
  <2>1. fresh'[v] = IF v = w THEN fresh[w] \cup {m} ELSE fresh[v]
    BY <1>1 DEF TableTypes
  <2>2. /\ fresh[v] # {} <=> v \in doc
        /\ fresh[v] # {} => Hash[v] \in dirty
    BY DEF TableInv, FreshIsDoc
  <2> QED
    BY <2>1, <2>2
<1>17. LastOK'
  <2> SUFFICES ASSUME NEW v \in Words
               PROVE  last'[v] <= filenum /\ (last'[v] = filenum <=> v \in doc')
    BY DEF LastOK
  <2>1. last'[v] = IF v = w /\ (tfreq[w] = 0 \/ m \notin fresh[w]) THEN filenum ELSE last[v]
    BY <1>1 DEF TableTypes
  <2>2. last[v] <= filenum /\ (last[v] = filenum <=> v \in doc)
    BY DEF TableInv, LastOK
  <2> QED
    BY <1>1, <1>6, <2>1, <2>2
<1>18. NewestFirst'
  <2> SUFFICES ASSUME NEW h \in Chains, NEW i \in 1..Len(chain'[h]),
                      NEW j \in 1..Len(chain'[h]), i < j, NoOther(chain'[h][j])
               PROVE  NoOther(chain'[h][i])
    BY DEF NewestFirst, NoOther
  <2>0. \A a, b \in 1..Len(chain[h]) :
          a < b /\ NoOther(chain[h][b]) => NoOther(chain[h][a])
    BY DEF TableInv, NewestFirst
  <2>1. CASE new /\ h = Hash[w]
    <3>1. NoOther(w)
      BY <1>2, <1>4, <2>1 DEF NoOther
    <3>2. CASE i = 1
      BY <1>10, <2>1, <3>1, <3>2
    <3>3. CASE i # 1
      <4> DEFINE c == chain[h]
                 d == chain'[h]
      <4>1. c \in Seq(Words) /\ Len(c) \in Nat
        BY <1>1 DEF TableTypes
      <4>2. Len(d) = Len(c) + 1 /\ \A k \in 1..Len(c) : d[k + 1] = c[k]
        BY <1>10, <2>1
      <4> HIDE DEF c, d
      <4>3. i - 1 \in 1..Len(c) /\ j - 1 \in 1..Len(c) /\ i - 1 < j - 1
            /\ (i - 1) + 1 = i /\ (j - 1) + 1 = j
        BY <3>3, <4>1, <4>2 DEF d
      <4>4. d[i] = c[i - 1] /\ d[j] = c[j - 1]
        BY <4>2, <4>3
      <4> QED
        BY <2>0, <4>3, <4>4 DEF c, d
    <3> QED
      BY <3>2, <3>3
  <2>2. CASE ~(new /\ h = Hash[w])
    BY <1>10, <2>0, <2>2
  <2> QED
    BY <2>1, <2>2
<1>19. ListedIsGiven'
  BY <1>1, <1>3, <1>11 DEF TableInv, ListedIsGiven
<1> QED
  BY <1>1, <1>8, <1>12, <1>13, <1>14, <1>15, <1>16, <1>17, <1>18, <1>19 DEF TableInv

-----------------------------------------------------------------------------
(* A listed word that no document is parsed for has locations, so only the *)
(* words of the document being parsed can be without.                      *)
LEMMA ListedHas ==
  ASSUME TableInv, NEW h \in Chains, NEW i \in 1..Len(chain[h])
  PROVE  /\ chain[h][i] \in Words /\ Hash[chain[h][i]] = h /\ InTable(chain[h][i])
         /\ GivenIn(chain[h][i]) # {}
         /\ Touched(chain[h][i]) \/ ~NoOther(chain[h][i])
<1> DEFINE w == chain[h][i]
<1>1. chain[h] \in Seq(Words)
  BY DEF TableInv, TableTypes
<1>2. w \in Words
  BY <1>1
<1>3. Hash[w] = h
  BY DEF TableInv, ChainsOK, WordsOf
<1>4. InTable(w)
  BY <1>3 DEF InTable
<1> HIDE DEF w
<1>5. GivenIn(w) # {}
  BY <1>2, <1>4 DEF TableInv, ListedIsGiven
<1>6. chunk[w] \cup old[w] = {n \in 1..Len(docs) : w \in docs[n]}
  BY <1>2 DEF TableInv, PackedIsDocs
<1>7. (pc = "parsing" /\ w \in doc) => fresh[w] # {}
  BY <1>2 DEF TableInv, FreshIsDoc
<1>8. Touched(w) \/ ~NoOther(w)
  BY <1>5, <1>6, <1>7 DEF GivenIn, Touched, NoOther, TableInv
<1> QED
  BY <1>2, <1>3, <1>4, <1>5, <1>8 DEF w

(* The words of a chain are those in the table that hash to it.            *)
LEMMA InTableWords ==
  ASSUME NEW w \in Words
  PROVE  Hash[w] \in Chains /\ (InTable(w) <=> w \in WordsOf(chain[Hash[w]]))
BY DEF Chains, InTable, WordsOf

(* The end of a document turns its locations into compressed ones.         *)
LEMMA EndDocStep == TableInv /\ EndDoc => TableInv'
<1> SUFFICES ASSUME TableInv, EndDoc PROVE TableInv'
  OBVIOUS
<1> USE DEF EndDoc
<1>1. TableTypes /\ stop = {} /\ filenum \in Nat /\ Len(docs) \in Nat
      /\ filenum = Len(docs) + 1
  BY DEF TableInv, TableTypes, Numbered
<1>2. /\ Len(docs') = filenum /\ docs'[filenum] = doc
      /\ \A n \in 1..Len(docs) : docs'[n] = docs[n]
      /\ docs' \in Seq(SUBSET Words)
      /\ 1..Len(docs') = 1..Len(docs) \cup {filenum}
  BY <1>1 DEF TableTypes
<1>3. \A v \in Words :
        /\ GivenIn(v)' = {n \in 1..Len(docs') : v \in docs'[n]}
        /\ GivenIn(v)' = GivenIn(v)
  BY <1>2 DEF GivenIn
<1>4. \A v \in Words :
        /\ fresh[v] # {} <=> v \in doc
        /\ fresh[v] # {} => Hash[v] \in dirty
  BY DEF TableInv, FreshIsDoc
<1>5. \A v \in Words : fresh'[v] = {}
  BY <1>4
<1>6. \A v \in Words : chunk'[v] \cup old'[v] = chunk[v] \cup old[v]
                          \cup (IF v \in doc THEN {filenum} ELSE {})
  <2> TAKE v \in Words
  <2>1. Packed(v) = chunk[v] \cup (IF v \in doc THEN {filenum} ELSE {})
    BY <1>4 DEF Packed
  <2>2. \/ old'[v] = old[v] \cup Packed(v) /\ chunk'[v] = {}
        \/ old'[v] = old[v] /\ chunk'[v] = Packed(v)
    OBVIOUS
  <2> QED
    BY <2>1, <2>2
<1>7. \A v \in Words : chunk'[v] \cup old'[v] = GivenIn(v)'
  <2> TAKE v \in Words
  <2>1. chunk[v] \cup old[v] = {n \in 1..Len(docs) : v \in docs[n]}
    BY DEF TableInv, PackedIsDocs
  <2> QED
    BY <1>3, <1>6, <2>1 DEF GivenIn
<1>8. TableTypes'
  <2>1. \A v \in Words : Packed(v) \in SUBSET Nat
    BY <1>1 DEF Packed, TableTypes
  <2>2. chunk' \in [Words -> SUBSET Nat] /\ old' \in [Words -> SUBSET Nat]
    BY <1>1, <2>1 DEF TableTypes
  <2>3. fresh' \in [Words -> SUBSET Metas]
    BY <1>1 DEF TableTypes
  <2> QED
    BY <1>1, <1>2, <2>2, <2>3 DEF TableTypes
<1>9. Numbered'
  BY <1>1, <1>2 DEF Numbered
<1>10. \A v \in Words : InTable(v)' <=> InTable(v)
  BY DEF InTable
<1>11. Listed' = Listed
  BY <1>10 DEF Listed
<1>12. ChainsOK' /\ FreshIsDoc'
  BY <1>5 DEF TableInv, ChainsOK, FreshIsDoc
<1>13. PackedIsDocs'
  BY <1>3, <1>7 DEF PackedIsDocs
<1>14. LastOK'
  BY DEF TableInv, LastOK
<1>15. NewestFirst'
  <2> SUFFICES ASSUME NEW h \in Chains, NEW j \in 1..Len(chain[h])
               PROVE  ~NoOther(chain[h][j])'
    BY DEF NewestFirst
  <2>1. chain[h][j] \in Words /\ GivenIn(chain[h][j]) # {}
    BY ListedHas
  <2>2. ~swap_locdata'
    BY DEF TableInv
  <2> QED
    BY <1>3, <1>7, <2>1, <2>2 DEF NoOther
<1>16. ListedIsGiven'
  BY <1>3, <1>10 DEF TableInv, ListedIsGiven
<1> QED
  BY <1>1, <1>3, <1>8, <1>9, <1>11, <1>12, <1>13, <1>14, <1>15, <1>16 DEF TableInv

(* remove_last_file_from_list leaves what the kept documents gave.         *)
LEMMA AbortDocStep == TableInv /\ AbortDoc => TableInv'
<1> SUFFICES ASSUME TableInv, AbortDoc PROVE TableInv'
  OBVIOUS
<1> USE DEF AbortDoc
<1> DEFINE takenFrom == {w \in Words : Hash[w] \in dirty /\ Touched(w)}
           gone == {w \in Words : Hash[w] \in dirty /\ Touched(w) /\ NoOther(w)}
           lost == {w \in Words : ~InTable(w)'}
<1>1. TableTypes /\ stop = {} /\ filenum \in Nat /\ Len(docs) \in Nat
      /\ filenum = Len(docs) + 1
  BY DEF TableInv, TableTypes, Numbered
<1>2. \A v \in Words :
        /\ GivenIn(v)' = {n \in 1..Len(docs) : v \in docs[n]}
        /\ GivenIn(v) = GivenIn(v)' \cup (IF v \in doc THEN {filenum} ELSE {})
        /\ filenum \notin GivenIn(v)'
        /\ GivenIn(v)' = chunk[v] \cup old[v]
  BY <1>1 DEF GivenIn, TableInv, PackedIsDocs
<1>3. \A v \in Words : (v \in takenFrom <=> v \in doc) /\ (fresh[v] # {} <=> v \in doc)
  BY DEF TableInv, FreshIsDoc, Touched
<1>4. \A h \in Chains : /\ chain'[h] \in Seq(Words) /\ Distinct(chain'[h])
                         /\ WordsOf(chain'[h]) = {v \in WordsOf(chain[h]) : ~NoOther(v)}
  <2> TAKE h \in Chains
  <2>1. chain[h] \in Seq(Words) /\ Distinct(chain[h])
    BY <1>1 DEF TableInv, TableTypes, ChainsOK
  <2>2. CASE h \in dirty
    <3>1. \A i \in 1..Len(chain[h]) : Touched(chain[h][i]) \/ ~NoOther(chain[h][i])
      BY ListedHas
    <3>2. \A i, j \in 1..Len(chain[h]) :
            i < j /\ NoOther(chain[h][j]) => NoOther(chain[h][i])
      BY DEF TableInv, NewestFirst
    <3>3. chain'[h] = Walk(chain[h])
      BY <2>2
    <3> DEFINE c == chain[h]
    <3> HIDE DEF c
    <3>4. /\ Walk(c) \in Seq(Words)
          /\ WordsOf(Walk(c)) = {w \in WordsOf(c) : ~NoOther(w)}
          /\ Distinct(Walk(c))
      BY <2>1, <3>1, <3>2, WalkWords DEF c
    <3> QED
      BY <3>3, <3>4 DEF c
  <2>3. CASE h \notin dirty
    <3>1. chain'[h] = chain[h]
      BY <2>3
    <3>2. \A i \in 1..Len(chain[h]) : ~NoOther(chain[h][i])
      <4> TAKE i \in 1..Len(chain[h])
      <4>1. /\ chain[h][i] \in Words /\ Hash[chain[h][i]] = h
            /\ Touched(chain[h][i]) \/ ~NoOther(chain[h][i])
        BY ListedHas
      <4>2. ~Touched(chain[h][i])
        BY <2>3, <4>1 DEF TableInv, FreshIsDoc, Touched
      <4> QED
        BY <4>1, <4>2
    <3>3. WordsOf(chain[h]) = {v \in WordsOf(chain[h]) : ~NoOther(v)}
      BY <3>2 DEF WordsOf
    <3> QED
      BY <2>1, <3>1, <3>3
  <2> QED
    BY <2>2, <2>3
<1>5. \A v \in Words : InTable(v)' <=> InTable(v) /\ ~NoOther(v)
  <2> TAKE v \in Words
  <2>1. InTable(v)' <=> v \in WordsOf(chain'[Hash[v]])
    BY DEF InTable, WordsOf
  <2> QED
    BY <1>4, <2>1, InTableWords
<1>6. \A v \in Words : NoOther(v) <=> GivenIn(v)' = {}
  BY <1>2 DEF NoOther, TableInv
<1>7. \A v \in Words : InTable(v) <=> GivenIn(v) # {}
  BY <1>1 DEF TableInv, ListedIsGiven
<1>l. \A v \in Words : v \in lost <=> GivenIn(v)' = {}
  <2> TAKE v \in Words
  <2>1. GivenIn(v)' # {} => GivenIn(v) # {}
    BY <1>2
  <2> QED
    BY <1>5, <1>6, <1>7, <2>1
<1>k. \A v \in Words : chunk'[v] = chunk[v] /\ old'[v] = old[v]
  <2> TAKE v \in Words
  <2>1. v \in lost => chunk[v] = {} /\ old[v] = {}
    BY <1>2, <1>l
  <2>2. /\ chunk'[v] = IF v \in lost THEN {} ELSE chunk[v]
        /\ old'[v] = IF v \in lost THEN {} ELSE old[v]
    OBVIOUS
  <2> HIDE DEF lost
  <2> QED
    BY <2>1, <2>2
<1>8. gone \subseteq Listed /\ Listed' = Listed \ gone
  <2>1. \A v \in Words : v \in gone <=> v \in doc /\ NoOther(v)
    BY <1>3
  <2>2. \A v \in gone : InTable(v)
    BY <1>2, <1>7, <2>1
  <2>3. \A v \in Words : InTable(v) /\ NoOther(v) => v \in gone
    BY <1>2, <1>6, <1>7, <2>1
  <2> HIDE DEF gone
  <2>4. Listed' = {v \in Words : InTable(v) /\ ~NoOther(v)}
    BY <1>5 DEF Listed
  <2>5. gone \subseteq Words /\ \A v \in gone : NoOther(v)
    BY DEF gone
  <2> QED
    BY <2>2, <2>3, <2>4, <2>5 DEF Listed
<1>9. IsFiniteSet(Listed') /\ total' = Cardinality(Listed') /\ total' \in Nat
  <2>1. IsFiniteSet(Listed) /\ total = Cardinality(Listed)
    BY DEF TableInv
  <2>2. total' = total - Cardinality(gone)
    BY DEF Unlinked
  <2> HIDE DEF gone
  <2>3. IsFiniteSet(gone)
    BY <1>8, <2>1, FS_Subset
  <2>4. /\ IsFiniteSet(Listed \ gone)
        /\ Cardinality(Listed \ gone) = Cardinality(Listed) - Cardinality(Listed \cap gone)
    BY <2>1, FS_Difference
  <2>5. Listed \cap gone = gone
    BY <1>8
  <2>6. Cardinality(Listed \ gone) \in Nat
    BY <2>4, FS_CardinalityType
  <2> QED
    BY <1>8, <2>1, <2>2, <2>4, <2>5, <2>6
<1>10. \A v \in Words : tfreq'[v] = Cardinality(GivenIn(v)')
  <2> TAKE v \in Words
  <2>1. IsFiniteSet(GivenIn(v)) /\ tfreq[v] = Cardinality(GivenIn(v))
    BY GivenFinite DEF TableInv
  <2>2. tfreq'[v] = IF v \in lost THEN 0
                    ELSE IF v \in doc THEN tfreq[v] - 1 ELSE tfreq[v]
    <3>1. tfreq'[v] = IF v \in lost THEN 0
                      ELSE IF v \in takenFrom THEN tfreq[v] - 1 ELSE tfreq[v]
      OBVIOUS
    <3> HIDE DEF lost, takenFrom
    <3> QED
      BY <1>3, <3>1
  <2> HIDE DEF lost
  <2>l. CASE v \in lost
    BY <1>l, <2>2, <2>l, FS_EmptySet
  <2> DEFINE G == GivenIn(v)'
  <2>3. GivenIn(v) = G \cup (IF v \in doc THEN {filenum} ELSE {}) /\ filenum \notin G
    BY <1>2
  <2> HIDE DEF G
  <2>4. CASE v \in doc /\ v \notin lost
    <3>1. IsFiniteSet(G)
      BY <2>1, <2>3, FS_Subset
    <3>2. Cardinality(G \cup {filenum}) = Cardinality(G) + 1 /\ Cardinality(G) \in Nat
      BY <2>3, <3>1, FS_AddElement, FS_CardinalityType
    <3>3. tfreq'[v] = Cardinality(G)
      BY <2>1, <2>2, <2>3, <2>4, <3>2
    <3> QED
      BY <3>3 DEF G
  <2>5. CASE v \notin doc /\ v \notin lost
    <3>1. tfreq'[v] = Cardinality(G)
      BY <2>1, <2>2, <2>3, <2>5
    <3> QED
      BY <3>1 DEF G
  <2> QED
    BY <2>l, <2>4, <2>5
<1>11. TableTypes'
  <2>1. chain' \in [Chains -> Seq(Words)]
    <3>1. chain' = [h \in Chains |-> IF h \in dirty THEN Walk(chain[h]) ELSE chain[h]]
      OBVIOUS
    <3>2. chain' = [h \in Chains |-> chain'[h]]
      BY <3>1
    <3> QED
      BY <1>4, <3>2
  <2>2. \A v \in Words : tfreq'[v] \in Nat
    <3> TAKE v \in Words
    <3>1. tfreq[v] = Cardinality(GivenIn(v)) /\ tfreq[v] \in Nat
      BY <1>1 DEF TableInv, TableTypes
    <3>2. v \in doc => Cardinality(GivenIn(v)) # 0
      BY GivenFinite, <1>2
    <3>3. tfreq'[v] = IF v \in lost THEN 0
                      ELSE IF v \in takenFrom THEN tfreq[v] - 1 ELSE tfreq[v]
      OBVIOUS
    <3> HIDE DEF lost, takenFrom
    <3> QED
      BY <1>3, <3>1, <3>2, <3>3
  <2>3. tfreq' \in [Words -> Nat]
    <3>1. tfreq' = [w \in Words |-> IF w \in lost THEN 0
                                 ELSE IF w \in takenFrom THEN tfreq[w] - 1 ELSE tfreq[w]]
      OBVIOUS
    <3>2. tfreq' = [w \in Words |-> tfreq'[w]]
      BY <3>1
    <3> QED
      BY <2>2, <3>2
  <2>4. last' \in [Words -> Nat]
    BY <1>1 DEF TableTypes, RemovedLast
  <2>5. fresh' \in [Words -> SUBSET Metas]
    BY <1>1 DEF TableTypes
  <2>6. chunk' \in [Words -> SUBSET Nat] /\ old' \in [Words -> SUBSET Nat]
    BY <1>1 DEF TableTypes
  <2> QED
    BY <1>1, <1>9, <2>1, <2>3, <2>4, <2>5, <2>6 DEF TableTypes
<1>12. Numbered'
  BY <1>1 DEF Numbered
<1>13. ChainsOK'
  BY <1>4 DEF TableInv, ChainsOK
<1>14. FreshIsDoc'
  BY <1>3 DEF FreshIsDoc
<1>15. PackedIsDocs'
  BY <1>k DEF TableInv, PackedIsDocs
<1>16. LastOK'
  <2> SUFFICES ASSUME NEW v \in Words PROVE last'[v] <= filenum'
    BY DEF LastOK
  <2>1. last[v] \in Nat /\ last[v] <= filenum /\ (last[v] = filenum <=> v \in doc)
    BY <1>1 DEF TableInv, LastOK, TableTypes
  <2>2. last'[v] = IF v \in lost \/ v \in doc THEN 0 ELSE last[v]
    <3>1. last'[v] = IF v \in lost THEN 0
                     ELSE IF v \in takenFrom THEN 0 ELSE last[v]
      BY DEF RemovedLast
    <3> HIDE DEF lost, takenFrom
    <3> QED
      BY <1>3, <3>1
  <2> QED
    BY <1>1, <2>1, <2>2
<1>17. NewestFirst'
  <2> SUFFICES ASSUME NEW h \in Chains, NEW j \in 1..Len(chain'[h])
               PROVE  ~NoOther(chain[h][j])'
    BY DEF NewestFirst
  <2>1. chain'[h][j] \in WordsOf(chain'[h])
    BY DEF WordsOf
  <2>2. ~NoOther(chain'[h][j]) /\ chain'[h][j] \in Words
    BY <1>4, <2>1 DEF WordsOf
  <2>3. ~swap_locdata /\ ~swap_locdata'
    BY DEF TableInv
  <2> QED
    BY <1>k, <2>2, <2>3 DEF NoOther
<1>18. ListedIsGiven'
  <2> SUFFICES ASSUME NEW v \in Words PROVE InTable(v)' <=> GivenIn(v)' # {}
    BY <1>1 DEF ListedIsGiven
  <2>1. GivenIn(v)' # {} => GivenIn(v) # {}
    BY <1>2
  <2> QED
    BY <1>5, <1>6, <1>7, <2>1
<1> QED
  BY <1>1, <1>9, <1>10, <1>11, <1>12, <1>13, <1>14, <1>15, <1>16, <1>17, <1>18 DEF TableInv

(* coalesce_all_word_locations and IgnoreLimit.                            *)
LEMMA WriteTableStep == TableInv /\ WriteTable => TableInv'
<1> SUFFICES ASSUME TableInv, WriteTable PROVE TableInv'
  OBVIOUS
<1> USE DEF WriteTable
<1> DEFINE common == {w \in Words : InTable(w) /\ TooCommon(w)}
<1>1. TableTypes /\ stop = {} /\ stop' = common /\ chain' = [h \in Chains |-> Unlisted(chain[h], common)]
      /\ total' = total - Cardinality(common)
  BY DEF TableInv
<1>2. common \subseteq Listed /\ common \subseteq Words
  BY DEF Listed
<1> HIDE DEF common
<1>3. \A v \in Words : GivenIn(v)' = GivenIn(v) /\ GivenIn(v) = chunk'[v] \cup old'[v]
  BY DEF GivenIn, TableInv, PackedIsDocs
<1>4. \A h \in Chains : /\ chain'[h] \in Seq(Words) /\ Distinct(chain'[h])
                         /\ WordsOf(chain'[h]) = WordsOf(chain[h]) \ common
  <2> TAKE h \in Chains
  <2> DEFINE c == chain[h]
  <2>1. c \in Seq(Words) /\ Distinct(c)
    BY <1>1 DEF TableInv, TableTypes, ChainsOK
  <2>2. chain'[h] = Unlisted(c, common)
    BY <1>1
  <2> HIDE DEF c
  <2>3. /\ Unlisted(c, common) \in Seq(Words) /\ Distinct(Unlisted(c, common))
        /\ WordsOf(Unlisted(c, common)) = WordsOf(c) \ common
    BY <2>1, UnlistedWords
  <2> QED
    BY <2>2, <2>3 DEF c
<1>5. \A v \in Words : InTable(v)' <=> InTable(v) /\ v \notin common
  <2> TAKE v \in Words
  <2>1. InTable(v)' <=> v \in WordsOf(chain'[Hash[v]])
    BY DEF InTable, WordsOf
  <2> QED
    BY <1>4, <2>1, InTableWords
<1>6. Listed' = Listed \ common
  BY <1>5 DEF Listed
<1>7. IsFiniteSet(Listed') /\ total' = Cardinality(Listed') /\ total' \in Nat
  <2>1. IsFiniteSet(Listed) /\ total = Cardinality(Listed)
    BY DEF TableInv
  <2>2. IsFiniteSet(common)
    BY <1>2, <2>1, FS_Subset
  <2>3. /\ IsFiniteSet(Listed \ common)
        /\ Cardinality(Listed \ common) = Cardinality(Listed) - Cardinality(Listed \cap common)
    BY <2>1, FS_Difference
  <2>4. Listed \cap common = common
    BY <1>2
  <2>5. Cardinality(Listed \ common) \in Nat
    BY <2>3, FS_CardinalityType
  <2> QED
    BY <1>1, <1>6, <2>1, <2>3, <2>4, <2>5
<1>8. TableTypes'
  <2>1. chain' \in [Chains -> Seq(Words)]
    BY <1>1, <1>4
  <2>2. chunk' \in [Words -> SUBSET Nat] /\ old' \in [Words -> SUBSET Nat]
    BY <1>1 DEF TableTypes
  <2> QED
    BY <1>1, <1>2, <1>7, <2>1, <2>2 DEF TableTypes
<1>9. Numbered' /\ FreshIsDoc' /\ LastOK'
  BY <1>1 DEF TableInv, Numbered, FreshIsDoc, LastOK
<1>10. ChainsOK'
  BY <1>4 DEF TableInv, ChainsOK
<1>11. PackedIsDocs'
  BY DEF TableInv, PackedIsDocs
<1>12. NewestFirst'
  <2> SUFFICES ASSUME NEW h \in Chains, NEW j \in 1..Len(chain'[h])
               PROVE  ~NoOther(chain[h][j])'
    BY DEF NewestFirst
  <2>1. chain'[h][j] \in WordsOf(chain[h])
    BY <1>4, ZenonT(60) DEF WordsOf
  <2>2. PICK i \in 1..Len(chain[h]) : chain'[h][j] = chain[h][i]
    BY <2>1 DEF WordsOf
  <2>3. chain'[h][j] \in Words /\ GivenIn(chain'[h][j]) # {}
    BY <2>2, ListedHas, ZenonT(60)
  <2>4. ~swap_locdata'
    BY DEF TableInv
  <2> QED
    BY <1>3, <2>3, <2>4 DEF NoOther
<1>13. ListedIsGiven'
  BY <1>1, <1>3, <1>5 DEF TableInv, ListedIsGiven
<1>14. \A v \in Words : tfreq'[v] = Cardinality(GivenIn(v)')
  BY <1>3 DEF TableInv
<1> QED
  BY <1>7, <1>8, <1>9, <1>10, <1>11, <1>12, <1>13, <1>14 DEF TableInv

-----------------------------------------------------------------------------
LEMMA TableStep == TableInv /\ [TableNext]_tableVars => TableInv'
<1> SUFFICES ASSUME TableInv, [TableNext]_tableVars PROVE TableInv'
  OBVIOUS
<1>1. CASE BeginDoc
  BY <1>1, BeginDocStep
<1>2. CASE EndDoc
  BY <1>2, EndDocStep
<1>3. CASE AbortDoc
  BY <1>3, AbortDocStep
<1>4. CASE WriteTable
  BY <1>4, WriteTableStep
<1>5. CASE \E w \in Words, m \in Metas : AddWord(w, m)
  BY <1>5, AddWordStep
<1>6. CASE UNCHANGED tableVars
  <2> USE <1>6 DEF tableVars
  <2>1. \A w \in Words : (InTable(w)' <=> InTable(w)) /\ GivenIn(w)' = GivenIn(w)
    BY DEF InTable, GivenIn
  <2>2. Listed' = Listed
    BY <2>1 DEF Listed
  <2>3. TableTypes' /\ Numbered' /\ ChainsOK' /\ FreshIsDoc' /\ PackedIsDocs' /\ LastOK'
    BY DEF TableInv, TableTypes, Numbered, ChainsOK, FreshIsDoc, PackedIsDocs, LastOK
  <2>4. NewestFirst' /\ ListedIsGiven'
    BY <2>1 DEF TableInv, NewestFirst, NoOther, ListedIsGiven
  <2> QED
    BY <2>1, <2>2, <2>3, <2>4 DEF TableInv
<1> QED
  BY <1>1, <1>2, <1>3, <1>4, <1>5, <1>6 DEF TableNext

(* A word is at most once in a chain without repetitions.                  *)
LEMMA LinkedOnce ==
  ASSUME NEW w \in Words, Distinct(chain[Hash[w]])
  PROVE  Linked(w) = IF InTable(w) THEN 1 ELSE 0
<1> DEFINE P == {i \in 1..Len(chain[Hash[w]]) : chain[Hash[w]][i] = w}
<1>1. CASE InTable(w)
  <2>1. PICK i \in 1..Len(chain[Hash[w]]) : chain[Hash[w]][i] = w
    BY <1>1 DEF InTable
  <2>2. P = {i}
    BY <2>1 DEF Distinct
  <2>3. Cardinality({i}) = 1
    BY FS_Singleton
  <2> QED
    BY <1>1, <2>2, <2>3 DEF Linked
<1>2. CASE ~InTable(w)
  <2>1. P = {}
    BY <1>2 DEF InTable
  <2>2. Cardinality({}) = 0
    BY FS_EmptySet
  <2> QED
    BY <1>2, <2>1, <2>2 DEF Linked
<1> QED
  BY <1>1, <1>2

LEMMA TableInvGivesExact == TableInv => EntriesExact
<1> SUFFICES ASSUME TableInv PROVE EntriesExact
  OBVIOUS
<1>1. \A w \in Words : Linked(w) = IF InTable(w) THEN 1 ELSE 0
  BY LinkedOnce DEF TableInv, ChainsOK, Chains
<1>2. WordsReachable
  <2>1. \A w \in Words : InTable(w) <=> GivenIn(w) # {} /\ w \notin stop
    BY DEF TableInv, ListedIsGiven
  <2> QED
    BY <1>1, <2>1 DEF WordsReachable
<1>3. LocationsGiven
  <2> SUFFICES ASSUME NEW w \in Words PROVE EntryFiles(w) = GivenIn(w)
    BY DEF LocationsGiven
  <2> QED
    BY DEF TableInv, PackedIsDocs, FreshIsDoc, GivenIn, EntryFiles
<1>4. FrequencyExact /\ TotalWordsExact
  BY DEF TableInv, FrequencyExact, TotalWordsExact, Listed
<1>5. NothingLeft
  BY <1>1, <1>3, <1>4 DEF NothingLeft, LocationsGiven, FrequencyExact
<1> QED
  BY <1>2, <1>3, <1>4, <1>5 DEF EntriesExact

-----------------------------------------------------------------------------
(***************************************************************************)
(* With option -e a word of kept documents may lose its entry, so that its *)
(* entry's locations are only some of the files it was given in; but they  *)
(* are among them, and tfrequency counts them.                             *)
(***************************************************************************)
PackedInDocs ==
  \A w \in Words : chunk[w] \cup old[w] \subseteq {n \in 1..Len(docs) : w \in docs[n]}

SwapInv ==
  /\ swap_locdata
  /\ TableTypes /\ Numbered /\ ChainsOK /\ FreshIsDoc /\ PackedInDocs /\ LastOK
  /\ \A w \in Words : tfreq[w] = Cardinality(EntryFiles(w))

(* A walk links no word twice, whatever it cuts off.                       *)
LEMMA WalkDistinct ==
  ASSUME NEW c \in Seq(Words), Distinct(c)
  PROVE  /\ Walk(c) \in Seq(Words) /\ Distinct(Walk(c))
         /\ WordsOf(Walk(c)) \subseteq WordsOf(c)
<1> DEFINE start == [out |-> <<>>, prev |-> 0]
           N == Len(c)
<1>0. PICK turn : /\ Walk(c) = turn[N].out /\ turn[0] = start
                  /\ \A i \in 1..N : turn[i] = WalkTurn(turn[i - 1], c[i])
  BY WalkTurns
<1>1. N \in Nat /\ start \in WalkStates /\ \A i \in 1..N : c[i] \in Words
  BY DEF WalkStates
<1> HIDE DEF N
<1> DEFINE Good(n) == /\ turn[n] \in WalkStates /\ Distinct(turn[n].out)
                      /\ WordsOf(turn[n].out) \subseteq {c[i] : i \in 1..n}
           S == {n \in 0..N : Good(n)}
<1>2. 0 \in S
  <2>1. Good(0)
    BY <1>0, <1>1 DEF Distinct, WordsOf
  <2> HIDE DEF Good
  <2> QED
    BY <1>1, <2>1
<1>3. ASSUME NEW n \in 0..(N - 1), n \in S PROVE n + 1 \in S
  <2> DEFINE w == c[n + 1]
             s == turn[n]
             before == {c[i] : i \in 1..n}
  <2>1. n + 1 \in 1..N /\ (n + 1) - 1 = n /\ n + 1 \in 0..N
    BY <1>1
  <2>2. /\ 1..(n + 1) = 1..n \cup {n + 1} /\ n + 1 \notin 1..n /\ 1..n \subseteq 1..N
        /\ {c[i] : i \in 1..(n + 1)} = before \cup {w}
    BY <1>1
  <2>3. w \in Words /\ w \notin before
    BY <1>1, <2>1, <2>2 DEF Distinct, N
  <2>4. turn[n + 1] = WalkTurn(s, w)
    BY <1>0, <2>1
  <2>5. /\ s.out \in Seq(Words) /\ s.prev \in Nat /\ s.prev <= Len(s.out)
        /\ Len(s.out) \in Nat /\ Distinct(s.out)
        /\ WordsOf(s.out) \subseteq before /\ s \in WalkStates
    BY <1>3 DEF WalkStates
  <2>6. turn[n + 1] \in WalkStates
    BY <2>3, <2>4, <2>5, WalkTurnState
  <2> HIDE DEF w, s, before
  <2>7. CASE turn[n + 1].out = Append(s.out, w)
    <3>1. /\ WordsOf(Append(s.out, w)) = WordsOf(s.out) \cup {w}
          /\ Distinct(Append(s.out, w))
      BY <2>3, <2>5, AppendWords
    <3> QED
      BY <2>1, <2>2, <2>5, <2>6, <2>7, <3>1
  <2>8. CASE turn[n + 1].out = SubSeq(s.out, 1, s.prev)
    <3> DEFINE d == SubSeq(s.out, 1, s.prev)
    <3>1. Len(d) = s.prev /\ \A i \in 1..s.prev : d[i] = s.out[i] /\ i \in 1..Len(s.out)
      BY <2>5
    <3> HIDE DEF d
    <3>2. Distinct(d)
      BY <2>5, <3>1 DEF Distinct
    <3>3. WordsOf(d) \subseteq WordsOf(s.out)
      BY <3>1 DEF WordsOf
    <3> QED
      BY <2>1, <2>2, <2>5, <2>6, <2>8, <3>2, <3>3 DEF d
  <2>9. \/ WalkTurn(s, w).out = Append(s.out, w)
        \/ WalkTurn(s, w).out = SubSeq(s.out, 1, s.prev)
    BY DEF WalkTurn
  <2> QED
    BY <2>4, <2>7, <2>8, <2>9
<1>4. Good(N)
  <2>1. \A n \in 0..N : n \in S
    <3> HIDE DEF S
    <3> QED
      BY <1>1, <1>2, <1>3, UpTo
  <2> HIDE DEF Good
  <2> QED
    BY <1>1, <2>1
<1> QED
  BY <1>0, <1>4 DEF WalkStates, WordsOf, N

(* The locations of an entry are finitely many, among the files its word   *)
(* was given in; the file being parsed is one of them if it had the word.  *)
LEMMA LocationsFinite ==
  ASSUME SwapInv, NEW w \in Words
  PROVE  /\ IsFiniteSet(EntryFiles(w)) /\ Cardinality(EntryFiles(w)) \in Nat
         /\ Cardinality(EntryFiles(w)) = 0 <=> EntryFiles(w) = {}
         /\ EntryFiles(w) \subseteq GivenIn(w)
         /\ pc = "parsing" => /\ filenum \notin chunk[w] \cup old[w]
                              /\ filenum \in EntryFiles(w) <=> w \in doc
<1>1. Len(docs) \in Nat /\ filenum \in Nat /\ filenum \in 0..(Len(docs) + 1)
  BY DEF SwapInv, TableTypes, Numbered
<1>2. chunk[w] \cup old[w] \subseteq {n \in 1..Len(docs) : w \in docs[n]}
  BY DEF SwapInv, PackedInDocs
<1>3. fresh[w] # {} <=> pc = "parsing" /\ w \in doc
  BY DEF SwapInv, FreshIsDoc
<1>4. pc = "parsing" => filenum = Len(docs) + 1
  BY DEF SwapInv, Numbered
<1>5. EntryFiles(w) \subseteq GivenIn(w)
  BY <1>2, <1>3 DEF EntryFiles, GivenIn
<1>6. EntryFiles(w) \subseteq 0..(Len(docs) + 1)
  BY <1>1, <1>5 DEF GivenIn
<1>7. IsFiniteSet(0..(Len(docs) + 1))
  BY <1>1, FS_Interval
<1>8. IsFiniteSet(EntryFiles(w))
  BY <1>6, <1>7, FS_Subset
<1>9. /\ Cardinality(EntryFiles(w)) \in Nat
      /\ Cardinality(EntryFiles(w)) = 0 <=> EntryFiles(w) = {}
  BY <1>8, FS_CardinalityType, FS_EmptySet
<1>10. pc = "parsing" => filenum \notin chunk[w] \cup old[w]
  BY <1>1, <1>2, <1>4
<1> QED
  BY <1>3, <1>5, <1>8, <1>9, <1>10 DEF EntryFiles

LEMMA SwapStarts == TableInit /\ swap_locdata => SwapInv
<1> SUFFICES ASSUME TableInit, swap_locdata PROVE SwapInv
  OBVIOUS
<1> USE DEF TableInit
<1>1. TableTypes
  BY DEF TableTypes
<1>2. Numbered /\ FreshIsDoc /\ PackedInDocs /\ LastOK
  BY DEF Numbered, FreshIsDoc, PackedInDocs, LastOK
<1>3. ChainsOK
  BY DEF ChainsOK, Distinct, WordsOf
<1>4. \A w \in Words : EntryFiles(w) = {}
  BY DEF EntryFiles
<1> QED
  BY <1>1, <1>2, <1>3, <1>4, FS_EmptySet DEF SwapInv

(* getentry and addentry, whether the word's last entry was lost or not.   *)
LEMMA SwapAddWordStep ==
  ASSUME SwapInv, NEW w \in Words, NEW m \in Metas, AddWord(w, m)
  PROVE  SwapInv'
<1> USE DEF AddWord
<1>1. /\ TableTypes /\ Hash[w] \in Chains /\ filenum \in Nat /\ swap_locdata'
      /\ chain \in [Chains -> Seq(Words)] /\ \A h \in Chains : Distinct(chain[h])
  BY DEF SwapInv, TableTypes, ChainsOK, Chains
<1>2. /\ IsFiniteSet(EntryFiles(w)) /\ Cardinality(EntryFiles(w)) \in Nat
      /\ Cardinality(EntryFiles(w)) = 0 <=> EntryFiles(w) = {}
      /\ filenum \in EntryFiles(w) <=> w \in doc
  BY LocationsFinite
<1>3. /\ tfreq[w] = Cardinality(EntryFiles(w)) /\ (last[w] = filenum <=> w \in doc)
      /\ fresh[w] # {} <=> w \in doc
  BY DEF SwapInv, LastOK, FreshIsDoc
<1>4. \A v \in Words : fresh'[v] = IF v = w THEN fresh[w] \cup {m} ELSE fresh[v]
  BY <1>1 DEF TableTypes
<1>5. \A v \in Words :
        EntryFiles(v)' = IF v = w THEN EntryFiles(w) \cup {filenum} ELSE EntryFiles(v)
  BY <1>4 DEF EntryFiles
<1>6. Frequency(w, m) = Cardinality(EntryFiles(w) \cup {filenum})
  <2>1. Cardinality(EntryFiles(w) \cup {filenum})
          = IF filenum \in EntryFiles(w) THEN Cardinality(EntryFiles(w))
            ELSE Cardinality(EntryFiles(w)) + 1
    BY <1>2, FS_AddElement
  <2>2. CASE tfreq[w] = 0
    BY <1>2, <1>3, <2>1, <2>2 DEF Frequency
  <2>3. CASE tfreq[w] # 0
    BY <1>2, <1>3, <2>1, <2>3 DEF Frequency
  <2> QED
    BY <2>2, <2>3
<1>7. \A v \in Words : tfreq'[v] = Cardinality(EntryFiles(v)')
  <2> TAKE v \in Words
  <2>1. tfreq[v] = Cardinality(EntryFiles(v)) /\ tfreq \in [Words -> Nat]
    BY <1>1 DEF SwapInv, TableTypes
  <2>2. tfreq'[v] = IF v = w THEN Frequency(w, m) ELSE tfreq[v]
    BY <2>1
  <2> QED
    BY <1>5, <1>6, <2>1, <2>2
<1>8. /\ chain' \in [Chains -> Seq(Words)]
      /\ \A h \in Chains :
           /\ Distinct(chain'[h])
           /\ WordsOf(chain'[h]) \subseteq
                WordsOf(chain[h]) \cup (IF h = Hash[w] THEN {w} ELSE {})
  <2>1. CASE InTable(w)
    BY <1>1, <2>1 DEF GetEntry, TableTypes
  <2>2. CASE ~InTable(w)
    <3> DEFINE c == chain[Hash[w]]
               d == <<w>> \o c
    <3>1. w \notin WordsOf(c) /\ Distinct(c) /\ c \in Seq(Words)
      BY <1>1, <2>2 DEF InTable, WordsOf
    <3>2. chain' = [chain EXCEPT ![Hash[w]] = d]
      BY <2>2 DEF GetEntry
    <3> HIDE DEF c, d
    <3>3. \A h \in Chains : chain'[h] = IF h = Hash[w] THEN d ELSE chain[h]
      BY <1>1, <3>2
    <3>4. d \in Seq(Words) /\ WordsOf(d) = WordsOf(c) \cup {w} /\ Distinct(d)
      BY <3>1, PrependWords DEF d
    <3>5. chain' \in [Chains -> Seq(Words)]
      BY <1>1, <3>2, <3>4 DEF TableTypes
    <3> QED
      BY <1>1, <3>3, <3>4, <3>5 DEF c
  <2> QED
    BY <2>1, <2>2
<1>9. TableTypes'
  <2>1. Frequency(w, m) \in Nat
    BY <1>1 DEF Frequency, TableTypes
  <2>2. tfreq' \in [Words -> Nat] /\ last' \in [Words -> Nat]
    BY <1>1, <2>1 DEF TableTypes
  <2>3. fresh' \in [Words -> SUBSET Metas] /\ dirty' \subseteq Chains /\ doc' \subseteq Words
    BY <1>1 DEF TableTypes
  <2> QED
    BY <1>1, <1>8, <2>2, <2>3 DEF TableTypes
<1>10. Numbered' /\ PackedInDocs'
  BY DEF SwapInv, Numbered, PackedInDocs
<1>11. ChainsOK'
  BY <1>8 DEF SwapInv, ChainsOK
<1>12. FreshIsDoc'
  <2> SUFFICES ASSUME NEW v \in Words
               PROVE  /\ fresh'[v] # {} <=> v \in doc'
                      /\ fresh'[v] # {} => Hash[v] \in dirty'
    BY DEF FreshIsDoc
  <2>1. /\ fresh[v] # {} <=> v \in doc
        /\ fresh[v] # {} => Hash[v] \in dirty
    BY DEF SwapInv, FreshIsDoc
  <2> QED
    BY <1>4, <2>1
<1>13. LastOK'
  <2> SUFFICES ASSUME NEW v \in Words
               PROVE  last'[v] <= filenum /\ (last'[v] = filenum <=> v \in doc')
    BY DEF LastOK
  <2>1. last'[v] = IF v = w /\ (tfreq[w] = 0 \/ m \notin fresh[w]) THEN filenum ELSE last[v]
    BY <1>1 DEF TableTypes
  <2>2. last[v] <= filenum /\ (last[v] = filenum <=> v \in doc)
    BY DEF SwapInv, LastOK
  <2> QED
    BY <1>1, <1>3, <2>1, <2>2
<1> QED
  BY <1>1, <1>7, <1>9, <1>10, <1>11, <1>12, <1>13 DEF SwapInv

(* The end of a document, when locations may go to the files.              *)
LEMMA SwapEndDocStep == SwapInv /\ EndDoc => SwapInv'
<1> SUFFICES ASSUME SwapInv, EndDoc PROVE SwapInv'
  OBVIOUS
<1> USE DEF EndDoc
<1>1. TableTypes /\ filenum \in Nat /\ Len(docs) \in Nat /\ filenum = Len(docs) + 1
  BY DEF SwapInv, TableTypes, Numbered
<1>2. /\ Len(docs') = filenum /\ docs'[filenum] = doc
      /\ \A n \in 1..Len(docs) : docs'[n] = docs[n]
      /\ docs' \in Seq(SUBSET Words)
      /\ 1..Len(docs') = 1..Len(docs) \cup {filenum}
  BY <1>1 DEF TableTypes
<1>3. \A v \in Words :
        /\ fresh[v] # {} <=> v \in doc
        /\ fresh[v] # {} => Hash[v] \in dirty
  BY DEF SwapInv, FreshIsDoc
<1>4. \A v \in Words : fresh'[v] = {}
  BY <1>3
<1>5. \A v \in Words : chunk'[v] \cup old'[v] = EntryFiles(v)
  <2> TAKE v \in Words
  <2>1. Packed(v) = chunk[v] \cup (IF fresh[v] # {} THEN {filenum} ELSE {})
    BY <1>3 DEF Packed
  <2>2. \/ old'[v] = old[v] \cup Packed(v) /\ chunk'[v] = {}
        \/ old'[v] = old[v] /\ chunk'[v] = Packed(v)
    OBVIOUS
  <2> QED
    BY <2>1, <2>2 DEF EntryFiles
<1>6. \A v \in Words : EntryFiles(v)' = EntryFiles(v)
  BY <1>4, <1>5 DEF EntryFiles
<1>7. TableTypes'
  <2>1. \A v \in Words : Packed(v) \in SUBSET Nat
    BY <1>1 DEF Packed, TableTypes
  <2>2. chunk' \in [Words -> SUBSET Nat] /\ old' \in [Words -> SUBSET Nat]
    BY <1>1, <2>1 DEF TableTypes
  <2>3. fresh' \in [Words -> SUBSET Metas]
    BY <1>1 DEF TableTypes
  <2> QED
    BY <1>1, <1>2, <2>2, <2>3 DEF TableTypes
<1>8. Numbered' /\ ChainsOK' /\ FreshIsDoc' /\ LastOK'
  BY <1>1, <1>2, <1>4 DEF SwapInv, Numbered, ChainsOK, FreshIsDoc, LastOK
<1>9. PackedInDocs'
  <2> SUFFICES ASSUME NEW v \in Words
               PROVE  EntryFiles(v) \subseteq {n \in 1..Len(docs') : v \in docs'[n]}
    BY <1>5 DEF PackedInDocs
  <2>1. chunk[v] \cup old[v] \subseteq {n \in 1..Len(docs) : v \in docs[n]}
    BY DEF SwapInv, PackedInDocs
  <2> QED
    BY <1>2, <1>3, <2>1 DEF EntryFiles
<1>10. swap_locdata'
  BY DEF SwapInv
<1> QED
  BY <1>6, <1>7, <1>8, <1>9, <1>10 DEF SwapInv

(* remove_last_file_from_list: the entries it unlinks or cuts off are gone *)
(* with all they have, the others lose the document.                       *)
LEMMA SwapAbortDocStep == SwapInv /\ AbortDoc => SwapInv'
<1> SUFFICES ASSUME SwapInv, AbortDoc PROVE SwapInv'
  OBVIOUS
<1> USE DEF AbortDoc
<1> DEFINE takenFrom == {w \in Words : Hash[w] \in dirty /\ Touched(w)}
           lost == {w \in Words : ~InTable(w)'}
<1>1. TableTypes /\ filenum \in Nat /\ Len(docs) \in Nat /\ filenum = Len(docs) + 1
      /\ swap_locdata'
  BY DEF SwapInv, TableTypes, Numbered
<1>2. \A v \in Words : (v \in takenFrom <=> v \in doc) /\ (fresh[v] # {} <=> v \in doc)
  BY DEF SwapInv, FreshIsDoc, Touched
<1>3. \A v \in Words :
        /\ fresh'[v] = IF v \in takenFrom \/ v \in lost THEN {} ELSE fresh[v]
        /\ chunk'[v] = IF v \in lost THEN {} ELSE chunk[v]
        /\ old'[v] = IF v \in lost THEN {} ELSE old[v]
        /\ tfreq'[v] = IF v \in lost THEN 0
                       ELSE IF v \in takenFrom THEN tfreq[v] - 1 ELSE tfreq[v]
        /\ last'[v] = IF v \in lost THEN 0
                      ELSE IF v \in takenFrom THEN 0 ELSE last[v]
  BY DEF RemovedLast
<1>4. /\ fresh' \in [Words -> SUBSET Metas]
      /\ chunk' \in [Words -> SUBSET Nat] /\ old' \in [Words -> SUBSET Nat]
      /\ last' \in [Words -> Nat]
  BY <1>1 DEF TableTypes, RemovedLast
<1>5. \A h \in Chains : /\ chain'[h] \in Seq(Words) /\ Distinct(chain'[h])
                        /\ WordsOf(chain'[h]) \subseteq WordsOf(chain[h])
  <2> TAKE h \in Chains
  <2>1. chain[h] \in Seq(Words) /\ Distinct(chain[h])
    BY <1>1 DEF SwapInv, TableTypes, ChainsOK
  <2> QED
    BY <2>1, WalkDistinct
<1>6. chain' \in [Chains -> Seq(Words)]
  <2>1. chain' = [h \in Chains |-> IF h \in dirty THEN Walk(chain[h]) ELSE chain[h]]
    OBVIOUS
  <2>2. chain' = [h \in Chains |-> chain'[h]]
    BY <2>1
  <2> QED
    BY <1>5, <2>2
<1>t. /\ tfreq' = [w \in Words |-> tfreq'[w]] /\ pc' = "between"
      /\ UNCHANGED <<docs, doc, stop>> /\ filenum' = filenum - 1 /\ dirty' = {}
  OBVIOUS
<1> HIDE DEF AbortDoc, takenFrom, lost
<1>7. \A v \in Words : tfreq'[v] = Cardinality(EntryFiles(v)') /\ tfreq'[v] \in Nat
  <2> TAKE v \in Words
  <2>1. /\ IsFiniteSet(EntryFiles(v)) /\ Cardinality(EntryFiles(v)) \in Nat
        /\ filenum \notin chunk[v] \cup old[v]
    <3>1. pc = "parsing"
      BY DEF AbortDoc
    <3> QED
      BY <3>1, LocationsFinite
  <2>2. tfreq[v] = Cardinality(EntryFiles(v))
    BY DEF SwapInv
  <2>3. fresh'[v] = {}
    BY <1>2, <1>3
  <2>4. CASE v \in lost
    <3>1. EntryFiles(v)' = {} /\ tfreq'[v] = 0
      BY <1>3, <2>3, <2>4 DEF EntryFiles
    <3> QED
      BY <3>1, FS_EmptySet
  <2>5. CASE v \notin lost /\ v \in doc
    <3> DEFINE G == chunk[v] \cup old[v]
    <3>1. EntryFiles(v)' = G /\ EntryFiles(v) = G \cup {filenum} /\ tfreq'[v] = tfreq[v] - 1
      BY <1>2, <1>3, <2>3, <2>5 DEF EntryFiles
    <3> HIDE DEF G
    <3>2. IsFiniteSet(G)
      BY <2>1, <3>1, FS_Subset
    <3>3. Cardinality(G \cup {filenum}) = Cardinality(G) + 1 /\ Cardinality(G) \in Nat
      BY <2>1, <3>2, FS_AddElement, FS_CardinalityType DEF G
    <3>4. tfreq[v] = Cardinality(G) + 1
      BY <2>2, <3>1, <3>3
    <3>5. tfreq'[v] = Cardinality(G)
      BY <3>1, <3>3, <3>4
    <3> QED
      BY <3>1, <3>3, <3>5
  <2>6. CASE v \notin lost /\ v \notin doc
    <3>1. EntryFiles(v)' = EntryFiles(v) /\ tfreq'[v] = tfreq[v]
      BY <1>2, <1>3, <2>3, <2>6 DEF EntryFiles
    <3> QED
      BY <2>1, <2>2, <3>1
  <2> QED
    BY <2>4, <2>5, <2>6
<1>8. TableTypes'
  <2>1. tfreq' \in [Words -> Nat]
    BY <1>7, <1>t
  <2> QED
    BY <1>1, <1>4, <1>6, <1>t, <2>1 DEF TableTypes
<1>9. Numbered' /\ FreshIsDoc'
  BY <1>1, <1>2, <1>3, <1>t DEF Numbered, FreshIsDoc
<1>10. ChainsOK'
  BY <1>5 DEF SwapInv, ChainsOK
<1>11. PackedInDocs'
  <2> SUFFICES ASSUME NEW v \in Words
               PROVE  chunk'[v] \cup old'[v] \subseteq {n \in 1..Len(docs) : v \in docs[n]}
    BY <1>t DEF PackedInDocs
  <2> QED
    BY <1>3 DEF SwapInv, PackedInDocs
<1>12. LastOK'
  <2> SUFFICES ASSUME NEW v \in Words PROVE last'[v] <= filenum - 1
    BY <1>t DEF LastOK
  <2>1. pc = "parsing"
    BY DEF AbortDoc
  <2>2. last[v] \in Nat /\ last[v] <= filenum /\ (last[v] = filenum <=> v \in doc)
    BY <1>1, <2>1 DEF SwapInv, LastOK, TableTypes
  <2>3. last'[v] = 0 \/ (v \notin doc /\ last'[v] = last[v])
    BY <1>2, <1>3
  <2> QED
    BY <1>1, <2>2, <2>3
<1> QED
  BY <1>1, <1>7, <1>8, <1>9, <1>10, <1>11, <1>12 DEF SwapInv

(* The other steps.                                                        *)
LEMMA SwapOtherStep ==
  ASSUME SwapInv, BeginDoc \/ WriteTable \/ UNCHANGED tableVars
  PROVE  SwapInv'
<1>1. TableTypes /\ filenum \in Nat /\ Len(docs) \in Nat /\ swap_locdata
  BY DEF SwapInv, TableTypes
<1>2. CASE BeginDoc
  <2> USE <1>2 DEF BeginDoc, entryVars
  <2>1. /\ fresh \in [Words -> SUBSET Metas] /\ \A w \in Words : fresh[w] = {}
    BY <1>1 DEF SwapInv, FreshIsDoc, TableTypes
  <2>2. \A w \in Words : EntryFiles(w)' = EntryFiles(w)
    BY <2>1 DEF EntryFiles
  <2>3. TableTypes'
    BY <1>1 DEF TableTypes
  <2>4. Numbered' /\ ChainsOK' /\ FreshIsDoc' /\ PackedInDocs'
    BY <1>1 DEF SwapInv, Numbered, ChainsOK, FreshIsDoc, PackedInDocs
  <2>5. LastOK'
    BY <1>1 DEF SwapInv, LastOK, TableTypes
  <2> QED
    BY <1>1, <2>2, <2>3, <2>4, <2>5 DEF SwapInv
<1>3. CASE WriteTable
  <2> USE <1>3 DEF WriteTable
  <2> DEFINE common == {w \in Words : InTable(w) /\ TooCommon(w)}
  <2>1. /\ \A h \in Chains : chain'[h] = Unlisted(chain[h], common)
        /\ common \subseteq Words
        /\ chain' = [h \in Chains |-> chain'[h]]
    OBVIOUS
  <2> HIDE DEF common
  <2>2. \A h \in Chains : /\ chain'[h] \in Seq(Words) /\ Distinct(chain'[h])
                          /\ WordsOf(chain'[h]) \subseteq WordsOf(chain[h])
    <3> TAKE h \in Chains
    <3>1. chain[h] \in Seq(Words) /\ Distinct(chain[h])
      BY <1>1 DEF SwapInv, TableTypes, ChainsOK
    <3> QED
      BY <2>1, <3>1, UnlistedWords
  <2>3. \A w \in Words : chunk'[w] \cup old'[w] = chunk[w] \cup old[w]
    OBVIOUS
  <2>4. \A w \in Words : EntryFiles(w)' = EntryFiles(w)
    BY <2>3 DEF EntryFiles
  <2>5. TableTypes'
    <3>1. chain' \in [Chains -> Seq(Words)]
      BY <2>1, <2>2
    <3>2. chunk' \in [Words -> SUBSET Nat] /\ old' \in [Words -> SUBSET Nat]
      BY <1>1 DEF TableTypes
    <3> QED
      BY <1>1, <2>1, <3>1, <3>2 DEF TableTypes
  <2>6. ChainsOK'
    BY <2>2 DEF SwapInv, ChainsOK
  <2>7. Numbered' /\ FreshIsDoc' /\ LastOK'
    BY DEF SwapInv, Numbered, FreshIsDoc, LastOK
  <2>8. PackedInDocs'
    BY <2>3 DEF SwapInv, PackedInDocs
  <2> QED
    BY <1>1, <2>4, <2>5, <2>6, <2>7, <2>8 DEF SwapInv
<1>4. CASE UNCHANGED tableVars
  <2> USE <1>4 DEF tableVars
  <2>1. \A w \in Words : EntryFiles(w)' = EntryFiles(w)
    BY DEF EntryFiles
  <2> QED
    BY <2>1 DEF SwapInv, TableTypes, Numbered, ChainsOK, FreshIsDoc,
                PackedInDocs, LastOK
<1> QED
  BY <1>2, <1>3, <1>4

LEMMA SwapStep == SwapInv /\ [TableNext]_tableVars => SwapInv'
<1> SUFFICES ASSUME SwapInv, [TableNext]_tableVars PROVE SwapInv'
  OBVIOUS
<1>1. CASE EndDoc
  BY <1>1, SwapEndDocStep
<1>2. CASE AbortDoc
  BY <1>2, SwapAbortDocStep
<1>3. CASE \E w \in Words, m \in Metas : AddWord(w, m)
  BY <1>3, SwapAddWordStep
<1>4. CASE BeginDoc \/ WriteTable \/ UNCHANGED tableVars
  BY <1>4, SwapOtherStep
<1> QED
  BY <1>1, <1>2, <1>3, <1>4 DEF TableNext

LEMMA SwapInvGivesExact == SwapInv => EntriesExact
<1> SUFFICES ASSUME SwapInv PROVE EntriesExact
  OBVIOUS
<1>1. \A w \in Words : Linked(w) <= 1
  BY LinkedOnce DEF SwapInv, ChainsOK, Chains
<1>2. \A w \in Words : EntryFiles(w) \subseteq GivenIn(w)
  BY LocationsFinite
<1>3. \A w \in Words : tfreq[w] = Cardinality(EntryFiles(w))
  BY DEF SwapInv
<1> QED
  BY <1>1, <1>2, <1>3 DEF EntriesExact, NothingLeft, SwapInv

(* Without option -e the word table always holds what the documents kept   *)
(* gave it: each of their words can be reached, once, with exactly the     *)
(* files it was given in, and no word or location of an aborted document   *)
(* is left, whatever the order of documents, words and aborts.  With it    *)
(* nothing of an aborted document is left, and frequencies fit locations,  *)
(* but kept documents' words may be missing (index.c).                     *)
THEOREM EntriesExactAlways == TableSpec => []EntriesExact
<1>1. TableInit => TableInv \/ SwapInv
  BY TableStarts, SwapStarts
<1>2. (TableInv \/ SwapInv) /\ [TableNext]_tableVars => (TableInv \/ SwapInv)'
  BY TableStep, SwapStep
<1>3. TableInv \/ SwapInv => EntriesExact
  BY TableInvGivesExact, SwapInvGivesExact
<1> QED
  BY <1>1, <1>2, <1>3, PTL DEF TableSpec

-----------------------------------------------------------------------------
(***************************************************************************)
(* Merging indexes: sequences put together.                                *)
(***************************************************************************)

(* The elements of a concatenation are those of its parts.                 *)
LEMMA ConcatElements ==
  ASSUME NEW S, NEW s \in Seq(S), NEW t \in Seq(S)
  PROVE  /\ s \o t \in Seq(S)
         /\ \A x : x \in ToSet(s \o t) <=> x \in ToSet(s) \/ x \in ToSet(t)
<1>1. s \o t \in Seq(S)
  OBVIOUS
<1>2. PICK m \in Nat, n \in Nat : m = Len(s) /\ n = Len(t)
  OBVIOUS
<1>3. DOMAIN s = 1..m /\ DOMAIN t = 1..n /\ DOMAIN (s \o t) = 1..(m + n)
  BY <1>2
<1>4. /\ \A i \in 1..m : (s \o t)[i] = s[i]
      /\ \A i \in 1..n : (s \o t)[m + i] = t[i]
  BY <1>2
<1>5. ASSUME NEW x, x \in ToSet(s \o t) PROVE x \in ToSet(s) \/ x \in ToSet(t)
  <2>1. PICK i \in 1..(m + n) : x = (s \o t)[i]
    BY <1>3, <1>5 DEF ToSet
  <2>2. CASE i <= m
    <3>1. i \in 1..m
      BY <2>2
    <3> QED
      BY <1>3, <1>4, <2>1, <3>1 DEF ToSet
  <2>3. CASE i > m
    <3>1. i - m \in 1..n /\ m + (i - m) = i
      BY <2>3
    <3>2. x = t[i - m]
      BY <1>4, <2>1, <3>1
    <3> QED
      BY <1>3, <3>1, <3>2 DEF ToSet
  <2> QED
    BY <2>2, <2>3
<1>6. ASSUME NEW x, x \in ToSet(s) PROVE x \in ToSet(s \o t)
  <2>1. PICK i \in 1..m : x = s[i]
    BY <1>3, <1>6 DEF ToSet
  <2>2. i \in 1..(m + n)
    OBVIOUS
  <2> QED
    BY <1>3, <1>4, <2>1, <2>2 DEF ToSet
<1>7. ASSUME NEW x, x \in ToSet(t) PROVE x \in ToSet(s \o t)
  <2>1. PICK i \in 1..n : x = t[i]
    BY <1>3, <1>7 DEF ToSet
  <2>2. m + i \in 1..(m + n)
    OBVIOUS
  <2> QED
    BY <1>3, <1>4, <2>1, <2>2 DEF ToSet
<1> QED
  BY <1>1, <1>5, <1>6, <1>7

(* FlattenSeq, as a function that puts the parts together one by one.      *)
PartsOf(f, ss, n) ==
  /\ f = [i \in 1..n |-> f[i]] /\ f[1] = ss[1]
  /\ \A i \in 2..n : f[i] = f[i - 1] \o ss[i]

(* There is such a function.                                               *)
LEMMA PartsExist ==
  ASSUME NEW ss, NEW N \in Nat
  PROVE  \E f : PartsOf(f, ss, N + 1)
<1> DEFINE Good(n) == \E f : PartsOf(f, ss, n + 1)
           G == {n \in 0..N : Good(n)}
<1>1. 0 \in G
  <2> DEFINE f == [i \in 1..1 |-> ss[1]]
  <2>1. f = [i \in 1..(0 + 1) |-> f[i]] /\ f[1] = ss[1] /\ \A i \in 2..(0 + 1) : f[i] = f[i - 1] \o ss[i]
    OBVIOUS
  <2>2. Good(0)
    <3> HIDE DEF f
    <3> QED
      BY <2>1 DEF PartsOf
  <2> HIDE DEF Good
  <2> QED
    BY <2>2
<1>2. ASSUME NEW n \in 0..(N - 1), n \in G PROVE n + 1 \in G
  <2>1. PICK f : PartsOf(f, ss, n + 1)
    BY <1>2
  <2> DEFINE g == [i \in 1..(n + 2) |-> IF i = n + 2 THEN f[n + 1] \o ss[n + 2] ELSE f[i]]
  <2>2. g = [i \in 1..((n + 1) + 1) |-> g[i]]
    OBVIOUS
  <2>3. g[1] = ss[1]
    BY <2>1 DEF PartsOf
  <2>4. ASSUME NEW i \in 2..((n + 1) + 1) PROVE g[i] = g[i - 1] \o ss[i]
    <3>1. CASE i = n + 2
      <4>1. i - 1 = n + 1 /\ n + 1 \in 1..(n + 2) /\ n + 1 # n + 2 /\ i \in 1..(n + 2)
        BY <3>1
      <4>2. g[n + 1] = f[n + 1]
        BY <4>1
      <4>3. g[i] = f[n + 1] \o ss[i]
        BY <3>1, <4>1
      <4> HIDE DEF g
      <4> QED
        BY <4>1, <4>2, <4>3
    <3>2. CASE i # n + 2
      <4>1. i \in 2..(n + 1) /\ g[i] = f[i] /\ g[i - 1] = f[i - 1]
        BY <3>2
      <4> HIDE DEF g
      <4> QED
        BY <2>1, <4>1 DEF PartsOf
    <3> QED
      BY <3>1, <3>2
  <2>5. Good(n + 1)
    <3> HIDE DEF g
    <3> QED
      BY <2>2, <2>3, <2>4 DEF PartsOf
  <2> HIDE DEF Good
  <2> QED
    BY <2>5
<1>3. \A n \in 0..N : n \in G
  <2> HIDE DEF G
  <2> QED
    BY <1>1, <1>2, UpTo
<1> QED
  BY <1>3

(* The elements of a sequence of sequences flattened are those of its      *)
(* parts.                                                                  *)
LEMMA Flattened ==
  ASSUME NEW S, NEW ss \in Seq(Seq(S))
  PROVE  /\ FlattenSeq(ss) \in Seq(S)
         /\ \A x : x \in ToSet(FlattenSeq(ss)) <=> \E i \in DOMAIN ss : x \in ToSet(ss[i])
<1>1. PICK N \in Nat : N = Len(ss)
  OBVIOUS
<1>2. DOMAIN ss = 1..N /\ \A i \in 1..N : ss[i] \in Seq(S)
  BY <1>1
<1>3. CASE N = 0
  <2>1. Len(ss) = 0 /\ DOMAIN ss = {}
    BY <1>1, <1>2, <1>3
  <2>2. FlattenSeq(ss) = ss
    BY Zenon, <2>1 DEF FlattenSeq
  <2>3. ss = <<>>
    <3>1. \A X : ss \in Seq(X) /\ Len(ss) = 0 => ss = <<>>
      OBVIOUS
    <3> QED
      BY <2>1, <3>1
  <2>4. ToSet(ss) = {}
    BY <2>1 DEF ToSet
  <2>5. <<>> \in Seq(S)
    OBVIOUS
  <2> QED
    BY <2>1, <2>2, <2>3, <2>4, <2>5
<1>4. CASE N # 0
  <2> DEFINE flatten[i \in 1..Len(ss)] == IF i = 1 THEN ss[i] ELSE flatten[i - 1] \o ss[i]
  <2>1. FlattenSeq(ss) = flatten[N]
    BY <1>1, <1>4 DEF FlattenSeq
  <2>2. PICK f : PartsOf(f, ss, N)
    <3>1. N - 1 \in Nat /\ (N - 1) + 1 = N
      BY <1>4
    <3> QED
      BY <3>1, PartsExist
  <2>3. f = [i \in 1..N |-> IF i = 1 THEN ss[i] ELSE f[i - 1] \o ss[i]]
    <3> HIDE DEF flatten
    <3> DEFINE h == [i \in 1..N |-> IF i = 1 THEN ss[i] ELSE f[i - 1] \o ss[i]]
    <3>1. \A i \in 1..N : i = 1 \/ i \in 2..N
      OBVIOUS
    <3>2. \A i \in 1..N : f[i] = h[i]
      BY <2>2, <3>1 DEF PartsOf
    <3>3. f = [i \in 1..N |-> f[i]] /\ h = [i \in 1..N |-> h[i]]
      BY <2>2 DEF PartsOf
    <3> QED
      BY <3>2, <3>3
  <2>4. flatten = [i \in 1..N |-> IF i = 1 THEN ss[i] ELSE flatten[i - 1] \o ss[i]]
    BY <1>1, <2>3
  <2>5. flatten[1] = ss[1] /\ \A i \in 2..N : flatten[i] = flatten[i - 1] \o ss[i]
    <3> HIDE DEF flatten
    <3>1. \A i \in 1..N : flatten[i] = IF i = 1 THEN ss[i] ELSE flatten[i - 1] \o ss[i]
      BY Zenon, <2>4
    <3>2. 1 \in 1..N /\ \A i \in 2..N : i \in 1..N /\ i # 1
      BY <1>4
    <3> QED
      BY <3>1, <3>2
  <2> HIDE DEF flatten
  <2> DEFINE Good(n) == /\ flatten[n] \in Seq(S)
                        /\ \A x : x \in ToSet(flatten[n]) <=> \E i \in 1..n : x \in ToSet(ss[i])
             G == {n \in 0..(N - 1) : Good(n + 1)}
  <2>6. 0 \in G
    <3>1. Good(0 + 1)
      BY <1>2, <1>4, <2>5
    <3> HIDE DEF Good
    <3> QED
      BY <1>4, <3>1
  <2>7. ASSUME NEW n \in 0..((N - 1) - 1), n \in G PROVE n + 1 \in G
    <3>1. Good(n + 1) /\ n + 1 \in 0..(N - 1)
      BY <2>7
    <3>2. (n + 1) + 1 \in 2..N /\ (n + 1) + 1 \in 1..N /\ ((n + 1) + 1) - 1 = n + 1
      OBVIOUS
    <3>3. flatten[(n + 1) + 1] = flatten[n + 1] \o ss[(n + 1) + 1] /\ ss[(n + 1) + 1] \in Seq(S)
      BY <1>2, <2>5, <3>2
    <3>4. flatten[n + 1] \in Seq(S)
      BY <3>1
    <3>5. /\ flatten[(n + 1) + 1] \in Seq(S)
          /\ \A x : x \in ToSet(flatten[(n + 1) + 1]) <=>
                      x \in ToSet(flatten[n + 1]) \/ x \in ToSet(ss[(n + 1) + 1])
      BY <3>3, <3>4, ConcatElements
    <3>6. 1..((n + 1) + 1) = 1..(n + 1) \cup {(n + 1) + 1}
      OBVIOUS
    <3>7. Good((n + 1) + 1)
      BY <3>1, <3>5, <3>6
    <3> HIDE DEF Good
    <3> QED
      BY <3>1, <3>7
  <2>8. \A n \in 0..(N - 1) : n \in G
    <3> HIDE DEF G
    <3>1. N - 1 \in Nat
      BY <1>4
    <3> QED
      BY <2>6, <2>7, <3>1, UpTo
  <2>9. Good(N)
    <3>1. N - 1 \in 0..(N - 1) /\ (N - 1) + 1 = N
      BY <1>4
    <3> HIDE DEF Good
    <3> QED
      BY <2>8, <3>1
  <2> QED
    BY <1>2, <2>1, <2>9
<1> QED
  BY <1>3, <1>4

-----------------------------------------------------------------------------
(***************************************************************************)
(* Merging indexes: the metanames of the output.                           *)
(***************************************************************************)

LEMMA SeqFacts ==
  ASSUME NEW s, IsSeq(s)
  PROVE  Len(s) \in Nat /\ DOMAIN s = 1..Len(s)
BY DEF IsSeq

LEMMA SeqOfAny ==
  ASSUME NEW X, NEW s \in Seq(X)
  PROVE  IsSeq(s)
<1>1. PICK n \in Nat : n = Len(s)
  OBVIOUS
<1>2. \A i \in 1..n : s[i] \in ToSet(s)
  BY <1>1 DEF ToSet
<1>3. s \in [1..n -> ToSet(s)]
  BY <1>1, <1>2
<1> QED
  BY <1>3 DEF IsSeq

LEMMA Appended ==
  ASSUME NEW s, IsSeq(s), NEW x
  PROVE  /\ IsSeq(Append(s, x)) /\ Len(Append(s, x)) = Len(s) + 1
         /\ DOMAIN Append(s, x) = DOMAIN s \cup {Len(s) + 1}
         /\ Len(s) + 1 \notin DOMAIN s
         /\ \A i \in DOMAIN s : Append(s, x)[i] = s[i]
         /\ Append(s, x)[Len(s) + 1] = x
<1> DEFINE X == ToSet(s) \cup {x}
<1>1. PICK n \in Nat : n = Len(s)
  BY SeqFacts
<1>2. s \in Seq(X)
  BY DEF IsSeq
<1>3. Append(s, x) \in Seq(X)
  <2> HIDE DEF X
  <2>1. x \in X
    BY DEF X
  <2> QED
    BY <1>2, <2>1
<1>4. IsSeq(Append(s, x))
  <2> HIDE DEF X
  <2> QED
    BY <1>3, SeqOfAny
<1>5. 1..(n + 1) = 1..n \cup {n + 1} /\ n + 1 \notin 1..n
  OBVIOUS
<1> HIDE DEF X
<1>6. Len(Append(s, x)) = n + 1 /\ DOMAIN s = 1..n /\ DOMAIN Append(s, x) = 1..(n + 1)
  BY <1>1, <1>2, <1>3
<1>7. \A i \in 1..n : Append(s, x)[i] = s[i]
  BY <1>1, <1>2
<1>8. Append(s, x)[n + 1] = x
  BY <1>1, <1>2
<1> QED
  BY <1>1, <1>4, <1>5, <1>6, <1>7, <1>8

LEMMA Replaced ==
  ASSUME NEW s, IsSeq(s), NEW x, NEW i \in DOMAIN s
  PROVE  /\ IsSeq([s EXCEPT ![i] = x]) /\ DOMAIN [s EXCEPT ![i] = x] = DOMAIN s
         /\ [s EXCEPT ![i] = x][i] = x
         /\ \A k \in DOMAIN s : k # i => [s EXCEPT ![i] = x][k] = s[k]
<1> DEFINE t == [s EXCEPT ![i] = x]
           X == ToSet(s) \cup {x}
<1>1. PICK n \in Nat : n = Len(s) /\ DOMAIN s = 1..n
  BY SeqFacts
<1>2. DOMAIN t = DOMAIN s /\ t[i] = x /\ \A k \in DOMAIN s : k # i => t[k] = s[k]
  BY <1>1 DEF IsSeq
<1>3. \A k \in 1..n : t[k] \in X
  BY <1>1, <1>2 DEF ToSet
<1>4. t = [k \in 1..n |-> t[k]]
  BY <1>1 DEF IsSeq
<1>5. t \in Seq(X)
  <2> HIDE DEF t, X
  <2>1. t \in [1..n -> X]
    BY <1>3, <1>4
  <2> QED
    BY <2>1
<1>6. IsSeq(t)
  <2> HIDE DEF t, X
  <2> QED
    BY <1>5, SeqOfAny
<1> QED
  BY <1>2, <1>6

(* Names stand for one metaname each.                                      *)
OneEach(metas) == \A m, k \in DOMAIN metas : metas[m].name = metas[k].name => m = k

(* ByName finds the metaname of that name, or 0 if there is none.          *)
LEMMA ByNameIs ==
  ASSUME NEW metas, IsSeq(metas), OneEach(metas), NEW name
  PROVE  /\ \A m \in DOMAIN metas : metas[m].name = name => ByName(metas, name) = m
         /\ ByName(metas, name) = 0 \/ ByName(metas, name) \in DOMAIN metas
         /\ ByName(metas, name) # 0 => metas[ByName(metas, name)].name = name
         /\ 0 \notin DOMAIN metas
<1> DEFINE S == {m \in DOMAIN metas : metas[m].name = name}
<1>1. DOMAIN metas \subseteq Nat \ {0}
  BY SeqFacts
<1>2. ByName(metas, name) = CHOOSE x \in {0} \cup S : \A y \in {0} \cup S : x >= y
  BY DEF ByName, Max
<1>3. CASE S = {}
  <2>1. \A m \in DOMAIN metas : metas[m].name # name
    BY <1>3
  <2>2. \E x \in {0} \cup S : \A y \in {0} \cup S : x >= y
    BY <1>3
  <2>3. ByName(metas, name) = 0
    BY <1>2, <1>3, <2>2
  <2> QED
    BY <1>1, <2>1, <2>3
<1>4. CASE S # {}
  <2>1. PICK m \in DOMAIN metas : metas[m].name = name
    BY <1>4
  <2>2. S = {m}
    BY <2>1 DEF OneEach
  <2>3. m \in Nat /\ m > 0
    BY <1>1
  <2>4. \E x \in {0} \cup S : \A y \in {0} \cup S : x >= y
    BY <2>2, <2>3
  <2>5. ByName(metas, name) \in {0} \cup S /\ \A y \in {0} \cup S : ByName(metas, name) >= y
    BY <1>2, <2>4
  <2>6. ByName(metas, name) = m
    BY <2>2, <2>3, <2>5
  <2> QED
    BY <1>1, <2>1, <2>6 DEF OneEach
<1> QED
  BY <1>3, <1>4

(* The metaname is in the output then, and the others are as they were.    *)
LEMMA GrownIs ==
  ASSUME NEW out, IsSeq(out), OneEach(out), NEW meta, NEW o, o = Grown(out, meta)
  PROVE  /\ IsSeq(o) /\ OneEach(o)
         /\ DOMAIN out \subseteq DOMAIN o
         /\ \A m \in DOMAIN out : o[m] = out[m]
         /\ \A m \in DOMAIN o \ DOMAIN out : o[m].alias = 0
         /\ ByName(o, meta.name) \in DOMAIN o
<1> DEFINE e == MetaEntry(meta.name, meta.kind, 0)
<1>1. e.name = meta.name /\ e.alias = 0
  BY DEF MetaEntry
<1>2. CASE ByName(out, meta.name) # 0
  <2>1. o = out
    BY <1>2 DEF Grown
  <2> QED
    BY <1>2, <2>1, ByNameIs
<1>3. CASE ByName(out, meta.name) = 0
  <2>1. o = Append(out, e)
    BY <1>3 DEF Grown
  <2>2. \A m \in DOMAIN out : out[m].name # meta.name
    BY <1>3, ByNameIs
  <2> HIDE DEF e
  <2>3. /\ IsSeq(o)
        /\ DOMAIN o = DOMAIN out \cup {Len(out) + 1} /\ Len(out) + 1 \notin DOMAIN out
        /\ \A m \in DOMAIN out : o[m] = out[m]
        /\ o[Len(out) + 1] = e
    BY <2>1, Appended
  <2>4. OneEach(o)
    BY <1>1, <2>2, <2>3 DEF OneEach
  <2>5. ByName(o, meta.name) = Len(out) + 1
    BY <1>1, <2>3, <2>4, ByNameIs
  <2> QED
    BY <1>1, <2>3, <2>4, <2>5
<1> QED
  BY <1>2, <1>3

(* Only what a metaname is an alias for changes, and no name.              *)
LEMMA AliasedIs ==
  ASSUME NEW out, IsSeq(out), OneEach(out), NEW id \in DOMAIN out, NEW base
  PROVE  LET o == Aliased(out, id, base) IN
         /\ IsSeq(o) /\ OneEach(o) /\ DOMAIN o = DOMAIN out
         /\ \A m \in DOMAIN out : o[m].name = out[m].name
         /\ \A m \in DOMAIN out : m # id \/ base = 0 => o[m].alias = out[m].alias
         /\ base # 0 => o[id].alias = base
<1> DEFINE o == Aliased(out, id, base)
           e == MetaEntry(out[id].name, out[id].kind, base)
<1>1. CASE base = 0
  <2>1. o = out
    BY <1>1 DEF Aliased
  <2> QED
    BY <1>1, <2>1
<1>2. CASE base # 0
  <2>1. o = [out EXCEPT ![id] = e]
    BY <1>2 DEF Aliased
  <2>2. e.name = out[id].name /\ e.alias = base
    BY DEF MetaEntry
  <2> HIDE DEF e
  <2>3. /\ IsSeq(o) /\ DOMAIN o = DOMAIN out /\ o[id] = e
        /\ \A k \in DOMAIN out : k # id => o[k] = out[k]
    BY <2>1, Replaced, ZenonT(60)
  <2> HIDE DEF o
  <2>4. \A m \in DOMAIN out : o[m].name = out[m].name
    BY <2>2, <2>3
  <2>5. OneEach(o)
    BY <2>3, <2>4 DEF OneEach
  <2> QED
    BY <1>2, <2>2, <2>3, <2>4, <2>5 DEF o
<1> QED
  BY <1>1, <1>2

-----------------------------------------------------------------------------
(* make_meta_map.                                                          *)

MetasOK(metas) ==
  /\ IsSeq(metas) /\ OneEach(metas)
  /\ \A m \in DOMAIN metas : metas[m].alias \in 0..(m - 1)

(* The aliases of the output are those of an index.                        *)
IsAliasIn(metas, name, base) ==
  \E m \in DOMAIN metas :
    metas[m].alias # 0 /\ metas[m].name = name /\ metas[metas[m].alias].name = base
AliasFrom(out, list) ==
  \A m \in DOMAIN out : out[m].alias # 0 =>
    /\ out[m].alias \in DOMAIN out
    /\ \E i \in DOMAIN list : IsAliasIn(list[i].metas, out[m].name, out[out[m].alias].name)

(* The first n metanames have the numbers of their names in the output.    *)
MapsTo(out, map, metas, n) ==
  /\ IsSeq(map) /\ Len(map) = n
  /\ \A m \in 1..n : map[m] \in DOMAIN out /\ out[map[m]].name = metas[m].name
AliasesKept(out, map, metas, n) ==
  \A m \in 1..n : metas[m].alias # 0 => out[map[m]].alias = map[metas[m].alias]

(* The output goes on as it was.                                           *)
SameNames(before, out) ==
  DOMAIN before \subseteq DOMAIN out /\ \A m \in DOMAIN before : out[m].name = before[m].name
SameAliases(before, out) ==
  \A m \in DOMAIN before : before[m].alias # 0 => out[m].alias = before[m].alias

MakingOK(r, before, metas, n, list) ==
  /\ IsSeq(r.out) /\ OneEach(r.out) /\ AliasFrom(r.out, list)
  /\ SameNames(before, r.out) /\ MapsTo(r.out, r.map, metas, n)
  /\ r.wrong = {} => SameAliases(before, r.out) /\ AliasesKept(r.out, r.map, metas, n)

LEMMA MadeFields ==
  \A o, p, w : /\ Made(o, p, w).out = o
               /\ Made(o, p, w).map = p
               /\ Made(o, p, w).wrong = w
BY DEF Made

(* One metaname more is mapped to the one of its name in the output.       *)
LEMMA MappedKeeps ==
  ASSUME NEW list, NEW i \in DOMAIN list, NEW metas, metas = list[i].metas, MetasOK(metas),
         NEW before, NEW m \in 1..Len(metas), NEW r, MakingOK(r, before, metas, m - 1, list)
  PROVE  MakingOK(Mapped(r, metas, m), before, metas, m, list)
<1>1. PICK N \in Nat : N = Len(metas) /\ DOMAIN metas = 1..N
  BY SeqFacts DEF MetasOK
<1>2. m \in Nat /\ m \in 1..N /\ m - 1 \in Nat /\ 1..m = 1..(m - 1) \cup {m}
  BY <1>1
<1> DEFINE out == r.out
           map == r.map
           o == Grown(out, metas[m])
           id == ByName(o, metas[m].name)
           base == BaseOf(o, metas, m)
           final == Aliased(o, id, base)
           now == Append(map, id)
           a == metas[m].alias
<1>3. /\ Mapped(r, metas, m).out = final
      /\ Mapped(r, metas, m).map = now
      /\ Mapped(r, metas, m).wrong = IF Matches(o, id, base, metas[m]) THEN r.wrong ELSE r.wrong \cup {m}
  BY MadeFields, ZenonT(60) DEF Mapped
<1>4. /\ IsSeq(out) /\ OneEach(out) /\ AliasFrom(out, list)
      /\ SameNames(before, out) /\ MapsTo(out, map, metas, m - 1)
      /\ r.wrong = {} => SameAliases(before, out) /\ AliasesKept(out, map, metas, m - 1)
  BY DEF MakingOK
<1>5. Mapped(r, metas, m).wrong = {} => r.wrong = {} /\ (base # 0 => o[id].alias \in {0, base})
  <2> HIDE DEF o, id, base
  <2> QED
    BY <1>3 DEF Matches
<1> HIDE DEF out, map
<1>6. /\ IsSeq(o) /\ OneEach(o) /\ DOMAIN out \subseteq DOMAIN o
      /\ \A k \in DOMAIN out : o[k] = out[k]
      /\ \A k \in DOMAIN o \ DOMAIN out : o[k].alias = 0
      /\ id \in DOMAIN o /\ o[id].name = metas[m].name
  <2>1. PICK meta : meta = metas[m]
    OBVIOUS
  <2>2. o = Grown(out, meta) /\ id = ByName(o, meta.name)
    BY <2>1
  <2> HIDE DEF o, id
  <2>3. /\ IsSeq(o) /\ OneEach(o) /\ DOMAIN out \subseteq DOMAIN o
        /\ \A k \in DOMAIN out : o[k] = out[k]
        /\ \A k \in DOMAIN o \ DOMAIN out : o[k].alias = 0
        /\ ByName(o, meta.name) \in DOMAIN o
    BY <1>4, <2>2, GrownIs, ZenonT(60)
  <2>4. o[ByName(o, meta.name)].name = meta.name
    BY <2>3, ByNameIs
  <2> QED
    BY <2>1, <2>2, <2>3, <2>4
<1>7. a \in 0..(m - 1) /\ a \in Nat
  BY <1>1, <1>2 DEF MetasOK
<1>8. IF a = 0 THEN base = 0 ELSE a \in 1..(m - 1) /\ a \in 1..N /\ base = map[a] /\ base \in DOMAIN out
  <2>1. CASE a = 0
    BY <2>1 DEF BaseOf
  <2>2. CASE a # 0
    <3>1. a \in 1..(m - 1) /\ a \in 1..N
      BY <1>1, <1>2, <1>7, <2>2
    <3>2. map[a] \in DOMAIN out /\ out[map[a]].name = metas[a].name
      BY <1>4, <3>1 DEF MapsTo
    <3>3. base = ByName(o, metas[a].name)
      BY <2>2 DEF BaseOf
    <3> HIDE DEF o, base, a
    <3>4. map[a] \in DOMAIN o /\ o[map[a]].name = metas[a].name
      BY <1>6, <3>2
    <3>5. base = map[a]
      BY <1>6, <3>3, <3>4, ByNameIs
    <3> QED
      BY <2>2, <3>1, <3>2, <3>5
  <2> HIDE DEF base, a
  <2> QED
    BY <2>1, <2>2
<1>9. 0 \notin DOMAIN out /\ (base # 0 <=> a # 0)
  <2>1. 0 \notin DOMAIN out
    BY <1>4, SeqFacts
  <2> HIDE DEF base, a
  <2> QED
    BY <1>8, <2>1
<1> HIDE DEF o, base, id
<1>10. /\ IsSeq(final) /\ OneEach(final) /\ DOMAIN final = DOMAIN o
       /\ \A k \in DOMAIN o : final[k].name = o[k].name
       /\ \A k \in DOMAIN o : k # id \/ base = 0 => final[k].alias = o[k].alias
       /\ base # 0 => final[id].alias = base
  BY <1>6, AliasedIs
<1> HIDE DEF final
<1>11. AliasFrom(final, list)
  <2> SUFFICES ASSUME NEW k \in DOMAIN final, final[k].alias # 0
               PROVE  /\ final[k].alias \in DOMAIN final
                      /\ \E j \in DOMAIN list :
                           IsAliasIn(list[j].metas, final[k].name, final[final[k].alias].name)
    BY DEF AliasFrom
  <2>1. CASE k = id /\ base # 0
    <3>1. final[k].alias = base /\ base \in DOMAIN out /\ base = map[a] /\ a # 0 /\ a \in 1..(m - 1)
      BY <1>8, <1>9, <1>10, <2>1
    <3>2. final[k].name = metas[m].name
      BY <1>6, <1>10, <2>1
    <3>3. out[base].name = metas[a].name
      BY <1>4, <3>1 DEF MapsTo
    <3>4. base \in DOMAIN final /\ final[base].name = metas[a].name
      BY <1>6, <1>10, <3>1, <3>3
    <3>5. IsAliasIn(metas, metas[m].name, metas[a].name)
      BY <1>1, <1>2, <3>1 DEF IsAliasIn
    <3> QED
      BY <3>1, <3>2, <3>4, <3>5
  <2>2. CASE k # id \/ base = 0
    <3>1. final[k].alias = o[k].alias /\ k \in DOMAIN o /\ final[k].name = o[k].name
      BY <1>10, <2>2
    <3>2. k \in DOMAIN out
      BY <1>6, <3>1
    <3>3. o[k] = out[k]
      BY <1>6, <3>2
    <3>4. out[k].alias # 0
      BY <3>1, <3>3
    <3>5. /\ out[k].alias \in DOMAIN out
          /\ \E j \in DOMAIN list : IsAliasIn(list[j].metas, out[k].name, out[out[k].alias].name)
      BY <1>4, <3>2, <3>4 DEF AliasFrom
    <3>6. final[out[k].alias].name = out[out[k].alias].name /\ out[k].alias \in DOMAIN final
      BY <1>6, <1>10, <3>5
    <3> QED
      BY <3>1, <3>3, <3>5, <3>6
  <2> QED
    BY <2>1, <2>2
<1>12. SameNames(before, final)
  BY <1>4, <1>6, <1>10 DEF SameNames
<1>13. /\ IsSeq(now) /\ Len(now) = m /\ now[m] = id
       /\ \A k \in 1..(m - 1) : now[k] = map[k]
  <2>1. IsSeq(map) /\ Len(map) = m - 1 /\ DOMAIN map = 1..(m - 1)
    BY <1>4, SeqFacts DEF MapsTo
  <2>2. /\ IsSeq(now) /\ Len(now) = (m - 1) + 1 /\ now[(m - 1) + 1] = id
        /\ \A k \in DOMAIN map : now[k] = map[k]
    BY <2>1, Appended
  <2>3. (m - 1) + 1 = m
    BY <1>2
  <2> HIDE DEF now
  <2> QED
    BY <2>1, <2>2, <2>3
<1> HIDE DEF now
<1>14. \A k \in 1..(m - 1) : map[k] \in DOMAIN out /\ map[k] \in DOMAIN o /\ map[k] # 0
  BY <1>4, <1>6, <1>9 DEF MapsTo
<1>15. MapsTo(final, now, metas, m)
  <2>1. ASSUME NEW k \in 1..(m - 1)
        PROVE  now[k] \in DOMAIN final /\ final[now[k]].name = metas[k].name
    <3>1. out[map[k]].name = metas[k].name
      BY <1>4 DEF MapsTo
    <3> QED
      BY <1>6, <1>10, <1>13, <1>14, <3>1
  <2>2. now[m] \in DOMAIN final /\ final[now[m]].name = metas[m].name
    BY <1>6, <1>10, <1>13
  <2> QED
    BY <1>2, <1>13, <2>1, <2>2 DEF MapsTo
<1>16. ASSUME r.wrong = {}, base # 0 => o[id].alias \in {0, base}
       PROVE  SameAliases(before, final) /\ AliasesKept(final, now, metas, m)
  <2>1. \A k \in DOMAIN out : out[k].alias # 0 => final[k].alias = out[k].alias
    BY <1>6, <1>10, <1>16
  <2>2. SameAliases(before, final)
    BY <1>4, <1>16, <2>1 DEF SameAliases, SameNames
  <2>3. ASSUME NEW k \in 1..(m - 1), metas[k].alias # 0
        PROVE  final[now[k]].alias = now[metas[k].alias]
    <3>1. metas[k].alias \in 1..(m - 1)
      <4>1. k \in DOMAIN metas /\ k \in Nat /\ k <= m - 1
        BY <1>1, <1>2
      <4>2. metas[k].alias \in 0..(k - 1)
        BY <4>1 DEF MetasOK
      <4> QED
        BY <1>2, <2>3, <4>1, <4>2
    <3>2. out[map[k]].alias = map[metas[k].alias]
      BY <1>4, <1>16, <2>3 DEF AliasesKept
    <3>3. map[metas[k].alias] # 0 /\ map[k] \in DOMAIN out
      BY <1>14, <3>1
    <3> QED
      BY <1>13, <2>1, <3>1, <3>2, <3>3
  <2>4. ASSUME metas[m].alias # 0
        PROVE  final[now[m]].alias = now[metas[m].alias]
    <3>1. base # 0 /\ base = map[a] /\ a \in 1..(m - 1)
      BY <1>8, <1>9, <2>4
    <3> QED
      BY <1>10, <1>13, <3>1
  <2>5. AliasesKept(final, now, metas, m)
    BY <1>2, <2>3, <2>4 DEF AliasesKept
  <2> QED
    BY <2>2, <2>5
<1> QED
  BY <1>3, <1>5, <1>10, <1>11, <1>12, <1>15, <1>16 DEF MakingOK

(* The loop over the metanames of an index.                                *)
MapsOf(f, metas, n) ==
  /\ f = [m \in 0..n |-> f[m]] /\ f[0] = Made(outMetas, <<>>, {})
  /\ \A m \in 1..n : f[m] = Mapped(f[m - 1], metas, m)

LEMMA MapsExist ==
  ASSUME NEW metas, NEW N \in Nat
  PROVE  \E f : MapsOf(f, metas, N)
<1> DEFINE Good(n) == \E f : MapsOf(f, metas, n)
           G == {n \in 0..N : Good(n)}
           base == Made(outMetas, <<>>, {})
<1>1. 0 \in G
  <2> DEFINE f == [m \in 0..0 |-> base]
  <2>1. f = [m \in 0..0 |-> f[m]] /\ f[0] = base /\ 1..0 = {}
    OBVIOUS
  <2>2. Good(0)
    <3> HIDE DEF f
    <3> QED
      BY <2>1 DEF MapsOf
  <2> HIDE DEF Good
  <2> QED
    BY <2>2
<1>2. ASSUME NEW n \in 0..(N - 1), n \in G PROVE n + 1 \in G
  <2>1. PICK f : MapsOf(f, metas, n)
    BY <1>2
  <2> DEFINE g == [m \in 0..(n + 1) |-> IF m = n + 1 THEN Mapped(f[n], metas, n + 1) ELSE f[m]]
  <2>2. g = [m \in 0..(n + 1) |-> g[m]]
    OBVIOUS
  <2>3. g[0] = base
    BY <2>1 DEF MapsOf
  <2>4. ASSUME NEW m \in 1..(n + 1) PROVE g[m] = Mapped(g[m - 1], metas, m)
    <3>1. m \in 0..(n + 1) /\ m - 1 \in 0..(n + 1) /\ m - 1 # n + 1
      OBVIOUS
    <3>2. g[m - 1] = f[m - 1]
      BY <3>1
    <3>3. CASE m = n + 1
      <4>1. g[m] = Mapped(f[n], metas, n + 1) /\ m - 1 = n
        BY <3>1, <3>3
      <4> HIDE DEF g
      <4> QED
        BY <3>2, <3>3, <4>1
    <3>4. CASE m # n + 1
      <4>1. m \in 1..n /\ g[m] = f[m]
        BY <3>1, <3>4
      <4> HIDE DEF g
      <4> QED
        BY <2>1, <3>2, <4>1 DEF MapsOf
    <3> QED
      BY <3>3, <3>4
  <2>5. Good(n + 1)
    <3> HIDE DEF g
    <3> QED
      BY <2>2, <2>3, <2>4 DEF MapsOf
  <2> HIDE DEF Good
  <2> QED
    BY <2>5
<1>3. \A n \in 0..N : n \in G
  <2> HIDE DEF G
  <2> QED
    BY <1>1, <1>2, UpTo
<1> QED
  BY <1>3

(* So are all metanames of an index, and an alias to an alias for the      *)
(* same unless it was found wrong.                                         *)
LEMMA MakeMetaMapIs ==
  ASSUME NEW list, NEW i \in DOMAIN list, NEW metas, metas = list[i].metas, MetasOK(metas),
         IsSeq(outMetas), OneEach(outMetas), AliasFrom(outMetas, list)
  PROVE  MakingOK(MakeMetaMap(metas), outMetas, metas, Len(metas), list)
<1>1. PICK N \in Nat : N = Len(metas)
  BY SeqFacts DEF MetasOK
<1> DEFINE base == Made(outMetas, <<>>, {})
           made[m \in 0..Len(metas)] == IF m = 0 THEN Made(outMetas, <<>>, {}) ELSE Mapped(made[m - 1], metas, m)
<1>2. MakeMetaMap(metas) = made[N]
  BY <1>1 DEF MakeMetaMap
<1>3. PICK f : MapsOf(f, metas, N)
  BY MapsExist
<1>4. f = [m \in 0..N |-> IF m = 0 THEN base ELSE Mapped(f[m - 1], metas, m)]
  <2> HIDE DEF made
  <2> DEFINE h == [m \in 0..N |-> IF m = 0 THEN base ELSE Mapped(f[m - 1], metas, m)]
  <2>1. \A m \in 0..N : m = 0 \/ m \in 1..N
    OBVIOUS
  <2>2. \A m \in 0..N : f[m] = h[m]
    BY <1>3, <2>1 DEF MapsOf
  <2>3. f = [m \in 0..N |-> f[m]] /\ h = [m \in 0..N |-> h[m]]
    BY <1>3 DEF MapsOf
  <2> QED
    BY <2>2, <2>3
<1>5. made = [m \in 0..N |-> IF m = 0 THEN base ELSE Mapped(made[m - 1], metas, m)]
  BY <1>1, <1>4
<1>6. made[0] = base /\ \A m \in 1..N : made[m] = Mapped(made[m - 1], metas, m)
  <2> HIDE DEF made, base
  <2>1. \A m \in 0..N : made[m] = IF m = 0 THEN base ELSE Mapped(made[m - 1], metas, m)
    BY Zenon, <1>5
  <2>2. 0 \in 0..N /\ \A m \in 1..N : m \in 0..N /\ m # 0
    OBVIOUS
  <2> QED
    BY <2>1, <2>2
<1> HIDE DEF made
<1> DEFINE Good(n) == MakingOK(made[n], outMetas, metas, n, list)
           G == {n \in 0..N : Good(n)}
<1>7. 0 \in G
  <2>1. made[0].out = outMetas /\ made[0].map = <<>> /\ made[0].wrong = {}
    BY <1>6, MadeFields
  <2>2. IsSeq(<<>>) /\ Len(<<>>) = 0 /\ 1..0 = {}
    BY DEF IsSeq, ToSet
  <2>3. SameNames(outMetas, outMetas) /\ SameAliases(outMetas, outMetas)
    BY DEF SameNames, SameAliases
  <2>4. MapsTo(outMetas, <<>>, metas, 0) /\ AliasesKept(outMetas, <<>>, metas, 0)
    BY <2>2 DEF MapsTo, AliasesKept
  <2>5. Good(0)
    BY <2>1, <2>3, <2>4 DEF MakingOK
  <2> HIDE DEF Good
  <2> QED
    BY <2>5
<1>8. ASSUME NEW n \in 0..(N - 1), n \in G PROVE n + 1 \in G
  <2>1. n + 1 \in 1..N /\ (n + 1) - 1 = n /\ n + 1 \in 0..N
    OBVIOUS
  <2>2. made[n + 1] = Mapped(made[n], metas, n + 1)
    BY <1>6, <2>1
  <2>3. MakingOK(made[n], outMetas, metas, (n + 1) - 1, list) /\ n + 1 \in 1..Len(metas)
    BY <1>1, <1>8, <2>1
  <2>4. Good(n + 1)
    BY <2>2, <2>3, MappedKeeps
  <2> HIDE DEF Good
  <2> QED
    BY <2>1, <2>4
<1>9. \A n \in 0..N : n \in G
  <2> HIDE DEF G
  <2> QED
    BY <1>7, <1>8, UpTo
<1>10. Good(N)
  <2>1. N \in 0..N
    OBVIOUS
  <2> QED
    BY <1>9, <2>1
<1> QED
  BY <1>1, <1>2, <1>10

-----------------------------------------------------------------------------
(* What is shown under a name.                                             *)

(* The indexes merged have the same aliases: if one has a name as an alias *)
(* then so has any other that has the name, or what it stands for.         *)
AliasesAgree ==
  \A list \in MergeInputs : \A i, j \in DOMAIN list :
    \A m \in DOMAIN list[i].metas, n \in DOMAIN list[j].metas :
      LET meta == list[i].metas[m]
          known == list[j].metas
      IN  /\ meta.alias # 0
          /\ known[n].name \in {meta.name, list[i].metas[meta.alias].name}
          => \E k \in DOMAIN known : known[k].name = meta.name /\ known[k].alias # 0

ListOK(list) ==
  /\ list \in MergeInputs /\ AliasesAgree
  /\ \A i \in DOMAIN list : MetasOK(list[i].metas)

OutputOK(out, map, metas, list) ==
  /\ IsSeq(out) /\ OneEach(out) /\ AliasFrom(out, list)
  /\ MapsTo(out, map, metas, Len(metas)) /\ AliasesKept(out, map, metas, Len(metas))

(* What a name stands for is a metaname of that name, or its base.         *)
LEMMA NamedIn ==
  ASSUME NEW metas, IsSeq(metas), OneEach(metas), NEW name
  PROVE  /\ name \in NamesIn(metas) <=> \E m \in DOMAIN metas : metas[m].name = name
         /\ \A m \in DOMAIN metas : metas[m].name = name =>
              Meaning(metas, name) = IF metas[m].alias # 0 THEN metas[m].alias ELSE m
<1>1. name \in NamesIn(metas) <=> \E m \in DOMAIN metas : metas[m].name = name
  BY DEF NamesIn, ToSet
<1>2. ASSUME NEW m \in DOMAIN metas, metas[m].name = name
      PROVE  Meaning(metas, name) = IF metas[m].alias # 0 THEN metas[m].alias ELSE m
  <2>1. ByName(metas, name) = m /\ m # 0
    BY <1>2, ByNameIs
  <2> QED
    BY <2>1 DEF Meaning
<1> QED
  BY <1>1, <1>2

(* A name means the same in the output as in the index.                    *)
LEMMA SameMeaning ==
  ASSUME NEW list, ListOK(list), NEW i \in DOMAIN list, NEW metas, metas = list[i].metas,
         NEW out, NEW map, OutputOK(out, map, metas, list),
         NEW k \in NoAlias(metas), NEW name
  PROVE  (name \in NamesIn(out) /\ Meaning(out, name) = map[k])
           <=> (name \in NamesIn(metas) /\ Meaning(metas, name) = k)
<1>1. PICK N \in Nat : N = Len(metas) /\ DOMAIN metas = 1..N
  BY SeqFacts DEF ListOK, MetasOK
<1>2. IsSeq(metas) /\ OneEach(metas) /\ \A m \in DOMAIN metas : metas[m].alias \in 0..(m - 1)
  BY DEF ListOK, MetasOK
<1>3. IsSeq(out) /\ OneEach(out) /\ AliasFrom(out, list)
  BY DEF OutputOK
<1>4. \A m \in 1..N : map[m] \in DOMAIN out /\ out[map[m]].name = metas[m].name
  BY <1>1 DEF OutputOK, MapsTo
<1>5. \A m \in 1..N : metas[m].alias # 0 =>
        /\ metas[m].alias \in 1..N
        /\ out[map[m]].alias = map[metas[m].alias]
  <2> SUFFICES ASSUME NEW m \in 1..N, metas[m].alias # 0
               PROVE  metas[m].alias \in 1..N /\ out[map[m]].alias = map[metas[m].alias]
    OBVIOUS
  <2>1. PICK a : a = metas[m].alias
    OBVIOUS
  <2>2. a \in 0..(m - 1)
    BY <1>1, <1>2, <2>1
  <2>3. a \in 1..N
    BY <2>1, <2>2
  <2> QED
    BY <1>1, <2>1, <2>3 DEF OutputOK, AliasesKept
<1>6. k \in 1..N /\ metas[k].alias = 0
  BY <1>1 DEF NoAlias
<1>7. 0 \notin DOMAIN out
  BY <1>3, SeqFacts
<1>8. \A m, n \in 1..N : map[m] = map[n] => m = n
  <2> SUFFICES ASSUME NEW m \in 1..N, NEW n \in 1..N, map[m] = map[n] PROVE m = n
    OBVIOUS
  <2>1. out[map[m]].name = metas[m].name /\ out[map[n]].name = metas[n].name
    BY <1>4
  <2>2. metas[m].name = metas[n].name
    BY <2>1
  <2> QED
    BY <1>1, <1>2, <2>2 DEF OneEach
<1>9. ASSUME name \in NamesIn(metas), Meaning(metas, name) = k
      PROVE  name \in NamesIn(out) /\ Meaning(out, name) = map[k]
  <2>1. PICK m \in 1..N : metas[m].name = name
    BY <1>1, <1>2, <1>9, NamedIn
  <2>2. k = IF metas[m].alias # 0 THEN metas[m].alias ELSE m
    BY <1>1, <1>2, <1>9, <2>1, NamedIn
  <2>3. map[m] \in DOMAIN out /\ out[map[m]].name = name
    BY <1>4, <2>1
  <2>4. name \in NamesIn(out)
    BY <1>3, <2>3, NamedIn
  <2>5. Meaning(out, name) = IF out[map[m]].alias # 0 THEN out[map[m]].alias ELSE map[m]
    BY <1>3, <2>3, NamedIn
  <2>6. CASE metas[m].alias # 0
    <3>1. out[map[m]].alias = map[k]
      BY <1>5, <2>2, <2>6
    <3>2. map[k] # 0
      BY <1>4, <1>6, <1>7
    <3> QED
      BY <2>4, <2>5, <3>1, <3>2
  <2>7. CASE metas[m].alias = 0
    <3>1. m = k
      BY <2>2, <2>7
    <3>2. ASSUME out[map[m]].alias # 0 PROVE FALSE
      <4>1. PICK j \in DOMAIN list :
              IsAliasIn(list[j].metas, out[map[m]].name, out[out[map[m]].alias].name)
        BY <1>3, <2>3, <3>2 DEF AliasFrom
      <4>2. PICK n \in DOMAIN list[j].metas :
              list[j].metas[n].alias # 0 /\ list[j].metas[n].name = name
        BY <2>3, <4>1 DEF IsAliasIn
      <4>3. \E x \in DOMAIN metas : metas[x].name = name /\ metas[x].alias # 0
        BY <1>1, <2>1, <4>2 DEF ListOK, AliasesAgree
      <4> QED
        BY <1>1, <1>2, <2>1, <2>7, <4>3 DEF OneEach
    <3> QED
      BY <2>4, <2>5, <3>1, <3>2
  <2> QED
    BY <2>6, <2>7
<1>10. ASSUME name \in NamesIn(out), Meaning(out, name) = map[k]
       PROVE  name \in NamesIn(metas) /\ Meaning(metas, name) = k
  <2>1. PICK id \in DOMAIN out : out[id].name = name
    BY <1>3, <1>10, NamedIn
  <2>2. map[k] = IF out[id].alias # 0 THEN out[id].alias ELSE id
    BY <1>3, <1>10, <2>1, NamedIn
  <2>3. CASE out[id].alias = 0
    <3>1. metas[k].name = name
      BY <1>4, <1>6, <2>1, <2>2, <2>3
    <3> QED
      BY <1>1, <1>2, <1>6, <3>1, NamedIn
  <2>4. CASE out[id].alias # 0
    <3>1. out[id].alias = map[k] /\ out[map[k]].name = metas[k].name
      BY <1>4, <1>6, <2>2, <2>4
    <3>2. PICK j \in DOMAIN list : IsAliasIn(list[j].metas, name, metas[k].name)
      BY <1>3, <2>1, <2>4, <3>1 DEF AliasFrom
    <3>3. PICK n \in DOMAIN list[j].metas :
            /\ list[j].metas[n].alias # 0 /\ list[j].metas[n].name = name
            /\ list[j].metas[list[j].metas[n].alias].name = metas[k].name
      BY <3>2 DEF IsAliasIn
    <3>4. PICK m \in DOMAIN metas : metas[m].name = name /\ metas[m].alias # 0
      BY <1>1, <1>6, <3>3 DEF ListOK, AliasesAgree
    <3>5. map[m] = id
      BY <1>1, <1>3, <1>4, <2>1, <3>4 DEF OneEach
    <3>6. map[metas[m].alias] = map[k] /\ metas[m].alias \in 1..N
      BY <1>1, <1>5, <3>1, <3>4, <3>5
    <3>7. metas[m].alias = k
      BY <1>6, <1>8, <3>6
    <3> QED
      BY <1>2, <3>4, <3>7, NamedIn
  <2> QED
    BY <2>3, <2>4
<1> QED
  BY <1>9, <1>10

(* So a file is shown with the same words ...                              *)
LEMMA SameWords ==
  ASSUME NEW list, ListOK(list), NEW i \in DOMAIN list, NEW metas, metas = list[i].metas,
         NEW out, NEW map, OutputOK(out, map, metas, list),
         NEW words, words \subseteq [word : MergeWords, meta : NoAlias(metas)],
         NEW now, \A x : x \in now <=> \E y \in words : x = [word |-> y.word, meta |-> map[y.meta]]
  PROVE  ShownWords(out, now) = ShownWords(metas, words)
<1>1. ASSUME NEW name, NEW w \in MergeWords
      PROVE  (name \in NamesIn(out) /\ [word |-> w, meta |-> Meaning(out, name)] \in now)
               <=> (name \in NamesIn(metas) /\ [word |-> w, meta |-> Meaning(metas, name)] \in words)
  <2>1. ASSUME name \in NamesIn(out), [word |-> w, meta |-> Meaning(out, name)] \in now
        PROVE  name \in NamesIn(metas) /\ [word |-> w, meta |-> Meaning(metas, name)] \in words
    <3>1. PICK y \in words : [word |-> w, meta |-> Meaning(out, name)] = [word |-> y.word, meta |-> map[y.meta]]
      BY <2>1
    <3>2. y.word = w /\ map[y.meta] = Meaning(out, name)
      BY <3>1
    <3>3. y.meta \in NoAlias(metas) /\ y = [word |-> y.word, meta |-> y.meta]
      OBVIOUS
    <3>4. name \in NamesIn(metas) /\ Meaning(metas, name) = y.meta
      BY <2>1, <3>2, <3>3, SameMeaning
    <3> QED
      BY <3>2, <3>3, <3>4
  <2>2. ASSUME name \in NamesIn(metas), [word |-> w, meta |-> Meaning(metas, name)] \in words
        PROVE  name \in NamesIn(out) /\ [word |-> w, meta |-> Meaning(out, name)] \in now
    <3>1. PICK y \in words : y = [word |-> w, meta |-> Meaning(metas, name)]
      BY <2>2
    <3>2. y.word = w /\ y.meta = Meaning(metas, name)
      BY <3>1
    <3>3. PICK k \in NoAlias(metas) : k = y.meta
      OBVIOUS
    <3>4. name \in NamesIn(metas) /\ Meaning(metas, name) = k
      BY <2>2, <3>2, <3>3
    <3>5. name \in NamesIn(out) /\ Meaning(out, name) = map[k]
      BY <3>4, SameMeaning
    <3> QED
      BY <3>2, <3>3, <3>5
  <2> QED
    BY <2>1, <2>2
<1>2. ASSUME NEW x PROVE x \in ShownWords(out, now) <=> x \in ShownWords(metas, words)
  <2>1. ASSUME NEW name, NEW w \in MergeWords, x = <<name, w>>
        PROVE  x \in ShownWords(out, now) <=> x \in ShownWords(metas, words)
    <3>1. x[1] = name /\ x[2] = w
      BY <2>1
    <3>2. x \in ShownWords(out, now) <=>
            name \in NamesIn(out) /\ [word |-> w, meta |-> Meaning(out, name)] \in now
      BY <2>1, <3>1 DEF ShownWords
    <3>3. x \in ShownWords(metas, words) <=>
            name \in NamesIn(metas) /\ [word |-> w, meta |-> Meaning(metas, name)] \in words
      BY <2>1, <3>1 DEF ShownWords
    <3> QED
      BY <1>1, <3>2, <3>3
  <2>2. x \in ShownWords(out, now) \/ x \in ShownWords(metas, words) =>
          \E name : \E w \in MergeWords : x = <<name, w>>
    BY DEF ShownWords
  <2> QED
    BY <2>1, <2>2
<1> QED
  BY <1>2

(* ... and the same properties.                                            *)
LEMMA SameProps ==
  ASSUME NEW list, ListOK(list), NEW i \in DOMAIN list, NEW metas, metas = list[i].metas,
         NEW out, NEW map, OutputOK(out, map, metas, list), NEW props,
         \A p \in props : p.prop \in NoAlias(metas) /\ p = [prop |-> p.prop, value |-> p.value],
         NEW now, now = {[prop |-> map[p.prop], value |-> p.value] : p \in props}
  PROVE  ShownProps(out, now) = ShownProps(metas, props)
<1>1. ASSUME NEW name, NEW v
      PROVE  (name \in NamesIn(out) /\ [prop |-> Meaning(out, name), value |-> v] \in now)
               <=> (name \in NamesIn(metas) /\ [prop |-> Meaning(metas, name), value |-> v] \in props)
  <2>1. ASSUME name \in NamesIn(out), [prop |-> Meaning(out, name), value |-> v] \in now
        PROVE  name \in NamesIn(metas) /\ [prop |-> Meaning(metas, name), value |-> v] \in props
    <3>1. PICK p \in props : [prop |-> Meaning(out, name), value |-> v] = [prop |-> map[p.prop], value |-> p.value]
      BY <2>1
    <3>2. p.value = v /\ map[p.prop] = Meaning(out, name)
      BY <3>1
    <3>3. p.prop \in NoAlias(metas) /\ p = [prop |-> p.prop, value |-> p.value]
      OBVIOUS
    <3>4. name \in NamesIn(metas) /\ Meaning(metas, name) = p.prop
      BY <2>1, <3>2, <3>3, SameMeaning
    <3> QED
      BY <3>2, <3>3, <3>4
  <2>2. ASSUME name \in NamesIn(metas), [prop |-> Meaning(metas, name), value |-> v] \in props
        PROVE  name \in NamesIn(out) /\ [prop |-> Meaning(out, name), value |-> v] \in now
    <3>1. PICK p \in props : p = [prop |-> Meaning(metas, name), value |-> v]
      BY <2>2
    <3>2. p.value = v /\ p.prop = Meaning(metas, name)
      BY <3>1
    <3>3. PICK k \in NoAlias(metas) : k = p.prop
      OBVIOUS
    <3>4. name \in NamesIn(metas) /\ Meaning(metas, name) = k
      BY <2>2, <3>2, <3>3
    <3>5. name \in NamesIn(out) /\ Meaning(out, name) = map[k]
      BY <3>4, SameMeaning, SMTT(30)
    <3> QED
      BY <3>2, <3>3, <3>5
  <2> QED
    BY <2>1, <2>2
<1>2. ASSUME NEW v PROVE (\E p \in now : p.value = v) <=> (\E p \in props : p.value = v)
  <2>1. ASSUME NEW p \in props PROVE \E q \in now : q.value = p.value
    <3>1. [prop |-> map[p.prop], value |-> p.value] \in now
      OBVIOUS
    <3> QED
      BY <3>1
  <2>2. ASSUME NEW q \in now PROVE \E p \in props : p.value = q.value
    <3>1. PICK p \in props : q = [prop |-> map[p.prop], value |-> p.value]
      OBVIOUS
    <3>2. q.value = p.value
      BY <3>1
    <3> QED
      BY <3>2
  <2> QED
    BY <2>1, <2>2
<1>3. ASSUME NEW x PROVE x \in ShownProps(out, now) <=> x \in ShownProps(metas, props)
  <2>1. ASSUME NEW name, NEW v, x = <<name, v>>
        PROVE  x \in ShownProps(out, now) <=> x \in ShownProps(metas, props)
    <3>1. x[1] = name /\ x[2] = v
      BY <2>1
    <3>2. x \in ShownProps(out, now) <=>
            /\ name \in NamesIn(out) /\ [prop |-> Meaning(out, name), value |-> v] \in now
            /\ \E p \in now : p.value = v
      BY <2>1, <3>1 DEF ShownProps
    <3>3. x \in ShownProps(metas, props) <=>
            /\ name \in NamesIn(metas) /\ [prop |-> Meaning(metas, name), value |-> v] \in props
            /\ \E p \in props : p.value = v
      BY <2>1, <3>1 DEF ShownProps
    <3> QED
      BY <1>1, <1>2, <3>2, <3>3
  <2>2. x \in ShownProps(out, now) \/ x \in ShownProps(metas, props) =>
          \E name, v : x = <<name, v>>
    BY DEF ShownProps
  <2> QED
    BY <2>1, <2>2
<1> QED
  BY <1>3

-----------------------------------------------------------------------------
(***************************************************************************)
(* Merging indexes: the files in the order of their paths.                 *)
(***************************************************************************)

FilesOK(files) ==
  /\ IsSeq(files)
  /\ \A n, k \in DOMAIN files : files[n].path = files[k].path => n = k
  /\ \A n \in DOMAIN files : files[n].path \in Nat \ {0} /\ files[n].mtime \in Nat

(* The places of an index's files are those of their paths in order.       *)
LEMMA PlaceIs ==
  ASSUME NEW files, FilesOK(files), NEW n \in DOMAIN files
  PROVE  /\ Place(files, n) \in 0..(Len(files) - 1)
         /\ \A k \in DOMAIN files :
              files[n].path < files[k].path => Place(files, n) < Place(files, k)
<1> DEFINE Ahead(d) == {k \in DOMAIN files : files[k].path < files[d].path}
<1>1. PICK N \in Nat : N = Len(files) /\ DOMAIN files = 1..N
  BY SeqFacts DEF FilesOK
<1>2. IsFiniteSet(DOMAIN files) /\ Cardinality(DOMAIN files) = N
  <2>1. IsFiniteSet(1..N) /\ Cardinality(1..N) = IF 1 > N THEN 0 ELSE N - 1 + 1
    BY FS_Interval
  <2> QED
    BY <1>1, <2>1
<1>3. ASSUME NEW d PROVE IsFiniteSet(Ahead(d)) /\ Cardinality(Ahead(d)) \in Nat
  <2>1. Ahead(d) \subseteq DOMAIN files
    OBVIOUS
  <2> HIDE DEF Ahead
  <2> QED
    BY <1>2, <2>1, FS_Subset, FS_CardinalityType
<1>4. \A d : Place(files, d) = Cardinality(Ahead(d))
  BY DEF Place
<1>5. \A k \in DOMAIN files : files[k].path \in Nat
  BY DEF FilesOK
<1>6. Cardinality(Ahead(n)) < N
  <2>1. Ahead(n) \subseteq DOMAIN files /\ n \notin Ahead(n)
    BY <1>5
  <2>2. Ahead(n) # DOMAIN files
    BY <2>1
  <2> HIDE DEF Ahead
  <2>3. /\ Cardinality(Ahead(n)) <= Cardinality(DOMAIN files)
        /\ Cardinality(Ahead(n)) # Cardinality(DOMAIN files)
    BY <1>2, <2>1, <2>2, FS_Subset
  <2> QED
    BY <1>2, <1>3, <2>3
<1>7. ASSUME NEW k \in DOMAIN files, files[n].path < files[k].path
      PROVE  Cardinality(Ahead(n)) < Cardinality(Ahead(k))
  <2>1. Ahead(n) \subseteq Ahead(k)
    BY <1>5, <1>7
  <2>2. n \in Ahead(k) /\ n \notin Ahead(n)
    BY <1>5, <1>7
  <2>3. Ahead(n) # Ahead(k)
    BY <2>2
  <2> HIDE DEF Ahead
  <2>4. Cardinality(Ahead(n)) <= Cardinality(Ahead(k)) /\ Cardinality(Ahead(n)) # Cardinality(Ahead(k))
    BY <1>3, <2>1, <2>3, FS_Subset
  <2> QED
    BY <1>3, <2>4
<1> HIDE DEF Ahead
<1> QED
  BY <1>1, <1>3, <1>4, <1>6, <1>7

(* No two files have the same place, and places follow the paths.          *)
LEMMA PlacesDiffer ==
  ASSUME NEW files, FilesOK(files), NEW n \in DOMAIN files, NEW k \in DOMAIN files
  PROVE  /\ Place(files, n) = Place(files, k) => n = k
         /\ Place(files, n) < Place(files, k) => files[n].path < files[k].path
<1>1. files[n].path \in Nat /\ files[k].path \in Nat
  BY DEF FilesOK
<1>2. Place(files, n) \in 0..(Len(files) - 1) /\ Place(files, k) \in 0..(Len(files) - 1)
  BY PlaceIs
<1>3. /\ files[n].path < files[k].path => Place(files, n) < Place(files, k)
      /\ files[k].path < files[n].path => Place(files, k) < Place(files, n)
  BY PlaceIs
<1>4. Len(files) \in Nat
  BY SeqFacts DEF FilesOK
<1>5. files[n].path = files[k].path => n = k
  BY DEF FilesOK
<1> QED
  BY <1>1, <1>2, <1>3, <1>4, <1>5

(* So each place has its file.                                             *)
LEMMA PathOrderIs ==
  ASSUME NEW i \in Indexes, FilesOK(inputs[i].files), NEW at \in DOMAIN inputs[i].files
  PROVE  /\ PathOrder(i)[at] \in DOMAIN inputs[i].files
         /\ Place(inputs[i].files, PathOrder(i)[at]) = at - 1
<1> DEFINE files == inputs[i].files
<1>1. PICK N \in Nat : N = Len(files) /\ DOMAIN files = 1..N
  BY SeqFacts DEF FilesOK
<1> DEFINE T == 0..(N - 1)
           place == [n \in DOMAIN files |-> Place(files, n)]
<1>2. place \in Injection(DOMAIN files, T)
  <2>1. \A n \in DOMAIN files : Place(files, n) \in T
    BY <1>1, PlaceIs
  <2>2. \A n, k \in DOMAIN files : Place(files, n) = Place(files, k) => n = k
    BY PlacesDiffer
  <2> HIDE DEF T
  <2> QED
    BY <2>1, <2>2 DEF Injection, IsInjective
<1>3. IsFiniteSet(T) /\ Cardinality(T) = N
  <2>1. /\ IsFiniteSet(0..(N - 1))
        /\ Cardinality(0..(N - 1)) = IF 0 > N - 1 THEN 0 ELSE (N - 1) - 0 + 1
    BY FS_Interval
  <2> QED
    BY <1>1, <2>1
<1>4. Cardinality(DOMAIN files) = N
  <2>1. Cardinality(1..N) = IF 1 > N THEN 0 ELSE N - 1 + 1
    BY FS_Interval
  <2> QED
    BY <1>1, <2>1
<1>5. place \in Surjection(DOMAIN files, T)
  <2> HIDE DEF T, place
  <2> QED
    BY <1>2, <1>3, <1>4, FS_Injection
<1>6. \E n \in DOMAIN files : Place(files, n) = at - 1
  <2>1. at - 1 \in T
    BY <1>1
  <2> QED
    BY <1>5, <2>1 DEF Surjection
<1>7. PathOrder(i)[at] = CHOOSE n \in DOMAIN files : Place(files, n) = at - 1
  BY DEF PathOrder
<1> QED
  BY <1>6, <1>7

-----------------------------------------------------------------------------
(* What is left to be read.                                                *)

InputsOK == IsSeq(inputs) /\ \A i \in Indexes : FilesOK(inputs[i].files)

SizeOf(i) == Len(inputs[i].files)
PathOf(x) == MergedFile(x).path
TimeOf(x) == MergedFile(x).mtime
PlaceOf(x) == Place(inputs[x[1]].files, x[2])
Left(current) == {x \in FilesMerged : PlaceOf(x) >= current[x[1]]}
Next(current, i) == <<i, PathOrder(i)[current[i] + 1]>>

Places == {current \in [Indexes -> Nat] : \A i \in Indexes : current[i] <= SizeOf(i)}

LEMMA MergedAre ==
  ASSUME InputsOK
  PROVE  /\ \A i \in Indexes : \A n \in DOMAIN inputs[i].files :
              <<i, n>> \in FilesMerged /\ MergedFile(<<i, n>>) = inputs[i].files[n]
         /\ \A x \in FilesMerged :
              /\ x[1] \in Indexes /\ x[2] \in DOMAIN inputs[x[1]].files /\ x = <<x[1], x[2]>>
              /\ PathOf(x) \in Nat \ {0} /\ TimeOf(x) \in Nat
<1>1. \A i \in Indexes : \A n \in DOMAIN inputs[i].files :
        <<i, n>> \in FilesMerged /\ MergedFile(<<i, n>>) = inputs[i].files[n]
  BY DEF FilesMerged, MergedFile
<1>2. ASSUME NEW x \in FilesMerged
      PROVE  /\ x[1] \in Indexes /\ x[2] \in DOMAIN inputs[x[1]].files /\ x = <<x[1], x[2]>>
             /\ PathOf(x) \in Nat \ {0} /\ TimeOf(x) \in Nat
  <2>1. PICK i \in Indexes : \E n \in DOMAIN inputs[i].files : x = <<i, n>>
    BY DEF FilesMerged
  <2>2. PICK n \in DOMAIN inputs[i].files : x = <<i, n>>
    BY <2>1
  <2>3. x[1] = i /\ x[2] = n
    BY <2>2
  <2>4. inputs[i].files[n].path \in Nat \ {0} /\ inputs[i].files[n].mtime \in Nat
    BY DEF InputsOK, FilesOK
  <2> QED
    BY <2>2, <2>3, <2>4 DEF PathOf, TimeOf, MergedFile
<1> QED
  BY <1>1, <1>2

(* What is read next of an index has the smallest path of what is left     *)
(* of it.                                                                  *)
LEMMA NextIs ==
  ASSUME InputsOK, NEW current \in Places, NEW i \in Indexes, current[i] < SizeOf(i)
  PROVE  /\ Next(current, i) \in Left(current)
         /\ Next(current, i)[1] = i
         /\ MergedFile(Next(current, i)) = FileAt(i, current[i])
         /\ PlaceOf(Next(current, i)) = current[i]
         /\ \A y \in Left(current) :
              y[1] = i /\ y # Next(current, i) =>
                PlaceOf(y) > current[i] /\ PathOf(y) > PathOf(Next(current, i))
<1>1. FilesOK(inputs[i].files) /\ current[i] \in Nat /\ SizeOf(i) \in Nat
  BY SeqFacts DEF InputsOK, Places, SizeOf, FilesOK
<1>2. DOMAIN inputs[i].files = 1..SizeOf(i)
  BY <1>1, SeqFacts DEF SizeOf, FilesOK
<1>3. PICK at : at = current[i] + 1 /\ at \in DOMAIN inputs[i].files /\ at - 1 = current[i]
  BY <1>1, <1>2
<1>4. PICK n : n = PathOrder(i)[at]
  OBVIOUS
<1>5. n \in DOMAIN inputs[i].files /\ Place(inputs[i].files, n) = current[i]
  BY <1>1, <1>3, <1>4, PathOrderIs
<1>6. PICK x : x = <<i, n>>
  OBVIOUS
<1>7. Next(current, i) = x /\ x[1] = i /\ x[2] = n
  BY <1>3, <1>4, <1>6 DEF Next
<1>8. x \in FilesMerged /\ MergedFile(x) = inputs[i].files[n]
  BY <1>5, <1>6, MergedAre
<1>9. FileAt(i, current[i]) = inputs[i].files[n]
  BY <1>3, <1>4 DEF FileAt
<1>10. PlaceOf(x) = current[i]
  BY <1>5, <1>7 DEF PlaceOf
<1>11. x \in Left(current)
  BY <1>1, <1>7, <1>8, <1>10 DEF Left
<1>12. ASSUME NEW y \in Left(current), y[1] = i, y # x
       PROVE  PlaceOf(y) > current[i] /\ PathOf(y) > PathOf(x)
  <2>1. y \in FilesMerged /\ PlaceOf(y) >= current[i]
    BY <1>12 DEF Left
  <2>2. PICK k \in DOMAIN inputs[i].files : y = <<i, k>> /\ y[2] = k
    BY <1>12, <2>1, MergedAre
  <2>3. PlaceOf(y) = Place(inputs[i].files, k) /\ PathOf(y) = inputs[i].files[k].path
    BY <1>12, <2>2 DEF PlaceOf, PathOf, MergedFile
  <2>4. k # n
    BY <1>6, <1>12, <2>2
  <2>5. Place(inputs[i].files, k) # Place(inputs[i].files, n)
    BY <1>1, <1>5, <2>4, PlacesDiffer
  <2>6. Place(inputs[i].files, k) \in 0..(Len(inputs[i].files) - 1)
    BY <1>1, PlaceIs
  <2>7. Place(inputs[i].files, n) < Place(inputs[i].files, k)
    <3>1. Len(inputs[i].files) \in Nat
      BY <1>1 DEF SizeOf
    <3> QED
      BY <1>1, <1>5, <2>1, <2>3, <2>5, <2>6, <3>1
  <2>8. inputs[i].files[n].path < inputs[i].files[k].path
    BY <1>1, <1>5, <2>7, PlacesDiffer
  <2>9. PathOf(x) = inputs[i].files[n].path
    BY <1>8 DEF PathOf
  <2>10. inputs[i].files[n].path \in Nat /\ inputs[i].files[k].path \in Nat
    BY <1>1, <1>5 DEF FilesOK
  <2> QED
    BY <1>1, <1>5, <2>3, <2>6, <2>7, <2>8, <2>9, <2>10
<1> QED
  BY <1>7, <1>8, <1>9, <1>10, <1>11, <1>12

(* An index with a file left has one to be read next.                      *)
LEMMA LeftHasNext ==
  ASSUME InputsOK, NEW current \in Places, NEW x \in Left(current)
  PROVE  current[x[1]] < SizeOf(x[1]) /\ x[1] \in Indexes
<1>1. x \in FilesMerged /\ PlaceOf(x) >= current[x[1]]
  BY DEF Left
<1>2. x[1] \in Indexes /\ x[2] \in DOMAIN inputs[x[1]].files
  BY <1>1, MergedAre
<1>3. PlaceOf(x) \in 0..(SizeOf(x[1]) - 1)
  BY <1>2, PlaceIs DEF PlaceOf, SizeOf, InputsOK
<1>4. current[x[1]] \in Nat /\ SizeOf(x[1]) \in Nat
  BY <1>2, SeqFacts DEF Places, SizeOf, InputsOK, FilesOK
<1> QED
  BY <1>1, <1>2, <1>3, <1>4

(* Passing a file takes just that one from what is left.                   *)
LEMMA PassingOne ==
  ASSUME InputsOK, NEW current \in Places, NEW i \in Indexes, current[i] < SizeOf(i),
         NEW later, later = [current EXCEPT ![i] = @ + 1]
  PROVE  /\ later \in Places /\ later[i] = current[i] + 1
         /\ \A j \in Indexes : j # i => later[j] = current[j]
         /\ Left(later) = Left(current) \ {Next(current, i)}
<1>1. current \in [Indexes -> Nat] /\ \A j \in Indexes : current[j] <= SizeOf(j)
  BY DEF Places
<1>2. SizeOf(i) \in Nat /\ current[i] \in Nat
  BY <1>1, SeqFacts DEF SizeOf, InputsOK, FilesOK
<1>3. later[i] = current[i] + 1 /\ \A j \in Indexes : j # i => later[j] = current[j]
  BY <1>1
<1>4. later \in [Indexes -> Nat]
  BY <1>1, <1>2
<1>5. later \in Places
  BY <1>1, <1>2, <1>3, <1>4 DEF Places
<1>6. ASSUME NEW x PROVE x \in Left(later) <=> x \in Left(current) /\ x # Next(current, i)
  <2>1. CASE x \notin FilesMerged
    BY <2>1 DEF Left
  <2>2. CASE x \in FilesMerged /\ x[1] # i
    <3>1. x[1] \in Indexes
      BY <2>2, MergedAre
    <3>2. later[x[1]] = current[x[1]]
      BY <1>3, <2>2, <3>1
    <3>3. x # Next(current, i)
      BY <2>2, NextIs
    <3> QED
      BY <2>2, <3>2, <3>3 DEF Left
  <2>3. CASE x \in FilesMerged /\ x[1] = i
    <3>1. x[2] \in DOMAIN inputs[i].files
      BY <2>3, MergedAre
    <3>2. PlaceOf(x) \in 0..(SizeOf(i) - 1)
      BY <2>3, <3>1, PlaceIs DEF PlaceOf, SizeOf, InputsOK
    <3>3. CASE x = Next(current, i)
      <4>1. PlaceOf(x) = current[i]
        BY <3>3, NextIs
      <4> QED
        BY <1>2, <1>3, <2>3, <3>3, <4>1 DEF Left
    <3>4. CASE x # Next(current, i) /\ x \in Left(current)
      <4>1. PlaceOf(x) > current[i]
        BY <2>3, <3>4, NextIs
      <4> QED
        BY <1>2, <1>3, <2>3, <3>2, <3>4, <4>1 DEF Left
    <3>5. CASE x \notin Left(current)
      <4>1. PlaceOf(x) < current[i]
        BY <1>2, <2>3, <3>2, <3>5 DEF Left
      <4> QED
        BY <1>2, <1>3, <2>3, <3>2, <3>5, <4>1 DEF Left
    <3> QED
      BY <3>3, <3>4, <3>5
  <2> QED
    BY <2>1, <2>2, <2>3
<1> QED
  BY <1>3, <1>5, <1>6

-----------------------------------------------------------------------------
(* get_next_file_in_order.                                                 *)

LEMMA ReadingFields ==
  \A c, p, w : /\ Reading(c, p, w).current = c
               /\ Reading(c, p, w).prop = p
               /\ Reading(c, p, w).winner = w
BY DEF Reading

(* The paths read ahead are those of the files to be read next.            *)
ReadOK(current, prop) ==
  /\ current \in Places /\ prop \in [Indexes -> Nat]
  /\ \A i \in Indexes : prop[i] # 0 =>
       current[i] < SizeOf(i) /\ prop[i] = PathOf(Next(current, i))

(* Reading ahead changes only the path read ahead.                         *)
LEMMA ReadAheadIs ==
  ASSUME InputsOK, NEW r, ReadOK(r.current, r.prop), NEW i \in Indexes,
         r.current[i] < SizeOf(i), NEW a, a = ReadAhead(r, i)
  PROVE  /\ ReadOK(a.current, a.prop) /\ a.current = r.current /\ a.winner = r.winner
         /\ a.prop[i] = PathOf(Next(r.current, i)) /\ a.prop[i] # 0
         /\ \A k \in Indexes : k # i => a.prop[k] = r.prop[k]
<1> DEFINE path == FileAt(i, r.current[i]).path
<1>1. r.current \in Places /\ r.prop \in [Indexes -> Nat]
  BY DEF ReadOK
<1>2. path = PathOf(Next(r.current, i)) /\ path \in Nat \ {0}
  <2>1. Next(r.current, i) \in FilesMerged /\ MergedFile(Next(r.current, i)) = FileAt(i, r.current[i])
    BY <1>1, NextIs DEF Left
  <2> QED
    BY <2>1, MergedAre DEF PathOf
<1> HIDE DEF path
<1>3. CASE r.prop[i] # 0
  <2>1. a = r
    BY <1>3 DEF ReadAhead
  <2> QED
    BY <1>2, <1>3, <2>1 DEF ReadOK
<1>4. CASE r.prop[i] = 0
  <2>1. a = Reading(r.current, [r.prop EXCEPT ![i] = path], r.winner)
    BY <1>4 DEF ReadAhead, path
  <2>2. a.current = r.current /\ a.prop = [r.prop EXCEPT ![i] = path] /\ a.winner = r.winner
    BY <2>1, ReadingFields
  <2>3. /\ a.prop \in [Indexes -> Nat] /\ a.prop[i] = path
        /\ \A k \in Indexes : k # i => a.prop[k] = r.prop[k]
    BY <1>1, <1>2, <2>2
  <2>4. ReadOK(a.current, a.prop)
    BY <1>1, <1>2, <2>2, <2>3 DEF ReadOK
  <2> QED
    BY <1>2, <2>2, <2>3, <2>4
<1> QED
  BY <1>3, <1>4

(* Passing a file takes it from what is left, and no other.                *)
LEMMA PassedIs ==
  ASSUME InputsOK, NEW r, ReadOK(r.current, r.prop), NEW i \in Indexes,
         r.current[i] < SizeOf(i), NEW p, p = Passed(r, i)
  PROVE  /\ ReadOK(p.current, p.prop) /\ p.winner = r.winner
         /\ Left(p.current) = Left(r.current) \ {Next(r.current, i)}
         /\ \A k \in Indexes : k # i =>
              /\ p.current[k] = r.current[k] /\ p.prop[k] = r.prop[k]
              /\ Next(p.current, k) = Next(r.current, k)
         /\ p.current[i] < SizeOf(i) =>
              PathOf(Next(p.current, i)) > PathOf(Next(r.current, i))
<1>1. r.current \in Places /\ r.prop \in [Indexes -> Nat]
  BY DEF ReadOK
<1>2. /\ p.current = [r.current EXCEPT ![i] = @ + 1]
      /\ p.prop = [r.prop EXCEPT ![i] = 0] /\ p.winner = r.winner
  BY ReadingFields DEF Passed
<1>3. /\ p.current \in Places
      /\ \A k \in Indexes : k # i => p.current[k] = r.current[k]
      /\ Left(p.current) = Left(r.current) \ {Next(r.current, i)}
  BY <1>1, <1>2, PassingOne
<1>4. /\ p.prop \in [Indexes -> Nat] /\ p.prop[i] = 0
      /\ \A k \in Indexes : k # i => p.prop[k] = r.prop[k]
  BY <1>1, <1>2
<1>5. \A k \in Indexes : k # i => Next(p.current, k) = Next(r.current, k)
  BY <1>3 DEF Next
<1>6. ReadOK(p.current, p.prop)
  BY <1>3, <1>4, <1>5 DEF ReadOK
<1>7. ASSUME p.current[i] < SizeOf(i)
      PROVE  PathOf(Next(p.current, i)) > PathOf(Next(r.current, i))
  <2>1. Next(p.current, i) \in Left(p.current) /\ Next(p.current, i)[1] = i
    BY <1>3, <1>7, NextIs
  <2>2. Next(p.current, i) \in Left(r.current) /\ Next(p.current, i) # Next(r.current, i)
    BY <1>3, <2>1
  <2> QED
    BY <1>1, <2>1, <2>2, NextIs
<1> QED
  BY <1>2, <1>3, <1>4, <1>5, <1>6, <1>7

(* Of every file left before there is one left as new, with the same path. *)
Stands(left, before) ==
  /\ left \subseteq before
  /\ \A x \in before : \E y \in left : PathOf(y) = PathOf(x) /\ TimeOf(y) >= TimeOf(x)

(* A file may go if one as new stays, with its path.                       *)
LEMMA StillStands ==
  ASSUME InputsOK, NEW before \in SUBSET FilesMerged, NEW left, Stands(left, before),
         NEW x \in left, NEW y \in left, y # x, PathOf(y) = PathOf(x), TimeOf(y) >= TimeOf(x),
         NEW now, now = left \ {x}
  PROVE  Stands(now, before)
<1>1. left \subseteq FilesMerged
  BY DEF Stands
<1>2. ASSUME NEW z \in before
      PROVE  \E u \in now : PathOf(u) = PathOf(z) /\ TimeOf(u) >= TimeOf(z)
  <2>1. PICK u \in left : PathOf(u) = PathOf(z) /\ TimeOf(u) >= TimeOf(z)
    BY DEF Stands
  <2>2. TimeOf(u) \in Nat /\ TimeOf(z) \in Nat /\ TimeOf(x) \in Nat /\ TimeOf(y) \in Nat
    BY <1>1, MergedAre
  <2>3. CASE u = x
    BY <2>1, <2>2, <2>3
  <2>4. CASE u # x
    BY <2>1, <2>4
  <2> QED
    BY <2>3, <2>4
<1> QED
  BY <1>2 DEF Stands

(* The winner among the first j indexes.                                   *)
ContestOK(r, j) ==
  /\ ReadOK(r.current, r.prop)
  /\ Stands(Left(r.current), Left(currentFile))
  /\ r.winner \in 0..j
  /\ r.winner = 0 => \A i \in 1..j : r.current[i] = SizeOf(i)
  /\ r.winner # 0 =>
       /\ r.prop[r.winner] # 0
       /\ \A i \in 1..j : i # r.winner /\ r.current[i] < SizeOf(i) =>
            PathOf(Next(r.current, i)) > PathOf(Next(r.current, r.winner))

(* One index more takes part: the winner has the smallest path so far,     *)
(* and no path is lost.                                                    *)
LEMMA ContestKeeps ==
  ASSUME InputsOK, NEW i \in Indexes, NEW r, ContestOK(r, i - 1), NEW s, s = Contest(r, i)
  PROVE  ContestOK(s, i)
<1>1. PICK N \in Nat : N = Len(inputs) /\ Indexes = 1..N
  BY SeqFacts DEF InputsOK, Indexes
<1>2. i \in Nat /\ i \in 1..N /\ 1..i = 1..(i - 1) \cup {i} /\ \A k \in 1..i : k \in Indexes
  BY <1>1
<1>3. /\ ReadOK(r.current, r.prop)
      /\ Stands(Left(r.current), Left(currentFile))
      /\ r.winner \in 0..(i - 1)
      /\ r.winner = 0 => \A k \in 1..(i - 1) : r.current[k] = SizeOf(k)
      /\ r.winner # 0 =>
           /\ r.prop[r.winner] # 0
           /\ \A k \in 1..(i - 1) : k # r.winner /\ r.current[k] < SizeOf(k) =>
                PathOf(Next(r.current, k)) > PathOf(Next(r.current, r.winner))
  BY DEF ContestOK
<1>4. r.current \in Places /\ \A k \in Indexes : r.current[k] \in Nat /\ SizeOf(k) \in Nat /\ r.current[k] <= SizeOf(k)
  BY <1>3, SeqFacts DEF ReadOK, Places, InputsOK, FilesOK, SizeOf
<1>5. CASE r.current[i] >= SizeOf(i)
  <2>1. s = r
    BY <1>5 DEF Contest, SizeOf
  <2>2. r.current[i] = SizeOf(i) /\ ~(r.current[i] < SizeOf(i))
    BY <1>4, <1>5
  <2>3. r.winner \in 0..i
    BY <1>2, <1>3
  <2> QED
    BY <1>2, <1>3, <2>1, <2>2, <2>3 DEF ContestOK
<1>6. CASE r.current[i] < SizeOf(i)
  <2>1. PICK w : w = r.winner
    OBVIOUS
  <2>2. PICK a : a = ReadAhead(r, i)
    OBVIOUS
  <2>3. s = Against(a, i, w)
    BY <1>4, <1>6, <2>1, <2>2 DEF Contest, SizeOf
  <2>4. /\ ReadOK(a.current, a.prop) /\ a.current = r.current /\ a.winner = r.winner
        /\ a.prop[i] = PathOf(Next(r.current, i)) /\ a.prop[i] # 0
        /\ \A k \in Indexes : k # i => a.prop[k] = r.prop[k]
    BY <1>3, <1>6, <2>2, ReadAheadIs
  <2>5. Next(r.current, i) \in Left(r.current) /\ PathOf(Next(r.current, i)) \in Nat
    <3>1. Next(r.current, i) \in Left(r.current) /\ Next(r.current, i) \in FilesMerged
      BY <1>4, <1>6, NextIs DEF Left
    <3> QED
      BY <3>1, MergedAre
  <2>6. CASE w = 0
    <3>1. s = Won(a, i)
      BY <2>3, <2>6 DEF Against
    <3>2. s.current = r.current /\ s.prop = a.prop /\ s.winner = i
      BY <2>4, <3>1, ReadingFields DEF Won
    <3>3. \A k \in 1..(i - 1) : ~(r.current[k] < SizeOf(k))
      BY <1>2, <1>3, <1>4, <2>1, <2>6
    <3>4. i # 0 /\ i \in 0..i
      BY <1>2
    <3> QED
      BY <1>2, <1>3, <2>4, <3>2, <3>3, <3>4 DEF ContestOK
  <2>7. CASE w # 0
    <3>1. w \in Indexes /\ w \in 1..(i - 1) /\ w # i /\ w \in 0..i /\ i \in 0..i /\ i # 0
      BY <1>1, <1>2, <1>3, <2>1, <2>7
    <3>2. r.prop[w] # 0 /\ a.prop[w] = r.prop[w]
      BY <1>3, <2>1, <2>4, <2>7, <3>1
    <3>3. r.current[w] < SizeOf(w) /\ a.prop[w] = PathOf(Next(r.current, w))
      BY <1>3, <3>1, <3>2 DEF ReadOK
    <3>4. Next(r.current, w) \in Left(r.current) /\ PathOf(Next(r.current, w)) \in Nat
      <4>1. Next(r.current, w) \in Left(r.current) /\ Next(r.current, w) \in FilesMerged
        BY <1>4, <3>1, <3>3, NextIs DEF Left
      <4> QED
        BY <4>1, MergedAre
    <3>5. \A k \in 1..(i - 1) : k # w /\ r.current[k] < SizeOf(k) =>
            PathOf(Next(r.current, k)) > PathOf(Next(r.current, w))
      BY <1>3, <2>1, <2>7
    <3>6. ASSUME NEW k \in Indexes, r.current[k] < SizeOf(k)
          PROVE  PathOf(Next(r.current, k)) \in Nat
      <4>1. Next(r.current, k) \in FilesMerged
        BY <1>4, <3>6, NextIs DEF Left
      <4> QED
        BY <4>1, MergedAre
    <3>7. CASE a.prop[i] < a.prop[w]
      <4>1. s = Won(a, i)
        BY <2>3, <3>7 DEF Against
      <4>2. s.current = r.current /\ s.prop = a.prop /\ s.winner = i
        BY <2>4, <4>1, ReadingFields DEF Won
      <4>3. ASSUME NEW k \in 1..i, k # i, r.current[k] < SizeOf(k)
            PROVE  PathOf(Next(r.current, k)) > PathOf(Next(r.current, i))
        <5>1. k \in 1..(i - 1) /\ k \in Indexes
          BY <1>2, <4>3
        <5>2. k = w \/ PathOf(Next(r.current, k)) > PathOf(Next(r.current, w))
          BY <3>5, <4>3, <5>1
        <5>3. PathOf(Next(r.current, k)) \in Nat
          BY <3>6, <4>3, <5>1
        <5> QED
          BY <2>4, <2>5, <3>3, <3>4, <3>7, <5>2, <5>3
      <4> QED
        BY <1>3, <2>4, <3>1, <4>2, <4>3 DEF ContestOK
    <3>8. CASE a.prop[i] > a.prop[w]
      <4>1. s = a
        BY <2>3, <2>4, <2>5, <2>7, <3>3, <3>4, <3>8 DEF Against
      <4>2. s.current = r.current /\ s.prop = a.prop /\ s.winner = w
        BY <2>1, <2>4, <4>1
      <4>3. ASSUME NEW k \in 1..i, k # w, r.current[k] < SizeOf(k)
            PROVE  PathOf(Next(r.current, k)) > PathOf(Next(r.current, w))
        <5>1. CASE k = i
          BY <2>4, <3>3, <3>8, <5>1
        <5>2. CASE k # i
          <6>1. k \in 1..(i - 1)
            BY <1>2, <5>2
          <6> QED
            BY <3>5, <4>3, <6>1
        <5> QED
          BY <5>1, <5>2
      <4> QED
        BY <1>3, <2>4, <2>7, <3>1, <3>2, <4>2, <4>3 DEF ContestOK
    <3>9. CASE a.prop[i] = a.prop[w]
      <4>1. PathOf(Next(r.current, i)) = PathOf(Next(r.current, w))
        BY <2>4, <3>3, <3>9
      <4>2. Next(r.current, i) # Next(r.current, w)
        BY <1>4, <1>6, <3>1, <3>3, NextIs
      <4>3. /\ TimeOf(Next(r.current, i)) = FileAt(i, a.current[i]).mtime
            /\ TimeOf(Next(r.current, w)) = FileAt(w, a.current[w]).mtime
        BY <1>4, <1>6, <2>4, <3>1, <3>3, NextIs DEF TimeOf
      <4>4. TimeOf(Next(r.current, i)) \in Nat /\ TimeOf(Next(r.current, w)) \in Nat
        BY <2>5, <3>4, MergedAre DEF Left
      <4>5. Left(currentFile) \in SUBSET FilesMerged
        BY DEF Left
      <4>6. ~(a.prop[i] < a.prop[w]) /\ ~(a.prop[i] > a.prop[w])
        BY <2>4, <2>5, <3>9
      <4>7. CASE TimeOf(Next(r.current, i)) > TimeOf(Next(r.current, w))
        <5>1. PICK p : p = Passed(a, w)
          OBVIOUS
        <5>2. s = Won(p, i)
          BY <2>3, <2>7, <4>3, <4>6, <4>7, <5>1 DEF Against
        <5>3. s.current = p.current /\ s.prop = p.prop /\ s.winner = i
          BY <5>2, ReadingFields DEF Won
        <5>4. /\ ReadOK(p.current, p.prop)
              /\ Left(p.current) = Left(r.current) \ {Next(r.current, w)}
              /\ \A k \in Indexes : k # w =>
                   /\ p.current[k] = r.current[k] /\ p.prop[k] = a.prop[k]
                   /\ Next(p.current, k) = Next(r.current, k)
              /\ p.current[w] < SizeOf(w) =>
                   PathOf(Next(p.current, w)) > PathOf(Next(r.current, w))
          <6>1. a.current[w] < SizeOf(w) /\ w \in Indexes /\ ReadOK(a.current, a.prop)
            BY <2>4, <3>1, <3>3
          <6>2. /\ ReadOK(p.current, p.prop)
                /\ Left(p.current) = Left(a.current) \ {Next(a.current, w)}
                /\ \A k \in Indexes : k # w =>
                     /\ p.current[k] = a.current[k] /\ p.prop[k] = a.prop[k]
                     /\ Next(p.current, k) = Next(a.current, k)
                /\ p.current[w] < SizeOf(w) =>
                     PathOf(Next(p.current, w)) > PathOf(Next(a.current, w))
            BY <5>1, <6>1, PassedIs
          <6> QED
            BY <2>4, <6>2
        <5>5. Stands(Left(p.current), Left(currentFile))
          <6>1. TimeOf(Next(r.current, i)) >= TimeOf(Next(r.current, w))
            BY <4>4, <4>7
          <6> QED
            BY <1>3, <2>5, <3>4, <4>1, <4>2, <4>5, <5>4, <6>1, StillStands
        <5>6. ASSUME NEW k \in 1..i, k # i, p.current[k] < SizeOf(k)
              PROVE  PathOf(Next(p.current, k)) > PathOf(Next(p.current, i))
          <6>1. k \in 1..(i - 1) /\ k \in Indexes
            BY <1>2, <5>6
          <6>2. Next(p.current, i) = Next(r.current, i)
            BY <3>1, <5>4
          <6>3. CASE k = w
            BY <4>1, <5>4, <5>6, <6>2, <6>3
          <6>4. CASE k # w
            <7>1. r.current[k] < SizeOf(k) /\ Next(p.current, k) = Next(r.current, k)
              BY <5>4, <5>6, <6>1, <6>4
            <7> QED
              BY <3>5, <4>1, <6>1, <6>2, <6>4, <7>1
          <6> QED
            BY <6>3, <6>4
        <5>7. p.prop[i] # 0
          BY <2>4, <3>1, <5>4
        <5> QED
          BY <3>1, <5>3, <5>4, <5>5, <5>6, <5>7 DEF ContestOK
      <4>8. CASE ~(TimeOf(Next(r.current, i)) > TimeOf(Next(r.current, w)))
        <5>1. PICK p : p = Passed(a, i)
          OBVIOUS
        <5>2. s = p
          BY <2>3, <2>7, <4>3, <4>6, <4>8, <5>1 DEF Against
        <5>3. /\ ReadOK(p.current, p.prop) /\ p.winner = w
              /\ Left(p.current) = Left(r.current) \ {Next(r.current, i)}
              /\ \A k \in Indexes : k # i =>
                   /\ p.current[k] = r.current[k] /\ p.prop[k] = a.prop[k]
                   /\ Next(p.current, k) = Next(r.current, k)
              /\ p.current[i] < SizeOf(i) =>
                   PathOf(Next(p.current, i)) > PathOf(Next(r.current, i))
          <6>1. a.current[i] < SizeOf(i)
            BY <1>6, <2>4
          <6>2. /\ ReadOK(p.current, p.prop) /\ p.winner = a.winner
                /\ Left(p.current) = Left(a.current) \ {Next(a.current, i)}
                /\ \A k \in Indexes : k # i =>
                     /\ p.current[k] = a.current[k] /\ p.prop[k] = a.prop[k]
                     /\ Next(p.current, k) = Next(a.current, k)
                /\ p.current[i] < SizeOf(i) =>
                     PathOf(Next(p.current, i)) > PathOf(Next(a.current, i))
            BY <2>4, <5>1, <6>1, PassedIs
          <6> QED
            BY <2>1, <2>4, <6>2
        <5>4. Stands(Left(p.current), Left(currentFile))
          <6>1. TimeOf(Next(r.current, w)) >= TimeOf(Next(r.current, i))
            BY <4>4, <4>8
          <6> QED
            BY <1>3, <2>5, <3>4, <4>1, <4>2, <4>5, <5>3, <6>1, StillStands
        <5>5. ASSUME NEW k \in 1..i, k # w, p.current[k] < SizeOf(k)
              PROVE  PathOf(Next(p.current, k)) > PathOf(Next(p.current, w))
          <6>1. Next(p.current, w) = Next(r.current, w)
            BY <3>1, <5>3
          <6>2. CASE k = i
            BY <4>1, <5>3, <5>5, <6>1, <6>2
          <6>3. CASE k # i
            <7>1. k \in 1..(i - 1) /\ k \in Indexes
              BY <1>2, <6>3
            <7>2. r.current[k] < SizeOf(k) /\ Next(p.current, k) = Next(r.current, k)
              BY <5>3, <5>5, <6>3, <7>1
            <7> QED
              BY <3>5, <5>5, <6>1, <7>1, <7>2
          <6> QED
            BY <6>2, <6>3
        <5>6. p.prop[w] # 0
          BY <3>1, <3>2, <5>3
        <5> QED
          BY <2>7, <3>1, <5>2, <5>3, <5>4, <5>5, <5>6 DEF ContestOK
      <4> QED
        BY <4>7, <4>8
    <3>10. a.prop[i] < a.prop[w] \/ a.prop[i] > a.prop[w] \/ a.prop[i] = a.prop[w]
      BY <2>4, <2>5, <3>3, <3>4
    <3> QED
      BY <3>7, <3>8, <3>9, <3>10
  <2> QED
    BY <2>6, <2>7
<1> QED
  BY <1>2, <1>4, <1>5, <1>6

(* The loop over the indexes.                                              *)
ContestsOf(f, n) ==
  /\ f = [i \in 0..n |-> f[i]] /\ f[0] = Reading(currentFile, curProp, 0)
  /\ \A i \in 1..n : f[i] = Contest(f[i - 1], i)

LEMMA ContestsExist ==
  ASSUME NEW N \in Nat
  PROVE  \E f : ContestsOf(f, N)
<1> DEFINE Good(n) == \E f : ContestsOf(f, n)
           G == {n \in 0..N : Good(n)}
           base == Reading(currentFile, curProp, 0)
<1>1. 0 \in G
  <2> DEFINE f == [i \in 0..0 |-> base]
  <2>1. f = [i \in 0..0 |-> f[i]] /\ f[0] = base /\ 1..0 = {}
    OBVIOUS
  <2>2. Good(0)
    <3> HIDE DEF f
    <3> QED
      BY <2>1 DEF ContestsOf
  <2> HIDE DEF Good
  <2> QED
    BY <2>2
<1>2. ASSUME NEW n \in 0..(N - 1), n \in G PROVE n + 1 \in G
  <2>1. PICK f : ContestsOf(f, n)
    BY <1>2
  <2> DEFINE g == [i \in 0..(n + 1) |-> IF i = n + 1 THEN Contest(f[n], n + 1) ELSE f[i]]
  <2>2. g = [i \in 0..(n + 1) |-> g[i]]
    OBVIOUS
  <2>3. g[0] = base
    BY <2>1 DEF ContestsOf
  <2>4. ASSUME NEW i \in 1..(n + 1) PROVE g[i] = Contest(g[i - 1], i)
    <3>1. i \in 0..(n + 1) /\ i - 1 \in 0..(n + 1) /\ i - 1 # n + 1
      OBVIOUS
    <3>2. g[i - 1] = f[i - 1]
      BY <3>1
    <3>3. CASE i = n + 1
      <4>1. g[i] = Contest(f[n], n + 1) /\ i - 1 = n
        BY <3>1, <3>3
      <4> HIDE DEF g
      <4> QED
        BY <3>2, <3>3, <4>1
    <3>4. CASE i # n + 1
      <4>1. i \in 1..n /\ g[i] = f[i]
        BY <3>1, <3>4
      <4> HIDE DEF g
      <4> QED
        BY <2>1, <3>2, <4>1 DEF ContestsOf
    <3> QED
      BY <3>3, <3>4
  <2>5. Good(n + 1)
    <3> HIDE DEF g
    <3> QED
      BY <2>2, <2>3, <2>4 DEF ContestsOf
  <2> HIDE DEF Good
  <2> QED
    BY <2>5
<1>3. \A n \in 0..N : n \in G
  <2> HIDE DEF G
  <2> QED
    BY <1>1, <1>2, UpTo
<1> QED
  BY <1>3

(* So it is when all have.                                                 *)
LEMMA ContestedIs ==
  ASSUME InputsOK, ReadOK(currentFile, curProp)
  PROVE  ContestOK(Contested, Len(inputs))
<1>1. PICK N \in Nat : N = Len(inputs) /\ Indexes = 1..N
  BY SeqFacts DEF InputsOK, Indexes
<1> DEFINE base == Reading(currentFile, curProp, 0)
           contest[i \in 0..Len(inputs)] ==
             IF i = 0 THEN Reading(currentFile, curProp, 0) ELSE Contest(contest[i - 1], i)
<1>2. Contested = contest[N]
  BY <1>1 DEF Contested
<1>3. PICK f : ContestsOf(f, N)
  BY ContestsExist
<1>4. f = [i \in 0..N |-> IF i = 0 THEN base ELSE Contest(f[i - 1], i)]
  <2> HIDE DEF contest
  <2> DEFINE h == [i \in 0..N |-> IF i = 0 THEN base ELSE Contest(f[i - 1], i)]
  <2>1. \A i \in 0..N : i = 0 \/ i \in 1..N
    OBVIOUS
  <2>2. \A i \in 0..N : f[i] = h[i]
    BY <1>3, <2>1 DEF ContestsOf
  <2>3. f = [i \in 0..N |-> f[i]] /\ h = [i \in 0..N |-> h[i]]
    BY <1>3 DEF ContestsOf
  <2> QED
    BY <2>2, <2>3
<1>5. contest = [i \in 0..N |-> IF i = 0 THEN base ELSE Contest(contest[i - 1], i)]
  BY <1>1, <1>4
<1>6. contest[0] = base /\ \A i \in 1..N : contest[i] = Contest(contest[i - 1], i)
  <2> HIDE DEF contest, base
  <2>1. \A i \in 0..N : contest[i] = IF i = 0 THEN base ELSE Contest(contest[i - 1], i)
    BY Zenon, <1>5
  <2>2. 0 \in 0..N /\ \A i \in 1..N : i \in 0..N /\ i # 0
    OBVIOUS
  <2> QED
    BY <2>1, <2>2
<1> HIDE DEF contest
<1> DEFINE Good(n) == ContestOK(contest[n], n)
           G == {n \in 0..N : Good(n)}
<1>7. 0 \in G
  <2>1. contest[0].current = currentFile /\ contest[0].prop = curProp /\ contest[0].winner = 0
    BY <1>6, ReadingFields
  <2>2. Left(currentFile) \subseteq FilesMerged
    BY DEF Left
  <2>3. Stands(Left(currentFile), Left(currentFile))
    <3>1. \A x \in Left(currentFile) : TimeOf(x) >= TimeOf(x)
      BY <2>2, MergedAre
    <3> QED
      BY <3>1 DEF Stands
  <2>4. 1..0 = {} /\ 0 \in 0..0
    OBVIOUS
  <2>5. Good(0)
    BY <2>1, <2>3, <2>4 DEF ContestOK
  <2> HIDE DEF Good
  <2> QED
    BY <2>5
<1>8. ASSUME NEW n \in 0..(N - 1), n \in G PROVE n + 1 \in G
  <2>1. n + 1 \in 1..N /\ (n + 1) - 1 = n /\ n + 1 \in 0..N /\ n + 1 \in Indexes
    BY <1>1
  <2>2. contest[n + 1] = Contest(contest[n], n + 1)
    BY <1>6, <2>1
  <2>3. ContestOK(contest[n], (n + 1) - 1)
    BY <1>8, <2>1
  <2>4. Good(n + 1)
    BY <2>1, <2>2, <2>3, ContestKeeps
  <2> HIDE DEF Good
  <2> QED
    BY <2>1, <2>4
<1>9. \A n \in 0..N : n \in G
  <2> HIDE DEF G
  <2> QED
    BY <1>7, <1>8, UpTo
<1>10. Good(N)
  <2>1. N \in 0..N
    OBVIOUS
  <2> QED
    BY <1>9, <2>1
<1> QED
  BY <1>1, <1>2, <1>10

-----------------------------------------------------------------------------
(* The files of the output.                                                *)

(* What is in the output is the newest of its path, with its properties,   *)
(* and no path is in it twice.                                             *)
SourceOf(f) == <<f.index, f.filenum>>
OutputsOK(outs) ==
  /\ IsSeq(outs)
  /\ \A k \in DOMAIN outs :
       /\ SourceOf(outs[k]) \in Newest(outs[k].path)
       /\ outs[k].props = MappedProps(outs[k].index, outs[k].filenum)
  /\ \A k, j \in DOMAIN outs : outs[k].path = outs[j].path => k = j

(* All paths in it are smaller than those left, and every file read is in  *)
(* the output or replaced, by one in it or by one left.                    *)
IsOut(outs, path) == \E k \in DOMAIN outs : outs[k].path = path
PathsBelow(outs, left) == \A k \in DOMAIN outs : \A y \in left : outs[k].path < PathOf(y)
Covered(outs, left) ==
  \A x \in FilesMerged \ left :
    \/ IsOut(outs, PathOf(x))
    \/ \E y \in left : PathOf(y) = PathOf(x) /\ TimeOf(y) >= TimeOf(x)

ReadingOK(current, prop, outs) ==
  ReadOK(current, prop) /\ PathsBelow(outs, Left(current)) /\ Covered(outs, Left(current))

(* The file that won has the smallest path of those left.                  *)
LEMMA WinnerIs ==
  ASSUME InputsOK, NEW r, ContestOK(r, Len(inputs)), NEW w, w = r.winner, w # 0,
         NEW z, z = Next(r.current, w)
  PROVE  /\ w \in Indexes /\ r.current[w] < SizeOf(w) /\ z \in Left(r.current)
         /\ z[1] = w
         /\ \A y \in Left(r.current) : y # z => PathOf(y) > PathOf(z)
<1>1. PICK N \in Nat : N = Len(inputs) /\ Indexes = 1..N
  BY SeqFacts DEF InputsOK, Indexes
<1>2. w \in 0..N /\ w \in Indexes
  BY <1>1 DEF ContestOK
<1>3. r.current \in Places /\ r.current[w] < SizeOf(w)
  BY <1>2 DEF ContestOK, ReadOK
<1>4. z \in Left(r.current) /\ z[1] = w
  BY <1>2, <1>3, NextIs
<1>5. ASSUME NEW y \in Left(r.current), y # z PROVE PathOf(y) > PathOf(z)
  <2>1. y[1] \in Indexes /\ r.current[y[1]] < SizeOf(y[1])
    BY <1>3, LeftHasNext
  <2>2. CASE y[1] = w
    BY <1>2, <1>3, <1>5, <2>2, NextIs
  <2>3. CASE y[1] # w
    <3>1. PICK i \in Indexes : i = y[1]
      BY <2>1
    <3>2. PICK x : x = Next(r.current, i)
      OBVIOUS
    <3>3. PathOf(x) > PathOf(z)
      BY <1>1, <2>1, <2>3, <3>1, <3>2 DEF ContestOK
    <3>4. x \in Left(r.current) /\ (y # x => PathOf(y) > PathOf(x))
      BY <1>3, <2>1, <3>1, <3>2, NextIs
    <3>5. PathOf(x) \in Nat /\ PathOf(y) \in Nat /\ PathOf(z) \in Nat
      BY <1>4, <3>4, MergedAre DEF Left
    <3> QED
      BY <3>3, <3>4, <3>5
  <2> QED
    BY <2>2, <2>3
<1> QED
  BY <1>2, <1>3, <1>4, <1>5

(* With no winner there is nothing left.                                   *)
LEMMA NoneLeft ==
  ASSUME InputsOK, ReadingOK(currentFile, curProp, outFiles),
         Contested.winner = 0
  PROVE  \A x \in FilesMerged : IsOut(outFiles, PathOf(x))
<1>1. PICK r : r = Contested
  OBVIOUS
<1>2. ContestOK(r, Len(inputs))
  BY <1>1, ContestedIs DEF ReadingOK
<1>3. PICK N \in Nat : N = Len(inputs) /\ Indexes = 1..N
  BY SeqFacts DEF InputsOK, Indexes
<1>4. \A i \in Indexes : r.current[i] = SizeOf(i)
  BY <1>1, <1>2, <1>3 DEF ContestOK
<1>5. Left(r.current) = {}
  <2> SUFFICES ASSUME NEW x \in Left(r.current) PROVE FALSE
    OBVIOUS
  <2>1. x[1] \in Indexes /\ r.current[x[1]] < SizeOf(x[1])
    BY <1>2, LeftHasNext DEF ContestOK, ReadOK
  <2>2. SizeOf(x[1]) \in Nat
    BY <2>1, SeqFacts DEF InputsOK, FilesOK, SizeOf
  <2> QED
    BY <1>4, <2>1, <2>2
<1>6. Left(currentFile) = {}
  BY <1>2, <1>5 DEF ContestOK, Stands
<1> QED
  BY <1>6 DEF ReadingOK, Covered

(* The winner is taken.                                                    *)
LEMMA WinnerTaken ==
  ASSUME InputsOK, ReadingOK(currentFile, curProp, outFiles), OutputsOK(outFiles),
         NEW r, r = Contested, NEW w, w = r.winner, w # 0,
         NEW outs, outs = AddFile(w, PathOrder(w)[r.current[w] + 1]),
         NEW taken, taken = Passed(r, w)
  PROVE  ReadingOK(taken.current, taken.prop, outs) /\ OutputsOK(outs)
<1>1. ContestOK(r, Len(inputs))
  BY ContestedIs DEF ReadingOK
<1>2. PICK z : z = Next(r.current, w)
  OBVIOUS
<1>3. /\ w \in Indexes /\ r.current[w] < SizeOf(w) /\ z \in Left(r.current) /\ z[1] = w
      /\ \A y \in Left(r.current) : y # z => PathOf(y) > PathOf(z)
  BY <1>1, <1>2, WinnerIs
<1>4. /\ ReadOK(r.current, r.prop)
      /\ Left(r.current) \subseteq Left(currentFile)
      /\ \A x \in Left(currentFile) : \E y \in Left(r.current) :
           PathOf(y) = PathOf(x) /\ TimeOf(y) >= TimeOf(x)
  BY <1>1 DEF ContestOK, Stands
<1>5. ReadOK(taken.current, taken.prop) /\ Left(taken.current) = Left(r.current) \ {z}
  <2>1. ReadOK(r.current, r.prop) /\ w \in Indexes /\ r.current[w] < SizeOf(w)
    BY <1>3, <1>4
  <2>2. /\ ReadOK(taken.current, taken.prop)
        /\ Left(taken.current) = Left(r.current) \ {Next(r.current, w)}
    BY <2>1, PassedIs
  <2> QED
    BY <1>2, <2>2
<1>6. Left(currentFile) \subseteq FilesMerged /\ z \in FilesMerged
  BY <1>3, <1>4 DEF Left
<1>7. \A x \in FilesMerged : PathOf(x) \in Nat /\ TimeOf(x) \in Nat
  BY MergedAre
<1>8. PICK n : n = PathOrder(w)[r.current[w] + 1]
  OBVIOUS
<1>9. z = <<w, n>>
  BY <1>2, <1>8 DEF Next
<1>10. PICK f : f = [path |-> inputs[w].files[n].path, props |-> MappedProps(w, n),
                     index |-> w, filenum |-> n]
  OBVIOUS
<1>11. /\ f.path = PathOf(z) /\ SourceOf(f) = z /\ f.index = w /\ f.filenum = n
       /\ f.props = MappedProps(f.index, f.filenum)
  <2>1. f.path = inputs[w].files[n].path /\ f.index = w /\ f.filenum = n /\ f.props = MappedProps(w, n)
    BY <1>10
  <2>2. PathOf(z) = inputs[w].files[n].path
    BY <1>9 DEF PathOf, MergedFile
  <2> QED
    BY <1>9, <2>1, <2>2 DEF SourceOf
<1>12. outs = Append(outFiles, f)
  BY <1>8, <1>10 DEF AddFile
<1>13. /\ IsSeq(outs) /\ DOMAIN outs = DOMAIN outFiles \cup {Len(outFiles) + 1}
       /\ Len(outFiles) + 1 \notin DOMAIN outFiles
       /\ \A k \in DOMAIN outFiles : outs[k] = outFiles[k]
       /\ outs[Len(outFiles) + 1] = f
  BY <1>12, Appended DEF OutputsOK
<1>14. /\ PathsBelow(outFiles, Left(currentFile)) /\ Covered(outFiles, Left(currentFile))
  BY DEF ReadingOK
<1>15. \A x \in Left(currentFile) :
         \/ PathOf(x) = PathOf(z) /\ TimeOf(z) >= TimeOf(x)
         \/ \E y \in Left(taken.current) : PathOf(y) = PathOf(x) /\ TimeOf(y) >= TimeOf(x)
  BY <1>4, <1>5
<1>16. z \in Newest(PathOf(z))
  <2> SUFFICES ASSUME NEW y \in FilesMerged, PathOf(y) = PathOf(z)
               PROVE  TimeOf(z) >= TimeOf(y)
    BY <1>6 DEF Newest, PathOf, TimeOf
  <2>1. ASSUME NEW x \in Left(currentFile), PathOf(x) = PathOf(z)
        PROVE  TimeOf(z) >= TimeOf(x)
    <3>1. PICK u \in Left(r.current) : PathOf(u) = PathOf(x) /\ TimeOf(u) >= TimeOf(x)
      BY <1>4
    <3>2. u = z
      BY <1>3, <1>4, <1>6, <1>7, <2>1, <3>1
    <3> QED
      BY <3>1, <3>2
  <2>2. CASE y \in Left(currentFile)
    BY <2>1, <2>2
  <2>3. CASE y \notin Left(currentFile)
    <3>1. ~IsOut(outFiles, PathOf(z))
      BY <1>3, <1>4, <1>6, <1>7, <1>14 DEF PathsBelow, IsOut
    <3>2. PICK x \in Left(currentFile) : PathOf(x) = PathOf(y) /\ TimeOf(x) >= TimeOf(y)
      BY <1>14, <2>3, <3>1 DEF Covered
    <3>3. TimeOf(z) >= TimeOf(x)
      BY <2>1, <3>2
    <3> QED
      BY <1>6, <1>7, <3>2, <3>3
  <2> QED
    BY <2>2, <2>3
<1>17. OutputsOK(outs)
  <2>1. ASSUME NEW k \in DOMAIN outs
        PROVE  /\ SourceOf(outs[k]) \in Newest(outs[k].path)
               /\ outs[k].props = MappedProps(outs[k].index, outs[k].filenum)
    <3>1. CASE k \in DOMAIN outFiles
      BY <1>13, <3>1 DEF OutputsOK
    <3>2. CASE k = Len(outFiles) + 1
      BY <1>11, <1>13, <1>16, <3>2
    <3> QED
      BY <1>13, <3>1, <3>2
  <2>2. \A k \in DOMAIN outFiles : outFiles[k].path # f.path
    BY <1>3, <1>4, <1>6, <1>7, <1>11, <1>14 DEF PathsBelow
  <2>3. ASSUME NEW k \in DOMAIN outs, NEW j \in DOMAIN outs, outs[k].path = outs[j].path
        PROVE  k = j
    <3>1. CASE k \in DOMAIN outFiles /\ j \in DOMAIN outFiles
      <4>1. outFiles[k].path = outFiles[j].path
        BY <1>13, <2>3, <3>1
      <4> QED
        BY <3>1, <4>1 DEF OutputsOK
    <3>2. CASE k = Len(outFiles) + 1 \/ j = Len(outFiles) + 1
      BY <1>13, <2>2, <2>3, <3>2
    <3> QED
      BY <1>13, <3>1, <3>2
  <2>4. \A k \in DOMAIN outs :
          /\ SourceOf(outs[k]) \in Newest(outs[k].path)
          /\ outs[k].props = MappedProps(outs[k].index, outs[k].filenum)
    BY <2>1
  <2>5. IsSeq(outs)
    BY <1>13
  <2> QED
    BY Zenon, <2>3, <2>4, <2>5 DEF OutputsOK
<1>18. PathsBelow(outs, Left(taken.current))
  <2>1. \A y \in Left(taken.current) : y \in Left(currentFile) /\ PathOf(z) < PathOf(y)
    BY <1>3, <1>4, <1>5, <1>6, <1>7
  <2> QED
    BY <1>11, <1>13, <1>14, <2>1 DEF PathsBelow
<1>19. Covered(outs, Left(taken.current))
  <2>1. IsOut(outs, PathOf(z)) /\ \A path : IsOut(outFiles, path) => IsOut(outs, path)
    BY <1>11, <1>13 DEF IsOut
  <2>2. ASSUME NEW x \in Left(currentFile)
        PROVE  \/ IsOut(outs, PathOf(x))
               \/ \E y \in Left(taken.current) : PathOf(y) = PathOf(x) /\ TimeOf(y) >= TimeOf(x)
    BY <1>15, <2>1
  <2>3. ASSUME NEW x \in FilesMerged, x \notin Left(currentFile)
        PROVE  \/ IsOut(outs, PathOf(x))
               \/ \E y \in Left(taken.current) : PathOf(y) = PathOf(x) /\ TimeOf(y) >= TimeOf(x)
    <3>1. CASE IsOut(outFiles, PathOf(x))
      BY <2>1, <3>1
    <3>2. CASE ~IsOut(outFiles, PathOf(x))
      <4>1. PICK u \in Left(currentFile) : PathOf(u) = PathOf(x) /\ TimeOf(u) >= TimeOf(x)
        BY <1>14, <2>3, <3>2 DEF Covered
      <4>2. CASE IsOut(outs, PathOf(u))
        BY <4>1, <4>2
      <4>3. CASE ~IsOut(outs, PathOf(u))
        <5>1. PICK y \in Left(taken.current) : PathOf(y) = PathOf(u) /\ TimeOf(y) >= TimeOf(u)
          BY <2>2, <4>3
        <5>2. y \in FilesMerged /\ u \in FilesMerged
          BY <1>4, <1>5, <1>6
        <5>3. TimeOf(y) >= TimeOf(x)
          BY <1>7, <4>1, <5>1, <5>2
        <5> QED
          BY <4>1, <5>1, <5>3
      <4> QED
        BY <4>2, <4>3
    <3> QED
      BY <3>1, <3>2
  <2> QED
    BY <2>2, <2>3 DEF Covered
<1> QED
  BY <1>5, <1>17, <1>18, <1>19 DEF ReadingOK

-----------------------------------------------------------------------------
(***************************************************************************)
(* Merging indexes: the data of a word.                                    *)
(***************************************************************************)

LEMMA OneOrNone ==
  ASSUME NEW T, NEW x \in T
  PROVE  /\ <<x>> \in Seq(T) /\ <<>> \in Seq(T)
         /\ \A y : y \in ToSet(<<x>>) <=> y = x
         /\ \A y : y \notin ToSet(<<>>)
<1>1. <<x>> \in Seq(T) /\ <<>> \in Seq(T)
  OBVIOUS
<1>2. DOMAIN <<x>> = {1} /\ <<x>>[1] = x
  OBVIOUS
<1>3. DOMAIN <<>> = {}
  OBVIOUS
<1> QED
  BY <1>1, <1>2, <1>3 DEF ToSet

LEMMA ListIn ==
  ASSUME NEW T, NEW N \in Nat, NEW s, s = [i \in 1..N |-> s[i]], \A i \in 1..N : s[i] \in T
  PROVE  s \in Seq(T) /\ DOMAIN s = 1..N
<1>1. s \in [1..N -> T]
  OBVIOUS
<1> QED
  BY <1>1

(* get_map finds the file of the output that has come from there.          *)
LEMMA FileMapIs ==
  ASSUME InputsOK, OutputsOK(outFiles), NEW i, NEW n
  PROVE  /\ FileMap(i, n) # 0 => FileMap(i, n) \in DOMAIN outFiles
         /\ \A k \in DOMAIN outFiles :
              FileMap(i, n) = k <=> outFiles[k].index = i /\ outFiles[k].filenum = n
<1> DEFINE S == {k \in DOMAIN outFiles : outFiles[k].index = i /\ outFiles[k].filenum = n}
<1>1. DOMAIN outFiles \subseteq Nat \ {0}
  BY SeqFacts DEF OutputsOK
<1>2. ASSUME NEW k \in S, NEW j \in S PROVE k = j
  <2>1. SourceOf(outFiles[k]) = <<i, n>> /\ SourceOf(outFiles[j]) = <<i, n>>
    BY DEF SourceOf
  <2>2. <<i, n>> \in Newest(outFiles[k].path) /\ <<i, n>> \in Newest(outFiles[j].path)
    BY <2>1 DEF OutputsOK
  <2>3. outFiles[k].path = outFiles[j].path
    BY <2>2 DEF Newest
  <2> QED
    BY <2>3 DEF OutputsOK
<1>3. FileMap(i, n) = CHOOSE x \in {0} \cup S : \A y \in {0} \cup S : x >= y
  BY DEF FileMap, Max
<1>4. CASE S = {}
  <2>1. \E x \in {0} \cup S : \A y \in {0} \cup S : x >= y
    BY <1>4
  <2>2. FileMap(i, n) \in {0} \cup S
    BY <1>3, <2>1
  <2>3. FileMap(i, n) = 0
    BY <1>4, <2>2
  <2>4. \A k \in DOMAIN outFiles : ~(outFiles[k].index = i /\ outFiles[k].filenum = n)
    BY <1>4
  <2> QED
    BY <1>1, <2>3, <2>4
<1>5. CASE S # {}
  <2>1. PICK m \in S : S = {m}
    BY <1>2, <1>5
  <2>2. m \in Nat /\ m > 0
    BY <1>1
  <2>3. \E x \in {0} \cup S : \A y \in {0} \cup S : x >= y
    BY <2>1, <2>2
  <2>4. FileMap(i, n) \in {0} \cup S /\ \A y \in {0} \cup S : FileMap(i, n) >= y
    BY <1>3, <2>3
  <2>5. FileMap(i, n) = m
    BY <2>1, <2>2, <2>4
  <2>6. \A k \in DOMAIN outFiles : k = m <=> outFiles[k].index = i /\ outFiles[k].filenum = n
    BY <2>1
  <2> QED
    BY <2>5, <2>6
<1> QED
  BY <1>4, <1>5

(* A word's data in an index has just its locations there.                 *)
LEMMA DataIs ==
  ASSUME InputsOK, NEW i \in Indexes, IsSeq(inputs[i].metas), NEW w,
         NEW S, S = [file : DOMAIN inputs[i].files, meta : DOMAIN inputs[i].metas]
  PROVE  /\ WordDataOf(i, w) \in Seq(S)
         /\ \A l : l \in ToSet(WordDataOf(i, w)) <=>
              \E m \in DOMAIN inputs[i].metas, n \in DOMAIN inputs[i].files :
                /\ [word |-> w, meta |-> m] \in inputs[i].files[n].words
                /\ l = [file |-> n, meta |-> m]
<1>1. PICK M \in Nat : DOMAIN inputs[i].metas = 1..M
  BY SeqFacts
<1>2. PICK N \in Nat : DOMAIN inputs[i].files = 1..N
  BY SeqFacts DEF InputsOK, FilesOK
<1> DEFINE Has(m, n) == [word |-> w, meta |-> m] \in inputs[i].files[n].words
           Loc(m, n) == [file |-> n, meta |-> m]
           row(m) == [n \in DOMAIN inputs[i].files |-> DataIn(i, w, m, n)]
           rows == [m \in DOMAIN inputs[i].metas |-> FlattenSeq(row(m))]
<1>3. ASSUME NEW m \in 1..M, NEW n \in 1..N
      PROVE  /\ DataIn(i, w, m, n) \in Seq(S)
             /\ \A l : l \in ToSet(DataIn(i, w, m, n)) <=> Has(m, n) /\ l = Loc(m, n)
  <2>1. Loc(m, n) \in S
    BY <1>1, <1>2
  <2>2. DataIn(i, w, m, n) = IF Has(m, n) THEN <<Loc(m, n)>> ELSE <<>>
    BY DEF DataIn
  <2>3. PICK x : x = Loc(m, n)
    OBVIOUS
  <2> HIDE DEF Has, Loc
  <2>4. /\ <<x>> \in Seq(S) /\ <<>> \in Seq(S)
        /\ \A y : y \in ToSet(<<x>>) <=> y = x
        /\ \A y : y \notin ToSet(<<>>)
    BY <2>1, <2>3, OneOrNone
  <2>5. CASE Has(m, n)
    <3>1. DataIn(i, w, m, n) = <<x>>
      BY <2>2, <2>3, <2>5
    <3> QED
      BY Zenon, <2>3, <2>4, <2>5, <3>1
  <2>6. CASE ~Has(m, n)
    <3>1. DataIn(i, w, m, n) = <<>>
      BY <2>2, <2>6
    <3> QED
      BY Zenon, <2>4, <2>6, <3>1
  <2> QED
    BY <2>5, <2>6
<1>4. ASSUME NEW m \in 1..M
      PROVE  /\ FlattenSeq(row(m)) \in Seq(S)
             /\ \A l : l \in ToSet(FlattenSeq(row(m))) <=>
                  \E n \in 1..N : Has(m, n) /\ l = Loc(m, n)
  <2>1. row(m) \in Seq(Seq(S)) /\ DOMAIN row(m) = 1..N
    <3>1. row(m) = [n \in 1..N |-> row(m)[n]] /\ \A n \in 1..N : row(m)[n] = DataIn(i, w, m, n)
      BY <1>2
    <3>2. PICK Q : Q = Seq(S)
      OBVIOUS
    <3> HIDE DEF row
    <3>3. \A n \in 1..N : row(m)[n] \in Q
      BY Zenon, <1>3, <3>1, <3>2
    <3>4. row(m) \in Seq(Q) /\ DOMAIN row(m) = 1..N
      BY Zenon, <3>1, <3>3, ListIn
    <3> QED
      BY Zenon, <3>2, <3>4
  <2>2. \A n \in 1..N : row(m)[n] = DataIn(i, w, m, n)
    BY <1>2
  <2> HIDE DEF row, Has, Loc
  <2>3. /\ FlattenSeq(row(m)) \in Seq(S)
        /\ \A x : x \in ToSet(FlattenSeq(row(m))) <=> \E n \in DOMAIN row(m) : x \in ToSet(row(m)[n])
    BY <2>1, Flattened
  <2> QED
    BY <1>3, <2>1, <2>2, <2>3
<1>5. rows \in Seq(Seq(S)) /\ DOMAIN rows = 1..M
  <2> HIDE DEF row
  <2>1. rows = [m \in 1..M |-> rows[m]] /\ \A m \in 1..M : rows[m] = FlattenSeq(row(m))
    BY <1>1
  <2>2. PICK Q : Q = Seq(S)
    OBVIOUS
  <2> HIDE DEF rows
  <2>3. \A m \in 1..M : rows[m] \in Q
    BY Zenon, <1>4, <2>1, <2>2
  <2>4. rows \in Seq(Q) /\ DOMAIN rows = 1..M
    BY Zenon, <2>1, <2>3, ListIn
  <2> QED
    BY Zenon, <2>2, <2>4
<1>6. \A m \in 1..M : rows[m] = FlattenSeq(row(m))
  BY <1>1
<1>7. WordDataOf(i, w) = FlattenSeq(rows)
  BY DEF WordDataOf
<1> HIDE DEF rows, row, Has, Loc
<1>8. /\ FlattenSeq(rows) \in Seq(S)
      /\ \A x : x \in ToSet(FlattenSeq(rows)) <=> \E m \in DOMAIN rows : x \in ToSet(rows[m])
  BY <1>5, Flattened
<1>9. \A l : l \in ToSet(WordDataOf(i, w)) <=> \E m \in 1..M, n \in 1..N : Has(m, n) /\ l = Loc(m, n)
  BY <1>4, <1>5, <1>6, <1>7, <1>8
<1> QED
  BY <1>1, <1>2, <1>7, <1>8, <1>9 DEF Has, Loc

(* The metanames of all indexes are mapped to those of the output.         *)
MapOK(i) ==
  /\ MapsTo(outMetas, metaMap[i], inputs[i].metas, Len(inputs[i].metas))
  /\ AliasesKept(outMetas, metaMap[i], inputs[i].metas, Len(inputs[i].metas))

(* What is merged of a word: its locations in the files that are kept.     *)
KeptLocation(l, i, m, n, w) ==
  /\ [word |-> w, meta |-> m] \in inputs[i].files[n].words
  /\ FileMap(i, n) # 0
  /\ l = [file |-> FileMap(i, n), meta |-> metaMap[i][m]]

(* What is written of it has the locations in files that were kept.        *)
LEMMA WrittenIs ==
  ASSUME InputsOK, OutputsOK(outFiles), NEW i \in Indexes, IsSeq(inputs[i].metas), MapOK(i),
         NEW w, NEW T, T = [file : DOMAIN outFiles, meta : DOMAIN outMetas]
  PROVE  /\ WrittenOf(i, WordDataOf(i, w)) \in Seq(T)
         /\ \A l : l \in ToSet(WrittenOf(i, WordDataOf(i, w))) <=>
              \E m \in DOMAIN inputs[i].metas, n \in DOMAIN inputs[i].files :
                KeptLocation(l, i, m, n, w)
<1> DEFINE S == [file : DOMAIN inputs[i].files, meta : DOMAIN inputs[i].metas]
<1>1. PICK data : data = WordDataOf(i, w)
  OBVIOUS
<1>2. /\ data \in Seq(S)
      /\ \A l : l \in ToSet(data) <=>
           \E m \in DOMAIN inputs[i].metas, n \in DOMAIN inputs[i].files :
             /\ [word |-> w, meta |-> m] \in inputs[i].files[n].words
             /\ l = [file |-> n, meta |-> m]
  <2>1. PICK Q : Q = [file : DOMAIN inputs[i].files, meta : DOMAIN inputs[i].metas]
    OBVIOUS
  <2>2. /\ WordDataOf(i, w) \in Seq(Q)
        /\ \A l : l \in ToSet(WordDataOf(i, w)) <=>
             \E m \in DOMAIN inputs[i].metas, n \in DOMAIN inputs[i].files :
               /\ [word |-> w, meta |-> m] \in inputs[i].files[n].words
               /\ l = [file |-> n, meta |-> m]
    BY <2>1, DataIs
  <2>3. Q = S
    BY <2>1
  <2> HIDE DEF S
  <2> QED
    BY Zenon, <1>1, <2>2, <2>3
<1>3. PICK N \in Nat : DOMAIN data = 1..N
  BY <1>2
<1>4. ASSUME NEW l \in S
      PROVE  /\ WriteWordPos(i, l) \in Seq(T)
             /\ \A x : x \in ToSet(WriteWordPos(i, l)) <=>
                  FileMap(i, l.file) # 0 /\ x = [file |-> FileMap(i, l.file), meta |-> metaMap[i][l.meta]]
  <2> DEFINE y == [file |-> FileMap(i, l.file), meta |-> metaMap[i][l.meta]]
  <2>1. WriteWordPos(i, l) = IF FileMap(i, l.file) = 0 THEN <<>> ELSE <<y>>
    BY DEF WriteWordPos
  <2>2. metaMap[i][l.meta] \in DOMAIN outMetas
    BY SeqFacts DEF MapOK, MapsTo
  <2>3. FileMap(i, l.file) # 0 => y \in T
    BY <2>2, FileMapIs
  <2> HIDE DEF y
  <2>4. CASE FileMap(i, l.file) = 0
    <3>1. <<>> \in Seq(T) /\ ToSet(<<>>) = {}
      BY DEF ToSet
    <3> QED
      BY <2>1, <2>4, <3>1
  <2>5. CASE FileMap(i, l.file) # 0
    <3>1. PICK z : z = y
      OBVIOUS
    <3>2. /\ <<z>> \in Seq(T)
          /\ \A x : x \in ToSet(<<z>>) <=> x = z
      BY <2>3, <2>5, <3>1, OneOrNone
    <3>3. WriteWordPos(i, l) = <<z>>
      BY <2>1, <2>5, <3>1
    <3>4. \A x : x \in ToSet(WriteWordPos(i, l)) <=> x = z
      BY Zenon, <3>2, <3>3
    <3> QED
      BY Zenon, <2>5, <3>1, <3>2, <3>3, <3>4 DEF y
  <2> QED
    BY <2>4, <2>5
<1> DEFINE ss == [k \in DOMAIN data |-> WriteWordPos(i, data[k])]
<1> HIDE DEF S
<1>5. \A k \in 1..N : data[k] \in S
  <2>1. data \in Seq(S)
    BY <1>2
  <2>2. N = Len(data)
    BY <1>3, <2>1
  <2> QED
    BY <2>1, <2>2
<1>6. ss \in Seq(Seq(T)) /\ DOMAIN ss = 1..N
  <2>1. ss = [k \in 1..N |-> ss[k]] /\ \A k \in 1..N : ss[k] = WriteWordPos(i, data[k])
    BY <1>3
  <2>2. PICK Q : Q = Seq(T)
    OBVIOUS
  <2> HIDE DEF ss
  <2>3. \A k \in 1..N : ss[k] \in Q
    BY Zenon, <1>4, <1>5, <2>1, <2>2
  <2>4. ss \in Seq(Q) /\ DOMAIN ss = 1..N
    BY Zenon, <2>1, <2>3, ListIn
  <2> QED
    BY Zenon, <2>2, <2>4
<1>7. \A k \in 1..N : ss[k] = WriteWordPos(i, data[k])
  BY <1>3
<1>8. WrittenOf(i, data) = FlattenSeq(ss)
  BY DEF WrittenOf
<1> HIDE DEF ss
<1>9. /\ FlattenSeq(ss) \in Seq(T)
      /\ \A x : x \in ToSet(FlattenSeq(ss)) <=> \E k \in DOMAIN ss : x \in ToSet(ss[k])
  BY <1>6, Flattened
<1>10. ASSUME NEW x
       PROVE  x \in ToSet(WrittenOf(i, data)) <=>
                \E l \in ToSet(data) : /\ FileMap(i, l.file) # 0
                                       /\ x = [file |-> FileMap(i, l.file), meta |-> metaMap[i][l.meta]]
  <2>1. x \in ToSet(WrittenOf(i, data)) <=>
          \E k \in 1..N : /\ FileMap(i, data[k].file) # 0
                          /\ x = [file |-> FileMap(i, data[k].file), meta |-> metaMap[i][data[k].meta]]
    <3>1. ASSUME NEW k \in 1..N
          PROVE  x \in ToSet(ss[k]) <=>
                   /\ FileMap(i, data[k].file) # 0
                   /\ x = [file |-> FileMap(i, data[k].file), meta |-> metaMap[i][data[k].meta]]
      <4>1. PICK l : l = data[k]
        OBVIOUS
      <4>2. l \in S /\ ss[k] = WriteWordPos(i, l)
        BY <1>5, <1>7, <4>1
      <4>3. x \in ToSet(WriteWordPos(i, l)) <=>
              /\ FileMap(i, l.file) # 0
              /\ x = [file |-> FileMap(i, l.file), meta |-> metaMap[i][l.meta]]
        BY Zenon, <1>4, <4>2
      <4> QED
        BY Zenon, <4>1, <4>2, <4>3
    <3>2. x \in ToSet(WrittenOf(i, data)) <=> \E k \in 1..N : x \in ToSet(ss[k])
      BY Zenon, <1>6, <1>8, <1>9
    <3> QED
      BY <3>1, <3>2
  <2>2. \A l : l \in ToSet(data) <=> \E k \in 1..N : l = data[k]
    BY <1>3 DEF ToSet
  <2> QED
    BY <2>1, <2>2
<1>11. ASSUME NEW x
       PROVE  x \in ToSet(WrittenOf(i, data)) <=>
                \E m \in DOMAIN inputs[i].metas, n \in DOMAIN inputs[i].files :
                  KeptLocation(x, i, m, n, w)
  <2>1. ASSUME NEW l \in ToSet(data), FileMap(i, l.file) # 0,
               x = [file |-> FileMap(i, l.file), meta |-> metaMap[i][l.meta]]
        PROVE  \E m \in DOMAIN inputs[i].metas, n \in DOMAIN inputs[i].files :
                 KeptLocation(x, i, m, n, w)
    <3>1. PICK m \in DOMAIN inputs[i].metas, n \in DOMAIN inputs[i].files :
            /\ [word |-> w, meta |-> m] \in inputs[i].files[n].words
            /\ l = [file |-> n, meta |-> m]
      BY <1>2
    <3>2. l.file = n /\ l.meta = m
      BY <3>1
    <3>3. KeptLocation(x, i, m, n, w)
      BY <2>1, <3>1, <3>2 DEF KeptLocation
    <3> QED
      BY <3>3
  <2>2. ASSUME NEW m \in DOMAIN inputs[i].metas, NEW n \in DOMAIN inputs[i].files,
               KeptLocation(x, i, m, n, w)
        PROVE  \E l \in ToSet(data) :
                 /\ FileMap(i, l.file) # 0
                 /\ x = [file |-> FileMap(i, l.file), meta |-> metaMap[i][l.meta]]
    <3>1. PICK l : l = [file |-> n, meta |-> m]
      OBVIOUS
    <3>2. l.file = n /\ l.meta = m
      BY <3>1
    <3>3. l \in ToSet(data)
      BY <1>2, <2>2, <3>1 DEF KeptLocation
    <3> QED
      BY <2>2, <3>2, <3>3 DEF KeptLocation
  <2> QED
    BY <1>10, <2>1, <2>2
<1> QED
  BY <1>1, <1>8, <1>9, <1>11

(* The data merged of a word has the locations in files kept of all        *)
(* indexes.                                                                *)
LEMMA MergedIs ==
  ASSUME InputsOK, OutputsOK(outFiles),
         \A i \in Indexes : IsSeq(inputs[i].metas) /\ MapOK(i), NEW w
  PROVE  \A l : l \in ToSet(MergedData(w)) <=>
           \E i \in Indexes :
             \E m \in DOMAIN inputs[i].metas, n \in DOMAIN inputs[i].files :
               KeptLocation(l, i, m, n, w)
<1> DEFINE T == [file : DOMAIN outFiles, meta : DOMAIN outMetas]
           written(i) == WrittenOf(i, WordDataOf(i, w))
           ss == [i \in Indexes |-> written(i)]
<1>1. PICK N \in Nat : Indexes = 1..N
  BY SeqFacts DEF InputsOK, Indexes
<1>2. ASSUME NEW i \in Indexes
      PROVE  /\ written(i) \in Seq(T)
             /\ \A l : l \in ToSet(written(i)) <=>
                  \E m \in DOMAIN inputs[i].metas, n \in DOMAIN inputs[i].files :
                    KeptLocation(l, i, m, n, w)
  BY WrittenIs
<1>3. MergedData(w) = FlattenSeq(ss)
  BY DEF MergedData
<1> HIDE DEF T, written
<1>4. ss \in Seq(Seq(T)) /\ DOMAIN ss = Indexes /\ \A i \in Indexes : ss[i] = written(i)
  BY <1>1, <1>2
<1> HIDE DEF ss
<1>5. \A x : x \in ToSet(FlattenSeq(ss)) <=> \E i \in DOMAIN ss : x \in ToSet(ss[i])
  BY <1>4, Flattened
<1> QED
  BY <1>2, <1>3, <1>4, <1>5

-----------------------------------------------------------------------------
(***************************************************************************)
(* Merging indexes: the invariant.                                         *)
(***************************************************************************)

(* What stays the same while the indexes, the numbers of their metanames   *)
(* and the files of the output do.                                         *)
LEMMA SameOrder ==
  ASSUME inputs' = inputs, NEW i
  PROVE  PathOrder(i)' = PathOrder(i)
BY DEF PathOrder, Place

LEMMA SameFiles ==
  ASSUME inputs' = inputs
  PROVE  Indexes' = Indexes /\ FilesMerged' = FilesMerged
BY DEF Indexes, FilesMerged

LEMMA SameFile ==
  ASSUME inputs' = inputs, NEW x
  PROVE  PathOf(x)' = PathOf(x) /\ TimeOf(x)' = TimeOf(x) /\ PlaceOf(x)' = PlaceOf(x)
BY DEF PathOf, TimeOf, PlaceOf, MergedFile, Place

LEMMA SameNewest ==
  ASSUME inputs' = inputs, NEW path
  PROVE  Newest(path)' = Newest(path)
BY SameFiles, SameFile DEF Newest, MergedFile

LEMMA SameMappedProps ==
  ASSUME inputs' = inputs, metaMap' = metaMap, NEW i, NEW n
  PROVE  MappedProps(i, n)' = MappedProps(i, n)
BY DEF MappedProps

LEMMA SameFileMap ==
  ASSUME outFiles' = outFiles, NEW i, NEW n
  PROVE  FileMap(i, n)' = FileMap(i, n)
BY DEF FileMap, Max

LEMMA SameReading ==
  ASSUME inputs' = inputs,
         NEW c, NEW p, NEW o, ReadingOK(c, p, o), currentFile' = c, curProp' = p, outFiles' = o
  PROVE  ReadingOK(currentFile, curProp, outFiles)'
<1>1. ReadOK(currentFile, curProp)'
  <2>1. Places' = Places
    BY SameFiles DEF Places, SizeOf
  <2> QED
    BY <2>1, SameFiles, SameFile, SameOrder DEF ReadingOK, ReadOK, Next, SizeOf
<1>2. Left(currentFile)' = Left(c)
  BY SameFiles, SameFile DEF Left
<1>3. PathsBelow(outFiles, Left(currentFile))'
  BY <1>2, SameFile DEF ReadingOK, PathsBelow
<1>4. Covered(outFiles, Left(currentFile))'
  BY <1>2, SameFiles, SameFile DEF ReadingOK, Covered, IsOut
<1> QED
  BY <1>1, <1>3, <1>4 DEF ReadingOK

LEMMA SameOutputs ==
  ASSUME inputs' = inputs, metaMap' = metaMap, NEW o, OutputsOK(o), outFiles' = o
  PROVE  OutputsOK(outFiles)'
BY SameNewest, SameMappedProps DEF OutputsOK, SourceOf

(* What is assumed of the indexes merged.                                  *)
LEMMA InputsAre ==
  ASSUME inputs \in MergeInputs
  PROVE  /\ InputsOK
         /\ \A i \in Indexes :
              /\ MetasOK(inputs[i].metas)
              /\ \A n \in DOMAIN inputs[i].files :
                   /\ inputs[i].files[n].words \subseteq
                        [word : MergeWords, meta : NoAlias(inputs[i].metas)]
                   /\ \A p \in inputs[i].files[n].props :
                        p.prop \in NoAlias(inputs[i].metas) /\ p = [prop |-> p.prop, value |-> p.value]
<1>1. IsSeq(inputs)
  BY MergeAssumption
<1>2. ASSUME NEW i \in Indexes
      PROVE  /\ IsSeq(inputs[i].metas) /\ IsSeq(inputs[i].files)
             /\ \A m \in DOMAIN inputs[i].metas : inputs[i].metas[m].alias \in 0..(m - 1)
             /\ \A m, k \in DOMAIN inputs[i].metas :
                  inputs[i].metas[m].name = inputs[i].metas[k].name => m = k
             /\ \A n, k \in DOMAIN inputs[i].files :
                  inputs[i].files[n].path = inputs[i].files[k].path => n = k
             /\ \A n \in DOMAIN inputs[i].files :
                  /\ inputs[i].files[n].path \in Nat \ {0} /\ inputs[i].files[n].mtime \in Nat
                  /\ inputs[i].files[n].words \subseteq
                       [word : MergeWords, meta : NoAlias(inputs[i].metas)]
                  /\ \A p \in inputs[i].files[n].props :
                       p.prop \in NoAlias(inputs[i].metas) /\ p = [prop |-> p.prop, value |-> p.value]
  BY MergeAssumption DEF Indexes
<1> QED
  BY <1>1, <1>2 DEF InputsOK, FilesOK, MetasOK, OneEach

(* The data merged of a word is that of all its locations in files kept.   *)
LocationsOK(w) ==
  \A l : l \in ToSet(locations[w]) <=>
    \E i \in Indexes :
      \E m \in DOMAIN inputs[i].metas, n \in DOMAIN inputs[i].files :
        KeptLocation(l, i, m, n, w)

HeldIn(i, w) ==
  \E n \in DOMAIN inputs[i].files : \E l \in inputs[i].files[n].words : l.word = w

(* The numbers that the metanames of the indexes opened have are theirs;   *)
(* every file read is in the output or replaced; every word of an index    *)
(* read has an entry, and what has been merged of a word is right.         *)
MetasInv ==
  /\ IsSeq(outMetas) /\ OneEach(outMetas) /\ AliasFrom(outMetas, inputs)
  /\ metaMap = [i \in Indexes |-> metaMap[i]]
  /\ stage = "open" => \A i \in 1..opened : MapOK(i)
  /\ stage \in {"files", "words", "data", "done"} => \A i \in Indexes : MapOK(i)

FilesInv ==
  /\ OutputsOK(outFiles)
  /\ stage = "open" => outFiles = <<>>
  /\ stage \in {"open", "files"} => ReadingOK(currentFile, curProp, outFiles)
  /\ stage \in {"words", "data", "done"} => \A x \in FilesMerged : IsOut(outFiles, PathOf(x))

WordsInv ==
  /\ locations = [w \in MergeWords |-> locations[w]]
  /\ stage \in {"open", "files", "words"} => \A w \in MergeWords : locations[w] = <<>>
  /\ stage = "words" => \A i \in 1..opened : \A w \in MergeWords : HeldIn(i, w) => w \in wordsLeft
  /\ stage \in {"data", "done"} => \A w \in MergeWords : w \notin wordsLeft => LocationsOK(w)
  /\ stage = "done" => wordsLeft = {}

MergeInv ==
  /\ inputs \in MergeInputs
  /\ stage \in {"open", "files", "words", "data", "done", "refused"}
  /\ opened \in 0..Len(inputs)
  /\ MetasInv /\ FilesInv /\ WordsInv

LEMMA MergeStarts == MergeInit => MergeInv
<1> SUFFICES ASSUME MergeInit PROVE MergeInv
  OBVIOUS
<1>1. inputs \in MergeInputs /\ stage = "open" /\ opened = 0
  BY DEF MergeInit, MergeBegins
<1>2. InputsOK /\ Len(inputs) \in Nat
  BY <1>1, InputsAre, SeqFacts DEF InputsOK
<1>3. DOMAIN <<>> = {} /\ IsSeq(<<>>) /\ 1..0 = {}
  BY DEF IsSeq, ToSet
<1>4. MetasInv
  <2>1. outMetas = <<>> /\ metaMap = [i \in Indexes |-> <<>>]
    BY DEF MergeInit, MergeBegins
  <2>2. IsSeq(outMetas) /\ OneEach(outMetas) /\ AliasFrom(outMetas, inputs)
    BY <1>3, <2>1 DEF OneEach, AliasFrom
  <2> QED
    BY <1>1, <1>3, <2>1, <2>2 DEF MetasInv
<1>5. FilesInv
  <2>1. /\ outFiles = <<>> /\ currentFile = [i \in Indexes |-> 0]
        /\ curProp = [i \in Indexes |-> 0]
    BY DEF MergeInit, MergeBegins
  <2>2. OutputsOK(outFiles)
    BY <1>3, <2>1 DEF OutputsOK
  <2>3. \A i \in Indexes : SizeOf(i) \in Nat
    BY <1>2, SeqFacts DEF InputsOK, FilesOK, SizeOf
  <2>4. ReadOK(currentFile, curProp)
    BY <2>1, <2>3 DEF ReadOK, Places
  <2>5. ASSUME NEW x \in FilesMerged PROVE x \in Left(currentFile)
    <3>1. x[1] \in Indexes /\ x[2] \in DOMAIN inputs[x[1]].files
      BY <1>2, MergedAre
    <3>2. PlaceOf(x) \in 0..(SizeOf(x[1]) - 1)
      BY <1>2, <3>1, PlaceIs DEF PlaceOf, SizeOf, InputsOK
    <3> QED
      BY <2>1, <2>3, <3>1, <3>2 DEF Left
  <2>6. ReadingOK(currentFile, curProp, outFiles)
    BY <1>3, <2>1, <2>4, <2>5 DEF ReadingOK, PathsBelow, Covered
  <2> QED
    BY <1>1, <2>1, <2>2, <2>6 DEF FilesInv
<1>6. WordsInv
  <2>1. locations = [w \in MergeWords |-> <<>>]
    BY DEF MergeInit, MergeBegins
  <2> QED
    BY <1>1, <2>1 DEF WordsInv
<1> QED
  BY <1>1, <1>2, <1>4, <1>5, <1>6 DEF MergeInv

(* The numbers stay right while the output goes on.                        *)
LEMMA MapKept ==
  ASSUME NEW metas, MetasOK(metas), NEW map, NEW out, NEW now, IsSeq(out),
         MapsTo(out, map, metas, Len(metas)), AliasesKept(out, map, metas, Len(metas)),
         SameNames(out, now), SameAliases(out, now)
  PROVE  MapsTo(now, map, metas, Len(metas)) /\ AliasesKept(now, map, metas, Len(metas))
<1>1. PICK N \in Nat : N = Len(metas) /\ DOMAIN metas = 1..N
  BY SeqFacts DEF MetasOK
<1>2. 0 \notin DOMAIN out
  BY SeqFacts
<1>3. \A m \in 1..N : map[m] \in DOMAIN out /\ out[map[m]].name = metas[m].name
  BY <1>1 DEF MapsTo
<1>4. \A m \in 1..N : map[m] \in DOMAIN now /\ now[map[m]].name = metas[m].name
  BY <1>3 DEF SameNames
<1>5. ASSUME NEW m \in 1..N, metas[m].alias # 0
      PROVE  now[map[m]].alias = map[metas[m].alias]
  <2>1. out[map[m]].alias = map[metas[m].alias]
    BY <1>1, <1>5 DEF AliasesKept
  <2>2. metas[m].alias \in 1..N
    <3>1. metas[m].alias \in 0..(m - 1)
      BY <1>1 DEF MetasOK
    <3> QED
      BY <1>1, <1>5, <3>1
  <2>3. out[map[m]].alias # 0
    BY <1>2, <1>3, <2>1, <2>2
  <2> QED
    BY <1>3, <2>1, <2>3 DEF SameAliases
<1> QED
  BY <1>1, <1>4, <1>5 DEF MapsTo, AliasesKept

(* Another index is opened, or refused.                                    *)
LEMMA OpenKeepsMetas ==
  ASSUME MergeInv, OpenIndex
  PROVE  MetasInv' /\ stage' \in {"open", "files", "refused"} /\ opened' \in 0..Len(inputs)
<1>1. PICK N \in Nat : N = Len(inputs) /\ Indexes = 1..N
  BY InputsAre, SeqFacts DEF InputsOK, Indexes, MergeInv
<1>2. PICK i : i = opened'
  OBVIOUS
<1>3. i \in 1..N /\ i = opened + 1 /\ i \in Indexes /\ opened \in Nat /\ stage = "open" /\ inputs' = inputs
  BY <1>1, <1>2 DEF OpenIndex, MergeInv
<1>4. /\ IsSeq(outMetas) /\ OneEach(outMetas) /\ AliasFrom(outMetas, inputs)
      /\ metaMap = [k \in Indexes |-> metaMap[k]]
      /\ \A k \in 1..opened : MapOK(k)
  BY <1>3 DEF MergeInv, MetasInv
<1>5. \A k \in Indexes : MetasOK(inputs[k].metas)
  BY InputsAre DEF MergeInv
<1>6. PICK metas : metas = inputs[i].metas
  OBVIOUS
<1>7. PICK made : made = MakeMetaMap(metas)
  OBVIOUS
<1>8. MakingOK(made, outMetas, metas, Len(metas), inputs)
  BY <1>3, <1>4, <1>5, <1>6, <1>7, MakeMetaMapIs DEF Indexes
<1>9. Indexes' = Indexes
  BY <1>3, SameFiles
<1>10. CASE inputs[i].header = inputs[1].header /\ made.wrong = {}
  <2>1. /\ outMetas' = made.out /\ metaMap' = [metaMap EXCEPT ![i] = made.map]
        /\ stage' = IF i = Len(inputs) THEN "files" ELSE stage
    BY <1>2, <1>6, <1>7, <1>10 DEF OpenIndex
  <2>2. IsSeq(outMetas') /\ OneEach(outMetas') /\ AliasFrom(outMetas', inputs)
    BY <1>8, <2>1 DEF MakingOK
  <2>3. /\ SameNames(outMetas, outMetas') /\ SameAliases(outMetas, outMetas')
        /\ MapsTo(outMetas', made.map, metas, Len(metas))
        /\ AliasesKept(outMetas', made.map, metas, Len(metas))
    BY <1>8, <1>10, <2>1 DEF MakingOK
  <2>4. /\ metaMap' = [k \in Indexes |-> metaMap'[k]] /\ metaMap'[i] = made.map
        /\ \A k \in Indexes : k # i => metaMap'[k] = metaMap[k]
    BY <1>3, <1>4, <2>1
  <2>5. ASSUME NEW k \in 1..i PROVE MapOK(k)'
    <3>1. CASE k = i
      BY <1>3, <1>6, <2>3, <2>4, <3>1 DEF MapOK
    <3>2. CASE k # i
      <4>1. k \in 1..opened /\ k \in Indexes
        BY <1>1, <1>3, <3>2
      <4>2. PICK known : known = inputs[k].metas
        OBVIOUS
      <4>3. /\ MetasOK(known) /\ MapsTo(outMetas, metaMap[k], known, Len(known))
            /\ AliasesKept(outMetas, metaMap[k], known, Len(known))
        BY <1>4, <1>5, <4>1, <4>2 DEF MapOK
      <4>4. /\ MapsTo(outMetas', metaMap[k], known, Len(known))
            /\ AliasesKept(outMetas', metaMap[k], known, Len(known))
        BY <1>4, <2>3, <4>3, MapKept
      <4> QED
        BY <1>3, <2>4, <3>2, <4>1, <4>2, <4>4 DEF MapOK
    <3> QED
      BY <3>1, <3>2
  <2>6. CASE i = N
    <3>1. stage' = "files" /\ \A k \in Indexes : MapOK(k)'
      BY <1>1, <2>1, <2>5, <2>6
    <3> QED
      BY <1>1, <1>2, <1>3, <1>9, <2>2, <2>4, <3>1 DEF MetasInv
  <2>7. CASE i # N
    <3>1. stage' = "open"
      BY <1>1, <1>3, <2>1, <2>7
    <3> QED
      BY <1>1, <1>2, <1>3, <1>9, <2>2, <2>4, <2>5, <3>1 DEF MetasInv
  <2> QED
    BY <2>6, <2>7
<1>11. CASE ~(inputs[i].header = inputs[1].header /\ made.wrong = {})
  <2>1. outMetas' = outMetas /\ metaMap' = metaMap /\ stage' = "refused"
    BY <1>2, <1>6, <1>7, <1>11 DEF OpenIndex
  <2> QED
    BY <1>1, <1>2, <1>3, <1>4, <1>9, <2>1 DEF MetasInv
<1> QED
  BY <1>10, <1>11

LEMMA OpenKeeps ==
  ASSUME MergeInv, OpenIndex
  PROVE  MergeInv'
<1>1. MetasInv' /\ stage' \in {"open", "files", "refused"} /\ opened' \in 0..Len(inputs)
  BY OpenKeepsMetas
<1>2. /\ inputs' = inputs /\ currentFile' = currentFile /\ curProp' = curProp
      /\ outFiles' = outFiles /\ locations' = locations /\ stage = "open"
  BY DEF OpenIndex
<1>3. FilesInv'
  <2>1. outFiles = <<>> /\ outFiles' = <<>> /\ ReadingOK(currentFile, curProp, outFiles)
    BY <1>2 DEF MergeInv, FilesInv
  <2>2. OutputsOK(outFiles)'
    <3>1. DOMAIN <<>> = {} /\ IsSeq(<<>>)
      BY DEF IsSeq, ToSet
    <3> QED
      BY <2>1, <3>1 DEF OutputsOK
  <2>3. ReadingOK(currentFile, curProp, outFiles)'
    BY <1>2, <2>1, SameReading
  <2> QED
    BY <1>1, <2>1, <2>2, <2>3 DEF FilesInv
<1>4. WordsInv'
  <2>1. /\ locations = [w \in MergeWords |-> locations[w]]
        /\ \A w \in MergeWords : locations[w] = <<>>
    BY <1>2 DEF MergeInv, WordsInv
  <2> QED
    BY <1>1, <1>2, <2>1 DEF WordsInv
<1> QED
  BY <1>1, <1>2, <1>3, <1>4 DEF MergeInv

LEMMA SameMetas ==
  ASSUME MetasInv, inputs' = inputs, outMetas' = outMetas, metaMap' = metaMap,
         stage \in {"files", "words", "data", "done"},
         stage' \in {"files", "words", "data", "done"}
  PROVE  MetasInv'
<1>1. \A i \in Indexes : MapOK(i)
  BY DEF MetasInv
<1>2. \A i : MapOK(i)' <=> MapOK(i)
  BY DEF MapOK
<1> QED
  BY <1>1, <1>2, SameFiles DEF MetasInv

LEMMA SameFilesInv ==
  ASSUME FilesInv, inputs' = inputs, metaMap' = metaMap, outFiles' = outFiles,
         stage \in {"words", "data"}, stage' \in {"words", "data", "done"}
  PROVE  FilesInv'
<1>1. OutputsOK(outFiles)'
  BY SameOutputs DEF FilesInv
<1>2. \A x \in FilesMerged : IsOut(outFiles, PathOf(x))
  BY DEF FilesInv
<1>3. (\A x \in FilesMerged : IsOut(outFiles, PathOf(x)))'
  BY <1>2, SameFiles, SameFile DEF IsOut
<1> QED
  BY <1>1, <1>3 DEF FilesInv

LEMMA SameLocations ==
  ASSUME inputs' = inputs, metaMap' = metaMap, outFiles' = outFiles,
         NEW w, LocationsOK(w), locations'[w] = locations[w]
  PROVE  LocationsOK(w)'
<1>1. \A l, i, m, n : KeptLocation(l, i, m, n, w)' <=> KeptLocation(l, i, m, n, w)
  BY SameFileMap DEF KeptLocation
<1> QED
  BY <1>1, SameFiles DEF LocationsOK

(* A file is taken, or none is left.                                       *)
LEMMA NextKeeps ==
  ASSUME MergeInv, NextFile
  PROVE  MergeInv'
<1>1. /\ inputs' = inputs /\ outMetas' = outMetas /\ metaMap' = metaMap /\ stage = "files"
      /\ wordsLeft' = wordsLeft /\ locations' = locations
  BY DEF NextFile
<1>2. InputsOK /\ Len(inputs) \in Nat
  BY InputsAre, SeqFacts DEF MergeInv, InputsOK
<1>3. OutputsOK(outFiles) /\ ReadingOK(currentFile, curProp, outFiles)
  BY <1>1 DEF MergeInv, FilesInv
<1>4. PICK r : r = Contested
  OBVIOUS
<1>5. PICK w : w = r.winner
  OBVIOUS
<1>6. /\ locations = [v \in MergeWords |-> locations[v]]
      /\ \A v \in MergeWords : locations[v] = <<>>
  BY <1>1 DEF MergeInv, WordsInv
<1>7. CASE w # 0
  <2>1. PICK taken : taken = Passed(r, w)
    OBVIOUS
  <2>2. /\ outFiles' = AddFile(w, PathOrder(w)[r.current[w] + 1])
        /\ currentFile' = taken.current /\ curProp' = taken.prop
        /\ stage' = stage /\ opened' = opened
    BY <1>4, <1>5, <1>7, <2>1 DEF NextFile
  <2>3. PICK outs : outs = AddFile(w, PathOrder(w)[r.current[w] + 1])
    OBVIOUS
  <2>4. ReadingOK(taken.current, taken.prop, outs) /\ OutputsOK(outs)
    BY <1>2, <1>3, <1>4, <1>5, <1>7, <2>1, <2>3, WinnerTaken
  <2>5. ReadingOK(currentFile, curProp, outFiles)' /\ OutputsOK(outFiles)'
    BY <1>1, <2>2, <2>3, <2>4, SameReading, SameOutputs
  <2>6. FilesInv'
    BY <1>1, <2>2, <2>5 DEF FilesInv
  <2>7. MetasInv'
    BY <1>1, <2>2, SameMetas DEF MergeInv
  <2>8. WordsInv'
    BY <1>1, <1>6, <2>2 DEF WordsInv
  <2> QED
    BY <1>1, <2>2, <2>6, <2>7, <2>8 DEF MergeInv
<1>8. CASE w = 0
  <2>1. stage' = "words" /\ opened' = 0 /\ outFiles' = outFiles
    BY <1>4, <1>5, <1>8 DEF NextFile
  <2>2. \A x \in FilesMerged : IsOut(outFiles, PathOf(x))
    BY <1>2, <1>3, <1>4, <1>5, <1>8, NoneLeft
  <2>3. (\A x \in FilesMerged : IsOut(outFiles, PathOf(x)))'
    BY <1>1, <2>1, <2>2, SameFiles, SameFile DEF IsOut
  <2>4. OutputsOK(outFiles)'
    BY <1>1, <1>3, <2>1, SameOutputs
  <2>5. FilesInv'
    BY <2>1, <2>3, <2>4 DEF FilesInv
  <2>6. MetasInv'
    BY <1>1, <2>1, SameMetas DEF MergeInv
  <2>7. WordsInv'
    <3>1. 1..0 = {}
      OBVIOUS
    <3> QED
      BY <1>1, <1>6, <2>1, <3>1 DEF WordsInv
  <2> QED
    BY <1>1, <1>2, <2>1, <2>5, <2>6, <2>7 DEF MergeInv
<1> QED
  BY <1>7, <1>8

(* The words of an index are read.                                         *)
LEMMA ReadKeeps ==
  ASSUME MergeInv, ReadWords
  PROVE  MergeInv'
<1>1. /\ inputs' = inputs /\ outMetas' = outMetas /\ metaMap' = metaMap /\ stage = "words"
      /\ outFiles' = outFiles /\ locations' = locations
      /\ opened < Len(inputs) /\ opened' = opened + 1
      /\ stage' = IF opened' = Len(inputs) THEN "data" ELSE stage
  BY DEF ReadWords
<1>2. PICK N \in Nat : N = Len(inputs) /\ Indexes = 1..N
  BY InputsAre, SeqFacts DEF InputsOK, Indexes, MergeInv
<1>3. PICK i : i = opened'
  OBVIOUS
<1>4. opened \in Nat /\ i \in 1..N /\ i \in Indexes /\ 1..i = 1..opened \cup {i} /\ opened' \in 0..N
  BY <1>1, <1>2, <1>3 DEF MergeInv
<1>5. stage' \in {"words", "data"} /\ (stage' = "data" <=> i = N)
  BY <1>1, <1>2, <1>3
<1>6. MetasInv'
  BY <1>1, <1>5, SameMetas DEF MergeInv
<1>7. FilesInv'
  BY <1>1, <1>5, SameFilesInv DEF MergeInv
<1>8. /\ locations = [v \in MergeWords |-> locations[v]]
      /\ \A v \in MergeWords : locations[v] = <<>>
      /\ \A k \in 1..opened : \A v \in MergeWords : HeldIn(k, v) => v \in wordsLeft
  BY <1>1 DEF MergeInv, WordsInv
<1>9. wordsLeft \subseteq wordsLeft'
  BY DEF ReadWords
<1>10. ASSUME NEW v \in MergeWords, HeldIn(i, v) PROVE v \in wordsLeft'
  <2>1. PICK n \in DOMAIN inputs[i].files : \E l \in inputs[i].files[n].words : l.word = v
    BY <1>10 DEF HeldIn
  <2>2. PICK l \in inputs[i].files[n].words : l.word = v
    BY <2>1
  <2>3. PICK f : f = inputs[i].files[n]
    OBVIOUS
  <2>4. f \in ToSet(inputs[i].files) /\ l \in f.words
    BY <2>2, <2>3 DEF ToSet
  <2>5. l \in UNION {g.words : g \in ToSet(inputs[i].files)}
    BY <2>4
  <2>6. wordsLeft' = wordsLeft \cup {k.word : k \in UNION {g.words : g \in ToSet(inputs[i].files)}}
    BY <1>3 DEF ReadWords
  <2> QED
    BY <2>2, <2>5, <2>6
<1>11. \A k \in 1..i : \A v \in MergeWords : HeldIn(k, v) => v \in wordsLeft'
  BY <1>4, <1>8, <1>9, <1>10
<1>12. \A k, v : HeldIn(k, v)' <=> HeldIn(k, v)
  BY <1>1 DEF HeldIn
<1>13. CASE i = N
  <2>1. ASSUME NEW v \in MergeWords, v \notin wordsLeft' PROVE LocationsOK(v)
    <3>1. \A k \in Indexes : ~HeldIn(k, v)
      BY <1>2, <1>11, <1>13, <2>1
    <3>2. ASSUME NEW l, NEW k \in Indexes, NEW m \in DOMAIN inputs[k].metas,
                 NEW n \in DOMAIN inputs[k].files, KeptLocation(l, k, m, n, v)
          PROVE  FALSE
      <4>1. PICK y : y = [word |-> v, meta |-> m]
        OBVIOUS
      <4>2. y \in inputs[k].files[n].words /\ y.word = v
        BY <3>2, <4>1 DEF KeptLocation
      <4> QED
        BY <3>1, <4>2 DEF HeldIn
    <3>3. ToSet(locations[v]) = {}
      BY <1>8 DEF ToSet
    <3> QED
      BY <3>2, <3>3 DEF LocationsOK
  <2>2. \A v \in MergeWords : v \notin wordsLeft' => LocationsOK(v)'
    BY <1>1, <2>1, SameLocations
  <2>3. stage' = "data"
    BY <1>5, <1>13
  <2>4. WordsInv'
    BY <1>1, <1>8, <2>2, <2>3 DEF WordsInv
  <2> QED
    BY <1>1, <1>2, <1>4, <1>6, <1>7, <2>3, <2>4 DEF MergeInv
<1>14. CASE i # N
  <2>1. stage' = "words"
    BY <1>5, <1>14
  <2>2. WordsInv'
    BY <1>1, <1>3, <1>8, <1>11, <1>12, <2>1 DEF WordsInv
  <2> QED
    BY <1>1, <1>2, <1>4, <1>6, <1>7, <2>1, <2>2 DEF MergeInv
<1> QED
  BY <1>13, <1>14

(* The data of a word is merged.                                           *)
LEMMA MergeWordKeeps ==
  ASSUME MergeInv, NEW w \in MergeWords, MergeWord(w)
  PROVE  MergeInv'
<1>1. /\ inputs' = inputs /\ outMetas' = outMetas /\ metaMap' = metaMap
      /\ stage = "data" /\ stage' = stage
      /\ outFiles' = outFiles /\ opened' = opened
      /\ locations' = [locations EXCEPT ![w] = MergedData(w)]
      /\ wordsLeft' = wordsLeft \ {w}
  BY DEF MergeWord
<1>2. MetasInv'
  BY <1>1, SameMetas DEF MergeInv
<1>3. FilesInv'
  BY <1>1, SameFilesInv DEF MergeInv
<1>4. /\ locations = [v \in MergeWords |-> locations[v]]
      /\ \A v \in MergeWords : v \notin wordsLeft => LocationsOK(v)
  BY <1>1 DEF MergeInv, WordsInv
<1>5. /\ locations' = [v \in MergeWords |-> locations'[v]]
      /\ locations'[w] = MergedData(w)
      /\ \A v \in MergeWords : v # w => locations'[v] = locations[v]
  BY <1>1, <1>4
<1>6. \A i \in Indexes : IsSeq(inputs[i].metas) /\ MapOK(i)
  BY <1>1, InputsAre DEF MergeInv, MetasInv, MetasOK
<1>7. InputsOK /\ OutputsOK(outFiles)
  BY InputsAre DEF MergeInv, FilesInv
<1>8. LocationsOK(w)'
  <2>1. \A l : l \in ToSet(MergedData(w)) <=>
          \E i \in Indexes :
            \E m \in DOMAIN inputs[i].metas, n \in DOMAIN inputs[i].files :
              KeptLocation(l, i, m, n, w)
    BY <1>6, <1>7, MergedIs
  <2>2. \A l, i, m, n : KeptLocation(l, i, m, n, w)' <=> KeptLocation(l, i, m, n, w)
    BY <1>1, SameFileMap DEF KeptLocation
  <2>3. ToSet(locations'[w]) = ToSet(MergedData(w))
    BY <1>5
  <2> QED
    BY <1>1, <2>1, <2>2, <2>3, SameFiles DEF LocationsOK
<1>9. ASSUME NEW v \in MergeWords, v \notin wordsLeft' PROVE LocationsOK(v)'
  <2>1. CASE v = w
    BY <1>8, <2>1
  <2>2. CASE v # w
    <3>1. LocationsOK(v) /\ locations'[v] = locations[v]
      BY <1>1, <1>4, <1>5, <1>9, <2>2
    <3> QED
      BY <1>1, <3>1, SameLocations
  <2> QED
    BY <2>1, <2>2
<1>10. WordsInv'
  BY <1>1, <1>5, <1>9 DEF WordsInv
<1> QED
  BY <1>1, <1>2, <1>3, <1>10 DEF MergeInv

LEMMA WriteKeeps ==
  ASSUME MergeInv, WriteMerged
  PROVE  MergeInv'
<1>1. /\ inputs' = inputs /\ outMetas' = outMetas /\ metaMap' = metaMap
      /\ stage = "data" /\ stage' = "done"
      /\ outFiles' = outFiles /\ opened' = opened /\ locations' = locations
      /\ wordsLeft = {} /\ wordsLeft' = {}
  BY DEF WriteMerged
<1>2. MetasInv' /\ FilesInv'
  BY <1>1, SameMetas, SameFilesInv DEF MergeInv
<1>3. /\ locations = [v \in MergeWords |-> locations[v]]
      /\ \A v \in MergeWords : LocationsOK(v)
  BY <1>1 DEF MergeInv, WordsInv
<1>4. \A v \in MergeWords : LocationsOK(v)'
  BY <1>1, <1>3, SameLocations
<1>5. WordsInv'
  BY <1>1, <1>3, <1>4 DEF WordsInv
<1> QED
  BY <1>1, <1>2, <1>5 DEF MergeInv

LEMMA StutterKeeps ==
  ASSUME MergeInv, UNCHANGED mergeVars
  PROVE  MergeInv'
<1>1. /\ inputs' = inputs /\ stage' = stage /\ opened' = opened /\ outMetas' = outMetas
      /\ metaMap' = metaMap /\ currentFile' = currentFile /\ curProp' = curProp
      /\ outFiles' = outFiles /\ wordsLeft' = wordsLeft /\ locations' = locations
  BY DEF mergeVars
<1>2. MetasInv'
  <2>1. \A i : MapOK(i)' <=> MapOK(i)
    BY <1>1 DEF MapOK
  <2> QED
    BY <1>1, <2>1, SameFiles DEF MergeInv, MetasInv
<1>3. FilesInv'
  <2>1. OutputsOK(outFiles)'
    BY <1>1, SameOutputs DEF MergeInv, FilesInv
  <2>2. stage' \in {"open", "files"} => ReadingOK(currentFile, curProp, outFiles)'
    BY <1>1, SameReading DEF MergeInv, FilesInv
  <2>3. stage' \in {"words", "data", "done"} =>
          (\A x \in FilesMerged : IsOut(outFiles, PathOf(x)))'
    BY <1>1, SameFiles, SameFile DEF MergeInv, FilesInv, IsOut
  <2> QED
    BY <1>1, <2>1, <2>2, <2>3 DEF MergeInv, FilesInv
<1>4. WordsInv'
  <2>1. \A k, v : HeldIn(k, v)' <=> HeldIn(k, v)
    BY <1>1 DEF HeldIn
  <2>2. \A v : LocationsOK(v) => LocationsOK(v)'
    BY <1>1, SameLocations
  <2> QED
    BY <1>1, <2>1, <2>2 DEF MergeInv, WordsInv
<1> QED
  BY <1>1, <1>2, <1>3, <1>4 DEF MergeInv

-----------------------------------------------------------------------------
(* What the invariant says of a merge that is done.                        *)

(* A file of the output is shown as in its index, the newest with its      *)
(* path.                                                                   *)
LEMMA MergedShown ==
  ASSUME MergeInv, AliasesAgree, stage = "done", NEW k \in DOMAIN outFiles,
         NEW x, x = SourceOf(outFiles[k]), NEW metas, metas = inputs[x[1]].metas
  PROVE  /\ x \in Newest(outFiles[k].path)
         /\ ShownWords(outMetas, WordsMerged(k)) = ShownWords(metas, MergedFile(x).words)
         /\ ShownProps(outMetas, outFiles[k].props) = ShownProps(metas, MergedFile(x).props)
<1>1. InputsOK /\ OutputsOK(outFiles)
  BY InputsAre DEF MergeInv, FilesInv
<1>2. x \in Newest(outFiles[k].path) /\ outFiles[k].props = MappedProps(outFiles[k].index, outFiles[k].filenum)
  BY <1>1 DEF OutputsOK
<1>3. x \in FilesMerged
  BY <1>2 DEF Newest
<1>4. PICK i, n : /\ i \in Indexes /\ n \in DOMAIN inputs[i].files
                  /\ x = <<i, n>> /\ x[1] = i /\ x[2] = n
  BY <1>1, <1>3, MergedAre
<1>5. outFiles[k].index = i /\ outFiles[k].filenum = n
  BY <1>4 DEF SourceOf
<1>6. MergedFile(x) = inputs[i].files[n] /\ metas = inputs[i].metas
  BY <1>4 DEF MergedFile
<1>7. /\ MetasOK(metas)
      /\ inputs[i].files[n].words \subseteq [word : MergeWords, meta : NoAlias(metas)]
      /\ \A p \in inputs[i].files[n].props :
           p.prop \in NoAlias(metas) /\ p = [prop |-> p.prop, value |-> p.value]
  BY <1>4, <1>6, InputsAre DEF MergeInv
<1>8. ListOK(inputs)
  BY InputsAre DEF MergeInv, ListOK, Indexes
<1>9. PICK map : map = metaMap[i]
  OBVIOUS
<1>10. OutputOK(outMetas, map, metas, inputs)
  BY <1>4, <1>6, <1>9 DEF MergeInv, MetasInv, MapOK, OutputOK
<1>11. i \in DOMAIN inputs
  BY <1>4 DEF Indexes
<1>12. ShownProps(outMetas, outFiles[k].props) = ShownProps(metas, MergedFile(x).props)
  <2>1. PICK props : props = inputs[i].files[n].props
    OBVIOUS
  <2>2. PICK now : now = outFiles[k].props
    OBVIOUS
  <2>3. now = {[prop |-> map[p.prop], value |-> p.value] : p \in props}
    BY <1>2, <1>5, <1>9, <2>1, <2>2 DEF MappedProps
  <2>4. \A p \in props : p.prop \in NoAlias(metas) /\ p = [prop |-> p.prop, value |-> p.value]
    BY <1>7, <2>1
  <2>5. ShownProps(outMetas, now) = ShownProps(metas, props)
    BY <1>6, <1>8, <1>10, <1>11, <2>3, <2>4, SameProps, SMTT(30)
  <2> QED
    BY <1>6, <2>1, <2>2, <2>5
<1>13. ShownWords(outMetas, WordsMerged(k)) = ShownWords(metas, MergedFile(x).words)
  <2>1. PICK words : words = inputs[i].files[n].words
    OBVIOUS
  <2>2. PICK now : now = WordsMerged(k)
    OBVIOUS
  <2>3. words \subseteq [word : MergeWords, meta : NoAlias(metas)]
    BY <1>7, <2>1
  <2>4. \A w \in MergeWords : LocationsOK(w)
    BY DEF MergeInv, WordsInv
  <2>5. \A a, b : FileMap(a, b) = k <=> i = a /\ n = b
    BY <1>1, <1>5, FileMapIs
  <2>6. k # 0
    BY <1>1, SeqFacts DEF OutputsOK
  <2>7. \A y : y \in now <=>
          /\ y \in [word : MergeWords, meta : DOMAIN outMetas]
          /\ [file |-> k, meta |-> y.meta] \in ToSet(locations[y.word])
    BY <2>2 DEF WordsMerged
  <2>8. ASSUME NEW y \in words
        PROVE  [word |-> y.word, meta |-> map[y.meta]] \in now
    <3>1. y.word \in MergeWords /\ y.meta \in DOMAIN metas /\ y = [word |-> y.word, meta |-> y.meta]
      BY <2>3 DEF NoAlias
    <3>2. PICK w, m : w = y.word /\ m = y.meta
      OBVIOUS
    <3>3. PICK l : l = [file |-> k, meta |-> map[m]]
      OBVIOUS
    <3>4. KeptLocation(l, i, m, n, w)
      BY <1>9, <2>1, <2>5, <2>6, <3>1, <3>2, <3>3 DEF KeptLocation
    <3>5. l \in ToSet(locations[w])
      BY <1>4, <1>6, <2>4, <3>1, <3>2, <3>4 DEF LocationsOK
    <3>6. map[m] \in DOMAIN outMetas
      BY <1>7, <1>10, <3>1, <3>2, SeqFacts DEF OutputOK, MapsTo, MetasOK
    <3>7. PICK z : z = [word |-> w, meta |-> map[m]]
      OBVIOUS
    <3>8. z \in [word : MergeWords, meta : DOMAIN outMetas] /\ z.word = w /\ z.meta = map[m]
      BY <3>1, <3>2, <3>6, <3>7
    <3>9. z \in now
      BY <2>7, <3>3, <3>5, <3>8
    <3> QED
      BY <3>2, <3>7, <3>9
  <2>9. ASSUME NEW z \in now
        PROVE  \E y \in words : z = [word |-> y.word, meta |-> map[y.meta]]
    <3>1. /\ z.word \in MergeWords /\ z = [word |-> z.word, meta |-> z.meta]
          /\ [file |-> k, meta |-> z.meta] \in ToSet(locations[z.word])
      BY <2>7
    <3>2. PICK w, l : w = z.word /\ l = [file |-> k, meta |-> z.meta]
      OBVIOUS
    <3>3. PICK a \in Indexes : \E m \in DOMAIN inputs[a].metas, b \in DOMAIN inputs[a].files :
            KeptLocation(l, a, m, b, w)
      BY <2>4, <3>1, <3>2 DEF LocationsOK
    <3>4. PICK m \in DOMAIN inputs[a].metas, b \in DOMAIN inputs[a].files :
            KeptLocation(l, a, m, b, w)
      BY <3>3
    <3>5. FileMap(a, b) = k /\ metaMap[a][m] = z.meta
      BY <3>2, <3>4 DEF KeptLocation
    <3>6. a = i /\ b = n
      BY <2>5, <3>5
    <3>7. PICK y : y = [word |-> w, meta |-> m]
      OBVIOUS
    <3>8. y \in words /\ y.word = w /\ y.meta = m
      BY <2>1, <3>4, <3>6, <3>7 DEF KeptLocation
    <3> QED
      BY <1>9, <3>1, <3>2, <3>5, <3>6, <3>8
  <2>10. \A z : z \in now <=> \E y \in words : z = [word |-> y.word, meta |-> map[y.meta]]
    BY <2>8, <2>9
  <2>11. ShownWords(outMetas, now) = ShownWords(metas, words)
    BY <1>6, <1>8, <1>10, <1>11, <2>3, <2>10, SameWords, SMTT(30)
  <2> QED
    BY <1>6, <2>1, <2>2, <2>11
<1> QED
  BY <1>2, <1>12, <1>13

LEMMA MergedDone ==
  ASSUME MergeInv, AliasesAgree
  PROVE  MergedNewest
<1> SUFFICES ASSUME stage = "done" PROVE MergedNewest
  BY DEF MergedNewest
<1>1. InputsOK /\ OutputsOK(outFiles)
  BY InputsAre DEF MergeInv, FilesInv
<1>2. {f.path : f \in ToSet(outFiles)} = {MergedFile(x).path : x \in FilesMerged}
  <2>1. ASSUME NEW k \in DOMAIN outFiles
        PROVE  \E x \in FilesMerged : MergedFile(x).path = outFiles[k].path
    BY <1>1 DEF OutputsOK, Newest
  <2>2. ASSUME NEW x \in FilesMerged
        PROVE  \E k \in DOMAIN outFiles : outFiles[k].path = MergedFile(x).path
    BY DEF MergeInv, FilesInv, IsOut, PathOf
  <2>3. ASSUME NEW p
        PROVE  p \in {f.path : f \in ToSet(outFiles)} <=> \E k \in DOMAIN outFiles : outFiles[k].path = p
    BY DEF ToSet
  <2>4. ASSUME NEW p
        PROVE  p \in {MergedFile(x).path : x \in FilesMerged} <=> \E x \in FilesMerged : MergedFile(x).path = p
    OBVIOUS
  <2> QED
    BY <2>1, <2>2, <2>3, <2>4
<1>3. IsInjective([k \in DOMAIN outFiles |-> outFiles[k].path])
  BY <1>1 DEF OutputsOK, IsInjective
<1>4. ASSUME NEW k \in DOMAIN outFiles
      PROVE  \E x \in Newest(outFiles[k].path) :
               LET metas == inputs[x[1]].metas
               IN  /\ ShownWords(outMetas, WordsMerged(k)) = ShownWords(metas, MergedFile(x).words)
                   /\ ShownProps(outMetas, outFiles[k].props) = ShownProps(metas, MergedFile(x).props)
  <2>1. PICK x : x = SourceOf(outFiles[k])
    OBVIOUS
  <2>2. PICK metas : metas = inputs[x[1]].metas
    OBVIOUS
  <2>3. /\ x \in Newest(outFiles[k].path)
        /\ ShownWords(outMetas, WordsMerged(k)) = ShownWords(metas, MergedFile(x).words)
        /\ ShownProps(outMetas, outFiles[k].props) = ShownProps(metas, MergedFile(x).props)
    BY <2>1, <2>2, MergedShown
  <2> QED
    BY <2>2, <2>3
<1>5. ASSUME NEW w \in MergeWords, NEW l \in ToSet(locations[w])
      PROVE  l.file \in DOMAIN outFiles
  <2>1. LocationsOK(w)
    BY DEF MergeInv, WordsInv
  <2>2. PICK i \in Indexes : \E m \in DOMAIN inputs[i].metas, n \in DOMAIN inputs[i].files :
          KeptLocation(l, i, m, n, w)
    BY <2>1 DEF LocationsOK
  <2>3. PICK m \in DOMAIN inputs[i].metas, n \in DOMAIN inputs[i].files : KeptLocation(l, i, m, n, w)
    BY <2>2
  <2>4. l.file = FileMap(i, n) /\ FileMap(i, n) # 0
    BY <2>3 DEF KeptLocation
  <2> QED
    BY <1>1, <2>4, FileMapIs
<1> QED
  BY <1>2, <1>3, <1>4, <1>5 DEF MergedNewest

(* A merged index has every path once, as the newest of the files with it, *)
(* and shows each as its own index did (get_next_file_in_order,            *)
(* make_meta_map, merge_indexes), if the indexes have the same aliases.    *)
THEOREM MergedNewestAlways ==
  ASSUME AliasesAgree
  PROVE  MergeSpec => []MergedNewest
<1>1. MergeInit => MergeInv
  BY MergeStarts
<1>2. MergeInv /\ [MergeNext]_mergeVars => MergeInv'
  <2> SUFFICES ASSUME MergeInv, [MergeNext]_mergeVars PROVE MergeInv'
    OBVIOUS
  <2>1. CASE OpenIndex
    BY <2>1, OpenKeeps
  <2>2. CASE NextFile
    BY <2>2, NextKeeps
  <2>3. CASE ReadWords
    BY <2>3, ReadKeeps
  <2>4. CASE WriteMerged
    BY <2>4, WriteKeeps
  <2>5. ASSUME NEW w \in MergeWords, MergeWord(w) PROVE MergeInv'
    BY <2>5, MergeWordKeeps
  <2>6. CASE UNCHANGED mergeVars
    BY <2>6, StutterKeeps
  <2> QED
    BY <2>1, <2>2, <2>3, <2>4, <2>5, <2>6 DEF MergeNext
<1>3. MergeInv => MergedNewest
  BY MergedDone
<1> QED
  BY <1>1, <1>2, <1>3, PTL DEF MergeSpec

=============================================================================
