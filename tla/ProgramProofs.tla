---------------------------- MODULE ProgramProofs ----------------------------
(***************************************************************************)
(* Proofs about what users of the program meet. The names of an index:     *)
(* the table that is in force (Current) gives each number one meaning, it  *)
(* resolves names as the configuration stands (StandsOK), and what is in   *)
(* the index is found by it (UsedOK); writing the table and reading it     *)
(* again changes nothing of this (NamesInv). The command line: what it and *)
(* the lines of files asked for so far is what was taken (CommandInv). The *)
(* library: the count of an object is that of what refers to it (LibInv).  *)
(***************************************************************************)
EXTENDS Names, Commands, Library, InductionLemmas

-----------------------------------------------------------------------------
(* The table.                                                              *)

AllTypes == {"index", "prop", "internal", "number", "string", "ignorecase", "date", "strcoll", "nostrip"}
AllNames == Given \cup {"swishdefault", "swishreccount", "swishdocpath", "swishtitle"}

EntrySet ==
  [name : AllNames, id : Nat, type : SUBSET AllTypes, alias : Nat,
   sortLen : Nat, maxLen : Nat, bias : Int]

OneKind(type) == ("index" \in type) <=> ~("prop" \in type)

(* An entry that is called n, of a kind.                                   *)
Called(table, kind, n, i) == i \in 1..Len(table) /\ kind \in table[i].type /\ table[i].name = n

(* What an entry of the table stands for.                                  *)
Meaning(table, i) == IF table[i].alias = 0 THEN i ELSE table[i].alias

AliasOK(table, i) ==
  table[i].alias # 0 =>
    /\ table[i].alias \in 1..Len(table)
    /\ table[table[i].alias].alias = 0
    /\ \A kind \in EntryKinds : kind \in table[i].type <=> kind \in table[table[i].alias].type

(* Numbers are places, an entry is a metaname or a property, an alias is   *)
(* one of an entry of its kind that is no alias, and a name of a kind is   *)
(* given once.                                                             *)
Numbered(table) == \A i \in 1..Len(table) : table[i].id = i
Kinds(table) == \A i \in 1..Len(table) : OneKind(table[i].type)
Aliases(table) == \A i \in 1..Len(table) : AliasOK(table, i)
Unique(table) ==
  \A kind \in EntryKinds, i, j \in 1..Len(table) :
    kind \in table[i].type /\ kind \in table[j].type /\ table[i].name = table[j].name => i = j

TableOK(table) ==
  /\ table \in Seq(EntrySet)
  /\ Numbered(table) /\ Kinds(table) /\ Aliases(table) /\ Unique(table)

(* The least of one number.                                                *)
LEMMA FirstIs ==
  ASSUME NEW i \in Nat, NEW S, S = {i}
  PROVE  FirstOf(S) = i
BY DEF FirstOf, Min

LEMMA FirstOfNone == FirstOf({}) = 0
BY DEF FirstOf

(* An entry that has the name is the one that is looked up.                *)
LEMMA NoAliasFound ==
  ASSUME NEW table, TableOK(table), NEW kind \in EntryKinds, NEW n, NEW i, Called(table, kind, n, i)
  PROVE  NoAlias(table, kind, n) = i
<1> DEFINE S == {j \in DOMAIN table : kind \in table[j].type /\ table[j].name = n}
<1>1. DOMAIN table = 1..Len(table) /\ Len(table) \in Nat
  BY DEF TableOK
<1>2. i \in 1..Len(table) /\ kind \in table[i].type /\ table[i].name = n
  BY DEF Called
<1>3. \A j \in 1..Len(table) : kind \in table[j].type /\ table[j].name = n => j = i
  BY <1>2 DEF TableOK, Unique
<1>4. S = {i}
  BY <1>1, <1>2, <1>3
<1>5. FirstOf(S) = i
  <2> HIDE DEF S
  <2> QED
    BY <1>2, <1>4, FirstIs
<1> QED
  BY <1>5 DEF NoAlias

(* None that has it, and none is found.                                    *)
LEMMA NoAliasNone ==
  ASSUME NEW table, TableOK(table), NEW kind \in EntryKinds, NEW n,
         \A i : ~Called(table, kind, n, i)
  PROVE  NoAlias(table, kind, n) = 0
<1>1. DOMAIN table = 1..Len(table)
  BY DEF TableOK
<1>2. {j \in DOMAIN table : kind \in table[j].type /\ table[j].name = n} = {}
  BY <1>1 DEF Called
<1> QED
  BY <1>2, FirstOfNone DEF NoAlias

(* The two cases.                                                          *)
LEMMA NoAliasIs ==
  ASSUME NEW table, TableOK(table), NEW kind \in EntryKinds, NEW n
  PROVE  LET i == NoAlias(table, kind, n)
         IN \/ i = 0 /\ \A j : ~Called(table, kind, n, j)
            \/ i # 0 /\ Called(table, kind, n, i)
<1>1. CASE \E j : Called(table, kind, n, j)
  <2>1. PICK j : Called(table, kind, n, j)
    BY <1>1
  <2>2. NoAlias(table, kind, n) = j
    BY <2>1, NoAliasFound
  <2>3. j # 0
    BY <2>1 DEF Called, TableOK
  <2> QED
    BY <2>1, <2>2, <2>3
<1>2. CASE ~\E j : Called(table, kind, n, j)
  BY <1>2, NoAliasNone
<1> QED
  BY <1>1, <1>2

(* A number and a kind that are those of an entry find it.                 *)
LEMMA ByIdFound ==
  ASSUME NEW table, TableOK(table), NEW kind \in EntryKinds,
         NEW i \in 1..Len(table), kind \in table[i].type
  PROVE  ById(table, kind, i) = i
<1> DEFINE S == {j \in DOMAIN table : kind \in table[j].type /\ table[j].id = i}
<1>1. DOMAIN table = 1..Len(table) /\ Len(table) \in Nat
  BY DEF TableOK
<1>2. \A j \in 1..Len(table) : table[j].id = j
  BY DEF TableOK, Numbered
<1>3. S = {i}
  BY <1>1, <1>2
<1>4. FirstOf(S) = i
  <2> HIDE DEF S
  <2> QED
    BY <1>3, FirstIs
<1> QED
  BY <1>4 DEF ById

(* A name leads to what its entry stands for, and any other to nothing.    *)
LEMMA ByNameFound ==
  ASSUME NEW table, TableOK(table), NEW kind \in EntryKinds, NEW n, NEW i, Called(table, kind, n, i)
  PROVE  /\ ByName(table, kind, n) = Meaning(table, i)
         /\ Meaning(table, i) \in 1..Len(table)
         /\ kind \in table[Meaning(table, i)].type
         /\ table[Meaning(table, i)].alias = 0
<1>1. NoAlias(table, kind, n) = i
  BY NoAliasFound
<1>2. i \in 1..Len(table) /\ kind \in table[i].type /\ i # 0
  BY DEF Called, TableOK
<1>3. AliasOK(table, i)
  BY <1>2 DEF TableOK, Aliases
<1>4. CASE table[i].alias = 0
  BY <1>1, <1>2, <1>4 DEF ByName, Meaning
<1>5. CASE table[i].alias # 0
  <2>1. table[i].alias \in 1..Len(table) /\ kind \in table[table[i].alias].type
        /\ table[table[i].alias].alias = 0
    BY <1>2, <1>3, <1>5 DEF AliasOK
  <2>2. ById(table, kind, table[i].alias) = table[i].alias
    BY <2>1, ByIdFound
  <2> QED
    BY <1>1, <1>2, <1>5, <2>1, <2>2 DEF ByName, Meaning
<1> QED
  BY <1>4, <1>5

LEMMA ByNameNone ==
  ASSUME NEW table, TableOK(table), NEW kind \in EntryKinds, NEW n,
         \A i : ~Called(table, kind, n, i)
  PROVE  ByName(table, kind, n) = 0
<1>1. NoAlias(table, kind, n) = 0
  BY NoAliasNone
<1> QED
  BY <1>1 DEF ByName

LEMMA ByNameIs ==
  ASSUME NEW table, TableOK(table), NEW kind \in EntryKinds, NEW n
  PROVE  LET r == ByName(table, kind, n)
         IN \/ r = 0 /\ \A j : ~Called(table, kind, n, j)
            \/ /\ r # 0 /\ r \in 1..Len(table) /\ kind \in table[r].type /\ table[r].alias = 0
               /\ \E j : Called(table, kind, n, j) /\ r = Meaning(table, j)
<1>1. CASE \E j : Called(table, kind, n, j)
  <2>1. PICK j : Called(table, kind, n, j)
    BY <1>1
  <2>2. /\ ByName(table, kind, n) = Meaning(table, j)
        /\ Meaning(table, j) \in 1..Len(table)
        /\ kind \in table[Meaning(table, j)].type
        /\ table[Meaning(table, j)].alias = 0
    BY <2>1, ByNameFound
  <2>3. Meaning(table, j) # 0
    BY <2>2 DEF TableOK
  <2> QED
    BY <2>1, <2>2, <2>3
<1>2. CASE ~\E j : Called(table, kind, n, j)
  BY <1>2, ByNameNone
<1> QED
  BY <1>1, <1>2

(* Two tables that differ in what names do not depend on.                  *)
SameShape(t, u) ==
  /\ Len(u) = Len(t)
  /\ \A i \in 1..Len(t) : u[i].name = t[i].name /\ u[i].id = t[i].id /\ u[i].alias = t[i].alias
  /\ \A i \in 1..Len(t), kind \in EntryKinds : kind \in t[i].type <=> kind \in u[i].type

LEMMA ShapeCalled ==
  ASSUME NEW t, NEW u, SameShape(t, u), NEW kind \in EntryKinds, NEW n, NEW i
  PROVE  /\ Called(t, kind, n, i) <=> Called(u, kind, n, i)
         /\ i \in 1..Len(t) => Meaning(t, i) = Meaning(u, i)
BY DEF SameShape, Called, Meaning

LEMMA ShapeTable ==
  ASSUME NEW t, NEW u, TableOK(t), SameShape(t, u), u \in Seq(EntrySet)
  PROVE  TableOK(u)
<1>1. Numbered(u)
  BY DEF Numbered, SameShape, TableOK
<1>2. Kinds(u)
  <2>1. ASSUME NEW i \in 1..Len(t) PROVE OneKind(u[i].type)
    <3>1. OneKind(t[i].type)
      BY DEF TableOK, Kinds
    <3>2. "index" \in EntryKinds /\ "prop" \in EntryKinds
      BY DEF EntryKinds
    <3>3. ("index" \in t[i].type <=> "index" \in u[i].type) /\ ("prop" \in t[i].type <=> "prop" \in u[i].type)
      BY <3>2 DEF SameShape
    <3> QED
      BY <3>1, <3>3 DEF OneKind
  <2> QED
    BY <2>1 DEF Kinds, SameShape
<1>3. Aliases(u)
  <2>1. ASSUME NEW i \in 1..Len(t), u[i].alias # 0 PROVE AliasOK(u, i)
    <3> DEFINE a == t[i].alias
    <3>1. u[i].alias = a /\ AliasOK(t, i)
      BY DEF SameShape, TableOK, Aliases
    <3>2. a \in 1..Len(t) /\ t[a].alias = 0
      BY <2>1, <3>1 DEF AliasOK
    <3>3. ASSUME NEW kind \in EntryKinds
          PROVE  kind \in u[i].type <=> kind \in u[a].type
      <4>1. kind \in t[i].type <=> kind \in t[a].type
        BY <2>1, <3>1 DEF AliasOK
      <4>2. kind \in t[i].type <=> kind \in u[i].type
        BY DEF SameShape
      <4>3. kind \in t[a].type <=> kind \in u[a].type
        BY <3>2 DEF SameShape
      <4> QED
        BY <4>1, <4>2, <4>3
    <3>4. u[a].alias = 0 /\ a \in 1..Len(u)
      BY <3>2 DEF SameShape
    <3> HIDE DEF a
    <3> QED
      BY <3>1, <3>3, <3>4 DEF AliasOK
  <2> QED
    BY <2>1 DEF Aliases, SameShape, AliasOK
<1>4. Unique(u)
  <2>1. ASSUME NEW kind \in EntryKinds, NEW i \in 1..Len(t), NEW j \in 1..Len(t),
               kind \in u[i].type, kind \in u[j].type, u[i].name = u[j].name
        PROVE  i = j
    <3>1. kind \in t[i].type /\ kind \in t[j].type /\ t[i].name = t[j].name
      BY <2>1 DEF SameShape
    <3> QED
      BY <3>1 DEF TableOK, Unique
  <2> QED
    BY <2>1 DEF Unique, SameShape
<1> QED
  BY <1>1, <1>2, <1>3, <1>4 DEF TableOK

LEMMA ShapeNames ==
  ASSUME NEW t, NEW u, TableOK(t), SameShape(t, u), u \in Seq(EntrySet), NEW kind \in EntryKinds, NEW n
  PROVE  ByName(u, kind, n) = ByName(t, kind, n)
<1>1. TableOK(u)
  BY ShapeTable
<1>2. CASE \E j : Called(t, kind, n, j)
  <2>1. PICK j : Called(t, kind, n, j)
    BY <1>2
  <2>2. Called(u, kind, n, j) /\ Meaning(t, j) = Meaning(u, j)
    <3>1. j \in 1..Len(t)
      BY <2>1 DEF Called
    <3> QED
      BY <2>1, <3>1, ShapeCalled
  <2>3. ByName(t, kind, n) = Meaning(t, j)
    BY <2>1, ByNameFound
  <2>4. ByName(u, kind, n) = Meaning(u, j)
    BY <1>1, <2>2, ByNameFound
  <2> QED
    BY <2>2, <2>3, <2>4
<1>3. CASE ~\E j : Called(t, kind, n, j)
  <2>1. \A j : ~Called(u, kind, n, j)
    BY <1>3, ShapeCalled
  <2>2. ByName(t, kind, n) = 0
    BY <1>3, ByNameNone
  <2>3. ByName(u, kind, n) = 0
    BY <1>1, <2>1, ByNameNone
  <2> QED
    BY <2>2, <2>3
<1> QED
  BY <1>2, <1>3

(* An entry that may be put behind those of a table.                       *)
CanAppend(t, e) ==
  /\ e \in EntrySet /\ e.id = Len(t) + 1 /\ OneKind(e.type)
  /\ e.alias # 0 =>
       /\ e.alias \in 1..Len(t) /\ t[e.alias].alias = 0
       /\ \A kind \in EntryKinds : kind \in e.type <=> kind \in t[e.alias].type
  /\ \A kind \in EntryKinds : kind \in e.type => \A i : ~Called(t, kind, e.name, i)

(* The entries of the longer table.                                        *)
IsAppended(t, e, u) ==
  /\ u \in Seq(EntrySet) /\ Len(u) = Len(t) + 1 /\ Len(t) \in Nat
  /\ \A i \in 1..Len(t) : u[i] = t[i]
  /\ u[Len(t) + 1] = e
LEMMA Appended ==
  ASSUME NEW t \in Seq(EntrySet), NEW e \in EntrySet
  PROVE  IsAppended(t, e, Append(t, e))
BY DEF IsAppended

LEMMA AppendedTable ==
  ASSUME NEW t, TableOK(t), NEW e, CanAppend(t, e), NEW u, IsAppended(t, e, u)
  PROVE  TableOK(u)
<1> DEFINE N == Len(t)
<1>1. N \in Nat /\ Len(u) = N + 1 /\ u[N + 1] = e /\ \A i \in 1..N : u[i] = t[i]
  BY DEF IsAppended
<1>2. \A i \in 1..Len(u) : i \in 1..N \/ i = N + 1
  BY <1>1
<1>3. Numbered(u)
  <2>1. \A i \in 1..N : t[i].id = i
    BY DEF TableOK, Numbered
  <2>2. e.id = N + 1
    BY DEF CanAppend
  <2> HIDE DEF N
  <2> QED
    BY <1>1, <1>2, <2>1, <2>2 DEF Numbered
<1>4. Kinds(u)
  <2>1. \A i \in 1..N : OneKind(t[i].type)
    BY DEF TableOK, Kinds
  <2>2. OneKind(e.type)
    BY DEF CanAppend
  <2> HIDE DEF N
  <2> QED
    BY <1>1, <1>2, <2>1, <2>2 DEF Kinds
<1>5. Aliases(u)
  <2>1. ASSUME NEW i \in 1..N PROVE AliasOK(u, i)
    <3>1. u[i] = t[i] /\ AliasOK(t, i)
      BY <1>1 DEF TableOK, Aliases
    <3>2. ASSUME t[i].alias # 0 PROVE u[t[i].alias] = t[t[i].alias] /\ t[i].alias \in 1..Len(u)
      BY <1>1, <3>1, <3>2 DEF AliasOK
    <3> QED
      BY <3>1, <3>2 DEF AliasOK
  <2>2. AliasOK(u, N + 1)
    <3>1. ASSUME e.alias # 0 PROVE u[e.alias] = t[e.alias] /\ e.alias \in 1..Len(u)
      BY <1>1, <3>1 DEF CanAppend
    <3> QED
      BY <1>1, <3>1 DEF AliasOK, CanAppend
  <2> HIDE DEF N
  <2> QED
    BY <1>2, <2>1, <2>2 DEF Aliases
<1>6. Unique(u)
  <2>1. ASSUME NEW kind \in EntryKinds, NEW i \in 1..N, kind \in e.type
        PROVE  ~(kind \in t[i].type /\ t[i].name = e.name)
    BY <2>1 DEF CanAppend, Called
  <2>2. ASSUME NEW kind \in EntryKinds, NEW i \in 1..Len(u), NEW j \in 1..Len(u),
               kind \in u[i].type, kind \in u[j].type, u[i].name = u[j].name
        PROVE  i = j
    <3>1. CASE i \in 1..N /\ j \in 1..N
      <4>1. u[i] = t[i] /\ u[j] = t[j]
        BY <1>1, <3>1
      <4>2. kind \in t[i].type /\ kind \in t[j].type /\ t[i].name = t[j].name
        BY <2>2, <4>1
      <4> QED
        BY <3>1, <4>2 DEF TableOK, Unique
    <3>2. CASE i \in 1..N /\ j = N + 1
      BY <1>1, <2>1, <2>2, <3>2
    <3>3. CASE i = N + 1 /\ j \in 1..N
      BY <1>1, <2>1, <2>2, <3>3
    <3>4. CASE i = N + 1 /\ j = N + 1
      BY <3>4
    <3> QED
      BY <1>2, <3>1, <3>2, <3>3, <3>4
  <2> HIDE DEF N
  <2> QED
    BY <2>2 DEF Unique
<1> QED
  BY <1>3, <1>4, <1>5, <1>6 DEF TableOK, IsAppended

(* What the entry stands for.                                              *)
NewTarget(t, e) == IF e.alias = 0 THEN Len(t) + 1 ELSE e.alias

LEMMA AppendedNames ==
  ASSUME NEW t, TableOK(t), NEW e, CanAppend(t, e), NEW u, IsAppended(t, e, u),
         NEW kind \in EntryKinds, NEW n
  PROVE  ByName(u, kind, n) =
           IF kind \in e.type /\ n = e.name THEN NewTarget(t, e) ELSE ByName(t, kind, n)
<1>1. TableOK(u)
  BY AppendedTable
<1>2. Len(t) \in Nat /\ Len(u) = Len(t) + 1 /\ u[Len(t) + 1] = e /\ \A i \in 1..Len(t) : u[i] = t[i]
  BY DEF IsAppended
<1>3. CASE kind \in e.type /\ n = e.name
  <2>1. Called(u, kind, n, Len(t) + 1)
    BY <1>2, <1>3 DEF Called
  <2>2. Meaning(u, Len(t) + 1) = NewTarget(t, e)
    BY <1>2 DEF Meaning, NewTarget
  <2> QED
    BY <1>1, <1>3, <2>1, <2>2, ByNameFound
<1>4. CASE ~(kind \in e.type /\ n = e.name)
  <2>1. ASSUME NEW i PROVE Called(u, kind, n, i) <=> Called(t, kind, n, i)
    <3>1. CASE i = Len(t) + 1
      BY <1>2, <1>4, <3>1 DEF Called
    <3>2. CASE i # Len(t) + 1
      <4>1. i \in 1..Len(u) <=> i \in 1..Len(t)
        BY <1>2, <3>2
      <4> QED
        BY <1>2, <4>1 DEF Called
    <3> QED
      BY <3>1, <3>2
  <2>2. CASE \E j : Called(t, kind, n, j)
    <3>1. PICK j : Called(t, kind, n, j)
      BY <2>2
    <3>2. Meaning(u, j) = Meaning(t, j)
      BY <1>2, <3>1 DEF Called, Meaning
    <3>3. ByName(t, kind, n) = Meaning(t, j)
      BY <3>1, ByNameFound
    <3>4. ByName(u, kind, n) = Meaning(u, j)
      BY <1>1, <2>1, <3>1, ByNameFound
    <3> QED
      BY <1>4, <3>2, <3>3, <3>4
  <2>3. CASE ~\E j : Called(t, kind, n, j)
    <3>1. ByName(t, kind, n) = 0
      BY <2>3, ByNameNone
    <3>2. ByName(u, kind, n) = 0
      BY <1>1, <2>1, <2>3, ByNameNone
    <3> QED
      BY <1>4, <3>1, <3>2
  <2> QED
    BY <2>2, <2>3
<1> QED
  BY <1>3, <1>4

-----------------------------------------------------------------------------
(* What names stand for.                                                   *)

StandsType(st) == st \in [EntryKinds \X Given -> Given \cup {Nobody}]
StandsFound(table, st) ==
  \A kind \in EntryKinds, n \in Given : ByName(table, kind, n) # 0 <=> st[kind, n] # Nobody
StandsAlike(table, st) ==
  \A kind \in EntryKinds, n, m \in Given :
    st[kind, n] # Nobody /\ st[kind, m] # Nobody =>
      (ByName(table, kind, n) = ByName(table, kind, m) <=> st[kind, n] = st[kind, m])
StandsSelf(st) ==
  \A kind \in EntryKinds, n \in Given :
    st[kind, n] # Nobody => st[kind, n] \in Given /\ st[kind, st[kind, n]] = st[kind, n]

StandsOK(table, st) ==
  StandsType(st) /\ StandsFound(table, st) /\ StandsAlike(table, st) /\ StandsSelf(st)

(* One more name is found.                                                 *)
NameAdded(t, u, k, n, r) ==
  /\ ByName(t, k, n) = 0 /\ r # 0
  /\ \A kind \in EntryKinds, m \in Given :
       ByName(u, kind, m) = IF kind = k /\ m = n THEN r ELSE ByName(t, kind, m)

(* It stands for itself, if nothing else is found there ...                *)
LEMMA StandsNew ==
  ASSUME NEW t, NEW u, NEW st, StandsOK(t, st), NEW k \in EntryKinds, NEW n \in Given, NEW r,
         NameAdded(t, u, k, n, r), \A m \in Given : ByName(t, k, m) # r
  PROVE  StandsOK(u, [st EXCEPT ![<<k, n>>] = n])
<1> DEFINE su == [st EXCEPT ![<<k, n>>] = n]
<1>0. n # Nobody
  BY NamesAssumption DEF Nobody
<1>1. st[k, n] = Nobody
  BY DEF StandsOK, StandsFound, NameAdded
<1>2. su \in [EntryKinds \X Given -> Given \cup {Nobody}]
  BY DEF StandsOK, StandsType
<1>3. su[k, n] = n
  BY DEF StandsOK, StandsType
<1>4. ASSUME NEW kind \in EntryKinds, NEW m \in Given, <<kind, m>> # <<k, n>> PROVE su[kind, m] = st[kind, m]
  BY <1>4 DEF StandsOK, StandsType
<1>5. \A m \in Given : st[k, m] # n
  BY <1>0, <1>1 DEF StandsOK, StandsSelf
<1> HIDE DEF su
<1>6. ASSUME NEW kind \in EntryKinds, NEW m \in Given
      PROVE  ByName(u, kind, m) # 0 <=> su[kind, m] # Nobody
  <2>1. CASE kind = k /\ m = n
    BY <1>0, <1>3, <2>1 DEF NameAdded
  <2>2. CASE ~(kind = k /\ m = n)
    BY <1>4, <2>2 DEF NameAdded, StandsOK, StandsFound
  <2> QED
    BY <2>1, <2>2
<1>7. ASSUME NEW kind \in EntryKinds, NEW m \in Given, NEW o \in Given,
             su[kind, m] # Nobody, su[kind, o] # Nobody
      PROVE  ByName(u, kind, m) = ByName(u, kind, o) <=> su[kind, m] = su[kind, o]
  <2>1. CASE kind # k
    <3>1. su[kind, m] = st[kind, m] /\ su[kind, o] = st[kind, o]
      BY <1>4, <2>1
    <3>2. ByName(u, kind, m) = ByName(t, kind, m) /\ ByName(u, kind, o) = ByName(t, kind, o)
      BY <2>1 DEF NameAdded
    <3> QED
      BY <1>7, <3>1, <3>2, ZenonT(60) DEF StandsOK, StandsAlike
  <2>2. CASE kind = k /\ m = n /\ o = n
    BY <2>2
  <2>3. CASE kind = k /\ m # n /\ o # n
    <3>1. su[kind, m] = st[kind, m] /\ su[kind, o] = st[kind, o]
      BY <1>4, <2>3
    <3>2. ByName(u, kind, m) = ByName(t, kind, m) /\ ByName(u, kind, o) = ByName(t, kind, o)
      BY <2>3 DEF NameAdded
    <3> QED
      BY <1>7, <3>1, <3>2, ZenonT(60) DEF StandsOK, StandsAlike
  <2>4. CASE kind = k /\ m = n /\ o # n
    BY <1>3, <1>4, <1>5, <2>4 DEF NameAdded
  <2>5. CASE kind = k /\ m # n /\ o = n
    BY <1>3, <1>4, <1>5, <2>5 DEF NameAdded
  <2> QED
    BY <2>1, <2>2, <2>3, <2>4, <2>5
<1>8. ASSUME NEW kind \in EntryKinds, NEW m \in Given, su[kind, m] # Nobody
      PROVE  su[kind, su[kind, m]] = su[kind, m]
  <2>1. CASE kind = k /\ m = n
    BY <1>3, <2>1
  <2>2. CASE ~(kind = k /\ m = n)
    <3>1. su[kind, m] = st[kind, m]
      BY <1>4, <2>2
    <3>2. st[kind, m] \in Given /\ st[kind, st[kind, m]] = st[kind, m]
      BY <1>8, <3>1 DEF StandsOK, StandsSelf
    <3>3. ~(kind = k /\ st[kind, m] = n)
      BY <1>5
    <3>4. su[kind, st[kind, m]] = st[kind, st[kind, m]]
      BY <1>4, <3>2, <3>3
    <3> QED
      BY <3>1, <3>2, <3>4
  <2> QED
    BY <2>1, <2>2
<1>9. StandsOK(u, su)
  <2>1. ASSUME NEW kind \in EntryKinds, NEW m \in Given, su[kind, m] # Nobody PROVE su[kind, m] \in Given
    BY <1>2, <2>1
  <2>2. StandsFound(u, su)
    BY <1>6 DEF StandsFound
  <2>3. StandsAlike(u, su)
    BY <1>7 DEF StandsAlike
  <2>4. StandsSelf(su)
    BY <1>8, <2>1 DEF StandsSelf
  <2>5. StandsType(su)
    BY <1>2 DEF StandsType
  <2> QED
    BY <2>2, <2>3, <2>4, <2>5 DEF StandsOK
<1> QED
  BY <1>9 DEF su

(* ... and for what another one stands for, if it leads where that does.   *)
LEMMA StandsAlias ==
  ASSUME NEW t, NEW u, NEW st, StandsOK(t, st), NEW k \in EntryKinds, NEW n \in Given, NEW r,
         NameAdded(t, u, k, n, r), NEW b \in Given, ByName(t, k, b) = r
  PROVE  StandsOK(u, [st EXCEPT ![<<k, n>>] = st[k, b]])
<1> DEFINE su == [st EXCEPT ![<<k, n>>] = st[k, b]]
<1>1. st[k, n] = Nobody /\ st[k, b] # Nobody /\ b # n /\ st[k, b] \in Given
  <2>1. st[k, n] = Nobody /\ st[k, b] # Nobody
    BY DEF StandsOK, StandsFound, NameAdded
  <2> QED
    BY <2>1 DEF StandsOK, StandsSelf
<1>2. su \in [EntryKinds \X Given -> Given \cup {Nobody}]
  BY DEF StandsOK, StandsType, StandsType
<1>3. su[k, n] = st[k, b]
  BY DEF StandsOK, StandsType
<1>4. ASSUME NEW kind \in EntryKinds, NEW m \in Given, <<kind, m>> # <<k, n>> PROVE su[kind, m] = st[kind, m]
  BY <1>4 DEF StandsOK, StandsType
<1>5. st[k, st[k, b]] = st[k, b]
  BY <1>1 DEF StandsOK, StandsSelf
<1>6. \A kind \in EntryKinds, m \in Given :
        ByName(u, kind, m) = IF kind = k /\ m = n THEN ByName(t, k, b) ELSE ByName(t, kind, m)
  BY DEF NameAdded
<1> DEFINE Of(kind, m) == IF kind = k /\ m = n THEN b ELSE m
<1>7. ASSUME NEW kind \in EntryKinds, NEW m \in Given
      PROVE  /\ Of(kind, m) \in Given
             /\ ByName(u, kind, m) = ByName(t, kind, Of(kind, m))
             /\ su[kind, m] = st[kind, Of(kind, m)]
  <2>1. CASE kind = k /\ m = n
    BY <1>3, <1>6, <2>1
  <2>2. CASE ~(kind = k /\ m = n)
    BY <1>4, <1>6, <2>2
  <2> QED
    BY <2>1, <2>2
<1> HIDE DEF su, Of
<1>8. ASSUME NEW kind \in EntryKinds, NEW m \in Given
      PROVE  ByName(u, kind, m) # 0 <=> su[kind, m] # Nobody
  <2>1. ByName(t, kind, Of(kind, m)) # 0 <=> st[kind, Of(kind, m)] # Nobody
    BY <1>7 DEF StandsOK, StandsFound
  <2> QED
    BY <1>7, <2>1
<1>9. ASSUME NEW kind \in EntryKinds, NEW m \in Given, NEW o \in Given,
             su[kind, m] # Nobody, su[kind, o] # Nobody
      PROVE  ByName(u, kind, m) = ByName(u, kind, o) <=> su[kind, m] = su[kind, o]
  <2>1. Of(kind, m) \in Given /\ Of(kind, o) \in Given
    BY <1>7
  <2>2. st[kind, Of(kind, m)] # Nobody /\ st[kind, Of(kind, o)] # Nobody
    BY <1>7, <1>9
  <2>3. ByName(t, kind, Of(kind, m)) = ByName(t, kind, Of(kind, o))
          <=> st[kind, Of(kind, m)] = st[kind, Of(kind, o)]
    BY <2>1, <2>2 DEF StandsOK, StandsAlike
  <2> QED
    BY <1>7, <2>3
<1>10. ASSUME NEW kind \in EntryKinds, NEW m \in Given, su[kind, m] # Nobody
       PROVE  su[kind, su[kind, m]] = su[kind, m]
  <2>1. su[kind, m] = st[kind, Of(kind, m)] /\ Of(kind, m) \in Given
    BY <1>7
  <2>2. su[kind, m] \in Given /\ st[kind, su[kind, m]] = su[kind, m]
    BY <1>10, <2>1, ZenonT(60) DEF StandsOK, StandsSelf
  <2>3. ~(kind = k /\ su[kind, m] = n)
    BY <1>1, <1>10, <2>2
  <2> QED
    BY <1>4, <2>2, <2>3
<1>11. StandsOK(u, su)
  <2>1. ASSUME NEW kind \in EntryKinds, NEW m \in Given, su[kind, m] # Nobody PROVE su[kind, m] \in Given
    BY <1>2, <2>1
  <2>2. StandsFound(u, su)
    BY <1>8 DEF StandsFound
  <2>3. StandsAlike(u, su)
    BY <1>9 DEF StandsAlike
  <2>4. StandsSelf(su)
    BY <1>10, <2>1 DEF StandsSelf
  <2>5. StandsType(su)
    BY <1>2 DEF StandsType
  <2> QED
    BY <2>2, <2>3, <2>4, <2>5 DEF StandsOK
<1> QED
  BY <1>11 DEF su

(* Nothing changes for names that lead where they led.                     *)
LEMMA StandsSame ==
  ASSUME NEW t, NEW u, NEW st, StandsOK(t, st),
         \A kind \in EntryKinds, n \in Given : ByName(u, kind, n) = ByName(t, kind, n)
  PROVE  StandsOK(u, st)
<1>1. StandsFound(u, st)
  BY DEF StandsOK, StandsFound
<1>2. StandsAlike(u, st)
  <2>1. ASSUME NEW kind \in EntryKinds, NEW n \in Given, NEW m \in Given,
               st[kind, n] # Nobody, st[kind, m] # Nobody
        PROVE  ByName(u, kind, n) = ByName(u, kind, m) <=> st[kind, n] = st[kind, m]
    <3>1. ByName(t, kind, n) = ByName(t, kind, m) <=> st[kind, n] = st[kind, m]
      BY <2>1 DEF StandsOK, StandsAlike
    <3>2. ByName(u, kind, n) = ByName(t, kind, n) /\ ByName(u, kind, m) = ByName(t, kind, m)
      OBVIOUS
    <3> QED
      BY <3>1, <3>2
  <2> QED
    BY <2>1 DEF StandsAlike
<1> QED
  BY <1>1, <1>2 DEF StandsOK

TableStands(t, st) == TableOK(t) /\ StandsOK(t, st)

(* A table of the same shape.                                              *)
LEMMA ShapeStands ==
  ASSUME NEW t, NEW u, NEW st, TableStands(t, st), SameShape(t, u), u \in Seq(EntrySet)
  PROVE  TableStands(u, st)
<1>1. TableOK(u)
  BY ShapeTable DEF TableStands
<1>2. \A kind \in EntryKinds, n \in Given : ByName(u, kind, n) = ByName(t, kind, n)
  BY ShapeNames DEF TableStands
<1> QED
  BY <1>1, <1>2, StandsSame DEF TableStands

(* Saying again what a name stands for.                                    *)
LEMMA SaidAgain ==
  ASSUME NEW st, StandsType(st), NEW k \in EntryKinds, NEW n \in Given
  PROVE  [st EXCEPT ![<<k, n>>] = st[k, n]] = st
BY DEF StandsType

(* The fields of entries.                                                  *)
LEMMA EntryIs ==
  ASSUME NEW n \in AllNames, NEW type \in SUBSET AllTypes, NEW id \in Nat, NEW of \in Nat
  PROVE  LET e == AliasEntry(n, type, id, of)
         IN /\ e \in EntrySet
            /\ e.name = n /\ e.type = type /\ e.id = id /\ e.alias = of
BY DEF AliasEntry, FullEntry, EntrySet, MaxSortLen

(* Both kinds cannot be one entry's.                                       *)
LEMMA KindOfType ==
  ASSUME NEW type, OneKind(type), NEW kind \in EntryKinds, kind \in type, NEW k \in EntryKinds
  PROVE  k \in type <=> k = kind
BY DEF OneKind, EntryKinds

(* A new name.                                                             *)
LEMMA AddedStands ==
  ASSUME NEW t, NEW st, TableStands(t, st), NEW kind \in EntryKinds, NEW n \in Given,
         NEW type \in SUBSET AllTypes, OneKind(type), kind \in type, ByName(t, kind, n) = 0
  PROVE  /\ TableStands(Add(t, n, type), [st EXCEPT ![<<kind, n>>] = n])
         /\ IsAppended(t, Entry(n, type, Len(t) + 1), Add(t, n, type))
         /\ CanAppend(t, Entry(n, type, Len(t) + 1))
<1> DEFINE e == Entry(n, type, Len(t) + 1)
           u == Append(t, e)
<1>1. TableOK(t) /\ StandsOK(t, st) /\ Len(t) \in Nat /\ t \in Seq(EntrySet)
  BY DEF TableStands, TableOK
<1>2. e \in EntrySet /\ e.name = n /\ e.type = type /\ e.id = Len(t) + 1 /\ e.alias = 0
  <2>1. n \in AllNames /\ Len(t) + 1 \in Nat /\ 0 \in Nat
    BY <1>1 DEF AllNames
  <2> QED
    BY <2>1, EntryIs DEF Entry
<1>3. IsAppended(t, e, u)
  BY <1>1, <1>2, Appended
<1>4. Add(t, n, type) = u
  BY DEF Add
<1> HIDE DEF e, u
<1>5. \A i : ~Called(t, kind, n, i)
  BY <1>1, ByNameIs
<1>6. \A k \in EntryKinds : k \in type <=> k = kind
  BY KindOfType
<1>7. CanAppend(t, e)
  BY <1>2, <1>5, <1>6 DEF CanAppend
<1>8. TableOK(u)
  BY <1>1, <1>3, <1>7, AppendedTable
<1>9. NewTarget(t, e) = Len(t) + 1
  BY <1>2 DEF NewTarget
<1>10. NameAdded(t, u, kind, n, Len(t) + 1)
  <2>1. ASSUME NEW k \in EntryKinds, NEW m \in Given
        PROVE  ByName(u, k, m) = IF k = kind /\ m = n THEN Len(t) + 1 ELSE ByName(t, k, m)
    <3>1. ByName(u, k, m) = IF k \in e.type /\ m = e.name THEN NewTarget(t, e) ELSE ByName(t, k, m)
      BY <1>1, <1>3, <1>7, AppendedNames
    <3> QED
      BY <1>2, <1>6, <1>9, <3>1
  <2>2. Len(t) + 1 # 0
    BY <1>1
  <2> QED
    BY <2>1, <2>2 DEF NameAdded
<1>11. ASSUME NEW m \in Given PROVE ByName(t, kind, m) # Len(t) + 1
  <2>1. ByName(t, kind, m) = 0 \/ ByName(t, kind, m) \in 1..Len(t)
    BY <1>1, ByNameIs
  <2> QED
    BY <1>1, <2>1
<1>12. StandsOK(u, [st EXCEPT ![<<kind, n>>] = n])
  BY <1>1, <1>10, <1>11, StandsNew
<1> QED
  BY <1>3, <1>4, <1>7, <1>8, <1>12 DEF TableStands, e

(* An alias of a name that is none.                                        *)
LEMMA AliasStands ==
  ASSUME NEW t, NEW st, TableStands(t, st), NEW kind \in EntryKinds, NEW n \in Given, NEW b \in Given,
         NEW i, i = NoAlias(t, kind, b), i # 0, t[i].alias = 0, NoAlias(t, kind, n) = 0
  PROVE  TableStands(Append(t, AliasEntry(n, t[i].type, Len(t) + 1, t[i].id)),
                     [st EXCEPT ![<<kind, n>>] = st[kind, b]])
<1> DEFINE e == AliasEntry(n, t[i].type, Len(t) + 1, t[i].id)
           u == Append(t, e)
<1>1. TableOK(t) /\ StandsOK(t, st) /\ Len(t) \in Nat /\ t \in Seq(EntrySet)
  BY DEF TableStands, TableOK
<1>2. Called(t, kind, b, i)
  BY <1>1, NoAliasIs
<1>3. i \in 1..Len(t) /\ kind \in t[i].type /\ Meaning(t, i) = i
  BY <1>2 DEF Called, Meaning
<1>4. ByName(t, kind, b) = i
  BY <1>1, <1>2, <1>3, ByNameFound
<1>5. t[i].id = i /\ OneKind(t[i].type) /\ t[i] \in EntrySet
  BY <1>1, <1>3 DEF TableOK, Numbered, Kinds
<1>6. e \in EntrySet /\ e.name = n /\ e.type = t[i].type /\ e.id = Len(t) + 1 /\ e.alias = i
  <2>1. n \in AllNames /\ Len(t) + 1 \in Nat /\ i \in Nat /\ t[i].type \in SUBSET AllTypes
    <3>1. t[i].type \in SUBSET AllTypes
      BY <1>5 DEF EntrySet
    <3> QED
      BY <1>1, <1>3, <3>1 DEF AllNames
  <2> QED
    BY <1>5, <2>1, EntryIs
<1>7. IsAppended(t, e, u)
  BY <1>1, <1>6, Appended
<1> HIDE DEF e, u
<1>8. \A j : ~Called(t, kind, n, j)
  BY <1>1, NoAliasIs
<1>9. \A k \in EntryKinds : k \in t[i].type <=> k = kind
  BY <1>3, <1>5, KindOfType
<1>10. CanAppend(t, e)
  BY <1>3, <1>5, <1>6, <1>8, <1>9 DEF CanAppend
<1>11. TableOK(u)
  BY <1>1, <1>7, <1>10, AppendedTable
<1>12. NewTarget(t, e) = i
  BY <1>6 DEF NewTarget
<1>13. ByName(t, kind, n) = 0
  BY <1>1, <1>8, ByNameNone
<1>14. NameAdded(t, u, kind, n, i)
  <2>1. ASSUME NEW k \in EntryKinds, NEW m \in Given
        PROVE  ByName(u, k, m) = IF k = kind /\ m = n THEN i ELSE ByName(t, k, m)
    <3>1. ByName(u, k, m) = IF k \in e.type /\ m = e.name THEN NewTarget(t, e) ELSE ByName(t, k, m)
      BY <1>1, <1>7, <1>10, AppendedNames
    <3> QED
      BY <1>6, <1>9, <1>12, <3>1
  <2> QED
    BY <1>13, <2>1 DEF NameAdded
<1>15. StandsOK(u, [st EXCEPT ![<<kind, n>>] = st[kind, b]])
  BY <1>1, <1>4, <1>14, StandsAlias
<1>16. TableStands(u, [st EXCEPT ![<<kind, n>>] = st[kind, b]])
  BY <1>11, <1>15 DEF TableStands
<1> QED
  BY <1>16 DEF u, e

(* An entry that is replaced by one with other attributes.                 *)
LEMMA ReplacedShape ==
  ASSUME NEW t, TableOK(t), NEW i \in 1..Len(t), NEW e \in EntrySet,
         e.name = t[i].name, e.id = t[i].id, e.alias = t[i].alias,
         \A kind \in EntryKinds : kind \in t[i].type <=> kind \in e.type
  PROVE  SameShape(t, [t EXCEPT ![i] = e]) /\ [t EXCEPT ![i] = e] \in Seq(EntrySet)
<1> DEFINE u == [t EXCEPT ![i] = e]
<1>1. t \in Seq(EntrySet) /\ DOMAIN t = 1..Len(t)
  BY DEF TableOK
<1>2. u \in Seq(EntrySet) /\ Len(u) = Len(t)
  BY <1>1
<1>3. \A j \in 1..Len(t) : u[j] = IF j = i THEN e ELSE t[j]
  BY <1>1
<1> HIDE DEF u
<1>4. SameShape(t, u)
  BY <1>2, <1>3 DEF SameShape
<1> QED
  BY <1>2, <1>4 DEF u

LEMMA WithIs ==
  ASSUME NEW e \in EntrySet, NEW field, NEW v,
         \/ field = "bias" /\ v \in Int
         \/ field \in {"maxLen", "sortLen"} /\ v \in Nat
         \/ field = "type" /\ v \in SUBSET AllTypes
  PROVE  LET w == With(e, field, v)
         IN /\ w \in EntrySet
            /\ w.name = e.name /\ w.id = e.id /\ w.alias = e.alias
            /\ w.type = IF field = "type" THEN v ELSE e.type
BY DEF With, FullEntry, EntrySet

LEMMA WithStands ==
  ASSUME NEW t, NEW st, TableStands(t, st), NEW i \in 1..Len(t), NEW field, NEW v,
         \/ field = "bias" /\ v \in Int
         \/ field \in {"maxLen", "sortLen"} /\ v \in Nat
         \/ /\ field = "type" /\ v \in SUBSET AllTypes
            /\ \A kind \in EntryKinds : kind \in t[i].type <=> kind \in v
  PROVE  TableStands([t EXCEPT ![i] = With(t[i], field, v)], st)
<1> DEFINE e == With(t[i], field, v)
<1>1. TableOK(t) /\ t[i] \in EntrySet
  BY DEF TableStands, TableOK
<1>2. /\ e \in EntrySet
      /\ e.name = t[i].name /\ e.id = t[i].id /\ e.alias = t[i].alias
      /\ e.type = IF field = "type" THEN v ELSE t[i].type
  BY <1>1, WithIs
<1> HIDE DEF e
<1>3. \A kind \in EntryKinds : kind \in t[i].type <=> kind \in e.type
  BY <1>2
<1>4. SameShape(t, [t EXCEPT ![i] = e]) /\ [t EXCEPT ![i] = e] \in Seq(EntrySet)
  BY <1>1, <1>2, <1>3, ReplacedShape
<1>5. TableStands([t EXCEPT ![i] = e], st)
  BY <1>4, ShapeStands
<1> QED
  BY <1>5 DEF e

-----------------------------------------------------------------------------
(* What is in the index.                                                   *)

UsedOK(t, u) ==
  \A x \in u : x.kind \in EntryKinds => x.name \in Given /\ Stored(t, x.kind, x.name) = {x}

(* Tables that differ in the lengths of properties only.                   *)
SameEntries(t, u) ==
  /\ Len(u) = Len(t) /\ DOMAIN u = 1..Len(t) /\ DOMAIN t = 1..Len(t)
  /\ \A i \in 1..Len(t) : u[i].name = t[i].name /\ u[i].id = t[i].id /\ u[i].alias = t[i].alias
  /\ \A i \in 1..Len(t) : u[i].type = t[i].type /\ u[i].sortLen = t[i].sortLen /\ u[i].bias = t[i].bias

(* What is stored does not depend on these.                                *)
LEMMA SameStored ==
  ASSUME NEW t, NEW u, TableOK(t), SameEntries(t, u), u \in Seq(EntrySet), NEW kind \in EntryKinds, NEW n
  PROVE  Stored(u, kind, n) = Stored(t, kind, n)
<1>1. SameShape(t, u)
  BY DEF SameEntries, SameShape
<1> DEFINE i == ByName(t, kind, n)
<1>2. ByName(u, kind, n) = i
  BY <1>1, ShapeNames
<1>3. CASE i = 0
  BY <1>2, <1>3 DEF Stored
<1>4. CASE i # 0
  <2>1. i \in 1..Len(t)
    BY <1>4, ByNameIs
  <2>2. u[i].id = t[i].id /\ u[i].type = t[i].type /\ u[i].sortLen = t[i].sortLen /\ u[i].bias = t[i].bias
    BY <2>1 DEF SameEntries
  <2>3. ASSUME NEW id PROVE Place(u, id) = Place(t, id)
    <3>1. \A j \in 1..Len(t) : (Real(u[j]) /\ u[j].id < id) <=> (Real(t[j]) /\ t[j].id < id)
      BY DEF SameEntries, Real
    <3>2. {j \in DOMAIN u : Real(u[j]) /\ u[j].id < id} = {j \in DOMAIN t : Real(t[j]) /\ t[j].id < id}
      BY <3>1 DEF SameEntries
    <3> QED
      BY <3>2 DEF Place
  <2>4. Bound(u, kind, n, i) = Bound(t, kind, n, i)
    <3>1. Place(u, u[i].id) = Place(t, t[i].id)
      BY <2>2, <2>3
    <3> HIDE DEF i
    <3> QED
      BY <2>2, <3>1 DEF Bound
  <2> HIDE DEF i
  <2>5. Stored(t, kind, n) = IF "internal" \in t[i].type THEN {} ELSE {Bound(t, kind, n, i)}
    BY <1>4 DEF Stored, i
  <2>6. Stored(u, kind, n) = IF "internal" \in u[i].type THEN {} ELSE {Bound(u, kind, n, i)}
    BY <1>2, <1>4 DEF Stored
  <2> QED
    BY <2>2, <2>4, <2>5, <2>6
<1> QED
  BY <1>3, <1>4

(* Writing a table and reading it.                                         *)
LEMMA ReadBack ==
  ASSUME NEW t, TableOK(t)
  PROVE  SameEntries(t, ReadNames(Written(t))) /\ ReadNames(Written(t)) \in Seq(EntrySet)
<1> DEFINE w == Written(t)
           u == ReadNames(w)
<1>1. t \in Seq(EntrySet) /\ DOMAIN t = 1..Len(t) /\ Len(t) \in Nat
  BY DEF TableOK
<1>2. DOMAIN w = 1..Len(t) /\ DOMAIN u = 1..Len(t)
  BY <1>1 DEF Written, ReadNames
<1>3. ASSUME NEW i \in 1..Len(t)
      PROVE  /\ u[i] \in EntrySet
             /\ u[i].name = t[i].name /\ u[i].id = t[i].id /\ u[i].alias = t[i].alias
             /\ u[i].type = t[i].type /\ u[i].sortLen = t[i].sortLen /\ u[i].bias = t[i].bias
  <2>1. t[i] \in EntrySet
    BY <1>1
  <2>2. t[i].alias \in Nat /\ t[i].bias \in Int /\ t[i].id \in Nat /\ t[i].sortLen \in Nat
        /\ t[i].name \in AllNames /\ t[i].type \in SUBSET AllTypes
    BY <2>1 DEF EntrySet
  <2>3. w[i] = [name |-> t[i].name, id |-> t[i].id, type |-> t[i].type,
                alias |-> t[i].alias + 1, sortLen |-> t[i].sortLen, bias |-> t[i].bias + BiasRange + 1]
    BY <1>1 DEF Written
  <2>4. u[i] = FullEntry(w[i].name, w[i].id, w[i].type, w[i].alias - 1,
                         w[i].sortLen, 0, w[i].bias - BiasRange - 1)
    BY <1>2 DEF ReadNames
  <2> HIDE DEF w, u
  <2>5. (t[i].alias + 1) - 1 = t[i].alias /\ (t[i].bias + BiasRange + 1) - BiasRange - 1 = t[i].bias
    BY <2>2, NamesAssumption
  <2>6. u[i] = FullEntry(t[i].name, t[i].id, t[i].type, t[i].alias, t[i].sortLen, 0, t[i].bias)
    BY <2>3, <2>4, <2>5
  <2>7. FullEntry(t[i].name, t[i].id, t[i].type, t[i].alias, t[i].sortLen, 0, t[i].bias) \in EntrySet
    BY <2>2 DEF FullEntry, EntrySet
  <2> QED
    BY <2>6, <2>7 DEF FullEntry
<1>4. u \in Seq(EntrySet) /\ Len(u) = Len(t)
  <2>1. u \in [1..Len(t) -> EntrySet]
    <3>1. u = [i \in 1..Len(t) |-> u[i]]
      BY <1>2 DEF ReadNames
    <3> HIDE DEF u, w
    <3> QED
      BY <1>3, <3>1
  <2> HIDE DEF u, w
  <2> QED
    BY <1>1, <2>1
<1> HIDE DEF u, w
<1>5. SameEntries(t, u)
  BY <1>1, <1>2, <1>3, <1>4 DEF SameEntries
<1> QED
  BY <1>4, <1>5 DEF u, w

(* What was stored is found in a table with one more metaname.             *)
LEMMA AppendedUsed ==
  ASSUME NEW t, TableOK(t), NEW e, CanAppend(t, e), NEW u, IsAppended(t, e, u), "prop" \notin e.type,
         NEW us, UsedOK(t, us)
  PROVE  UsedOK(u, us)
<1>1. Len(t) \in Nat /\ Len(u) = Len(t) + 1 /\ u[Len(t) + 1] = e /\ (\A i \in 1..Len(t) : u[i] = t[i])
      /\ DOMAIN u = 1..(Len(t) + 1) /\ DOMAIN t = 1..Len(t)
  <2>1. DOMAIN u = 1..Len(u)
    BY DEF IsAppended
  <2> QED
    BY <2>1 DEF IsAppended, TableOK
<1>2. ASSUME NEW x \in us, x.kind \in EntryKinds
      PROVE  x.name \in Given /\ Stored(u, x.kind, x.name) = {x}
  <2> DEFINE kind == x.kind
             n == x.name
             i == ByName(t, kind, n)
  <2>1. n \in Given /\ Stored(t, kind, n) = {x}
    BY <1>2 DEF UsedOK
  <2>2. i # 0
    BY <2>1 DEF Stored
  <2> HIDE DEF i
  <2>3. i \in 1..Len(t) /\ ~\A j : ~Called(t, kind, n, j)
    BY <1>2, <2>2, ByNameIs DEF i
  <2>4. ~(kind \in e.type /\ n = e.name)
    BY <1>2, <2>3 DEF CanAppend
  <2>5. ByName(u, kind, n) = i
    BY <1>2, <2>4, AppendedNames DEF i
  <2>6. u[i] = t[i]
    BY <1>1, <2>3
  <2>7. Place(u, t[i].id) = Place(t, t[i].id)
    <3>1. ~Real(e)
      BY DEF Real
    <3>2. {j \in DOMAIN u : Real(u[j]) /\ u[j].id < t[i].id} = {j \in DOMAIN t : Real(t[j]) /\ t[j].id < t[i].id}
      <4>1. ASSUME NEW j \in 1..(Len(t) + 1), Real(u[j]) PROVE j \in 1..Len(t)
        BY <1>1, <3>1, <4>1
      <4>2. \A j \in 1..Len(t) : j \in 1..(Len(t) + 1)
        BY <1>1
      <4> QED
        BY <1>1, <4>1, <4>2
    <3> QED
      BY <3>2 DEF Place
  <2> HIDE DEF kind, n
  <2>8. Bound(u, kind, n, i) = Bound(t, kind, n, i)
    BY <2>6, <2>7 DEF Bound
  <2>9. Stored(t, kind, n) = IF "internal" \in t[i].type THEN {} ELSE {Bound(t, kind, n, i)}
    BY <2>2 DEF Stored, i
  <2>10. Stored(u, kind, n) = IF "internal" \in u[i].type THEN {} ELSE {Bound(u, kind, n, i)}
    BY <2>2, <2>5 DEF Stored
  <2>11. Stored(u, kind, n) = Stored(t, kind, n)
    BY <2>6, <2>8, <2>9, <2>10
  <2> QED
    BY <2>1, <2>11 DEF kind, n
<1> QED
  BY <1>2 DEF UsedOK

(* What a document's elements are to stand for when they were added.       *)
StandsBehind(t, u, st) ==
  [k \in DOMAIN st |->
     IF k[1] = "index" /\ ByName(t, k[1], k[2]) = 0 /\ ByName(u, k[1], k[2]) # 0
     THEN k[2] ELSE st[k]]

(* A table that grew out of another one while a document was read.         *)
GrownFrom(t, st, us, u) ==
  /\ TableOK(u) /\ StandsOK(u, StandsBehind(t, u, st)) /\ UsedOK(u, us)
  /\ \A k \in EntryKinds, n \in Given : ByName(t, k, n) # 0 => ByName(u, k, n) # 0
  /\ StandsType(st)

LEMMA NotGrown ==
  ASSUME NEW t, NEW st, NEW us, TableStands(t, st), UsedOK(t, us)
  PROVE  GrownFrom(t, st, us, t)
<1>1. StandsType(st) /\ StandsOK(t, st) /\ TableOK(t)
  BY DEF StandsOK, TableStands
<1>2. StandsBehind(t, t, st) = st
  BY <1>1 DEF StandsBehind, StandsType
<1> QED
  BY <1>1, <1>2 DEF GrownFrom

LEMMA Grows ==
  ASSUME NEW t, NEW st, NEW us, NEW u, GrownFrom(t, st, us, u), NEW n \in Given
  PROVE  GrownFrom(t, st, us, AutoAdded(u, n))
<1>1. CASE ByName(u, "index", n) # 0
  BY <1>1 DEF AutoAdded
<1>2. CASE ByName(u, "index", n) = 0
  <2> DEFINE v == Add(u, n, {"index"})
             e == Entry(n, {"index"}, Len(u) + 1)
             sb == StandsBehind(t, u, st)
  <2>0. AutoAdded(u, n) = v
    BY <1>2 DEF AutoAdded
  <2>1. "index" \in EntryKinds /\ {"index"} \in SUBSET AllTypes /\ OneKind({"index"}) /\ "index" \in {"index"}
    BY DEF EntryKinds, AllTypes, OneKind
  <2>2. TableStands(u, sb)
    BY DEF GrownFrom, TableStands
  <2> HIDE DEF sb
  <2>3. TableStands(v, [sb EXCEPT ![<<"index", n>>] = n]) /\ IsAppended(u, e, v) /\ CanAppend(u, e)
    BY <1>2, <2>1, <2>2, AddedStands
  <2>4. e.type = {"index"} /\ e.name = n /\ e.alias = 0
    BY DEF Entry, AliasEntry, FullEntry
  <2> HIDE DEF v, e
  <2>5. TableOK(u) /\ TableOK(v)
    BY <2>2, <2>3 DEF TableStands
  <2>6. UsedOK(v, us)
    BY <2>3, <2>4, <2>5, AppendedUsed DEF GrownFrom
  <2>7. ASSUME NEW k \in EntryKinds, NEW m \in Given
        PROVE  ByName(v, k, m) = IF k = "index" /\ m = n THEN Len(u) + 1 ELSE ByName(u, k, m)
    <3>1. ByName(v, k, m) = IF k \in e.type /\ m = e.name THEN NewTarget(u, e) ELSE ByName(u, k, m)
      BY <2>3, <2>5, AppendedNames
    <3> QED
      BY <2>4, <3>1 DEF NewTarget
  <2>8. Len(u) + 1 # 0
    BY <2>5 DEF TableOK
  <2>9. \A k \in EntryKinds, m \in Given : ByName(t, k, m) # 0 => ByName(v, k, m) # 0
    BY <2>7, <2>8 DEF GrownFrom
  <2>10. [sb EXCEPT ![<<"index", n>>] = n] = StandsBehind(t, v, st)
    <3>1. st \in [EntryKinds \X Given -> Given \cup {Nobody}]
      BY DEF GrownFrom, StandsType
    <3> DEFINE a == [sb EXCEPT ![<<"index", n>>] = n]
               b == StandsBehind(t, v, st)
    <3>2. DOMAIN sb = EntryKinds \X Given
      BY <3>1 DEF sb, StandsBehind
    <3>3. a = [k \in EntryKinds \X Given |-> a[k]] /\ b = [k \in EntryKinds \X Given |-> b[k]]
      BY <3>1, <3>2 DEF StandsBehind
    <3>4. ASSUME NEW k \in EntryKinds, NEW m \in Given PROVE a[<<k, m>>] = b[<<k, m>>]
      <4>1. b[<<k, m>>] = IF k = "index" /\ ByName(t, k, m) = 0 /\ ByName(v, k, m) # 0 THEN m ELSE st[<<k, m>>]
        BY <3>1 DEF StandsBehind
      <4>2. sb[<<k, m>>] = IF k = "index" /\ ByName(t, k, m) = 0 /\ ByName(u, k, m) # 0 THEN m ELSE st[<<k, m>>]
        BY <3>1 DEF sb, StandsBehind
      <4>3. a[<<k, m>>] = IF k = "index" /\ m = n THEN n ELSE sb[<<k, m>>]
        BY <2>1, <3>2
      <4> HIDE DEF a, b
      <4>4. CASE k = "index" /\ m = n
        <5>1. ByName(t, k, m) = 0
          BY <1>2, <4>4 DEF GrownFrom
        <5>2. ByName(v, k, m) # 0
          BY <2>7, <2>8, <4>4
        <5> QED
          BY <4>1, <4>3, <4>4, <5>1, <5>2
      <4>5. CASE ~(k = "index" /\ m = n)
        <5>1. ByName(v, k, m) = ByName(u, k, m)
          BY <2>7, <4>5
        <5> QED
          BY <4>1, <4>2, <4>3, <4>5, <5>1
      <4> QED
        BY <4>4, <4>5
    <3> HIDE DEF a, b
    <3>5. \A k \in EntryKinds \X Given : a[k] = b[k]
      BY <3>4
    <3>6. a = b
      BY <3>3, <3>5
    <3> QED
      BY <3>6 DEF a, b
  <2>11. StandsOK(v, StandsBehind(t, v, st))
    BY <2>3, <2>10 DEF TableStands
  <2> QED
    BY <2>0, <2>5, <2>6, <2>9, <2>11 DEF GrownFrom
<1> QED
  BY <1>1, <1>2

(* The elements of a document that become metanames.                       *)
LEMMA AutoGrown ==
  ASSUME NEW t, NEW st, NEW us, TableStands(t, st), UsedOK(t, us), NEW doc \in Seq(Given)
  PROVE  GrownFrom(t, st, us, AutoNames(t, doc))
<1> DEFINE N == Len(doc)
           T == Seq(EntrySet)
           behind[i \in 0..N] == IF i = 0 THEN t ELSE AutoAdded(behind[i - 1], doc[i])
           next == [i \in 1..N |-> [s \in T |-> AutoAdded(s, doc[i])]]
<1>1. AutoNames(t, doc) = behind[N]
  BY DEF AutoNames
<1>2. N \in Nat /\ t \in T /\ \A i \in 1..N : doc[i] \in Given
  BY DEF TableStands, TableOK
<1>3. ASSUME NEW s \in T, NEW n \in Given PROVE AutoAdded(s, n) \in T
  <2>1. Entry(n, {"index"}, Len(s) + 1) \in EntrySet
    <3>1. n \in AllNames /\ Len(s) + 1 \in Nat /\ 0 \in Nat /\ {"index"} \in SUBSET AllTypes
      BY DEF AllNames, AllTypes
    <3> QED
      BY <3>1, EntryIs DEF Entry
  <2> QED
    BY <2>1 DEF AutoAdded, Add
<1>4. next \in [1..N -> [T -> T]]
  <2> HIDE DEF T, N
  <2> QED
    BY <1>2, <1>3
<1>5. PICK g : FoldOf(g, N, T, t, next)
  <2> HIDE DEF next, N, T
  <2> QED
    BY <1>2, <1>4, FoldExists
<1>6. g \in [0..N -> T] /\ g[0] = t
  <2> HIDE DEF next, N, T, behind
  <2> QED
    BY <1>5 DEF FoldOf
<1>7. ASSUME NEW i \in 1..N PROVE g[i] = AutoAdded(g[i - 1], doc[i])
  <2>1. g[i] = next[i][g[i - 1]]
    <3> HIDE DEF next, N, T, behind
    <3> QED
      BY <1>5 DEF FoldOf
  <2>2. i - 1 \in 0..N
    <3> HIDE DEF N
    <3> QED
      BY <1>2
  <2>3. g[i - 1] \in T
    <3> HIDE DEF N, T
    <3> QED
      BY <1>6, <2>2
  <2>4. next[i][g[i - 1]] = AutoAdded(g[i - 1], doc[i])
    <3> HIDE DEF N, T
    <3> QED
      BY <2>3
  <2> QED
    BY <2>1, <2>4
<1>8. g = [i \in 0..N |-> IF i = 0 THEN t ELSE AutoAdded(g[i - 1], doc[i])]
  <2> HIDE DEF N, T, next, behind
  <2> DEFINE h == [i \in 0..N |-> IF i = 0 THEN t ELSE AutoAdded(g[i - 1], doc[i])]
  <2>1. \A i \in 0..N : i = 0 \/ i \in 1..N
    BY <1>2
  <2>2. \A i \in 0..N : g[i] = h[i]
    BY <1>6, <1>7, <2>1
  <2> QED
    BY <1>6, <2>2
<1>9. behind = [i \in 0..N |-> IF i = 0 THEN t ELSE AutoAdded(behind[i - 1], doc[i])]
  <2> HIDE DEF N
  <2> QED
    BY <1>8
<1>10. behind[0] = t /\ \A i \in 1..N : behind[i] = AutoAdded(behind[i - 1], doc[i])
  <2> HIDE DEF behind, N
  <2>1. \A i \in 0..N : behind[i] = IF i = 0 THEN t ELSE AutoAdded(behind[i - 1], doc[i])
    BY Zenon, <1>9
  <2>2. 0 \in 0..N /\ \A i \in 1..N : i \in 0..N /\ i # 0
    BY <1>2
  <2> QED
    BY <2>1, <2>2
<1> HIDE DEF behind, next, N, T
<1> DEFINE Good(n) == GrownFrom(t, st, us, behind[n])
           S == {n \in 0..N : Good(n)}
<1>11. 0 \in S
  <2>1. Good(0)
    BY <1>10, NotGrown
  <2> HIDE DEF Good
  <2> QED
    BY <1>2, <2>1
<1>12. ASSUME NEW n \in 0..(N - 1), n \in S PROVE n + 1 \in S
  <2>1. n + 1 \in 1..N /\ (n + 1) - 1 = n /\ n + 1 \in 0..N
    BY <1>2
  <2>2. behind[n + 1] = AutoAdded(behind[n], doc[n + 1]) /\ doc[n + 1] \in Given
    BY <1>2, <1>10, <2>1
  <2>3. GrownFrom(t, st, us, behind[n])
    BY <1>12
  <2>4. Good(n + 1)
    BY <2>2, <2>3, Grows
  <2> HIDE DEF Good
  <2> QED
    BY <2>1, <2>4
<1>13. \A n \in 0..N : n \in S
  <2> HIDE DEF S
  <2> QED
    BY <1>2, <1>11, <1>12, UpTo
<1>14. Good(N)
  <2>1. N \in 0..N
    BY <1>2
  <2> QED
    BY <1>13, <2>1
<1> QED
  BY <1>1, <1>14

-----------------------------------------------------------------------------
(* The invariant: the table in force is that of the configuration, until   *)
(* there is an index, that of the session while it indexes, and that of    *)
(* the index on disk otherwise; and likewise for the settings.             *)

CutOK(set, c) ==
  \A x \in c, s \in Kept : IF s \in Lists THEN x[s] \subseteq set[s] ELSE x[s] = set[s]

HasSettings(set) == DOMAIN set = Kept \cup Unstored

FirstInv(ses, d, t, st, u, c) == ses = 1 => d = <<>> /\ u = {} /\ c = {} /\ TableStands(t, st)
IndexInv(t, set, st, u, c) == TableStands(t, st) /\ UsedOK(t, u) /\ CutOK(set, c)
DiskInv(d, st, u, c) ==
  /\ d # <<>>
  /\ IndexInv(ReadNames(d.names), ReadSettings(DefaultSettings, d), st, u, c)
  /\ Kept \ Lists \subseteq DOMAIN d.settings

NamesInv ==
  /\ session \in Nat \ {0} /\ HasSettings(settings)
  /\ stage = "config" =>
       FirstInv(session, disk, names, stands, used, cut) /\ (session # 1 => DiskInv(disk, stands, used, cut))
  /\ stage = "index" => IndexInv(names, settings, stands, used, cut)
  /\ stage = "idle" => DiskInv(disk, stands, used, cut)

(* A function on the first numbers is a sequence.                          *)
LEMMA FunctionIsSeq ==
  ASSUME NEW S, NEW N \in Nat, NEW f \in [1..N -> S]
  PROVE  f \in Seq(S) /\ Len(f) = N
OBVIOUS

(* The table a session starts with.                                        *)
LEMMA DefaultsTable == TableOK(Defaults) /\ \A i \in 1..Len(Defaults) : Defaults[i].alias = 0
<1> DEFINE types == [i \in 1..4 |-> DefaultEntries[i][2]]
           called == [i \in 1..4 |-> DefaultEntries[i][1]]
<1>1. Len(DefaultEntries) = 4
  BY DEF DefaultEntries
<1>2. /\ types[1] = {"index"} /\ types[2] = {"prop", "internal", "number"}
      /\ types[3] = {"prop", "string"} /\ types[4] = {"prop", "string", "ignorecase"}
  BY DEF DefaultEntries
<1>3. /\ called[1] = "swishdefault" /\ called[2] = "swishreccount"
      /\ called[3] = "swishdocpath" /\ called[4] = "swishtitle"
  BY DEF DefaultEntries
<1>4. Defaults = [i \in 1..4 |-> Entry(called[i], types[i], i)]
  BY <1>1 DEF Defaults
<1> HIDE DEF types, called
<1>5. \A i \in 1..4 : i = 1 \/ i = 2 \/ i = 3 \/ i = 4
  OBVIOUS
<1>6. ASSUME NEW i \in 1..4
      PROVE  /\ called[i] \in AllNames /\ types[i] \in SUBSET AllTypes /\ OneKind(types[i])
  BY <1>2, <1>3, <1>5 DEF AllNames, AllTypes, OneKind
<1>7. ASSUME NEW i \in 1..4
      PROVE  /\ Defaults[i] \in EntrySet
             /\ Defaults[i].name = called[i] /\ Defaults[i].type = types[i]
             /\ Defaults[i].id = i /\ Defaults[i].alias = 0
  <2>1. Defaults[i] = AliasEntry(called[i], types[i], i, 0)
    BY <1>4 DEF Entry
  <2>2. i \in Nat /\ 0 \in Nat
    OBVIOUS
  <2> QED
    BY <1>6, <2>1, <2>2, EntryIs
<1>8. DOMAIN Defaults = 1..4
  BY <1>4
<1>9. Defaults \in Seq(EntrySet) /\ Len(Defaults) = 4
  <2>1. Defaults = [i \in 1..4 |-> Defaults[i]]
    BY <1>4
  <2>2. Defaults \in [1..4 -> EntrySet]
    BY <1>7, <2>1
  <2> QED
    BY <2>2, FunctionIsSeq
<1>10. \A i, j \in 1..4 : called[i] = called[j] => i = j
  BY <1>3, <1>5
<1>11. Numbered(Defaults) /\ Kinds(Defaults) /\ Aliases(Defaults) /\ Unique(Defaults)
  BY <1>6, <1>7, <1>9, <1>10 DEF Numbered, Kinds, Aliases, AliasOK, Unique
<1> QED
  BY <1>7, <1>9, <1>11 DEF TableOK

(* Its names stand for themselves.                                         *)
LEMMA DefaultsStand ==
  ASSUME NEW st,
         st = [k \in EntryKinds \X Given |-> IF ByName(Defaults, k[1], k[2]) # 0 THEN k[2] ELSE Nobody]
  PROVE  TableStands(Defaults, st)
<1>1. TableOK(Defaults) /\ \A i \in 1..Len(Defaults) : Defaults[i].alias = 0
  BY DefaultsTable
<1>2. \A k \in EntryKinds, n \in Given : st[k, n] = IF ByName(Defaults, k, n) # 0 THEN n ELSE Nobody
  OBVIOUS
<1>3. StandsType(st)
  BY DEF StandsType
<1>4. \A n \in Given : n # Nobody
  BY NamesAssumption DEF Nobody
<1>5. StandsFound(Defaults, st)
  BY <1>2, <1>4 DEF StandsFound
<1>6. StandsSelf(st)
  BY <1>2 DEF StandsSelf
<1>7. ASSUME NEW k \in EntryKinds, NEW n \in Given, NEW m \in Given,
             ByName(Defaults, k, n) # 0, ByName(Defaults, k, n) = ByName(Defaults, k, m)
      PROVE  n = m
  <2>1. PICK i : Called(Defaults, k, n, i) /\ ByName(Defaults, k, n) = Meaning(Defaults, i)
    BY <1>1, <1>7, ByNameIs
  <2>2. PICK j : Called(Defaults, k, m, j) /\ ByName(Defaults, k, m) = Meaning(Defaults, j)
    BY <1>1, <1>7, ByNameIs
  <2>3. Meaning(Defaults, i) = i /\ Meaning(Defaults, j) = j
    BY <1>1, <2>1, <2>2 DEF Meaning, Called
  <2> QED
    BY <1>7, <2>1, <2>2, <2>3 DEF Called
<1>8. StandsAlike(Defaults, st)
  <2>1. ASSUME NEW k \in EntryKinds, NEW n \in Given, NEW m \in Given,
               st[k, n] # Nobody, st[k, m] # Nobody
        PROVE  ByName(Defaults, k, n) = ByName(Defaults, k, m) <=> st[k, n] = st[k, m]
    <3>1. ByName(Defaults, k, n) # 0 /\ st[k, n] = n /\ st[k, m] = m
      BY <1>2, <2>1
    <3> QED
      BY <1>7, <3>1
  <2> QED
    BY <2>1 DEF StandsAlike
<1> QED
  BY <1>1, <1>3, <1>5, <1>6, <1>8 DEF TableStands, StandsOK

LEMMA NamesInitially == NamesInit => NamesInv
<1> SUFFICES ASSUME NamesInit PROVE NamesInv
  OBVIOUS
<1>1. TableStands(names, stands)
  BY DefaultsStand DEF NamesInit
<1>2. HasSettings(settings)
  BY DEF NamesInit, DefaultSettings, HasSettings
<1> QED
  BY <1>1, <1>2 DEF NamesInit, NamesInv, FirstInv

-----------------------------------------------------------------------------
(* Directives.                                                             *)

(* A table the configuration may get.                                      *)
Follows(t, ses, st, stn) ==
  /\ ses = 1 => TableStands(t, stn)
  /\ ses # 1 => stn = st

LEMMA Accepted ==
  ASSUME NamesInv, stage = "config", NEW t, Accept(t), Follows(t, session, stands, stands')
  PROVE  NamesInv'
<1>1. /\ names' = t /\ settings' = settings /\ disk' = disk /\ stage' = stage
      /\ session' = session /\ used' = used /\ cut' = cut
  BY DEF Accept
<1>2. FirstInv(session', disk', names', stands', used', cut')
  BY <1>1 DEF NamesInv, FirstInv, Follows
<1>3. session # 1 => DiskInv(disk', stands', used', cut')
  BY <1>1 DEF NamesInv, Follows
<1> QED
  BY <1>1, <1>2, <1>3 DEF NamesInv

LEMMA Refused ==
  ASSUME NamesInv, stage = "config", Refuse
  PROVE  NamesInv'
BY DEF NamesInv, Refuse

(* What Says and SaysNew say.                                              *)
LEMMA SaysIs ==
  ASSUME NEW kind, NEW n, NEW m, Says(kind, n, m)
  PROVE  /\ session = 1 => stands' = [stands EXCEPT ![<<kind, n>>] = m]
         /\ session # 1 => stands' = stands
BY DEF Says

LEMMA SaysNewIs ==
  ASSUME TableStands(names, stands), NEW kind \in EntryKinds, NEW n \in Given, SaysNew(kind, n), session = 1
  PROVE  /\ ByName(names, kind, n) = 0 => stands' = [stands EXCEPT ![<<kind, n>>] = n]
         /\ ByName(names, kind, n) # 0 => stands' = stands
<1>1. StandsType(stands) /\ StandsFound(names, stands)
  BY DEF TableStands, StandsOK
<1>2. CASE ByName(names, kind, n) = 0
  <2>1. stands[kind, n] = Nobody
    BY <1>1, <1>2 DEF StandsFound
  <2> QED
    BY <1>2, <2>1, SaysIs DEF SaysNew
<1>3. CASE ByName(names, kind, n) # 0
  <2>1. stands[kind, n] # Nobody
    BY <1>1, <1>3 DEF StandsFound
  <2>2. Says(kind, n, stands[kind, n])
    BY <2>1 DEF SaysNew
  <2>3. stands' = [stands EXCEPT ![<<kind, n>>] = stands[kind, n]]
    BY <2>2, SaysIs
  <2>4. [stands EXCEPT ![<<kind, n>>] = stands[kind, n]] = stands
    BY <1>1, SaidAgain
  <2> QED
    BY <1>3, <2>3, <2>4
<1> QED
  BY <1>2, <1>3

LEMMA SaysNewLater ==
  ASSUME NEW kind, NEW n, SaysNew(kind, n), session # 1
  PROVE  stands' = stands
BY DEF SaysNew, Says

(* In the first session there is a table.                                  *)
LEMMA FirstTable ==
  ASSUME NamesInv, stage = "config", session = 1
  PROVE  TableStands(names, stands)
BY DEF NamesInv, FirstInv

(* A type of a kind.                                                       *)
TypeFor(kind, type) == type \in SUBSET AllTypes /\ OneKind(type) /\ kind \in type

LEMMA Declared ==
  ASSUME NamesInv, NEW kind \in EntryKinds, NEW n \in Given, NEW type, TypeFor(kind, type),
         Declare(kind, n, type)
  PROVE  NamesInv'
<1>1. stage = "config"
  BY DEF Declare, Directive
<1>2. CASE ByName(names, kind, n) # 0
  BY <1>1, <1>2, Refused DEF Declare
<1>3. CASE ByName(names, kind, n) = 0
  <2>1. Accept(Add(names, n, type)) /\ Says(kind, n, n)
    BY <1>3 DEF Declare
  <2>2. CASE session = 1
    <3>1. TableStands(names, stands)
      BY <1>1, <2>2, FirstTable
    <3>2. TableStands(Add(names, n, type), [stands EXCEPT ![<<kind, n>>] = n])
      BY <1>3, <3>1, AddedStands DEF TypeFor
    <3>3. stands' = [stands EXCEPT ![<<kind, n>>] = n]
      BY <2>1, <2>2, SaysIs
    <3>4. Follows(Add(names, n, type), session, stands, stands')
      BY <2>2, <3>2, <3>3 DEF Follows
    <3> QED
      BY <1>1, <2>1, <3>4, Accepted
  <2>3. CASE session # 1
    <3>1. Follows(Add(names, n, type), session, stands, stands')
      BY <2>1, <2>3, SaysIs DEF Follows
    <3> QED
      BY <1>1, <2>1, <3>1, Accepted
  <2> QED
    BY <2>2, <2>3
<1> QED
  BY <1>2, <1>3

LEMMA Aliased ==
  ASSUME NamesInv, NEW kind \in EntryKinds, NEW b \in Given, NEW n \in Given, Alias(kind, b, n)
  PROVE  NamesInv'
<1> DEFINE i == NoAlias(names, kind, b)
           t == Append(names, AliasEntry(n, names[i].type, Len(names) + 1, names[i].id))
<1>1. stage = "config"
  BY DEF Alias, Directive
<1>2. CASE ~CanAlias(kind, b, n)
  BY <1>1, <1>2, Refused DEF Alias
<1>3. CASE CanAlias(kind, b, n)
  <2>1. i # 0 /\ names[i].alias = 0 /\ NoAlias(names, kind, n) = 0
    BY <1>3 DEF CanAlias
  <2>2. Accept(t) /\ Says(kind, n, stands[kind, b])
    BY <1>3 DEF Alias
  <2>3. CASE session = 1
    <3>1. TableStands(names, stands)
      BY <1>1, <2>3, FirstTable
    <3>2. TableStands(t, [stands EXCEPT ![<<kind, n>>] = stands[kind, b]])
      BY <2>1, <3>1, AliasStands
    <3>3. stands' = [stands EXCEPT ![<<kind, n>>] = stands[kind, b]]
      BY <2>2, <2>3, SaysIs
    <3> HIDE DEF t
    <3>4. Follows(t, session, stands, stands')
      BY <2>3, <3>2, <3>3 DEF Follows
    <3> QED
      BY <1>1, <2>2, <3>4, Accepted
  <2>4. CASE session # 1
    <3> HIDE DEF t
    <3>1. Follows(t, session, stands, stands')
      BY <2>2, <2>4, SaysIs DEF Follows
    <3> QED
      BY <1>1, <2>2, <3>1, Accepted
  <2> QED
    BY <2>3, <2>4
<1> QED
  BY <1>2, <1>3

(* A name of the index that is looked up, and created if it is new.        *)
LEMMA CreatedIfNew ==
  ASSUME NamesInv, stage = "config", NEW kind \in EntryKinds, NEW n \in Given, NEW type, TypeFor(kind, type),
         IF ByName(names, kind, n) # 0 THEN Accept(names) ELSE Accept(Add(names, n, type)),
         SaysNew(kind, n)
  PROVE  NamesInv'
<1>1. CASE session # 1
  <2>1. \A t : Follows(t, session, stands, stands')
    BY <1>1, SaysNewLater DEF Follows
  <2> QED
    BY <2>1, Accepted
<1>2. CASE session = 1 /\ ByName(names, kind, n) # 0
  <2>1. TableStands(names, stands)
    BY <1>2, FirstTable
  <2>2. stands' = stands
    BY <1>2, <2>1, SaysNewIs
  <2>3. Follows(names, session, stands, stands')
    BY <1>2, <2>1, <2>2 DEF Follows
  <2> QED
    BY <1>2, <2>3, Accepted
<1>3. CASE session = 1 /\ ByName(names, kind, n) = 0
  <2>1. TableStands(names, stands)
    BY <1>3, FirstTable
  <2>2. stands' = [stands EXCEPT ![<<kind, n>>] = n]
    BY <1>3, <2>1, SaysNewIs
  <2>3. TableStands(Add(names, n, type), [stands EXCEPT ![<<kind, n>>] = n])
    BY <1>3, <2>1, AddedStands DEF TypeFor
  <2>4. Follows(Add(names, n, type), session, stands, stands')
    BY <1>3, <2>2, <2>3 DEF Follows
  <2> QED
    BY <1>3, <2>4, Accepted
<1> QED
  BY <1>1, <1>2, <1>3

(* A name that is found has an entry, and one that has none is not.        *)
LEMMA NoAliasByName ==
  ASSUME NEW t, TableOK(t), NEW kind \in EntryKinds, NEW n
  PROVE  /\ NoAlias(t, kind, n) = 0 <=> ByName(t, kind, n) = 0
         /\ NoAlias(t, kind, n) # 0 => Called(t, kind, n, NoAlias(t, kind, n))
<1>1. CASE \E j : Called(t, kind, n, j)
  <2>1. PICK j : Called(t, kind, n, j)
    BY <1>1
  <2>2. NoAlias(t, kind, n) = j
    BY <2>1, NoAliasFound
  <2>3. ByName(t, kind, n) = Meaning(t, j) /\ Meaning(t, j) \in 1..Len(t)
    BY <2>1, ByNameFound
  <2>4. j # 0 /\ Meaning(t, j) # 0
    BY <2>1, <2>3 DEF Called, TableOK
  <2> QED
    BY <2>1, <2>2, <2>3, <2>4
<1>2. CASE ~\E j : Called(t, kind, n, j)
  BY <1>2, NoAliasNone, ByNameNone
<1> QED
  BY <1>1, <1>2

(* A field and a value for it.                                             *)
FieldOf(field, v) ==
  \/ field = "bias" /\ v \in Int
  \/ field \in {"maxLen", "sortLen"} /\ v \in Nat

LEMMA Attributed ==
  ASSUME NamesInv, NEW kind \in EntryKinds, NEW n \in Given, NEW type, TypeFor(kind, type),
         NEW field, NEW v, FieldOf(field, v), Attribute(kind, n, type, field, v)
  PROVE  NamesInv'
<1> DEFINE i == NoAlias(names, kind, n)
           t == IF i = 0 THEN Add(names, n, type) ELSE names
           j == NoAlias(t, kind, n)
           u == [t EXCEPT ![j] = With(t[j], field, v)]
<1>1. stage = "config"
  BY DEF Attribute, Directive
<1>2. CASE i # 0 /\ (names[i].alias # 0 \/ (kind = "prop" /\ "string" \notin names[i].type))
  BY <1>1, <1>2, Refused DEF Attribute
<1>3. CASE ~(i # 0 /\ (names[i].alias # 0 \/ (kind = "prop" /\ "string" \notin names[i].type)))
  <2>1. Accept(u) /\ SaysNew(kind, n)
    BY <1>3 DEF Attribute
  <2> HIDE DEF u
  <2>2. CASE session # 1
    <3>1. Follows(u, session, stands, stands')
      BY <2>1, <2>2, SaysNewLater DEF Follows
    <3> QED
      BY <1>1, <2>1, <3>1, Accepted
  <2>3. CASE session = 1
    <3>1. TableStands(names, stands) /\ TableOK(names)
      BY <1>1, <2>3, FirstTable DEF TableStands
    <3>2. i = 0 <=> ByName(names, kind, n) = 0
      BY <3>1, NoAliasByName
    <3>3. TableStands(t, stands')
      <4>1. CASE i = 0
        <5>1. stands' = [stands EXCEPT ![<<kind, n>>] = n]
          BY <2>1, <2>3, <3>1, <3>2, <4>1, SaysNewIs
        <5>2. TableStands(Add(names, n, type), [stands EXCEPT ![<<kind, n>>] = n])
          BY <3>1, <3>2, <4>1, AddedStands DEF TypeFor
        <5> QED
          BY <4>1, <5>1, <5>2
      <4>2. CASE i # 0
        <5>1. stands' = stands
          BY <2>1, <2>3, <3>1, <3>2, <4>2, SaysNewIs
        <5> QED
          BY <3>1, <4>2, <5>1
      <4> QED
        BY <4>1, <4>2
    <3>4. j \in 1..Len(t)
      <4>1. ByName(t, kind, n) # 0
        <5>1. CASE i = 0
          <6> DEFINE e == Entry(n, type, Len(names) + 1)
                     a == Add(names, n, type)
          <6>1. IsAppended(names, e, a) /\ CanAppend(names, e)
            BY <3>1, <3>2, <5>1, AddedStands DEF TypeFor
          <6>2. e.type = type /\ e.name = n /\ e.alias = 0
            BY DEF Entry, AliasEntry, FullEntry
          <6> HIDE DEF e, a
          <6>3. ByName(a, kind, n) = IF kind \in e.type /\ n = e.name THEN NewTarget(names, e) ELSE ByName(names, kind, n)
            BY <3>1, <6>1, AppendedNames
          <6>4. kind \in type /\ Len(names) + 1 # 0
            BY <3>1 DEF TypeFor, TableOK
          <6>5. ByName(a, kind, n) # 0
            BY <6>2, <6>3, <6>4 DEF NewTarget
          <6> QED
            BY <5>1, <6>5 DEF a
        <5>2. CASE i # 0
          BY <3>2, <5>2
        <5> QED
          BY <5>1, <5>2
      <4>2. TableOK(t)
        BY <3>3 DEF TableStands
      <4> HIDE DEF t
      <4>3. Called(t, kind, n, j)
        BY <4>1, <4>2, NoAliasByName
      <4> QED
        BY <4>3 DEF Called
    <3> HIDE DEF t, j
    <3>5. TableStands(u, stands')
      BY <3>3, <3>4, WithStands DEF FieldOf, u
    <3>6. Follows(u, session, stands, stands')
      BY <2>3, <3>5 DEF Follows
    <3> QED
      BY <1>1, <2>1, <3>6, Accepted
  <2> QED
    BY <2>2, <2>3
<1> QED
  BY <1>2, <1>3

LEMMA FlagTypes ==
  ASSUME NEW f \in Flags
  PROVE  TypeFor("prop", f.new) /\ f.flag \in AllTypes \ EntryKinds
BY DEF Flags, TypeFor, AllTypes, OneKind, EntryKinds

LEMMA Flagged ==
  ASSUME NamesInv, NEW n \in Given, NEW f \in Flags, PropertyFlag(n, f)
  PROVE  NamesInv'
<1> DEFINE i == ByName(names, "prop", n)
           type == IF f.on THEN names[i].type \cup {f.flag} ELSE names[i].type \ {f.flag}
           u == [names EXCEPT ![i] = With(names[i], "type", type)]
<1>0. "prop" \in EntryKinds
  BY DEF EntryKinds
<1>1. stage = "config"
  BY DEF PropertyFlag, Directive
<1>2. CASE i = 0
  <2>1. Accept(Add(names, n, f.new)) /\ SaysNew("prop", n)
    BY <1>2 DEF PropertyFlag
  <2>2. TypeFor("prop", f.new)
    BY FlagTypes
  <2> QED
    BY <1>0, <1>1, <1>2, <2>1, <2>2, CreatedIfNew
<1>3. CASE i # 0 /\ "string" \notin names[i].type
  BY <1>1, <1>3, Refused DEF PropertyFlag
<1>4. CASE i # 0 /\ "string" \in names[i].type
  <2>1. Accept(u) /\ SaysNew("prop", n)
    BY <1>4 DEF PropertyFlag
  <2> HIDE DEF u
  <2>2. CASE session # 1
    <3>1. Follows(u, session, stands, stands')
      BY <2>1, <2>2, SaysNewLater DEF Follows
    <3> QED
      BY <1>1, <2>1, <3>1, Accepted
  <2>3. CASE session = 1
    <3>1. TableStands(names, stands) /\ TableOK(names)
      BY <1>1, <2>3, FirstTable DEF TableStands
    <3>2. stands' = stands
      BY <1>0, <1>4, <2>1, <2>3, <3>1, SaysNewIs
    <3>3. i \in 1..Len(names)
      BY <1>0, <1>4, <3>1, ByNameIs
    <3>4. names[i].type \in SUBSET AllTypes
      <4>1. names[i] \in EntrySet
        BY <3>1, <3>3 DEF TableOK
      <4> QED
        BY <4>1 DEF EntrySet
    <3> HIDE DEF i
    <3>5. f.flag \in AllTypes /\ f.flag \notin EntryKinds
      BY FlagTypes
    <3>6. type \in SUBSET AllTypes /\ \A kind \in EntryKinds : kind \in names[i].type <=> kind \in type
      BY <3>4, <3>5
    <3> HIDE DEF type
    <3>7. TableStands(u, stands)
      BY <3>1, <3>3, <3>6, WithStands DEF u
    <3>8. Follows(u, session, stands, stands')
      BY <2>3, <3>2, <3>7 DEF Follows
    <3> QED
      BY <1>1, <2>1, <3>8, Accepted
  <2> QED
    BY <2>2, <2>3
<1> QED
  BY <1>2, <1>3, <1>4

LEMMA SettingKeeps ==
  ASSUME NamesInv, NEW s, NEW v, Setting(s, v)
  PROVE  NamesInv'
<1>1. /\ stage = "config" /\ settings' = [settings EXCEPT ![s] = IF s \in Lists THEN @ \cup {v} ELSE v]
      /\ names' = names /\ disk' = disk /\ stage' = stage /\ session' = session
      /\ stands' = stands /\ used' = used /\ cut' = cut
  BY DEF Setting, Directive
<1>2. HasSettings(settings')
  BY <1>1 DEF NamesInv, HasSettings
<1> QED
  BY <1>1, <1>2 DEF NamesInv

-----------------------------------------------------------------------------
(* Sessions.                                                               *)

(* A record is no empty sequence.                                          *)
LEMMA RecordNotEmpty == ASSUME NEW a, NEW b PROVE [names |-> a, settings |-> b] # <<>>
<1>1. DOMAIN [names |-> a, settings |-> b] = {"names", "settings"}
  OBVIOUS
<1>2. DOMAIN <<>> = {}
  OBVIOUS
<1> QED
  BY <1>1, <1>2

(* Settings that are read: of the lists, those in the index are among      *)
(* them, and the others are those of the index.                            *)
LEMMA SettingsRead ==
  ASSUME NEW set, HasSettings(set), NEW d, Kept \ Lists \subseteq DOMAIN d.settings, NEW s \in Kept
  PROVE  LET a == ReadSettings(DefaultSettings, d)
             b == ReadSettings(set, d)
         IN IF s \in Lists THEN a[s] \subseteq b[s] ELSE a[s] = b[s]
<1> DEFINE a == ReadSettings(DefaultSettings, d)
           b == ReadSettings(set, d)
<1>1. s \in DOMAIN set /\ s \in DOMAIN DefaultSettings
  BY DEF HasSettings, DefaultSettings
<1>2. b[s] = IF s \notin DOMAIN d.settings THEN set[s]
             ELSE IF s \in Lists THEN set[s] \cup d.settings[s] ELSE d.settings[s]
  BY <1>1 DEF ReadSettings
<1>3. a[s] = IF s \notin DOMAIN d.settings THEN DefaultSettings[s]
             ELSE IF s \in Lists THEN DefaultSettings[s] \cup d.settings[s] ELSE d.settings[s]
  BY <1>1 DEF ReadSettings
<1>4. s \in Lists => DefaultSettings[s] = {}
  BY DEF DefaultSettings
<1> HIDE DEF a, b
<1>5. CASE s \in Lists
  <2>1. a[s] \subseteq b[s]
    BY <1>2, <1>3, <1>4, <1>5
  <2> QED
    BY <1>5, <2>1 DEF a, b
<1>6. CASE s \notin Lists
  <2>1. s \in DOMAIN d.settings
    BY <1>6
  <2>2. a[s] = b[s]
    BY <1>2, <1>3, <1>6, <2>1
  <2> QED
    BY <1>6, <2>2 DEF a, b
<1> QED
  BY <1>5, <1>6

LEMMA StartIndexingKeeps ==
  ASSUME NamesInv, StartIndexing
  PROVE  NamesInv'
<1>1. stage = "config" /\ stage' = "index" /\ disk' = disk /\ session' = session
      /\ stands' = stands /\ used' = used /\ cut' = cut
  BY DEF StartIndexing
<1>2. CASE disk = <<>>
  <2>1. names' = names /\ settings' = settings
    BY <1>2 DEF StartIndexing
  <2>2. session = 1
    BY <1>1, <1>2 DEF NamesInv, DiskInv
  <2>3. used = {} /\ cut = {} /\ TableStands(names, stands)
    BY <1>1, <2>2 DEF NamesInv, FirstInv
  <2>4. IndexInv(names', settings', stands', used', cut')
    BY <1>1, <2>1, <2>3 DEF IndexInv, UsedOK, CutOK
  <2> QED
    BY <1>1, <2>1, <2>4 DEF NamesInv
<1>3. CASE disk # <<>>
  <2>1. names' = ReadNames(disk.names) /\ settings' = ReadSettings(settings, disk)
    BY <1>3 DEF StartIndexing
  <2>2. session # 1
    BY <1>1, <1>3 DEF NamesInv, FirstInv
  <2>3. DiskInv(disk, stands, used, cut) /\ HasSettings(settings)
    BY <1>1, <2>2 DEF NamesInv
  <2> DEFINE a == ReadSettings(DefaultSettings, disk)
             b == ReadSettings(settings, disk)
  <2>4. CutOK(a, cut) /\ TableStands(names', stands) /\ UsedOK(names', used)
    BY <2>1, <2>3 DEF DiskInv, IndexInv
  <2>5. HasSettings(b)
    BY <2>3 DEF HasSettings, ReadSettings
  <2>6. \A s \in Kept : IF s \in Lists THEN a[s] \subseteq b[s] ELSE a[s] = b[s]
    BY <2>3, SettingsRead DEF DiskInv
  <2> HIDE DEF a, b
  <2>7. CutOK(b, cut)
    <3>1. ASSUME NEW x \in cut, NEW s \in Kept
          PROVE  IF s \in Lists THEN x[s] \subseteq b[s] ELSE x[s] = b[s]
      <4>1. IF s \in Lists THEN x[s] \subseteq a[s] ELSE x[s] = a[s]
        BY <2>4 DEF CutOK
      <4>2. IF s \in Lists THEN a[s] \subseteq b[s] ELSE a[s] = b[s]
        BY <2>6
      <4> QED
        BY <4>1, <4>2
    <3> QED
      BY <3>1 DEF CutOK
  <2>8. settings' = b
    BY <2>1 DEF b
  <2>9. IndexInv(names', settings', stands', used', cut')
    BY <1>1, <2>4, <2>7, <2>8 DEF IndexInv
  <2>10. session' \in Nat \ {0}
    BY <1>1 DEF NamesInv
  <2> QED
    BY <1>1, <2>5, <2>8, <2>9, <2>10 DEF NamesInv
<1> QED
  BY <1>2, <1>3

(* What a document stores is found under its name.                         *)
LEMMA StoredUsed ==
  ASSUME NEW t, NEW kind \in EntryKinds, NEW n \in Given, NEW x \in Stored(t, kind, n)
  PROVE  x.kind = kind /\ x.name = n /\ Stored(t, kind, n) = {x}
<1> DEFINE i == ByName(t, kind, n)
<1>1. i # 0 /\ "internal" \notin t[i].type
  BY DEF Stored
<1>2. Stored(t, kind, n) = {Bound(t, kind, n, i)}
  BY <1>1 DEF Stored
<1>3. x = Bound(t, kind, n, i)
  BY <1>2
<1>4. x.kind = kind /\ x.name = n
  BY <1>3 DEF Bound
<1> QED
  BY <1>2, <1>3, <1>4

(* The words of links are under no name's kind.                            *)
LEMMA LinkKind == ASSUME NEW id, NEW x \in LinkWords(id) PROVE x.kind \notin EntryKinds
BY DEF LinkWords, EntryKinds

LEMMA NameDocumentKeeps ==
  ASSUME NamesInv, NEW doc \in Documents, NEW auto \in BOOLEAN, NameDocument(doc, auto)
  PROVE  NamesInv'
<1> DEFINE More == StoredBy(names', doc)
<1>1. stage = "index" /\ stage' = stage /\ disk' = disk /\ session' = session /\ settings' = settings
      /\ cut' = cut \cup {Restrict(settings, Kept)}
  BY DEF NameDocument
<1>2. names' = IF auto THEN AutoNames(names, doc) ELSE names
  BY DEF NameDocument
<1>3. stands' = StandsBehind(names, names', stands)
  BY DEF NameDocument, StandsBehind
<1>4. PICK words \in IF links = NoLinks THEN {{}} ELSE {LinkWords(id) : id \in LinkIds} :
        used' = used \cup words \cup More
  BY DEF NameDocument
<1>5. TableStands(names, stands) /\ UsedOK(names, used) /\ CutOK(settings, cut)
  BY <1>1 DEF NamesInv, IndexInv
<1>6. doc \in Seq(Given)
  BY NamesAssumption
<1>7. GrownFrom(names, stands, used, names')
  <2>1. CASE auto
    BY <1>2, <1>5, <1>6, <2>1, AutoGrown
  <2>2. CASE ~auto
    BY <1>2, <1>5, <2>2, NotGrown
  <2> QED
    BY <2>1, <2>2
<1>8. TableStands(names', stands') /\ UsedOK(names', used)
  BY <1>3, <1>7 DEF GrownFrom, TableStands
<1>9. UsedOK(names', used')
  <2>1. ASSUME NEW x \in used', x.kind \in EntryKinds
        PROVE  x.name \in Given /\ Stored(names', x.kind, x.name) = {x}
    <3>1. CASE x \in used
      BY <1>8, <2>1, <3>1 DEF UsedOK
    <3>2. CASE x \in words
      <4>1. PICK id : words = LinkWords(id)
        BY <1>4, <3>2
      <4> QED
        BY <2>1, <3>2, <4>1, LinkKind
    <3>3. CASE x \in More
      <4>1. PICK k \in EntryKinds : \E n \in Range(doc) : x \in Stored(names', k, n)
        BY <3>3 DEF StoredBy
      <4>2. PICK n \in Range(doc) : x \in Stored(names', k, n)
        BY <4>1
      <4>3. n \in Given
        BY <1>6, <4>2 DEF Range
      <4> HIDE DEF More
      <4>4. x.kind = k /\ x.name = n /\ Stored(names', k, n) = {x}
        BY <4>2, <4>3, StoredUsed
      <4> QED
        BY <4>3, <4>4
    <3> HIDE DEF More
    <3> QED
      BY <1>4, <2>1, <3>1, <3>2, <3>3
  <2> QED
    BY <2>1 DEF UsedOK
<1>10. CutOK(settings', cut')
  <2>1. ASSUME NEW x \in cut', NEW s \in Kept
        PROVE  IF s \in Lists THEN x[s] \subseteq settings[s] ELSE x[s] = settings[s]
    <3>1. CASE x \in cut
      BY <1>5, <3>1 DEF CutOK
    <3>2. CASE x = Restrict(settings, Kept)
      <4>1. x[s] = settings[s]
        BY <3>2 DEF Restrict
      <4> QED
        BY <4>1
    <3> QED
      BY <1>1, <2>1, <3>1, <3>2
  <2> QED
    BY <1>1, <2>1 DEF CutOK
<1>11. IndexInv(names', settings', stands', used', cut')
  BY <1>8, <1>9, <1>10 DEF IndexInv
<1>12. session' \in Nat \ {0} /\ HasSettings(settings')
  BY <1>1 DEF NamesInv
<1> QED
  BY <1>1, <1>11, <1>12 DEF NamesInv

LEMMA EndIndexingKeeps ==
  ASSUME NamesInv, EndIndexing
  PROVE  NamesInv'
<1>1. stage = "index" /\ stage' = "idle" /\ disk' = HeaderOf(names, settings)
      /\ names' = names /\ settings' = settings /\ session' = session
      /\ stands' = stands /\ used' = used /\ cut' = cut
  BY DEF EndIndexing
<1> DEFINE t == ReadNames(Written(names))
           d == HeaderOf(names, settings)
           a == ReadSettings(DefaultSettings, d)
<1>2. TableStands(names, stands) /\ UsedOK(names, used) /\ CutOK(settings, cut) /\ HasSettings(settings)
  BY <1>1 DEF NamesInv, IndexInv
<1>3. d # <<>> /\ d.names = Written(names)
      /\ d.settings = Restrict(settings, {s \in Kept : s \in Lists => settings[s] # {}})
  BY RecordNotEmpty DEF HeaderOf
<1>4. SameEntries(names, t) /\ t \in Seq(EntrySet)
  BY <1>2, ReadBack DEF TableStands
<1> HIDE DEF t
<1>5. TableStands(t, stands)
  <2>1. SameShape(names, t)
    BY <1>4 DEF SameEntries, SameShape
  <2> QED
    BY <1>2, <1>4, <2>1, ShapeStands
<1>6. UsedOK(t, used)
  <2>1. ASSUME NEW x \in used, x.kind \in EntryKinds PROVE x.name \in Given /\ Stored(t, x.kind, x.name) = {x}
    <3>1. x.name \in Given /\ Stored(names, x.kind, x.name) = {x}
      BY <1>2, <2>1 DEF UsedOK
    <3>2. Stored(t, x.kind, x.name) = Stored(names, x.kind, x.name)
      BY <1>2, <1>4, <2>1, SameStored DEF TableStands
    <3> QED
      BY <3>1, <3>2
  <2> QED
    BY <2>1 DEF UsedOK
<1>7. DOMAIN d.settings = {s \in Kept : s \in Lists => settings[s] # {}}
      /\ \A s \in DOMAIN d.settings : d.settings[s] = settings[s]
  BY <1>3 DEF Restrict
<1>8. ASSUME NEW s \in Kept PROVE a[s] = settings[s]
  <2>1. a[s] = IF s \notin DOMAIN d.settings THEN DefaultSettings[s]
               ELSE IF s \in Lists THEN DefaultSettings[s] \cup d.settings[s] ELSE d.settings[s]
    BY DEF ReadSettings, DefaultSettings
  <2>2. s \in Lists => DefaultSettings[s] = {}
    BY DEF DefaultSettings
  <2> HIDE DEF a, d
  <2>3. CASE s \in DOMAIN d.settings
    BY <1>7, <2>1, <2>2, <2>3
  <2>4. CASE s \notin DOMAIN d.settings
    BY <1>7, <2>1, <2>2, <2>4
  <2> QED
    BY <2>3, <2>4
<1> HIDE DEF a, d
<1>9. CutOK(a, cut)
  <2>1. ASSUME NEW x \in cut, NEW s \in Kept
        PROVE  IF s \in Lists THEN x[s] \subseteq a[s] ELSE x[s] = a[s]
    BY <1>2, <1>8 DEF CutOK
  <2> QED
    BY <2>1 DEF CutOK
<1>10. Kept \ Lists \subseteq DOMAIN d.settings
  BY <1>7
<1>11. IndexInv(ReadNames(d.names), ReadSettings(DefaultSettings, d), stands, used, cut)
  BY <1>3, <1>5, <1>6, <1>9 DEF IndexInv, t, a
<1>12. DiskInv(disk', stands', used', cut')
  BY <1>1, <1>3, <1>10, <1>11 DEF DiskInv, d
<1>13. session' \in Nat \ {0} /\ HasSettings(settings')
  BY <1>1 DEF NamesInv
<1> QED
  BY <1>1, <1>12, <1>13 DEF NamesInv

LEMMA NextSessionKeeps ==
  ASSUME NamesInv, NextSession
  PROVE  NamesInv'
<1>1. stage = "idle" /\ stage' = "config" /\ session' = session + 1 /\ settings' = DefaultSettings
      /\ disk' = disk /\ stands' = stands /\ used' = used /\ cut' = cut
  BY DEF NextSession
<1>2. session' \in Nat \ {0} /\ session' # 1
  BY <1>1 DEF NamesInv
<1>3. HasSettings(settings')
  BY <1>1 DEF HasSettings, DefaultSettings
<1>4. DiskInv(disk', stands', used', cut')
  BY <1>1 DEF NamesInv
<1> QED
  BY <1>1, <1>2, <1>3, <1>4 DEF NamesInv, FirstInv

(* The types that directives give.                                         *)
LEMMA TypesGiven ==
  /\ "index" \in EntryKinds /\ "prop" \in EntryKinds
  /\ TypeFor("index", {"index"}) /\ TypeFor("prop", {"prop", "string"})
  /\ \A type \in PropertyTypes : TypeFor("prop", {"prop"} \cup type)
BY DEF EntryKinds, TypeFor, OneKind, AllTypes, PropertyTypes

LEMMA NamesStep == NamesInv /\ [NamesNext]_namesVars => NamesInv'
<1> SUFFICES ASSUME NamesInv, [NamesNext]_namesVars PROVE NamesInv'
  OBVIOUS
<1>1. ASSUME NEW n \in Given, MetaNames(n) PROVE NamesInv'
  BY <1>1, TypesGiven, Declared DEF MetaNames
<1>2. ASSUME NEW n \in Given, MetaUsed(n) PROVE NamesInv'
  <2>1. stage = "config" /\ SaysNew("index", n)
        /\ (IF ByName(names, "index", n) # 0 THEN Accept(names) ELSE Accept(Add(names, n, {"index"})))
    BY <1>2 DEF MetaUsed, Directive
  <2> QED
    BY <2>1, TypesGiven, CreatedIfNew
<1>3. ASSUME NEW n \in Given, HTMLLinksMetaName(n) PROVE NamesInv'
  <2>1. stage = "config" /\ SaysNew("index", n)
        /\ (IF ByName(names, "index", n) # 0 THEN Accept(names) ELSE Accept(Add(names, n, {"index"})))
    BY <1>3 DEF HTMLLinksMetaName, Directive
  <2> QED
    BY <2>1, TypesGiven, CreatedIfNew
<1>4. ASSUME NEW n \in Given, NEW type \in PropertyTypes, PropertyNames(n, type) PROVE NamesInv'
  <2>1. TypeFor("prop", {"prop"} \cup type) /\ "prop" \in EntryKinds
    BY TypesGiven
  <2> QED
    BY <1>4, <2>1, Declared DEF PropertyNames
<1>5. ASSUME NEW n \in Given, NEW kind \in EntryKinds, NEW b \in Given, Alias(kind, b, n) PROVE NamesInv'
  BY <1>5, Aliased
<1>6. ASSUME NEW n \in Given, NEW bias \in Biases, MetaNamesRank(n, bias) PROVE NamesInv'
  <2>1. FieldOf("bias", bias)
    BY NamesAssumption DEF FieldOf
  <2> QED
    BY <1>6, <2>1, TypesGiven, Attributed DEF MetaNamesRank
<1>7. ASSUME NEW n \in Given, NEW len \in Lengths, PropertyNamesMaxLength(n, len) PROVE NamesInv'
  <2>1. FieldOf("maxLen", len)
    BY NamesAssumption DEF FieldOf
  <2> QED
    BY <1>7, <2>1, TypesGiven, Attributed DEF PropertyNamesMaxLength
<1>8. ASSUME NEW n \in Given, NEW len \in Lengths, PropertyNamesSortKeyLength(n, len) PROVE NamesInv'
  <2>1. FieldOf("sortLen", len)
    BY NamesAssumption DEF FieldOf
  <2> QED
    BY <1>8, <2>1, TypesGiven, Attributed DEF PropertyNamesSortKeyLength
<1>9. ASSUME NEW n \in Given, NEW f \in Flags, PropertyFlag(n, f) PROVE NamesInv'
  BY <1>9, Flagged
<1>10. ASSUME NEW s \in Kept \cup Unstored, NEW v \in Values, Setting(s, v) PROVE NamesInv'
  BY <1>10, SettingKeeps
<1>11. CASE StartIndexing
  BY <1>11, StartIndexingKeeps
<1>12. ASSUME NEW doc \in Documents, NEW auto \in BOOLEAN, NameDocument(doc, auto) PROVE NamesInv'
  BY <1>12, NameDocumentKeeps
<1>13. CASE EndIndexing
  BY <1>13, EndIndexingKeeps
<1>14. CASE NextSession
  BY <1>14, NextSessionKeeps
<1>15. CASE UNCHANGED namesVars
  <2>1. names' = names /\ settings' = settings /\ disk' = disk /\ stage' = stage /\ session' = session
        /\ stands' = stands /\ used' = used /\ cut' = cut
    BY <1>15 DEF namesVars
  <2> QED
    BY <2>1 DEF NamesInv
<1> QED
  BY <1>1, <1>2, <1>3, <1>4, <1>5, <1>6, <1>7, <1>8, <1>9, <1>10, <1>11, <1>12, <1>13, <1>14, <1>15
     DEF NamesNext

(* Used under the same number, two names are of one kind and mean the      *)
(* same.                                                                   *)
LEMMA UsedIs ==
  ASSUME NEW t, TableOK(t), NEW u, NEW kind \in EntryKinds, NEW n, Stored(t, kind, n) = {u}
  PROVE  /\ u.id = ByName(t, kind, n) /\ u.id \in 1..Len(t) /\ kind \in t[u.id].type /\ t[u.id].alias = 0
         /\ t[u.id].id = u.id
<1> DEFINE i == ByName(t, kind, n)
<1>1. i # 0
  BY DEF Stored
<1>2. i \in 1..Len(t) /\ kind \in t[i].type /\ t[i].alias = 0
  BY <1>1, ByNameIs
<1>3. t[i].id = i
  BY <1>2 DEF TableOK, Numbered
<1>4. "internal" \notin t[i].type
  BY <1>1 DEF Stored
<1>5. u = Bound(t, kind, n, i)
  BY <1>1, <1>4 DEF Stored
<1> HIDE DEF i
<1>6. u.id = i
  BY <1>3, <1>5 DEF Bound
<1> QED
  BY <1>2, <1>3, <1>6 DEF i

LEMMA NamesAreFound ==
  ASSUME NamesInv, stage = "idle"
  PROVE  NamesFound
<1> DEFINE t == SearchNames
<1>1. TableOK(t) /\ StandsOK(t, stands) /\ UsedOK(t, used)
  BY DEF NamesInv, DiskInv, IndexInv, TableStands, SearchNames
<1> HIDE DEF t
<1>2. ASSUME NEW u \in used, u.kind \in EntryKinds
      PROVE  /\ u.name \in Given /\ Stored(t, u.kind, u.name) = {u}
             /\ u.id = ByName(t, u.kind, u.name) /\ u.id \in 1..Len(t) /\ u.kind \in t[u.id].type
             /\ t[u.id].alias = 0 /\ t[u.id].id = u.id
             /\ stands[u.kind, u.name] # Nobody
  <2>1. u.name \in Given /\ Stored(t, u.kind, u.name) = {u}
    BY <1>1, <1>2 DEF UsedOK
  <2>2. /\ u.id = ByName(t, u.kind, u.name) /\ u.id \in 1..Len(t) /\ u.kind \in t[u.id].type
        /\ t[u.id].alias = 0 /\ t[u.id].id = u.id
    <3> DEFINE k == u.kind
               n == u.name
    <3>1. k \in EntryKinds /\ Stored(t, k, n) = {u}
      BY <1>2, <2>1
    <3> HIDE DEF k, n
    <3>2. /\ u.id = ByName(t, k, n) /\ u.id \in 1..Len(t) /\ k \in t[u.id].type
          /\ t[u.id].alias = 0 /\ t[u.id].id = u.id
      BY <1>1, <3>1, UsedIs
    <3> QED
      BY <3>2 DEF k, n
  <2>3. ByName(t, u.kind, u.name) # 0
    BY <1>1, <2>2 DEF TableOK
  <2>4. stands[u.kind, u.name] # Nobody
    BY <1>1, <1>2, <2>1, <2>3 DEF StandsOK, StandsFound
  <2> QED
    BY <2>1, <2>2, <2>4
<1>3. ASSUME NEW u \in used, u.kind \in EntryKinds, NEW v \in used, v.kind \in EntryKinds
      PROVE  (u.id = v.id) <=> (u.kind = v.kind /\ stands[u.kind, u.name] = stands[v.kind, v.name])
  <2>1. CASE u.kind = v.kind
    <3>1. ByName(t, u.kind, u.name) = ByName(t, u.kind, v.name)
            <=> stands[u.kind, u.name] = stands[u.kind, v.name]
      <4> DEFINE k == u.kind
      <4>1. k \in EntryKinds /\ u.name \in Given /\ v.name \in Given
            /\ stands[k, u.name] # Nobody /\ stands[k, v.name] # Nobody
        BY <1>2, <1>3, <2>1
      <4> HIDE DEF k
      <4>2. ByName(t, k, u.name) = ByName(t, k, v.name) <=> stands[k, u.name] = stands[k, v.name]
        BY <1>1, <4>1 DEF StandsOK, StandsAlike
      <4> QED
        BY <4>2 DEF k
    <3>2. u.id = ByName(t, u.kind, u.name) /\ v.id = ByName(t, u.kind, v.name)
      BY <1>2, <1>3, <2>1
    <3> QED
      BY <2>1, <3>1, <3>2
  <2>2. CASE u.kind # v.kind
    <3>1. u.kind \in t[u.id].type /\ v.kind \in t[v.id].type /\ u.id \in 1..Len(t)
      BY <1>2, <1>3
    <3>2. OneKind(t[u.id].type)
      BY <1>1, <3>1 DEF TableOK, Kinds
    <3>3. v.kind \in t[u.id].type <=> v.kind = u.kind
      BY <1>3, <3>1, <3>2, KindOfType
    <3> QED
      BY <2>2, <3>1, <3>3
  <2> QED
    BY <2>1, <2>2
<1>4. ASSUME NEW u \in used, u.kind \in EntryKinds
      PROVE  \E e \in Listed(t, u.kind = "prop") : e.id = u.id
  <2>1. u.id \in 1..Len(t) /\ u.kind \in t[u.id].type /\ t[u.id].alias = 0 /\ t[u.id].id = u.id
    BY <1>2, <1>4
  <2>2. OneKind(t[u.id].type)
    BY <1>1, <2>1 DEF TableOK, Kinds
  <2>3. ("prop" \in t[u.id].type /\ t[u.id].alias = 0) <=> u.kind = "prop"
    BY <1>4, <2>1, <2>2 DEF OneKind, EntryKinds
  <2>4. DOMAIN t = 1..Len(t)
    BY <1>1 DEF TableOK
  <2>5. t[u.id] \in Listed(t, u.kind = "prop")
    BY <2>1, <2>3, <2>4 DEF Listed
  <2> QED
    BY <2>1, <2>5
<1>5. \A u \in {v \in used : v.kind \in EntryKinds} :
         /\ Stored(t, u.kind, u.name) = {u}
         /\ \A v \in {w \in used : w.kind \in EntryKinds} :
              (u.id = v.id) <=> (u.kind = v.kind /\ stands[u.kind, u.name] = stands[v.kind, v.name])
         /\ \E e \in Listed(t, u.kind = "prop") : e.id = u.id
  <2> TAKE u \in {v \in used : v.kind \in EntryKinds}
  <2>1. u \in used /\ u.kind \in EntryKinds
    OBVIOUS
  <2>2. Stored(t, u.kind, u.name) = {u}
    BY <1>2, <2>1
  <2>3. ASSUME NEW v \in {w \in used : w.kind \in EntryKinds}
        PROVE  (u.id = v.id) <=> (u.kind = v.kind /\ stands[u.kind, u.name] = stands[v.kind, v.name])
    BY <1>3, <2>1
  <2>4. \E e \in Listed(t, u.kind = "prop") : e.id = u.id
    BY <1>4, <2>1
  <2> QED
    BY <2>2, <2>3, <2>4
<1> QED
  BY <1>5 DEF NamesFound, t

(* In every behaviour of any number of sessions the header of a finished   *)
(* index resolves the names its documents used to the numbers, places and  *)
(* forms of then, and holds the settings their words were cut with.        *)
THEOREM HeaderAgreesAlways == NamesSpec => []HeaderAgrees
<1>1. NamesInv => HeaderAgrees
  <2> SUFFICES ASSUME NamesInv, stage = "idle" PROVE NamesFound /\ CutAsSearched
    BY DEF HeaderAgrees
  <2>1. NamesFound
    BY NamesAreFound
  <2>2. CutAsSearched
    BY DEF NamesInv, DiskInv, IndexInv, CutOK, CutAsSearched, SearchSettings
  <2> QED
    BY <2>1, <2>2
<1> QED
  BY <1>1, NamesInitially, NamesStep, PTL DEF NamesSpec

-----------------------------------------------------------------------------
(* The command line.                                                       *)

SwitchWords == UNION {ParamsOf[s] : s \in Letters}
AllWords == SwitchWords \cup IndexNames \cup Directories \cup Numbers \cup {DefaultIndex, NoIndex, Unset}

IndexModes == {"index"} \cup Updating

TypedOK(ty) ==
  /\ ty.behind \in [Letters -> Seq(AllWords)] /\ ty.given \subseteq Letters
  /\ \A s \in Letters \ ty.given : ty.behind[s] = <<>>

(* The work that words asked for so far.                                   *)
IndexAct(ty) == IF ty.behind["i"] # <<>> \/ ty.behind["c"] # <<>> THEN {"index"} ELSE {}
MergeAct(ty) == IF ty.behind["M"] # <<>> THEN {"merge"} ELSE {}
SearchAct(ty) == IF \E w \in Range(ty.behind["w"]) : w # Blank THEN {"search"} ELSE {}
DumpAct(ty) == IF "INDEX_FILES" \in Range(ty.behind["T"]) THEN {"dump"} ELSE {}
WordsAct(ty) == IF ty.behind["k"] # <<>> THEN {"words"} ELSE {}
Acts(ty) == IndexAct(ty) \cup MergeAct(ty) \cup SearchAct(ty) \cup DumpAct(ty) \cup WordsAct(ty)

(* -u and -r stay for as long as nothing else but indexing is asked for,   *)
(* and then one of them only is there.                                     *)
ModeOK(m, ty) ==
  /\ "u" \notin ty.given /\ "r" \notin ty.given => IF Acts(ty) = {} THEN m = "search" ELSE m \in Acts(ty)
  /\ ("u" \in ty.given \/ "r" \in ty.given) /\ Acts(ty) \subseteq {"index"} =>
       m = (IF "u" \in ty.given THEN "update" ELSE "remove") /\ ~("u" \in ty.given /\ "r" \in ty.given)
  /\ m = "merge" => ty.behind["M"] # <<>>

LastOf(q) == q[Len(q)]
MergeOK(v, ty) == v.merge \in AllWords /\ (ty.behind["M"] # <<>> => v.merge = LastOf(ty.behind["M"]))

IndexesAsked(v, ty) == v.indexes \in Seq(AllWords) /\ ("M" \notin ty.given => v.indexes = ty.behind["f"])
ValuesOK(v, ty) ==
  /\ v.dirs = ty.behind["i"]
  /\ IndexesAsked(v, ty)
  /\ ty.behind["v"] # <<>> => v.verbose = LastOf(ty.behind["v"])

Bare == {"u", "r", "e", "T"}
TakingOK(tk, ty) ==
  /\ tk \in [switch : {"none"} \cup Switches, words : Nat]
  /\ tk = NoSwitch \/ tk.switch \in Switches \cap ty.given
  /\ \A s \in ty.given \ Bare : ty.behind[s] = <<>> => tk.switch = s /\ tk.words = 0

AllBehind(ty) == \A s \in ty.given \ Bare : ty.behind[s] # <<>>

-----------------------------------------------------------------------------
(* The files.                                                              *)

LineSet == [place : Nat, word : AllWords]
ConfiguredOK(cf) ==
  /\ cf.lines \in Nat /\ cf.told \in [Directives -> Seq(LineSet)]
  /\ \A d \in Directives : \A i \in 1..Len(cf.told[d]) : cf.told[d][i].place < cf.lines

(* Files that include each other are read from further and further on.     *)
FrameSet == [place : Nat, got : SUBSET {"dir", "index", "bad"}]
FramesOK(fr, cf) ==
  /\ fr \in Seq(FrameSet)
  /\ \A i \in 1..Len(fr) : fr[i].place <= cf.lines
  /\ \A i, j \in 1..Len(fr) : i < j => fr[i].place < fr[j].place

InFileNow(fr, line) == \E k \in 1..Len(fr) : fr[k].place = line.place

(* IndexDir: all that was told, until the end of a file that told one.     *)
DirsAreTold(dirs, of, hd) ==
  /\ Len(dirs) <= Len(of) /\ \A i \in 1..Len(dirs) : dirs[i] = of[i].word
  /\ hd = "no" => Len(dirs) = Len(of)
  /\ Len(dirs) # Len(of) => \E i, j \in 1..Len(of) : of[i].place # of[j].place
DirsGot(dirs, of, fr) ==
  \A k \in 1..Len(fr) : "dir" \in fr[k].got =>
    dirs # <<>> /\ \E i \in 1..Len(of) : of[i].place = fr[k].place
DirsEnded(dirs, of, fr, hd) == hd = "yes" => dirs # <<>> /\ \E i \in 1..Len(of) : ~InFileNow(fr, of[i])
DirsTold(dirs, of, fr, hd) ==
  /\ dirs \in Seq(AllWords) /\ hd \in {"no", "yes"}
  /\ DirsAreTold(dirs, of, hd) /\ DirsGot(dirs, of, fr) /\ DirsEnded(dirs, of, fr, hd)

DirsOK(dirs, ty, fr, hd, of) ==
  IF "i" \in ty.given THEN hd = "yes" /\ dirs = ty.behind["i"] ELSE DirsTold(dirs, of, fr, hd)

IndexesTold(indexes, of, fr, hi) ==
  /\ of = <<>> => indexes = <<>> \/ indexes[1] = DefaultIndex
  /\ of # <<>> => indexes # <<>> /\ \E i \in 1..Len(of) : indexes[1] = of[i].word
  /\ hi \in {"no", "yes"} /\ (hi = "yes" => of # <<>>)
  /\ \A k \in 1..Len(fr) : "index" \in fr[k].got => of # <<>>

IndexesOK(indexes, ty, fr, hi, of) ==
  /\ indexes \in Seq(AllWords) /\ (fr # <<>> => indexes # <<>>)
  /\ "M" \notin ty.given =>
       IF "f" \in ty.given THEN hi = "yes" /\ indexes # <<>> /\ indexes[1] = ty.behind["f"][1]
       ELSE IndexesTold(indexes, of, fr, hi)

ReportsOK(verbose, ty, of) ==
  IF "v" \in ty.given THEN verbose = LastOf(ty.behind["v"]) ELSE of # <<>> => verbose = of[Len(of)].word

FilesInv(v, ty, fr, hd, hi, cf) ==
  /\ ConfiguredOK(cf) /\ FramesOK(fr, cf)
  /\ DirsOK(v.dirs, ty, fr, hd, cf.told["IndexDir"])
  /\ IndexesOK(v.indexes, ty, fr, hi, cf.told["IndexFile"])
  /\ ReportsOK(v.verbose, ty, cf.told["IndexReport"])

-----------------------------------------------------------------------------
(* The invariant.                                                          *)

Unconfigured(fr, hd, cf) ==
  fr = <<>> /\ hd = "unknown" /\ cf = [lines |-> 0, told |-> [d \in Directives |-> <<>>]]

Asking(m, v, ty) == TypedOK(ty) /\ ModeOK(m, ty) /\ MergeOK(v, ty)

LineInv ==
  commandStage = "line" =>
    /\ Asking(mode, values, typed) /\ ValuesOK(values, typed) /\ TakingOK(taking, typed)
    /\ Unconfigured(frames, hasDir, configured)
WorkInv == commandStage \in {"files", "run"} => Asking(mode, values, typed) /\ AllBehind(typed)
StartInv ==
  commandStage = "files" /\ hasDir = "unknown" =>
    ValuesOK(values, typed) /\ Unconfigured(frames, hasDir, configured)
ReadingInv ==
  /\ commandStage = "files" /\ hasDir # "unknown" =>
       mode \in IndexModes /\ ~readOnly /\ FilesInv(values, typed, frames, hasDir, hasIndex, configured)
  /\ commandStage = "run" /\ mode \in IndexModes =>
       ~readOnly /\ hasDir = "yes" /\ frames = <<>>
       /\ FilesInv(values, typed, frames, hasDir, hasIndex, configured)

(* The invariant.                                                          *)
CommandInv == LineInv /\ WorkInv /\ StartInv /\ ReadingInv /\ CommandObeyed
-----------------------------------------------------------------------------
(* The words of the line.                                                  *)

(* What a switch takes is a word.                                          *)
LEMMA ParamsAreWords == ASSUME NEW s \in Letters PROVE ParamsOf[s] \subseteq AllWords
BY DEF AllWords, SwitchWords

LEMMA DefaultIsWord == DefaultIndex \in AllWords
BY DEF AllWords

(* What one more word leaves of the line, and adds.                        *)
Behind(ty, s, w, ty2) ==
  /\ ty2.given = ty.given
  /\ ty2.behind = [ty.behind EXCEPT ![s] = Append(ty.behind[s], w)]
LEMMA BehindIs ==
  ASSUME NEW ty, TypedOK(ty), NEW s \in ty.given, NEW w \in AllWords, NEW ty2, Behind(ty, s, w, ty2)
  PROVE  /\ TypedOK(ty2) /\ ty2.given = ty.given
         /\ ty2.behind[s] = Append(ty.behind[s], w) /\ ty2.behind[s] # <<>> /\ LastOf(ty2.behind[s]) = w
         /\ \A t \in Letters \ {s} : ty2.behind[t] = ty.behind[t]
<1>1. s \in Letters /\ ty.behind[s] \in Seq(AllWords) /\ ty.behind \in [Letters -> Seq(AllWords)]
  BY DEF TypedOK
<1>2. Append(ty.behind[s], w) \in Seq(AllWords) /\ Append(ty.behind[s], w) # <<>> /\ LastOf(Append(ty.behind[s], w)) = w
  BY <1>1 DEF LastOf
<1>3. ty2.behind[s] = Append(ty.behind[s], w) /\ \A t \in Letters \ {s} : ty2.behind[t] = ty.behind[t]
  BY <1>1 DEF Behind
<1>4. ty2.behind \in [Letters -> Seq(AllWords)]
  BY <1>1, <1>2 DEF Behind
<1>5. TypedOK(ty2)
  <2>1. ty2.given = ty.given
    BY DEF Behind
  <2>2. \A t \in Letters \ ty2.given : ty2.behind[t] = <<>>
    BY <1>3, <2>1 DEF TypedOK
  <2> QED
    BY <1>4, <2>1, <2>2 DEF TypedOK
<1>6. ty2.given = ty.given
  BY DEF Behind
<1> QED
  BY <1>2, <1>3, <1>5, <1>6

(* A word that is added is found, and the others still are.                *)
LEMMA AppendedRange ==
  ASSUME NEW X, NEW q \in Seq(X), NEW w \in X
  PROVE  Range(Append(q, w)) = Range(q) \cup {w}
<1>1. Len(Append(q, w)) = Len(q) + 1 /\ Append(q, w)[Len(q) + 1] = w /\ Len(q) \in Nat
  OBVIOUS
<1>2. \A i \in 1..Len(q) : Append(q, w)[i] = q[i]
  OBVIOUS
<1>3. DOMAIN Append(q, w) = 1..(Len(q) + 1) /\ DOMAIN q = 1..Len(q)
  BY <1>1
<1>4. 1..(Len(q) + 1) = 1..Len(q) \cup {Len(q) + 1}
  BY <1>1
<1>5. \A x : x \in Range(Append(q, w)) <=> \E i \in 1..Len(q) \cup {Len(q) + 1} : Append(q, w)[i] = x
  BY <1>3, <1>4 DEF Range
<1>6. \A x : x \in Range(q) <=> \E i \in 1..Len(q) : q[i] = x
  BY <1>3 DEF Range
<1> QED
  BY <1>1, <1>2, <1>5, <1>6

(* What a word adds to the work that is asked for.                         *)
ActOf(s, w) ==
  CASE s \in {"i", "c"} -> {"index"} [] s = "M" -> {"merge"} [] s = "k" -> {"words"}
    [] s = "w" /\ w # Blank -> {"search"} [] s = "T" /\ w = "INDEX_FILES" -> {"dump"} [] OTHER -> {}
LEMMA WordAct ==
  ASSUME NEW ty, TypedOK(ty), NEW s \in ty.given, NEW w \in AllWords, NEW ty2, Behind(ty, s, w, ty2)
  PROVE  Acts(ty2) = Acts(ty) \cup ActOf(s, w)
<1>1. /\ ty2.behind[s] = Append(ty.behind[s], w) /\ ty2.behind[s] # <<>>
      /\ \A t \in Letters \ {s} : ty2.behind[t] = ty.behind[t]
  BY BehindIs
<1>2. s \in Letters /\ ty.behind[s] \in Seq(AllWords)
  BY DEF TypedOK
<1>3. Range(ty2.behind[s]) = Range(ty.behind[s]) \cup {w}
  BY <1>1, <1>2, AppendedRange
<1>4. IndexAct(ty2) = IndexAct(ty) \cup (IF s \in {"i", "c"} THEN {"index"} ELSE {})
  BY <1>1 DEF IndexAct, Letters
<1>5. MergeAct(ty2) = MergeAct(ty) \cup (IF s = "M" THEN {"merge"} ELSE {})
  BY <1>1 DEF MergeAct, Letters
<1>6. WordsAct(ty2) = WordsAct(ty) \cup (IF s = "k" THEN {"words"} ELSE {})
  BY <1>1 DEF WordsAct, Letters
<1>7. SearchAct(ty2) = SearchAct(ty) \cup (IF s = "w" /\ w # Blank THEN {"search"} ELSE {})
  <2>1. CASE s = "w"
    BY <1>3, <2>1 DEF SearchAct
  <2>2. CASE s # "w"
    BY <1>1, <2>2 DEF SearchAct, Letters
  <2> QED
    BY <2>1, <2>2
<1>8. DumpAct(ty2) = DumpAct(ty) \cup (IF s = "T" /\ w = "INDEX_FILES" THEN {"dump"} ELSE {})
  <2>1. CASE s = "T"
    BY <1>3, <2>1 DEF DumpAct
  <2>2. CASE s # "T"
    BY <1>1, <2>2 DEF DumpAct, Letters
  <2> QED
    BY <2>1, <2>2
<1> HIDE DEF IndexAct
<1>9. ActOf(s, w) =
        (IF s \in {"i", "c"} THEN {"index"} ELSE {}) \cup (IF s = "M" THEN {"merge"} ELSE {})
        \cup (IF s = "w" /\ w # Blank THEN {"search"} ELSE {})
        \cup (IF s = "T" /\ w = "INDEX_FILES" THEN {"dump"} ELSE {}) \cup (IF s = "k" THEN {"words"} ELSE {})
  BY DEF ActOf
<1> QED
  BY <1>4, <1>5, <1>6, <1>7, <1>8, <1>9 DEF Acts

(* The kinds of work.                                                      *)
LEMMA ActsAre == ASSUME NEW ty PROVE Acts(ty) \subseteq {"index", "merge", "search", "dump", "words"}
BY DEF Acts, IndexAct, MergeAct, SearchAct, DumpAct, WordsAct

(* A word of a switch keeps the mode the one that is asked for.            *)
LEMMA WordMode ==
  ASSUME NEW ty, TypedOK(ty), NEW m, ModeOK(m, ty),
         NEW s \in ty.given, NEW w \in AllWords, NEW ty2, Behind(ty, s, w, ty2)
  PROVE  ModeOK(ModeAfter(m, s, w), ty2)
<1> DEFINE A == Acts(ty)
           m2 == ModeAfter(m, s, w)
<1>1. Acts(ty2) = A \cup ActOf(s, w) /\ A \subseteq {"index", "merge", "search", "dump", "words"}
  BY WordAct, ActsAre
<1>2. ty2.given = ty.given /\ (ty.behind["M"] # <<>> => ty2.behind["M"] # <<>>) /\ (s = "M" => ty2.behind["M"] # <<>>)
  <2>1. ty2.behind[s] # <<>> /\ \A t \in Letters \ {s} : ty2.behind[t] = ty.behind[t]
    BY BehindIs
  <2>2. "M" \in Letters
    BY DEF Letters
  <2> QED
    BY <2>1, <2>2 DEF Behind
<1>3. "u" \notin ty.given /\ "r" \notin ty.given => IF A = {} THEN m = "search" ELSE m \in A
  BY DEF ModeOK
<1>4. ("u" \in ty.given \/ "r" \in ty.given) /\ A \subseteq {"index"} =>
        m = (IF "u" \in ty.given THEN "update" ELSE "remove") /\ ~("u" \in ty.given /\ "r" \in ty.given)
  BY DEF ModeOK
<1>5. m = "merge" => ty.behind["M"] # <<>>
  BY DEF ModeOK
<1> HIDE DEF A
<1>6. \/ m2 = m /\ ActOf(s, w) = {}
      \/ m2 = Indexing(m) /\ ActOf(s, w) = {"index"}
      \/ m2 \in {"search", "merge", "words", "dump"} /\ ActOf(s, w) = {m2} /\ (m2 = "merge" => s = "M")
  BY DEF ModeAfter, ActOf
<1> HIDE DEF m2
<1>7. "u" \notin ty2.given /\ "r" \notin ty2.given => IF Acts(ty2) = {} THEN m2 = "search" ELSE m2 \in Acts(ty2)
  BY <1>1, <1>2, <1>3, <1>6 DEF Indexing, Updating
<1>8. ("u" \in ty2.given \/ "r" \in ty2.given) /\ Acts(ty2) \subseteq {"index"} =>
        m2 = (IF "u" \in ty2.given THEN "update" ELSE "remove") /\ ~("u" \in ty2.given /\ "r" \in ty2.given)
  BY <1>1, <1>2, <1>4, <1>6 DEF Indexing, Updating
<1>9. m2 = "merge" => ty2.behind["M"] # <<>>
  BY <1>2, <1>5, <1>6 DEF Indexing, Updating
<1> QED
  BY <1>7, <1>8, <1>9 DEF ModeOK, m2

(* A switch leaves what was asked for, but for -u and -r.                  *)
LEMMA SwitchMode ==
  ASSUME NEW ty, TypedOK(ty), NEW m, ModeOK(m, ty), NEW s \in Letters, NEW ty2,
         ty2.given = ty.given \cup {s}, ty2.behind = ty.behind,
         NEW m2, m2 = (CASE s = "u" -> "update" [] s = "r" -> "remove" [] OTHER -> m),
         ~(s \in {"u", "r"} /\ m \in Updating /\ m # m2)
  PROVE  TypedOK(ty2) /\ ModeOK(m2, ty2)
<1>1. TypedOK(ty2)
  BY DEF TypedOK
<1>2. Acts(ty2) = Acts(ty)
  BY DEF Acts, IndexAct, MergeAct, SearchAct, DumpAct, WordsAct
<1>3. "u" \notin ty2.given /\ "r" \notin ty2.given => IF Acts(ty2) = {} THEN m2 = "search" ELSE m2 \in Acts(ty2)
  BY <1>2 DEF ModeOK
<1>4. ("u" \in ty2.given \/ "r" \in ty2.given) /\ Acts(ty2) \subseteq {"index"} =>
        m2 = (IF "u" \in ty2.given THEN "update" ELSE "remove") /\ ~("u" \in ty2.given /\ "r" \in ty2.given)
  BY <1>2 DEF ModeOK, Updating
<1>5. m2 = "merge" => ty2.behind["M"] # <<>>
  BY DEF ModeOK
<1> QED
  BY <1>1, <1>3, <1>4, <1>5 DEF ModeOK

(* What a word sets.                                                       *)
LEMMA WordValues ==
  ASSUME NEW ty, TypedOK(ty), NEW v, ValuesOK(v, ty), MergeOK(v, ty), NEW first,
         NEW s \in ty.given, NEW w \in AllWords, NEW ty2, Behind(ty, s, w, ty2)
  PROVE  ValuesOK(Taken(v, s, w, first), ty2) /\ MergeOK(Taken(v, s, w, first), ty2)
<1> DEFINE v2 == Taken(v, s, w, first)
<1>1. /\ ty2.behind[s] = Append(ty.behind[s], w) /\ LastOf(ty2.behind[s]) = w
      /\ \A t \in Letters \ {s} : ty2.behind[t] = ty.behind[t]
      /\ ty2.given = ty.given
  BY BehindIs
<1>2. s \in Letters /\ "i" \in Letters /\ "f" \in Letters /\ "v" \in Letters /\ "M" \in Letters
  BY DEF TypedOK, Letters
<1>3. /\ v2.dirs = Added(v.dirs, w, s = "i")
      /\ v2.indexes = Added(Added(v.indexes, w, s = "f"), v.merge, s = "M" /\ ~first)
      /\ v2.verbose = (IF s = "v" THEN w ELSE v.verbose)
      /\ v2.merge = (IF s = "M" THEN w ELSE v.merge)
  BY DEF Taken
<1> HIDE DEF v2
<1>4. v2.dirs = ty2.behind["i"]
  BY <1>1, <1>2, <1>3 DEF ValuesOK, Added
<1>5. IndexesAsked(v2, ty2)
  <2>1. v.indexes \in Seq(AllWords) /\ ("M" \notin ty.given => v.indexes = ty.behind["f"]) /\ v.merge \in AllWords
    BY DEF ValuesOK, MergeOK, IndexesAsked
  <2>2. CASE s = "f"
    <3>1. v2.indexes = Append(v.indexes, w)
      BY <1>3, <2>2 DEF Added
    <3>2. v2.indexes \in Seq(AllWords)
      BY <2>1, <3>1
    <3> QED
      BY <1>1, <2>1, <2>2, <3>1, <3>2 DEF IndexesAsked
  <2>3. CASE s = "M"
    <3>1. v2.indexes = IF first THEN v.indexes ELSE Append(v.indexes, v.merge)
      BY <1>3, <2>3 DEF Added
    <3>2. v2.indexes \in Seq(AllWords)
      BY <2>1, <3>1
    <3> QED
      BY <1>1, <2>3, <3>2 DEF IndexesAsked
  <2>4. CASE s \notin {"f", "M"}
    <3>1. v2.indexes = v.indexes
      BY <1>3, <2>4 DEF Added
    <3> QED
      BY <1>1, <1>2, <2>1, <2>4, <3>1 DEF IndexesAsked
  <2> QED
    BY <2>2, <2>3, <2>4
<1>6. ty2.behind["v"] # <<>> => v2.verbose = LastOf(ty2.behind["v"])
  BY <1>1, <1>2, <1>3 DEF ValuesOK
<1>7. MergeOK(v2, ty2)
  BY <1>1, <1>2, <1>3 DEF MergeOK
<1> QED
  BY <1>4, <1>5, <1>6, <1>7 DEF ValuesOK, v2

(* The switch that is being read, and the others, which have their words.  *)
LEMMA WordTaking ==
  ASSUME NEW ty, TypedOK(ty), NEW tk, TakingOK(tk, ty), tk # NoSwitch,
         NEW s \in ty.given, s = tk.switch, NEW w \in AllWords, NEW ty2, Behind(ty, s, w, ty2)
  PROVE  TakingOK([switch |-> s, words |-> tk.words + 1], ty2) /\ AllBehind(ty2)
<1>1. /\ ty2.behind[s] # <<>> /\ \A t \in Letters \ {s} : ty2.behind[t] = ty.behind[t]
      /\ ty2.given = ty.given /\ ty.given \subseteq Letters
  <2>1. ty.given \subseteq Letters
    BY DEF TypedOK
  <2> QED
    BY <2>1, BehindIs
<1>2. \A t \in ty.given \ Bare : ty.behind[t] = <<>> => s = t
  BY DEF TakingOK
<1>3. AllBehind(ty2)
  BY <1>1, <1>2 DEF AllBehind
<1>4. s \in Switches /\ tk.words \in Nat
  BY DEF TakingOK
<1> QED
  BY <1>1, <1>3, <1>4 DEF AllBehind, TakingOK

(* Where a switch may be followed by another, every one has its words.     *)
LEMMA CompleteBehind ==
  ASSUME NEW ty, NEW tk, TakingOK(tk, ty), TypedOK(ty),
         tk = NoSwitch \/ tk.words >= Least[tk.switch]
  PROVE  AllBehind(ty)
<1>1. SUFFICES ASSUME NEW t \in ty.given \ Bare, ty.behind[t] = <<>>
               PROVE FALSE
  BY DEF AllBehind
<1>2. tk.switch = t /\ tk.words = 0
  BY <1>1 DEF TakingOK
<1>3. t # "none"
  BY <1>1 DEF TypedOK, Letters
<1>4. tk # NoSwitch /\ t \in Switches
  BY <1>2, <1>3 DEF NoSwitch, TakingOK
<1>5. Least[t] = (CASE t \in {"u", "r", "e", "T"} -> 0 [] t = "L" -> 3 [] OTHER -> 1)
  BY <1>4 DEF Least
<1>6. Least[t] \in {1, 3}
  BY <1>1, <1>5 DEF Bare
<1> QED
  BY <1>2, <1>4, <1>6

-----------------------------------------------------------------------------
(* Steps of the command line.                                              *)

(* What a line that is being read tells.                                   *)
LEMMA InLine ==
  ASSUME CommandInv, commandStage = "line"
  PROVE  /\ TypedOK(typed) /\ ModeOK(mode, typed) /\ MergeOK(values, typed)
         /\ ValuesOK(values, typed) /\ TakingOK(taking, typed)
         /\ Unconfigured(frames, hasDir, configured)
BY DEF CommandInv, LineInv, Asking

(* A refused command line is not obeyed.                                   *)
LEMMA RefusedKeeps == ASSUME commandStage' = "refused" PROVE CommandInv'
BY DEF CommandInv, LineInv, WorkInv, StartInv, ReadingInv, CommandObeyed

(* A line that goes on.                                                    *)
LEMMA LineKeeps ==
  ASSUME commandStage' = "line", TypedOK(typed'), ModeOK(mode', typed'), MergeOK(values', typed'),
         ValuesOK(values', typed'), TakingOK(taking', typed'), Unconfigured(frames', hasDir', configured')
  PROVE  CommandInv'
BY DEF CommandInv, LineInv, WorkInv, StartInv, ReadingInv, CommandObeyed, Asking

(* A line that ends.                                                       *)
LEMMA LineEnds ==
  ASSUME commandStage' = "files", TypedOK(typed'), ModeOK(mode', typed'), MergeOK(values', typed'),
         ValuesOK(values', typed'), AllBehind(typed'), Unconfigured(frames', hasDir', configured')
  PROVE  CommandInv'
<1>1. hasDir' = "unknown"
  BY DEF Unconfigured
<1> QED
  BY <1>1 DEF CommandInv, LineInv, WorkInv, StartInv, ReadingInv, CommandObeyed, Asking

(* Switch.                                                                 *)
LEMMA SwitchKeeps == ASSUME CommandInv, NEW s \in Switches, Switch(s) PROVE CommandInv'
<1> DEFINE m2 == CASE s = "u" -> "update" [] s = "r" -> "remove" [] OTHER -> mode
           goes == Complete /\ ~(s \in {"u", "r"} /\ mode \in Updating /\ mode # m2)
<1>1. commandStage = "line" /\ frames' = frames /\ hasDir' = hasDir /\ configured' = configured
  BY DEF Switch, Line
<1>2. typed'.given = typed.given \cup {s} /\ typed'.behind = typed.behind
  BY DEF Switch, WithSwitch
<1>3. IF goes THEN taking' = [switch |-> s, words |-> 0] /\ mode' = m2 /\ values' = values /\ commandStage' = commandStage
      ELSE commandStage' = "refused"
  BY DEF Switch
<1>4. CASE ~goes
  BY <1>3, <1>4, RefusedKeeps
<1>5. CASE goes
  <2>1. /\ TypedOK(typed) /\ ModeOK(mode, typed) /\ MergeOK(values, typed)
        /\ ValuesOK(values, typed) /\ TakingOK(taking, typed)
        /\ Unconfigured(frames, hasDir, configured)
    BY <1>1, InLine
  <2>2. s \in Letters
    BY CommandsAssumption
  <2>3. TypedOK(typed') /\ ModeOK(m2, typed')
    <3>1. ~(s \in {"u", "r"} /\ mode \in Updating /\ mode # m2)
      BY <1>5
    <3> QED
      BY <1>2, <2>1, <2>2, <3>1, SwitchMode
  <2>4. taking = NoSwitch \/ taking.words >= Least[taking.switch]
    BY <1>5 DEF Complete
  <2>5. AllBehind(typed)
    BY <2>1, <2>4, CompleteBehind
  <2>6. taking' = [switch |-> s, words |-> 0] /\ mode' = m2 /\ values' = values /\ commandStage' = "line"
    BY <1>1, <1>3, <1>5
  <2> HIDE DEF m2, goes
  <2>7. ValuesOK(values', typed') /\ MergeOK(values', typed')
    <3>1. IndexesAsked(values', typed')
      BY <1>2, <2>1, <2>6 DEF ValuesOK, IndexesAsked
    <3>2. ValuesOK(values', typed')
      BY <1>2, <2>1, <2>6, <3>1 DEF ValuesOK
    <3>3. MergeOK(values', typed')
      BY <1>2, <2>1, <2>6 DEF MergeOK
    <3> QED
      BY <3>2, <3>3
  <2>8. TakingOK(taking', typed')
    <3>1. taking' \in [switch : {"none"} \cup Switches, words : Nat] /\ taking'.switch = s /\ taking'.words = 0
      BY <2>6
    <3>2. taking'.switch \in Switches \cap typed'.given
      BY <1>2, <3>1
    <3>3. \A t \in typed'.given \ Bare : typed'.behind[t] = <<>> => taking'.switch = t /\ taking'.words = 0
      BY <1>2, <2>5, <3>1 DEF AllBehind
    <3> QED
      BY <3>1, <3>2, <3>3 DEF TakingOK
  <2>9. Unconfigured(frames', hasDir', configured')
    BY <1>1, <2>1
  <2> QED
    BY <2>3, <2>6, <2>7, <2>8, <2>9, LineKeeps
<1> QED
  BY <1>4, <1>5

(* Word.                                                                   *)
LEMMA WordKeeps ==
  ASSUME CommandInv, taking # NoSwitch, NEW w \in ParamsOf[taking.switch], Word(w)
  PROVE  CommandInv'
<1> DEFINE s == taking.switch
<1>1. commandStage = "line" /\ frames' = frames /\ hasDir' = hasDir /\ configured' = configured
  BY DEF Word, Line
<1>2. /\ TypedOK(typed) /\ ModeOK(mode, typed) /\ MergeOK(values, typed)
      /\ ValuesOK(values, typed) /\ TakingOK(taking, typed)
      /\ Unconfigured(frames, hasDir, configured)
  BY <1>1, InLine
<1>3. s \in typed.given /\ s \in Letters
  BY <1>2 DEF TakingOK, TypedOK
<1>4. w \in AllWords
  BY <1>3, ParamsAreWords
<1>5. Behind(typed, s, w, typed')
  BY DEF Word, WithWord, Behind
<1>6. \/ commandStage' = "refused"
      \/ /\ taking' = [switch |-> s, words |-> taking.words + 1]
         /\ mode' = ModeAfter(mode, s, w)
         /\ values' = Taken(values, s, w, taking.words = 0)
         /\ commandStage' = (IF s = "k" THEN "files" ELSE "line")
  BY DEF Word
<1>7. CASE commandStage' = "refused"
  BY <1>7, RefusedKeeps
<1>8. CASE commandStage' # "refused"
  <2>1. /\ taking' = [switch |-> s, words |-> taking.words + 1]
        /\ mode' = ModeAfter(mode, s, w)
        /\ commandStage' \in {"files", "line"}
    BY <1>6, <1>8
  <2>2. PICK first : values' = Taken(values, s, w, first)
    BY <1>6, <1>8
  <2>3. s = taking.switch
    OBVIOUS
  <2> HIDE DEF s
  <2>4. TypedOK(typed') /\ ModeOK(mode', typed')
    BY <1>2, <1>3, <1>4, <1>5, <2>1, BehindIs, WordMode
  <2>5. ValuesOK(values', typed') /\ MergeOK(values', typed')
    BY <1>2, <1>3, <1>4, <1>5, <2>2, WordValues
  <2>6. TakingOK(taking', typed') /\ AllBehind(typed')
    BY <1>2, <1>3, <1>4, <1>5, <2>1, <2>3, WordTaking
  <2>7. Unconfigured(frames', hasDir', configured')
    BY <1>1, <1>2
  <2> QED
    BY <2>1, <2>4, <2>5, <2>6, <2>7, LineKeeps, LineEnds
<1> QED
  BY <1>7, <1>8

(* EndLine.                                                                *)
LEMMA EndLineKeeps == ASSUME CommandInv, EndLine PROVE CommandInv'
<1>1. /\ commandStage = "line" /\ frames' = frames /\ hasDir' = hasDir /\ configured' = configured
      /\ mode' = mode /\ values' = values /\ taking' = taking /\ typed' = typed
  BY DEF EndLine, Line
<1>2. /\ TypedOK(typed) /\ ModeOK(mode, typed) /\ MergeOK(values, typed)
      /\ ValuesOK(values, typed) /\ TakingOK(taking, typed)
      /\ Unconfigured(frames, hasDir, configured)
  BY <1>1, InLine
<1>3. CASE Complete /\ taking # NoSwitch
  <2>1. commandStage' = "files"
    BY <1>3 DEF EndLine
  <2>2. AllBehind(typed)
    BY <1>2, <1>3, CompleteBehind DEF Complete
  <2> QED
    BY <1>1, <1>2, <2>1, <2>2, LineEnds
<1>4. CASE ~(Complete /\ taking # NoSwitch)
  BY <1>4, RefusedKeeps DEF EndLine
<1> QED
  BY <1>3, <1>4

-----------------------------------------------------------------------------
(* Lines of the files.                                                     *)

(* The fields of files and lines.                                          *)
LEMMA FrameFields == ASSUME NEW x \in FrameSet PROVE x.place \in Nat /\ x.got \subseteq {"dir", "index", "bad"}
BY DEF FrameSet
LEMMA LineFields == ASSUME NEW x \in LineSet PROVE x.place \in Nat /\ x.word \in AllWords
BY DEF LineSet

(* The beginning of a sequence.                                            *)
LEMMA Beginning ==
  ASSUME NEW X, NEW q \in Seq(X), NEW n \in Nat, n <= Len(q)
  PROVE  /\ SubSeq(q, 1, n) \in Seq(X) /\ Len(SubSeq(q, 1, n)) = n
         /\ \A k \in 1..n : SubSeq(q, 1, n)[k] = q[k]
OBVIOUS

(* One more line of a file, and what it told of one directive.             *)
Noted(cf, d, line, cf2) ==
  /\ cf2.lines = cf.lines + 1
  /\ \A e \in Directives \ {d} : cf2.told[e] = cf.told[e]
  /\ d \in Directives => cf2.told[d] = Append(cf.told[d], line)
TopLine(w) == [place |-> Last(frames).place, word |-> w]

LEMMA NoteIs ==
  ASSUME ConfiguredOK(configured), NEW d, NEW w \in AllWords, Note(d, w),
         FramesOK(frames, configured), frames # <<>>
  PROVE  /\ ConfiguredOK(configured') /\ Noted(configured, d, TopLine(w), configured')
         /\ TopLine(w) \in LineSet
<1> DEFINE line == TopLine(w)
           told == IF d \notin Directives THEN configured.told
                   ELSE [configured.told EXCEPT ![d] = Append(configured.told[d], line)]
<1>1. configured' = [lines |-> configured.lines + 1, told |-> told]
  BY DEF Note, Top, TopLine
<1>2. configured.lines \in Nat /\ configured.told \in [Directives -> Seq(LineSet)]
  BY DEF ConfiguredOK
<1>3. Len(frames) \in 1..Len(frames) /\ Last(frames) = frames[Len(frames)] /\ Last(frames) \in FrameSet
  BY DEF FramesOK, Last
<1>4. Last(frames).place \in Nat /\ Last(frames).place <= configured.lines
  BY <1>3 DEF FramesOK, FrameSet
<1>5. line \in LineSet /\ line.place <= configured.lines
  BY <1>4 DEF TopLine, LineSet
<1>6. configured'.lines = configured.lines + 1 /\ configured'.told = told
  BY <1>1
<1> HIDE DEF line
<1>7. \A e \in Directives \ {d} : told[e] = configured.told[e]
  BY <1>2
<1>8. d \in Directives => told[d] = Append(configured.told[d], line)
  BY <1>2
<1>9. told \in [Directives -> Seq(LineSet)]
  BY <1>2, <1>5
<1> HIDE DEF told
<1>10. ASSUME NEW e \in Directives, NEW i \in 1..Len(told[e])
       PROVE  told[e][i].place < configured.lines + 1
  <2>1. \A k \in 1..Len(configured.told[e]) : configured.told[e][k].place < configured.lines
    BY DEF ConfiguredOK
  <2>2. \A k \in 1..Len(configured.told[e]) : configured.told[e][k].place \in Nat
    BY <1>2, LineFields
  <2>3. CASE e # d
    BY <1>2, <1>7, <2>1, <2>2, <2>3
  <2>4. CASE e = d
    <3> DEFINE q == configured.told[d]
    <3>1. q \in Seq(LineSet) /\ told[e] = Append(q, line)
      BY <1>2, <1>8, <2>4
    <3>2. told[e][i] = line \/ (i \in 1..Len(q) /\ told[e][i] = q[i])
      BY <1>5, <3>1
    <3>3. line.place \in Nat
      BY <1>5 DEF LineSet
    <3> QED
      BY <1>2, <1>5, <2>1, <2>2, <2>4, <3>2, <3>3
  <2> QED
    BY <2>3, <2>4
<1>11. ConfiguredOK(configured')
  <2>1. configured'.lines \in Nat
    BY <1>2, <1>6
  <2> QED
    BY <1>6, <1>9, <1>10, <2>1 DEF ConfiguredOK
<1>12. Noted(configured, d, line, configured')
  BY <1>6, <1>7, <1>8 DEF Noted
<1> QED
  BY <1>5, <1>11, <1>12 DEF line

(* A line of another directive leaves what is said of this one.            *)
LEMMA NotedElse ==
  ASSUME NEW cf, NEW cf2, NEW d, NEW line, Noted(cf, d, line, cf2), NEW e \in Directives, e # d
  PROVE  cf2.told[e] = cf.told[e]
BY DEF Noted

(* Files go on being read in their order.                                  *)
LEMMA FramesLater ==
  ASSUME NEW fr, NEW cf, FramesOK(fr, cf), ConfiguredOK(cf), NEW cf2, cf2.lines = cf.lines + 1
  PROVE  FramesOK(fr, cf2)
<1>1. \A i \in 1..Len(fr) : fr[i].place \in Nat
  BY FrameFields DEF FramesOK
<1>2. cf.lines \in Nat
  BY DEF ConfiguredOK
<1>3. \A i \in 1..Len(fr) : fr[i].place <= cf2.lines
  BY <1>1, <1>2 DEF FramesOK
<1> QED
  BY <1>3 DEF FramesOK

(* What a step of the files does to those that are being read: one more,   *)
(* which told nothing yet, or another mark on the last, or one less.       *)
Opens(fr, place, fr2) ==
  /\ Len(fr2) = Len(fr) + 1 /\ \A k \in 1..Len(fr) : fr2[k] = fr[k]
  /\ fr2[Len(fr) + 1] = NewFrame(place)
Marks(fr, what, fr2) ==
  /\ Len(fr2) = Len(fr) /\ \A k \in 1..(Len(fr) - 1) : fr2[k] = fr[k]
  /\ fr2[Len(fr)] = Frame(fr[Len(fr)].place, fr[Len(fr)].got \cup {what})
Closes(fr, fr2) == Len(fr2) = Len(fr) - 1 /\ \A k \in 1..(Len(fr) - 1) : fr2[k] = fr[k]

LEMMA OpenedFrames ==
  ASSUME NEW fr, NEW cf, FramesOK(fr, cf), ConfiguredOK(cf), NEW place \in Nat,
         \A i \in 1..Len(fr) : fr[i].place < place
  PROVE  /\ Opens(fr, place, Append(fr, NewFrame(place)))
         /\ \A cf2 : cf2.lines = place => FramesOK(Append(fr, NewFrame(place)), cf2)
<1> DEFINE fr2 == Append(fr, NewFrame(place))
<1>1. fr \in Seq(FrameSet) /\ NewFrame(place) \in FrameSet /\ NewFrame(place).place = place
  BY DEF FramesOK, NewFrame, Frame, FrameSet
<1>2. /\ fr2 \in Seq(FrameSet) /\ Len(fr2) = Len(fr) + 1 /\ Len(fr) \in Nat
      /\ (\A k \in 1..Len(fr) : fr2[k] = fr[k]) /\ fr2[Len(fr) + 1] = NewFrame(place)
  BY <1>1
<1> HIDE DEF fr2
<1>3. \A i \in 1..Len(fr) : fr[i].place \in Nat
  BY <1>1, FrameFields
<1>4. \A i \in 1..Len(fr2) : fr2[i].place <= place
  BY <1>1, <1>2, <1>3
<1>5. \A i, j \in 1..Len(fr) : i < j => fr[i].place < fr[j].place
  BY DEF FramesOK
<1>6. ASSUME NEW i \in 1..Len(fr2), NEW j \in 1..Len(fr2), i < j PROVE fr2[i].place < fr2[j].place
  <2>1. i \in 1..Len(fr) /\ (j \in 1..Len(fr) \/ j = Len(fr) + 1)
    BY <1>2, <1>6
  <2> QED
    BY <1>1, <1>2, <1>5, <1>6, <2>1
<1>7. ASSUME NEW cf2, cf2.lines = place PROVE FramesOK(fr2, cf2)
  BY <1>2, <1>4, <1>6, <1>7 DEF FramesOK
<1> QED
  BY <1>2, <1>7 DEF Opens, fr2

LEMMA MarkedFrames ==
  ASSUME NEW cf, FramesOK(frames, cf), frames # <<>>, NEW what \in {"dir", "index", "bad"}, TopGot(what)
  PROVE  Marks(frames, what, frames') /\ FramesOK(frames', cf) /\ frames' # <<>>
<1> DEFINE n == Len(frames)
           top == Frame(frames[n].place, frames[n].got \cup {what})
<1>1. frames \in Seq(FrameSet) /\ n \in Nat \ {0} /\ n \in 1..Len(frames)
  BY DEF FramesOK
<1>2. frames[n] \in FrameSet
  BY <1>1
<1>3. top \in FrameSet /\ top.place = frames[n].place
  BY <1>2 DEF FrameSet, Frame
<1>4. frames' = Append(SubSeq(frames, 1, n - 1), top)
  BY DEF TopGot, Top, Last, Front
<1> HIDE DEF top
<1>5. /\ SubSeq(frames, 1, n - 1) \in Seq(FrameSet)
      /\ Len(SubSeq(frames, 1, n - 1)) = n - 1
      /\ \A k \in 1..(n - 1) : SubSeq(frames, 1, n - 1)[k] = frames[k]
  <2>1. n - 1 \in Nat /\ n - 1 <= Len(frames)
    BY <1>1
  <2> HIDE DEF n
  <2> QED
    BY <1>1, <2>1, Beginning
<1> HIDE DEF n
<1>7. frames' \in Seq(FrameSet) /\ Len(frames') = n /\ frames'[n] = top
  BY <1>1, <1>3, <1>4, <1>5
<1>8. \A k \in 1..(n - 1) : frames'[k] = frames[k]
  BY <1>1, <1>3, <1>4, <1>5
<1>9. \A k \in 1..n : frames'[k].place = frames[k].place
  <2>1. \A k \in 1..n : k = n \/ k \in 1..(n - 1)
    BY <1>1
  <2> QED
    BY <1>3, <1>7, <1>8, <2>1
<1>10. FramesOK(frames', cf)
  <2>1. \A k \in 1..Len(frames') : frames'[k].place <= cf.lines
    BY <1>7, <1>9 DEF FramesOK, n
  <2>2. \A i, j \in 1..Len(frames') : i < j => frames'[i].place < frames'[j].place
    BY <1>7, <1>9 DEF FramesOK, n
  <2> QED
    BY <1>7, <2>1, <2>2 DEF FramesOK
<1>11. frames' # <<>>
  BY <1>1, <1>7
<1> QED
  BY <1>7, <1>8, <1>10, <1>11 DEF Marks, n, top

LEMMA ClosedFrames ==
  ASSUME NEW cf, FramesOK(frames, cf), frames # <<>>
  PROVE  Closes(frames, Front(frames)) /\ FramesOK(Front(frames), cf)
<1> DEFINE n == Len(frames)
           fr2 == SubSeq(frames, 1, n - 1)
<1>1. frames \in Seq(FrameSet) /\ n \in Nat \ {0}
  BY DEF FramesOK
<1>2. fr2 \in Seq(FrameSet) /\ Len(fr2) = n - 1 /\ \A k \in 1..(n - 1) : fr2[k] = frames[k]
  <2>1. n - 1 \in Nat /\ n - 1 <= Len(frames)
    BY <1>1
  <2> HIDE DEF n
  <2> QED
    BY <1>1, <2>1, Beginning
<1>4. Front(frames) = fr2
  BY DEF Front
<1> HIDE DEF fr2
<1>5. \A k \in 1..(n - 1) : k \in 1..Len(frames)
  BY <1>1
<1>6. FramesOK(fr2, cf)
  <2>1. \A k \in 1..Len(fr2) : fr2[k].place <= cf.lines
    BY <1>2, <1>5 DEF FramesOK
  <2>2. \A i, j \in 1..Len(fr2) : i < j => fr2[i].place < fr2[j].place
    BY <1>2, <1>5 DEF FramesOK
  <2> QED
    BY <1>2, <2>1, <2>2 DEF FramesOK
<1> QED
  BY <1>2, <1>4, <1>6 DEF Closes

-----------------------------------------------------------------------------
(* What the files told, and what of it was taken.                          *)

(* A step that ends no file that told of it, and begins none that did.     *)
Quiet(fr, what, of, fr2) ==
  /\ \A k \in 1..Len(fr2) : what \in fr2[k].got =>
       \E j \in 1..Len(fr) : what \in fr[j].got /\ fr[j].place = fr2[k].place
  /\ \A i \in 1..Len(of) : InFileNow(fr2, of[i]) => InFileNow(fr, of[i])

LEMMA QuietSame == ASSUME NEW fr, NEW what, NEW of PROVE Quiet(fr, what, of, fr)
BY DEF Quiet

LEMMA QuietOpens ==
  ASSUME NEW fr, NEW cf, FramesOK(fr, cf), ConfiguredOK(cf), NEW place \in Nat, cf.lines <= place,
         NEW fr2, Opens(fr, place, fr2), NEW d \in Directives, NEW what
  PROVE  Quiet(fr, what, cf.told[d], fr2)
<1>1. Len(fr) \in Nat /\ fr2[Len(fr) + 1].got = {} /\ fr2[Len(fr) + 1].place = place
  BY DEF FramesOK, Opens, NewFrame, Frame
<1>2. \A k \in 1..Len(fr2) : k = Len(fr) + 1 \/ (k \in 1..Len(fr) /\ fr2[k] = fr[k])
  <2>1. Len(fr2) = Len(fr) + 1 /\ \A k \in 1..Len(fr) : fr2[k] = fr[k]
    BY DEF Opens
  <2>2. \A k \in 1..Len(fr2) : k = Len(fr) + 1 \/ k \in 1..Len(fr)
    BY <1>1, <2>1
  <2> QED
    BY <2>1, <2>2
<1>3. cf.lines \in Nat /\ cf.told[d] \in Seq(LineSet)
  BY DEF ConfiguredOK
<1>4. \A i \in 1..Len(cf.told[d]) : cf.told[d][i].place < cf.lines
  BY DEF ConfiguredOK
<1>5. \A i \in 1..Len(cf.told[d]) : cf.told[d][i].place \in Nat
  BY <1>3, LineFields
<1>6. \A i \in 1..Len(cf.told[d]) : cf.told[d][i].place # place
  BY <1>3, <1>4, <1>5
<1>7. \A i \in 1..Len(cf.told[d]) : InFileNow(fr2, cf.told[d][i]) => InFileNow(fr, cf.told[d][i])
  BY <1>1, <1>2, <1>6 DEF InFileNow
<1>8. \A k \in 1..Len(fr2) : what \in fr2[k].got =>
        \E j \in 1..Len(fr) : what \in fr[j].got /\ fr[j].place = fr2[k].place
  BY <1>1, <1>2
<1> QED
  BY <1>7, <1>8 DEF Quiet

LEMMA QuietMarks ==
  ASSUME NEW fr, NEW cf, FramesOK(fr, cf), fr # <<>>, NEW other, NEW what, what # other,
         NEW fr2, Marks(fr, other, fr2), NEW of
  PROVE  Quiet(fr, what, of, fr2)
<1>1. fr \in Seq(FrameSet) /\ Len(fr) \in Nat \ {0}
  BY DEF FramesOK
<1>2. \A k \in 1..Len(fr2) : k \in 1..Len(fr) /\ fr2[k].place = fr[k].place /\ (what \in fr2[k].got <=> what \in fr[k].got)
  <2>1. Len(fr2) = Len(fr) /\ \A k \in 1..(Len(fr) - 1) : fr2[k] = fr[k]
    BY DEF Marks
  <2>2. fr2[Len(fr)].place = fr[Len(fr)].place /\ fr2[Len(fr)].got = fr[Len(fr)].got \cup {other}
    BY DEF Marks, Frame
  <2>3. \A k \in 1..Len(fr2) : k \in 1..Len(fr) /\ (k = Len(fr) \/ k \in 1..(Len(fr) - 1))
    BY <1>1, <2>1
  <2> QED
    BY <2>1, <2>2, <2>3
<1> QED
  BY <1>2 DEF Quiet, InFileNow

LEMMA QuietCloses ==
  ASSUME NEW fr, NEW cf, FramesOK(fr, cf), fr # <<>>, NEW what, NEW fr2, Closes(fr, fr2), NEW of
  PROVE  Quiet(fr, what, of, fr2)
<1>1. fr \in Seq(FrameSet) /\ Len(fr) \in Nat \ {0}
  BY DEF FramesOK
<1>2. \A k \in 1..Len(fr2) : k \in 1..Len(fr) /\ fr2[k] = fr[k]
  BY <1>1 DEF Closes
<1> QED
  BY <1>2 DEF Quiet, InFileNow

(* Such a step leaves the documents and the indexes as they are.           *)
LEMMA DirsSame ==
  ASSUME NEW dirs, NEW ty, NEW fr, NEW hd, NEW of, DirsOK(dirs, ty, fr, hd, of),
         NEW fr2, Quiet(fr, "dir", of, fr2)
  PROVE  DirsOK(dirs, ty, fr2, hd, of)
<1>1. CASE "i" \in ty.given
  BY <1>1 DEF DirsOK
<1>2. CASE "i" \notin ty.given
  <2>1. DirsTold(dirs, of, fr, hd)
    BY <1>2 DEF DirsOK
  <2>2. DirsGot(dirs, of, fr2)
    <3>1. DirsGot(dirs, of, fr)
      BY <2>1 DEF DirsTold
    <3> QED
      BY <3>1 DEF DirsGot, Quiet
  <2>3. DirsEnded(dirs, of, fr2, hd)
    <3>1. DirsEnded(dirs, of, fr, hd)
      BY <2>1 DEF DirsTold
    <3> QED
      BY <3>1 DEF DirsEnded, Quiet
  <2> QED
    BY <1>2, <2>1, <2>2, <2>3 DEF DirsOK, DirsTold
<1> QED
  BY <1>1, <1>2

LEMMA IndexesSame ==
  ASSUME NEW indexes, NEW ty, NEW fr, NEW hi, NEW of, IndexesOK(indexes, ty, fr, hi, of),
         NEW fr2, Quiet(fr, "index", of, fr2),
         NEW indexes2, indexes2 = indexes \/ indexes2 = Append(indexes, DefaultIndex),
         fr2 # <<>> => indexes2 # <<>>
  PROVE  IndexesOK(indexes2, ty, fr2, hi, of)
<1>1. indexes \in Seq(AllWords) /\ DefaultIndex \in AllWords
  BY DefaultIsWord DEF IndexesOK
<1>2. indexes2 \in Seq(AllWords) /\ (indexes # <<>> => indexes2 # <<>> /\ indexes2[1] = indexes[1])
  BY <1>1
<1>3. indexes = <<>> => indexes2 = <<>> \/ indexes2[1] = DefaultIndex
  BY <1>1
<1>4. ASSUME IndexesTold(indexes, of, fr, hi) PROVE IndexesTold(indexes2, of, fr2, hi)
  <2>1. of = <<>> => indexes2 = <<>> \/ indexes2[1] = DefaultIndex
    BY <1>2, <1>3, <1>4 DEF IndexesTold
  <2>2. of # <<>> => indexes2 # <<>> /\ \E i \in 1..Len(of) : indexes2[1] = of[i].word
    BY <1>2, <1>4 DEF IndexesTold
  <2>3. hi \in {"no", "yes"} /\ (hi = "yes" => of # <<>>)
    BY <1>4 DEF IndexesTold
  <2>4. \A k \in 1..Len(fr2) : "index" \in fr2[k].got => of # <<>>
    BY <1>4 DEF IndexesTold, Quiet
  <2> QED
    BY <2>1, <2>2, <2>3, <2>4 DEF IndexesTold
<1> QED
  BY <1>2, <1>4 DEF IndexesOK

-----------------------------------------------------------------------------
(* Steps of the files.                                                     *)

(* What is known while files are read.                                     *)
Reading == commandStage = "files" /\ hasDir # "unknown"
LEMMA InFiles ==
  ASSUME CommandInv, Reading
  PROVE  /\ mode \in IndexModes /\ ~readOnly
         /\ Asking(mode, values, typed) /\ AllBehind(typed)
         /\ FilesInv(values, typed, frames, hasDir, hasIndex, configured)
BY DEF CommandInv, WorkInv, ReadingInv, Reading

(* A step that reads on.                                                   *)
LEMMA ReadingKeeps ==
  ASSUME CommandInv, Reading, commandStage' = "files", hasDir' # "unknown",
         mode' = mode, readOnly' = readOnly, typed' = typed, values'.merge = values.merge,
         FilesInv(values', typed, frames', hasDir', hasIndex', configured')
  PROVE  CommandInv'
<1>1. mode \in IndexModes /\ ~readOnly /\ Asking(mode, values, typed) /\ AllBehind(typed)
  BY InFiles
<1>2. Asking(mode', values', typed')
  BY <1>1 DEF Asking, MergeOK
<1>3. WorkInv'
  BY <1>1, <1>2 DEF WorkInv
<1>4. ReadingInv'
  BY <1>1 DEF ReadingInv
<1> QED
  BY <1>3, <1>4 DEF CommandInv, LineInv, StartInv, CommandObeyed

(* The parts of what is known of the files.                                *)
LEMMA FilesParts ==
  ASSUME NEW v, NEW ty, NEW fr, NEW hd, NEW hi, NEW cf, FilesInv(v, ty, fr, hd, hi, cf)
  PROVE  /\ ConfiguredOK(cf) /\ FramesOK(fr, cf)
         /\ DirsOK(v.dirs, ty, fr, hd, cf.told["IndexDir"])
         /\ IndexesOK(v.indexes, ty, fr, hi, cf.told["IndexFile"])
         /\ ReportsOK(v.verbose, ty, cf.told["IndexReport"])
         /\ hd # "unknown"
BY DEF FilesInv, DirsOK, DirsTold

LEMMA FilesWhole ==
  ASSUME NEW v, NEW ty, NEW fr, NEW hd, NEW hi, NEW cf,
         ConfiguredOK(cf), FramesOK(fr, cf), NEW dirs, v.dirs = dirs, NEW indexes, v.indexes = indexes,
         DirsOK(dirs, ty, fr, hd, cf.told["IndexDir"]),
         IndexesOK(indexes, ty, fr, hi, cf.told["IndexFile"]),
         ReportsOK(v.verbose, ty, cf.told["IndexReport"])
  PROVE  FilesInv(v, ty, fr, hd, hi, cf)
BY DEF FilesInv

LEMMA DirectivesAre == "IndexDir" \in Directives /\ "IndexFile" \in Directives /\ "IndexReport" \in Directives
BY DEF Directives

(* What files change.                                                      *)
LEMMA ChangedIs ==
  ASSUME NEW v, NEW dirs, NEW configs, NEW indexes, NEW verbose, NEW warn
  PROVE  LET c == Changed(v, dirs, configs, indexes, verbose, warn)
         IN c.dirs = dirs /\ c.indexes = indexes /\ c.verbose = verbose /\ c.merge = v.merge
BY DEF Changed

LEMMA OpenedIs ==
  ASSUME NEW v, NEW configs
  PROVE  LET o == Opened(v, configs)
         IN o.dirs = v.dirs /\ o.indexes = Append(v.indexes, DefaultIndex) /\ o.verbose = v.verbose /\ o.merge = v.merge
BY DEF Opened, Changed

LEMMA BlankIsWord == Blank \in AllWords
<1>1. "w" \in Letters /\ ParamsOf["w"] = {Words, Blank}
  BY DEF Letters, ParamsOf
<1> QED
  BY <1>1, ParamsAreWords

(* OpenFile.                                                               *)
LEMMA OpenFileKeeps == ASSUME CommandInv, OpenFile PROVE CommandInv'
<1>1. /\ Reading /\ mode' = mode /\ typed' = typed /\ readOnly' = readOnly /\ commandStage' = "files"
      /\ hasDir' = hasDir /\ hasIndex' = hasIndex /\ configured' = configured
      /\ frames = <<>> /\ frames' = <<NewFrame(configured.lines)>>
      /\ values' = Opened(values, Tail(values.configs))
  BY DEF OpenFile, Files, Reading
<1>2. /\ ConfiguredOK(configured) /\ FramesOK(frames, configured)
      /\ DirsOK(values.dirs, typed, frames, hasDir, configured.told["IndexDir"])
      /\ IndexesOK(values.indexes, typed, frames, hasIndex, configured.told["IndexFile"])
      /\ ReportsOK(values.verbose, typed, configured.told["IndexReport"])
      /\ hasDir # "unknown"
  BY <1>1, InFiles, FilesParts
<1>3. values'.dirs = values.dirs /\ values'.indexes = Append(values.indexes, DefaultIndex)
      /\ values'.verbose = values.verbose /\ values'.merge = values.merge
  BY <1>1, OpenedIs
<1>4. frames' = Append(frames, NewFrame(configured.lines)) /\ Len(frames) = 0
  BY <1>1
<1>5. configured.lines \in Nat
  BY <1>2 DEF ConfiguredOK
<1>6. Opens(frames, configured.lines, frames') /\ FramesOK(frames', configured)
  <2>1. \A i \in 1..Len(frames) : frames[i].place < configured.lines
    BY <1>4
  <2> QED
    BY <1>2, <1>4, <1>5, <2>1, OpenedFrames
<1>7. \A what : Quiet(frames, what, configured.told["IndexDir"], frames')
      /\ Quiet(frames, what, configured.told["IndexFile"], frames')
  BY <1>2, <1>5, <1>6, QuietOpens, DirectivesAre
<1>8. DirsOK(values.dirs, typed, frames', hasDir, configured.told["IndexDir"])
  BY <1>2, <1>7, DirsSame
<1>9. Append(values.indexes, DefaultIndex) # <<>>
  BY <1>2, DefaultIsWord DEF IndexesOK
<1>10. IndexesOK(Append(values.indexes, DefaultIndex), typed, frames', hasIndex, configured.told["IndexFile"])
  BY <1>2, <1>7, <1>9, IndexesSame
<1>11. FilesInv(values', typed, frames', hasDir', hasIndex', configured')
  BY <1>1, <1>2, <1>3, <1>6, <1>8, <1>10, FilesWhole
<1> QED
  BY <1>1, <1>2, <1>3, <1>11, ReadingKeeps

(* A line of a file.                                                       *)
LEMMA InAFile ==
  ASSUME CommandInv, InFile
  PROVE  /\ Reading /\ mode' = mode /\ typed' = typed /\ readOnly' = readOnly
         /\ frames # <<>> /\ values.indexes # <<>> /\ values.indexes \in Seq(AllWords)
         /\ ConfiguredOK(configured) /\ FramesOK(frames, configured)
         /\ DirsOK(values.dirs, typed, frames, hasDir, configured.told["IndexDir"])
         /\ IndexesOK(values.indexes, typed, frames, hasIndex, configured.told["IndexFile"])
         /\ ReportsOK(values.verbose, typed, configured.told["IndexReport"])
         /\ hasDir # "unknown"
<1>1. /\ Reading /\ mode' = mode /\ typed' = typed /\ readOnly' = readOnly /\ frames # <<>>
  BY DEF InFile, Files, Reading
<1>2. /\ ConfiguredOK(configured) /\ FramesOK(frames, configured)
      /\ DirsOK(values.dirs, typed, frames, hasDir, configured.told["IndexDir"])
      /\ IndexesOK(values.indexes, typed, frames, hasIndex, configured.told["IndexFile"])
      /\ ReportsOK(values.verbose, typed, configured.told["IndexReport"])
      /\ hasDir # "unknown"
  BY <1>1, InFiles, FilesParts
<1>3. values.indexes # <<>> /\ values.indexes \in Seq(AllWords)
  BY <1>1, <1>2 DEF IndexesOK
<1> QED
  BY <1>1, <1>2, <1>3

(* IncludeConfigFile.                                                      *)
LEMMA IncludeConfigFileKeeps == ASSUME CommandInv, IncludeConfigFile PROVE CommandInv'
<1>1. InFile
  BY DEF IncludeConfigFile
<1>2. /\ Reading /\ mode' = mode /\ typed' = typed /\ readOnly' = readOnly
      /\ frames # <<>> /\ values.indexes # <<>> /\ values.indexes \in Seq(AllWords)
      /\ ConfiguredOK(configured) /\ FramesOK(frames, configured)
      /\ DirsOK(values.dirs, typed, frames, hasDir, configured.told["IndexDir"])
      /\ IndexesOK(values.indexes, typed, frames, hasIndex, configured.told["IndexFile"])
      /\ ReportsOK(values.verbose, typed, configured.told["IndexReport"])
      /\ hasDir # "unknown"
  BY <1>1, InAFile
<1>3. /\ commandStage' = "files" /\ hasDir' = hasDir /\ hasIndex' = hasIndex
      /\ frames' = Append(frames, NewFrame(configured.lines + 1))
      /\ values' = Opened(values, values.configs) /\ Note("IncludeConfigFile", Blank)
  BY <1>2 DEF IncludeConfigFile, Reading
<1>4. ConfiguredOK(configured') /\ Noted(configured, "IncludeConfigFile", TopLine(Blank), configured')
  BY <1>2, <1>3, NoteIs, BlankIsWord
<1>5. /\ configured'.told["IndexDir"] = configured.told["IndexDir"]
      /\ configured'.told["IndexFile"] = configured.told["IndexFile"]
      /\ configured'.told["IndexReport"] = configured.told["IndexReport"]
      /\ configured'.lines = configured.lines + 1
  BY <1>4, DirectivesAre DEF Noted
<1>6. configured.lines \in Nat /\ \A i \in 1..Len(frames) : frames[i].place \in Nat /\ frames[i].place <= configured.lines
  BY <1>2, FrameFields DEF ConfiguredOK, FramesOK
<1>7. /\ configured.lines + 1 \in Nat /\ configured.lines <= configured.lines + 1
      /\ \A i \in 1..Len(frames) : frames[i].place < configured.lines + 1
  BY <1>6
<1>8. Opens(frames, configured.lines + 1, frames') /\ FramesOK(frames', configured')
  BY <1>2, <1>3, <1>5, <1>7, OpenedFrames
<1>9. \A what : Quiet(frames, what, configured.told["IndexDir"], frames')
      /\ Quiet(frames, what, configured.told["IndexFile"], frames')
  BY <1>2, <1>7, <1>8, QuietOpens, DirectivesAre
<1>10. values'.dirs = values.dirs /\ values'.indexes = Append(values.indexes, DefaultIndex)
       /\ values'.verbose = values.verbose /\ values'.merge = values.merge
  BY <1>3, OpenedIs
<1>11. DirsOK(values.dirs, typed, frames', hasDir, configured'.told["IndexDir"])
  BY <1>2, <1>5, <1>9, DirsSame
<1>12. Append(values.indexes, DefaultIndex) # <<>>
  BY <1>2, DefaultIsWord
<1>13. IndexesOK(Append(values.indexes, DefaultIndex), typed, frames', hasIndex, configured'.told["IndexFile"])
  BY <1>2, <1>5, <1>9, <1>12, IndexesSame
<1>14. FilesInv(values', typed, frames', hasDir', hasIndex', configured')
  BY <1>2, <1>3, <1>4, <1>5, <1>8, <1>10, <1>11, <1>13, FilesWhole
<1> QED
  BY <1>2, <1>3, <1>10, <1>14, ReadingKeeps

(* What a longer sequence holds.                                           *)
LEMMA Longer ==
  ASSUME NEW X, NEW q \in Seq(X), NEW x \in X
  PROVE  /\ Append(q, x) \in Seq(X) /\ Len(q) \in Nat /\ Len(Append(q, x)) = Len(q) + 1
         /\ Append(q, x)[Len(q) + 1] = x /\ Append(q, x) # <<>>
         /\ \A i \in 1..Len(q) : Append(q, x)[i] = q[i]
         /\ \A i \in 1..Len(Append(q, x)) : i = Len(q) + 1 \/ i \in 1..Len(q)
         /\ \A i \in 1..Len(q) : i \in 1..Len(Append(q, x))
         /\ Len(q) + 1 \in 1..Len(Append(q, x))
OBVIOUS

(* IndexDir where the documents are still to be named.                     *)
LEMMA DirTaken ==
  ASSUME NEW dirs, NEW ty, NEW fr, NEW of, DirsOK(dirs, ty, fr, "no", of), of \in Seq(LineSet),
         NEW cf, FramesOK(fr, cf), fr # <<>>, NEW fr2, Marks(fr, "dir", fr2),
         NEW line \in LineSet, line.place = Last(fr).place
  PROVE  DirsOK(Append(dirs, line.word), ty, fr2, "no", Append(of, line))
<1> DEFINE dirs2 == Append(dirs, line.word)
           of2 == Append(of, line)
           n == Len(of)
<1>1. "i" \notin ty.given /\ DirsTold(dirs, of, fr, "no")
  BY DEF DirsOK
<1>2. dirs \in Seq(AllWords) /\ Len(dirs) = n /\ \A i \in 1..Len(dirs) : dirs[i] = of[i].word
  BY <1>1 DEF DirsTold, DirsAreTold
<1>3. line.word \in AllWords
  BY LineFields
<1>4. /\ of2 \in Seq(LineSet) /\ Len(of2) = n + 1 /\ n \in Nat /\ of2[n + 1] = line /\ n + 1 \in 1..Len(of2)
      /\ \A i \in 1..n : of2[i] = of[i] /\ i \in 1..Len(of2)
      /\ \A i \in 1..Len(of2) : i = n + 1 \/ i \in 1..n
  BY Longer
<1>5. /\ dirs2 \in Seq(AllWords) /\ dirs2 # <<>> /\ Len(dirs2) = n + 1 /\ dirs2[n + 1] = line.word
      /\ \A i \in 1..n : dirs2[i] = dirs[i]
  BY <1>2, <1>3, Longer
<1> HIDE DEF dirs2, of2, n
<1>6. \A i \in 1..Len(dirs2) : dirs2[i] = of2[i].word
  <2>1. \A i \in 1..Len(dirs2) : i = n + 1 \/ i \in 1..n
    BY <1>4, <1>5
  <2> QED
    BY <1>2, <1>4, <1>5, <2>1
<1>7. DirsAreTold(dirs2, of2, "no")
  BY <1>4, <1>5, <1>6 DEF DirsAreTold
<1>8. DirsGot(dirs2, of2, fr2)
  <2>1. fr \in Seq(FrameSet) /\ Len(fr) \in Nat \ {0}
    BY DEF FramesOK
  <2>2. Len(fr2) = Len(fr) /\ \A k \in 1..(Len(fr) - 1) : fr2[k] = fr[k]
    BY DEF Marks
  <2>3. fr2[Len(fr)].place = line.place
    BY DEF Marks, Frame, Last
  <2>4. ASSUME NEW k \in 1..Len(fr2), "dir" \in fr2[k].got PROVE \E i \in 1..Len(of2) : of2[i].place = fr2[k].place
    <3>1. CASE k = Len(fr)
      BY <1>4, <2>3, <3>1
    <3>2. CASE k # Len(fr)
      <4>1. k \in 1..(Len(fr) - 1) /\ k \in 1..Len(fr)
        BY <2>1, <2>2, <3>2
      <4>2. fr2[k] = fr[k]
        BY <2>2, <4>1
      <4>3. DirsGot(dirs, of, fr)
        BY <1>1 DEF DirsTold
      <4>4. PICK i \in 1..n : of[i].place = fr[k].place
        BY <2>4, <4>1, <4>2, <4>3 DEF DirsGot, n
      <4> QED
        BY <1>4, <4>2, <4>4
    <3> QED
      BY <3>1, <3>2
  <2> QED
    BY <1>5, <2>4 DEF DirsGot
<1>9. DirsEnded(dirs2, of2, fr2, "no")
  BY DEF DirsEnded
<1> QED
  BY <1>1, <1>5, <1>7, <1>8, <1>9 DEF DirsOK, DirsTold, dirs2, of2

(* IndexDir where they were named before.                                  *)
LEMMA DirLeft ==
  ASSUME NEW dirs, NEW ty, NEW fr, NEW hd, hd # "no", NEW of, DirsOK(dirs, ty, fr, hd, of), of \in Seq(LineSet),
         NEW cf, FramesOK(fr, cf), fr # <<>>, NEW line \in LineSet, line.place = Last(fr).place
  PROVE  DirsOK(dirs, ty, fr, hd, Append(of, line))
<1> DEFINE of2 == Append(of, line)
           n == Len(of)
<1>1. CASE "i" \in ty.given
  BY <1>1 DEF DirsOK
<1>2. CASE "i" \notin ty.given
  <2>1. DirsTold(dirs, of, fr, hd)
    BY <1>2 DEF DirsOK
  <2>2. hd = "yes" /\ dirs \in Seq(AllWords)
    BY <2>1 DEF DirsTold
  <2>3. /\ of2 \in Seq(LineSet) /\ Len(of2) = n + 1 /\ n \in Nat /\ of2[n + 1] = line /\ n + 1 \in 1..Len(of2)
        /\ \A i \in 1..n : of2[i] = of[i] /\ i \in 1..Len(of2)
    BY Longer
  <2> HIDE DEF of2, n
  <2>4. dirs # <<>> /\ \E i \in 1..n : ~InFileNow(fr, of[i])
    BY <2>1, <2>2 DEF DirsTold, DirsEnded, n
  <2>5. PICK i \in 1..n : ~InFileNow(fr, of[i])
    BY <2>4
  <2>6. ~InFileNow(fr, of2[i]) /\ i \in 1..Len(of2)
    BY <2>3, <2>5
  <2>7. DirsEnded(dirs, of2, fr, hd)
    BY <2>4, <2>6 DEF DirsEnded
  <2>8. DirsGot(dirs, of2, fr)
    <3>1. DirsGot(dirs, of, fr)
      BY <2>1 DEF DirsTold
    <3> QED
      BY <2>3, <3>1 DEF DirsGot, n
  <2>9. of2[i].place # of2[n + 1].place
    <3>1. Len(fr) \in 1..Len(fr) /\ Last(fr) = fr[Len(fr)]
      BY DEF FramesOK, Last
    <3>2. InFileNow(fr, line)
      BY <3>1 DEF InFileNow
    <3> QED
      BY <2>3, <2>6, <3>2 DEF InFileNow
  <2>10. DirsAreTold(dirs, of2, hd)
    <3>1. Len(dirs) <= n /\ \A k \in 1..Len(dirs) : dirs[k] = of[k].word
      BY <2>1 DEF DirsTold, DirsAreTold, n
    <3>2. Len(dirs) \in Nat
      BY <2>2
    <3>3. Len(dirs) <= Len(of2) /\ \A k \in 1..Len(dirs) : k \in 1..n
      BY <2>3, <3>1, <3>2
    <3>4. \A k \in 1..Len(dirs) : dirs[k] = of2[k].word
      BY <2>3, <3>1, <3>3
    <3> QED
      BY <2>2, <2>3, <2>6, <2>9, <3>3, <3>4 DEF DirsAreTold
  <2> QED
    BY <1>2, <2>2, <2>7, <2>8, <2>10 DEF DirsOK, DirsTold, of2
<1> QED
  BY <1>1, <1>2

(* IndexFile where the index is still to be named, and where it was.       *)
LEMMA IndexTaken ==
  ASSUME NEW indexes, NEW ty, NEW fr, NEW of, IndexesOK(indexes, ty, fr, "no", of), of \in Seq(LineSet),
         fr # <<>>, NEW fr2, NEW line \in LineSet
  PROVE  IndexesOK([indexes EXCEPT ![1] = line.word], ty, fr2, "no", Append(of, line))
<1> DEFINE indexes2 == [indexes EXCEPT ![1] = line.word]
           of2 == Append(of, line)
<1>1. indexes \in Seq(AllWords) /\ indexes # <<>> /\ line.word \in AllWords
  BY LineFields DEF IndexesOK
<1>2. indexes2 \in Seq(AllWords) /\ indexes2 # <<>> /\ indexes2[1] = line.word
  <2>1. 1 \in 1..Len(indexes) /\ indexes \in [1..Len(indexes) -> AllWords]
    BY <1>1
  <2>2. indexes2 \in Seq(AllWords) /\ Len(indexes2) = Len(indexes)
    BY <1>1
  <2> QED
    BY <1>1, <2>1, <2>2
<1>3. of2 # <<>> /\ of2[Len(of) + 1] = line /\ Len(of) + 1 \in 1..Len(of2)
  BY Longer
<1> HIDE DEF indexes2, of2
<1>4. IndexesTold(indexes2, of2, fr2, "no")
  BY <1>2, <1>3 DEF IndexesTold
<1>5. "M" \notin ty.given => "f" \notin ty.given
  BY DEF IndexesOK
<1> QED
  BY <1>2, <1>4, <1>5 DEF IndexesOK, indexes2, of2

LEMMA IndexLeft ==
  ASSUME NEW indexes, NEW ty, NEW fr, NEW hi, hi # "no", NEW of, IndexesOK(indexes, ty, fr, hi, of), of \in Seq(LineSet),
         NEW line \in LineSet
  PROVE  IndexesOK(indexes, ty, fr, hi, Append(of, line))
<1> DEFINE of2 == Append(of, line)
<1>1. of2 # <<>> /\ \A i \in 1..Len(of) : of2[i] = of[i] /\ i \in 1..Len(of2)
  BY Longer
<1> HIDE DEF of2
<1>2. ASSUME IndexesTold(indexes, of, fr, hi) PROVE IndexesTold(indexes, of2, fr, hi)
  <2>1. hi = "yes" /\ of # <<>>
    BY <1>2 DEF IndexesTold
  <2>2. indexes # <<>> /\ \E i \in 1..Len(of) : indexes[1] = of[i].word
    BY <1>2, <2>1 DEF IndexesTold
  <2>3. \E i \in 1..Len(of2) : indexes[1] = of2[i].word
    BY <1>1, <2>2
  <2> QED
    BY <1>1, <2>1, <2>2, <2>3 DEF IndexesTold
<1> QED
  BY <1>2 DEF IndexesOK, of2

(* A line that is read, and what is to be shown of it.                     *)
LEMMA ALine ==
  ASSUME CommandInv, InFile, NEW d, NEW w \in AllWords, Note(d, w),
         commandStage' = commandStage, hasDir' = hasDir, hasIndex' = hasIndex,
         values'.merge = values.merge, FramesOK(frames', configured),
         DirsOK(values'.dirs, typed, frames', hasDir, configured'.told["IndexDir"]),
         IndexesOK(values'.indexes, typed, frames', hasIndex, configured'.told["IndexFile"]),
         ReportsOK(values'.verbose, typed, configured'.told["IndexReport"])
  PROVE  CommandInv'
<1>1. /\ Reading /\ mode' = mode /\ typed' = typed /\ readOnly' = readOnly /\ hasDir # "unknown"
      /\ ConfiguredOK(configured) /\ FramesOK(frames, configured) /\ frames # <<>>
  BY InAFile
<1>2. ConfiguredOK(configured') /\ configured'.lines = configured.lines + 1
  BY <1>1, NoteIs DEF Noted
<1>3. FramesOK(frames', configured')
  BY <1>1, <1>2, FramesLater
<1>4. FilesInv(values', typed, frames', hasDir', hasIndex', configured')
  BY <1>2, <1>3, FilesWhole
<1>5. commandStage' = "files"
  BY <1>1 DEF Reading
<1> QED
  BY <1>1, <1>4, <1>5, ReadingKeeps

(* What is told of a directive after a line.                               *)
LEMMA ToldAfter ==
  ASSUME CommandInv, InFile, NEW d, NEW w \in AllWords, Note(d, w)
  PROVE  /\ \A e \in Directives \ {d} : configured'.told[e] = configured.told[e]
         /\ d \in Directives => configured'.told[d] = Append(configured.told[d], TopLine(w))
         /\ \A e \in Directives : configured.told[e] \in Seq(LineSet)
         /\ TopLine(w) \in LineSet /\ TopLine(w).place = Last(frames).place /\ TopLine(w).word = w
<1>1. ConfiguredOK(configured) /\ FramesOK(frames, configured) /\ frames # <<>>
  BY InAFile
<1>2. Noted(configured, d, TopLine(w), configured') /\ TopLine(w) \in LineSet
  BY <1>1, NoteIs
<1>3. TopLine(w).place = Last(frames).place /\ TopLine(w).word = w
  BY DEF TopLine
<1>4. \A e \in Directives : configured.told[e] \in Seq(LineSet)
  BY <1>1 DEF ConfiguredOK
<1> QED
  BY <1>2, <1>3, <1>4 DEF Noted

(* A line of another kind that marks the file it is in leaves these.       *)
LEMMA MarkedSame ==
  ASSUME CommandInv, InFile, NEW what \in {"dir", "index", "bad"}, TopGot(what)
  PROVE  /\ Marks(frames, what, frames') /\ FramesOK(frames', configured)
         /\ \A other, of : other # what => Quiet(frames, other, of, frames')
<1>1. FramesOK(frames, configured) /\ frames # <<>>
  BY InAFile
<1>2. Marks(frames, what, frames') /\ FramesOK(frames', configured)
  BY <1>1, MarkedFrames
<1> QED
  BY <1>1, <1>2, QuietMarks

(* IndexDir.                                                               *)
LEMMA IndexDirKeeps == ASSUME CommandInv, NEW d \in Directories, IndexDir(d) PROVE CommandInv'
<1>1. InFile /\ Note("IndexDir", d) /\ hasDir' = hasDir /\ hasIndex' = hasIndex /\ commandStage' = commandStage
  BY DEF IndexDir
<1>2. d \in AllWords
  BY DEF AllWords
<1>3. /\ frames # <<>> /\ values.indexes # <<>> /\ FramesOK(frames, configured)
      /\ DirsOK(values.dirs, typed, frames, hasDir, configured.told["IndexDir"])
      /\ IndexesOK(values.indexes, typed, frames, hasIndex, configured.told["IndexFile"])
      /\ ReportsOK(values.verbose, typed, configured.told["IndexReport"])
  BY <1>1, InAFile
<1>4. /\ configured'.told["IndexFile"] = configured.told["IndexFile"]
      /\ configured'.told["IndexReport"] = configured.told["IndexReport"]
      /\ configured'.told["IndexDir"] = Append(configured.told["IndexDir"], TopLine(d))
      /\ configured.told["IndexDir"] \in Seq(LineSet)
      /\ TopLine(d) \in LineSet /\ TopLine(d).place = Last(frames).place /\ TopLine(d).word = d
  BY <1>1, <1>2, ToldAfter, DirectivesAre
<1>5. CASE hasDir = "no"
  <2>1. /\ TopGot("dir")
        /\ values' = Changed(values, Append(values.dirs, d), values.configs, values.indexes, values.verbose, values.warn)
    BY <1>5 DEF IndexDir
  <2>2. /\ Marks(frames, "dir", frames') /\ FramesOK(frames', configured)
        /\ Quiet(frames, "index", configured.told["IndexFile"], frames')
    BY <1>1, <2>1, MarkedSame
  <2>3. /\ values'.dirs = Append(values.dirs, d) /\ values'.indexes = values.indexes
        /\ values'.verbose = values.verbose /\ values'.merge = values.merge
    <3> DEFINE longer == Append(values.dirs, d)
    <3>1. values' = Changed(values, longer, values.configs, values.indexes, values.verbose, values.warn)
      BY <2>1
    <3> HIDE DEF longer
    <3>2. /\ values'.dirs = longer /\ values'.indexes = values.indexes
          /\ values'.verbose = values.verbose /\ values'.merge = values.merge
      BY <3>1, ChangedIs
    <3> QED
      BY <3>2 DEF longer
  <2>4. DirsOK(values'.dirs, typed, frames', hasDir, configured'.told["IndexDir"])
    BY <1>3, <1>4, <1>5, <2>2, <2>3, DirTaken
  <2>5. IndexesOK(values'.indexes, typed, frames', hasIndex, configured'.told["IndexFile"])
    BY <1>3, <1>4, <2>2, <2>3, IndexesSame
  <2> QED
    BY <1>1, <1>2, <1>3, <1>4, <2>2, <2>3, <2>4, <2>5, ALine
<1>6. CASE hasDir # "no"
  <2>1. frames' = frames /\ values' = values
    BY <1>6 DEF IndexDir
  <2>2. DirsOK(values'.dirs, typed, frames', hasDir, configured'.told["IndexDir"])
    BY <1>3, <1>4, <1>6, <2>1, DirLeft
  <2> QED
    BY <1>1, <1>2, <1>3, <1>4, <2>1, <2>2, ALine
<1> QED
  BY <1>5, <1>6

(* IndexFile.                                                              *)
LEMMA IndexFileKeeps == ASSUME CommandInv, NEW f \in IndexNames, IndexFile(f) PROVE CommandInv'
<1>1. InFile /\ Note("IndexFile", f) /\ hasDir' = hasDir /\ hasIndex' = hasIndex /\ commandStage' = commandStage
  BY DEF IndexFile
<1>2. f \in AllWords
  BY DEF AllWords
<1>3. /\ frames # <<>> /\ values.indexes # <<>> /\ FramesOK(frames, configured)
      /\ DirsOK(values.dirs, typed, frames, hasDir, configured.told["IndexDir"])
      /\ IndexesOK(values.indexes, typed, frames, hasIndex, configured.told["IndexFile"])
      /\ ReportsOK(values.verbose, typed, configured.told["IndexReport"])
  BY <1>1, InAFile
<1>4. /\ configured'.told["IndexDir"] = configured.told["IndexDir"]
      /\ configured'.told["IndexReport"] = configured.told["IndexReport"]
      /\ configured'.told["IndexFile"] = Append(configured.told["IndexFile"], TopLine(f))
      /\ configured.told["IndexFile"] \in Seq(LineSet)
      /\ TopLine(f) \in LineSet /\ TopLine(f).word = f
  BY <1>1, <1>2, ToldAfter, DirectivesAre
<1>5. CASE hasIndex = "no"
  <2>1. /\ TopGot("index")
        /\ values' = Changed(values, values.dirs, values.configs, [values.indexes EXCEPT ![1] = f], values.verbose, values.warn)
    BY <1>5 DEF IndexFile
  <2>2. /\ FramesOK(frames', configured)
        /\ Quiet(frames, "dir", configured.told["IndexDir"], frames')
    BY <1>1, <2>1, MarkedSame
  <2>3. /\ values'.dirs = values.dirs /\ values'.indexes = [values.indexes EXCEPT ![1] = f]
        /\ values'.verbose = values.verbose /\ values'.merge = values.merge
    <3> DEFINE named == [values.indexes EXCEPT ![1] = f]
    <3>1. values' = Changed(values, values.dirs, values.configs, named, values.verbose, values.warn)
      BY <2>1
    <3> HIDE DEF named
    <3>2. /\ values'.dirs = values.dirs /\ values'.indexes = named
          /\ values'.verbose = values.verbose /\ values'.merge = values.merge
      BY <3>1, ChangedIs
    <3> QED
      BY <3>2 DEF named
  <2>4. IndexesOK(values'.indexes, typed, frames', hasIndex, configured'.told["IndexFile"])
    <3>1. IndexesOK(values.indexes, typed, frames, "no", configured.told["IndexFile"])
      BY <1>3, <1>5
    <3>2. IndexesOK([values.indexes EXCEPT ![1] = TopLine(f).word], typed, frames', "no", configured'.told["IndexFile"])
      BY <1>3, <1>4, <3>1, IndexTaken
    <3> QED
      BY <1>4, <1>5, <2>3, <3>2
  <2>5. DirsOK(values'.dirs, typed, frames', hasDir, configured'.told["IndexDir"])
    BY <1>3, <1>4, <2>2, <2>3, DirsSame
  <2> QED
    BY <1>1, <1>2, <1>3, <1>4, <2>2, <2>3, <2>4, <2>5, ALine
<1>6. CASE hasIndex # "no"
  <2>1. frames' = frames /\ values' = values
    BY <1>6 DEF IndexFile
  <2>2. IndexesOK(values'.indexes, typed, frames', hasIndex, configured'.told["IndexFile"])
    BY <1>3, <1>4, <1>6, <2>1, IndexLeft
  <2> QED
    BY <1>1, <1>2, <1>3, <1>4, <2>1, <2>2, ALine
<1> QED
  BY <1>5, <1>6

(* IndexReport.                                                            *)
LEMMA IndexReportKeeps == ASSUME CommandInv, NEW n \in Numbers, IndexReport(n) PROVE CommandInv'
<1>1. /\ InFile /\ Note("IndexReport", n) /\ hasDir' = hasDir /\ hasIndex' = hasIndex
      /\ commandStage' = commandStage /\ frames' = frames
  BY DEF IndexReport
<1>2. n \in AllWords
  BY DEF AllWords
<1>3. /\ frames # <<>> /\ values.indexes # <<>> /\ FramesOK(frames, configured)
      /\ DirsOK(values.dirs, typed, frames, hasDir, configured.told["IndexDir"])
      /\ IndexesOK(values.indexes, typed, frames, hasIndex, configured.told["IndexFile"])
      /\ ReportsOK(values.verbose, typed, configured.told["IndexReport"])
  BY <1>1, InAFile
<1>4. /\ configured'.told["IndexDir"] = configured.told["IndexDir"]
      /\ configured'.told["IndexFile"] = configured.told["IndexFile"]
      /\ configured'.told["IndexReport"] = Append(configured.told["IndexReport"], TopLine(n))
      /\ configured.told["IndexReport"] \in Seq(LineSet)
      /\ TopLine(n) \in LineSet /\ TopLine(n).word = n
  BY <1>1, <1>2, ToldAfter, DirectivesAre
<1>5. values' = IF "v" \in typed.given THEN values
                ELSE Changed(values, values.dirs, values.configs, values.indexes, n, values.warn)
  BY DEF IndexReport
<1>6. /\ values'.dirs = values.dirs /\ values'.indexes = values.indexes /\ values'.merge = values.merge
      /\ values'.verbose = IF "v" \in typed.given THEN values.verbose ELSE n
  BY <1>5, ChangedIs
<1>7. ReportsOK(values'.verbose, typed, configured'.told["IndexReport"])
  <2> DEFINE of == configured.told["IndexReport"]
             of2 == configured'.told["IndexReport"]
  <2>1. of2[Len(of2)].word = n
    <3>1. of2 = Append(of, TopLine(n)) /\ of \in Seq(LineSet)
      BY <1>4
    <3>2. of2[Len(of2)] = TopLine(n)
      BY <1>4, <3>1
    <3> QED
      BY <1>4, <3>2
  <2> HIDE DEF of2
  <2> QED
    BY <1>3, <1>6, <2>1 DEF ReportsOK, of2
<1> QED
  BY <1>1, <1>2, <1>3, <1>4, <1>6, <1>7, ALine

(* ParserWarnLevel.                                                        *)
LEMMA ParserWarnLevelKeeps == ASSUME CommandInv, NEW n \in Numbers, ParserWarnLevel(n) PROVE CommandInv'
<1>1. /\ InFile /\ Note("ParserWarnLevel", n) /\ hasDir' = hasDir /\ hasIndex' = hasIndex
      /\ commandStage' = commandStage /\ frames' = frames
      /\ values' = Changed(values, values.dirs, values.configs, values.indexes, values.verbose, n)
  BY DEF ParserWarnLevel
<1>2. n \in AllWords
  BY DEF AllWords
<1>3. /\ FramesOK(frames, configured)
      /\ DirsOK(values.dirs, typed, frames, hasDir, configured.told["IndexDir"])
      /\ IndexesOK(values.indexes, typed, frames, hasIndex, configured.told["IndexFile"])
      /\ ReportsOK(values.verbose, typed, configured.told["IndexReport"])
  BY <1>1, InAFile
<1>4. "ParserWarnLevel" \notin Directives
  BY DEF Directives
<1>5. /\ configured'.told["IndexDir"] = configured.told["IndexDir"]
      /\ configured'.told["IndexFile"] = configured.told["IndexFile"]
      /\ configured'.told["IndexReport"] = configured.told["IndexReport"]
  BY <1>1, <1>2, <1>4, ToldAfter, DirectivesAre
<1>6. /\ values'.dirs = values.dirs /\ values'.indexes = values.indexes /\ values'.merge = values.merge
      /\ values'.verbose = values.verbose
  BY <1>1, ChangedIs
<1> QED
  BY <1>1, <1>2, <1>3, <1>5, <1>6, ALine

(* BadDirective.                                                           *)
LEMMA BadDirectiveKeeps == ASSUME CommandInv, BadDirective PROVE CommandInv'
<1>1. /\ InFile /\ Note("BadDirective", Blank) /\ hasDir' = hasDir /\ hasIndex' = hasIndex
      /\ commandStage' = commandStage /\ TopGot("bad") /\ values' = values
  BY DEF BadDirective
<1>2. /\ frames # <<>> /\ values.indexes # <<>> /\ FramesOK(frames, configured)
      /\ DirsOK(values.dirs, typed, frames, hasDir, configured.told["IndexDir"])
      /\ IndexesOK(values.indexes, typed, frames, hasIndex, configured.told["IndexFile"])
      /\ ReportsOK(values.verbose, typed, configured.told["IndexReport"])
  BY <1>1, InAFile
<1>3. "BadDirective" \notin Directives
  BY DEF Directives
<1>4. /\ configured'.told["IndexDir"] = configured.told["IndexDir"]
      /\ configured'.told["IndexFile"] = configured.told["IndexFile"]
      /\ configured'.told["IndexReport"] = configured.told["IndexReport"]
  BY <1>1, <1>3, ToldAfter, DirectivesAre, BlankIsWord
<1>5. /\ FramesOK(frames', configured)
      /\ Quiet(frames, "dir", configured.told["IndexDir"], frames')
      /\ Quiet(frames, "index", configured.told["IndexFile"], frames')
  BY <1>1, MarkedSame
<1>6. DirsOK(values'.dirs, typed, frames', hasDir, configured'.told["IndexDir"])
  BY <1>1, <1>2, <1>4, <1>5, DirsSame
<1>7. IndexesOK(values'.indexes, typed, frames', hasIndex, configured'.told["IndexFile"])
  BY <1>1, <1>2, <1>4, <1>5, IndexesSame
<1> QED
  BY <1>1, <1>2, <1>4, <1>5, <1>6, <1>7, ALine, BlankIsWord

(* BadValue.                                                               *)
LEMMA BadValueKeeps == ASSUME BadValue PROVE CommandInv'
BY RefusedKeeps DEF BadValue

(* EndFile: the last file told of the documents, of the index, or of none. *)
LEMMA DirsClosed ==
  ASSUME NEW dirs, NEW ty, NEW hd, NEW of, DirsOK(dirs, ty, frames, hd, of), of \in Seq(LineSet),
         NEW cf, FramesOK(frames, cf), frames # <<>>, NEW fr2, Closes(frames, fr2)
  PROVE  DirsOK(dirs, ty, fr2, IF "dir" \in Last(frames).got THEN "yes" ELSE hd, of)
<1> DEFINE top == Last(frames)
           hd2 == IF "dir" \in top.got THEN "yes" ELSE hd
<1>1. DirsOK(dirs, ty, fr2, hd, of)
  <2>1. Quiet(frames, "dir", of, fr2)
    BY QuietCloses
  <2> QED
    BY <2>1, DirsSame
<1>2. CASE "dir" \notin top.got \/ "i" \in ty.given
  <2>1. hd2 = hd
    BY <1>2 DEF DirsOK
  <2> QED
    BY <1>1, <2>1
<1>3. CASE "dir" \in top.got /\ "i" \notin ty.given
  <2>1. DirsTold(dirs, of, frames, hd) /\ DirsTold(dirs, of, fr2, hd) /\ hd2 = "yes"
    BY <1>1, <1>3 DEF DirsOK
  <2>2. /\ frames \in Seq(FrameSet) /\ Len(frames) \in Nat \ {0} /\ Len(frames) \in 1..Len(frames)
        /\ top = frames[Len(frames)]
    BY DEF FramesOK, Last
  <2>3. DirsGot(dirs, of, frames)
    BY <2>1 DEF DirsTold
  <2>4. dirs # <<>> /\ \E i \in 1..Len(of) : of[i].place = frames[Len(frames)].place
    BY <1>3, <2>2, <2>3 DEF DirsGot
  <2>5. PICK i \in 1..Len(of) : of[i].place = frames[Len(frames)].place
    BY <2>4
  <2>6. ASSUME NEW k \in 1..Len(fr2) PROVE fr2[k].place # frames[Len(frames)].place
    <3>1. k \in 1..(Len(frames) - 1) /\ fr2[k] = frames[k]
      BY <2>6 DEF Closes
    <3>2. k \in 1..Len(frames) /\ k < Len(frames)
      BY <2>2, <3>1
    <3>3. frames[k].place < frames[Len(frames)].place
      BY <2>2, <3>2 DEF FramesOK
    <3>4. frames[k].place \in Nat /\ frames[Len(frames)].place \in Nat
      BY <2>2, <3>2, FrameFields
    <3> QED
      BY <3>1, <3>3, <3>4
  <2>7. DirsEnded(dirs, of, fr2, "yes")
    BY <2>4, <2>5, <2>6 DEF DirsEnded, InFileNow
  <2>8. DirsTold(dirs, of, fr2, "yes")
    <3>1. DirsAreTold(dirs, of, "yes")
      BY <2>1 DEF DirsTold, DirsAreTold
    <3> QED
      BY <2>1, <2>7, <3>1 DEF DirsTold
  <2> QED
    BY <1>3, <2>1, <2>8 DEF DirsOK
<1> QED
  BY <1>2, <1>3

LEMMA IndexesClosed ==
  ASSUME NEW indexes, NEW ty, NEW hi, NEW of, IndexesOK(indexes, ty, frames, hi, of),
         NEW cf, FramesOK(frames, cf), frames # <<>>, NEW fr2, Closes(frames, fr2)
  PROVE  IndexesOK(indexes, ty, fr2, IF "index" \in Last(frames).got THEN "yes" ELSE hi, of)
<1> DEFINE hi2 == IF "index" \in Last(frames).got THEN "yes" ELSE hi
<1>1. IndexesOK(indexes, ty, fr2, hi, of)
  <2>1. Quiet(frames, "index", of, fr2)
    BY QuietCloses
  <2>2. indexes # <<>>
    BY DEF IndexesOK
  <2> QED
    BY <2>1, <2>2, IndexesSame
<1>2. CASE hi2 = hi
  BY <1>1, <1>2
<1>3. CASE hi2 # hi
  <2>1. "index" \in Last(frames).got /\ hi2 = "yes"
    BY <1>3
  <2>2. Len(frames) \in 1..Len(frames) /\ Last(frames) = frames[Len(frames)]
    BY DEF FramesOK, Last
  <2>3. ASSUME IndexesTold(indexes, of, frames, hi) PROVE of # <<>>
    BY <2>1, <2>2, <2>3 DEF IndexesTold
  <2>4. ASSUME IndexesTold(indexes, of, fr2, hi), of # <<>> PROVE IndexesTold(indexes, of, fr2, "yes")
    BY <2>4 DEF IndexesTold
  <2>5. "M" \notin ty.given /\ "f" \notin ty.given => IndexesTold(indexes, of, fr2, "yes")
    <3>1. "M" \notin ty.given /\ "f" \notin ty.given =>
            IndexesTold(indexes, of, frames, hi) /\ IndexesTold(indexes, of, fr2, hi)
      BY <1>1 DEF IndexesOK
    <3> QED
      BY <2>3, <2>4, <3>1
  <2> HIDE DEF hi2
  <2>6. IndexesOK(indexes, ty, fr2, hi2, of)
    BY <1>1, <2>1, <2>5 DEF IndexesOK
  <2> QED
    BY <2>6 DEF hi2
<1> QED
  BY <1>2, <1>3

LEMMA EndFileKeeps == ASSUME CommandInv, EndFile PROVE CommandInv'
<1>1. /\ Reading /\ mode' = mode /\ typed' = typed /\ readOnly' = readOnly /\ frames # <<>>
  BY DEF EndFile, Files, Reading
<1>2. /\ ConfiguredOK(configured) /\ FramesOK(frames, configured)
      /\ DirsOK(values.dirs, typed, frames, hasDir, configured.told["IndexDir"])
      /\ IndexesOK(values.indexes, typed, frames, hasIndex, configured.told["IndexFile"])
      /\ ReportsOK(values.verbose, typed, configured.told["IndexReport"])
      /\ hasDir # "unknown"
  BY <1>1, InFiles, FilesParts
<1>3. CASE commandStage' = "refused"
  BY <1>3, RefusedKeeps
<1>4. CASE commandStage' # "refused"
  <2>1. /\ frames' = Front(frames) /\ values' = values /\ configured' = configured /\ commandStage' = "files"
        /\ hasDir' = IF "dir" \in Last(frames).got THEN "yes" ELSE hasDir
        /\ hasIndex' = IF "index" \in Last(frames).got THEN "yes" ELSE hasIndex
    BY <1>1, <1>4 DEF EndFile, Top, Reading
  <2>2. Closes(frames, frames') /\ FramesOK(frames', configured)
    BY <1>1, <1>2, <2>1, ClosedFrames
  <2>3. configured.told["IndexDir"] \in Seq(LineSet)
    BY <1>2, DirectivesAre DEF ConfiguredOK
  <2>4. DirsOK(values.dirs, typed, frames', hasDir', configured.told["IndexDir"])
    BY <1>1, <1>2, <2>1, <2>2, <2>3, DirsClosed
  <2>5. IndexesOK(values.indexes, typed, frames', hasIndex', configured.told["IndexFile"])
    BY <1>1, <1>2, <2>1, <2>2, IndexesClosed
  <2>6. FilesInv(values', typed, frames', hasDir', hasIndex', configured')
    BY <1>2, <2>1, <2>2, <2>4, <2>5, FilesWhole
  <2>7. hasDir' # "unknown"
    BY <1>2, <2>1
  <2> QED
    BY <1>1, <2>1, <2>6, <2>7, ReadingKeeps
<1> QED
  BY <1>3, <1>4

(* EndFiles.                                                               *)
LEMMA EndFilesKeeps == ASSUME CommandInv, EndFiles PROVE CommandInv'
<1>1. /\ Reading /\ frames = <<>> /\ commandStage' = IF hasDir = "yes" THEN "run" ELSE "refused"
      /\ mode' = mode /\ typed' = typed /\ readOnly' = readOnly /\ values' = values
      /\ frames' = frames /\ hasDir' = hasDir /\ hasIndex' = hasIndex /\ configured' = configured
  BY DEF EndFiles, Files, Reading
<1>2. CASE hasDir # "yes"
  BY <1>1, <1>2, RefusedKeeps
<1>3. CASE hasDir = "yes"
  <2>1. commandStage' = "run"
    BY <1>1, <1>3
  <2>2. /\ ~readOnly /\ Asking(mode, values, typed) /\ AllBehind(typed)
        /\ FilesInv(values, typed, frames, hasDir, hasIndex, configured)
    BY <1>1, InFiles
  <2>3. WorkInv'
    BY <1>1, <2>2 DEF WorkInv
  <2>4. ReadingInv'
    BY <1>1, <1>3, <2>1, <2>2 DEF ReadingInv
  <2> QED
    BY <2>1, <2>3, <2>4 DEF CommandInv, LineInv, StartInv, CommandObeyed
<1> QED
  BY <1>2, <1>3

-----------------------------------------------------------------------------
(* Before the files, and after them.                                       *)

(* Before the first file nothing was told.                                 *)
LEMMA FilesBegin ==
  ASSUME NEW v, NEW ty, TypedOK(ty), AllBehind(ty), ValuesOK(v, ty), NEW fr, NEW hd0, NEW cf,
         Unconfigured(fr, hd0, cf)
  PROVE  FilesInv(v, ty, fr, IF v.dirs = <<>> THEN "no" ELSE "yes", IF v.indexes = <<>> THEN "no" ELSE "yes", cf)
<1>1. fr = <<>> /\ cf.lines = 0 /\ cf.told = [d \in Directives |-> <<>>]
  BY DEF Unconfigured
<1>2. cf.told["IndexDir"] = <<>> /\ cf.told["IndexFile"] = <<>> /\ cf.told["IndexReport"] = <<>>
  BY <1>1, DirectivesAre
<1>3. Len(fr) = 0 /\ 1..Len(fr) = {} /\ fr \in Seq(FrameSet)
  BY <1>1
<1>4. ConfiguredOK(cf)
  <2>1. cf.told \in [Directives -> Seq(LineSet)]
    BY <1>1
  <2>2. \A d \in Directives : cf.told[d] = <<>>
    BY <1>1
  <2>3. \A d \in Directives : \A i \in 1..Len(cf.told[d]) : cf.told[d][i].place < cf.lines
    <3>1. 1..Len(<<>>) = {}
      OBVIOUS
    <3> QED
      BY <2>2, <3>1
  <2> QED
    BY <1>1, <2>1, <2>3 DEF ConfiguredOK
<1>5. FramesOK(fr, cf)
  BY <1>3 DEF FramesOK
<1>6. "i" \in Letters /\ "f" \in Letters /\ "v" \in Letters /\ {"i", "f", "v"} \cap Bare = {}
  BY DEF Letters, Bare
<1>7. /\ "i" \in ty.given <=> ty.behind["i"] # <<>>
      /\ "f" \in ty.given <=> ty.behind["f"] # <<>>
      /\ "v" \in ty.given <=> ty.behind["v"] # <<>>
  BY <1>6 DEF TypedOK, AllBehind
<1>8. /\ v.dirs = ty.behind["i"] /\ v.indexes \in Seq(AllWords) /\ ("M" \notin ty.given => v.indexes = ty.behind["f"])
      /\ ty.behind["v"] # <<>> => v.verbose = LastOf(ty.behind["v"])
  BY DEF ValuesOK, IndexesAsked
<1>9. DirsOK(v.dirs, ty, fr, IF v.dirs = <<>> THEN "no" ELSE "yes", <<>>)
  <2>1. CASE v.dirs # <<>>
    BY <1>7, <1>8, <2>1 DEF DirsOK
  <2>2. CASE v.dirs = <<>>
    <3>1. "i" \notin ty.given
      BY <1>7, <1>8, <2>2
    <3>2. <<>> \in Seq(AllWords) /\ Len(<<>>) = 0
      OBVIOUS
    <3>3. DirsAreTold(<<>>, <<>>, "no")
      BY <3>2 DEF DirsAreTold
    <3>4. DirsGot(<<>>, <<>>, fr) /\ DirsEnded(<<>>, <<>>, fr, "no")
      BY <1>3 DEF DirsGot, DirsEnded
    <3>5. DirsTold(<<>>, <<>>, fr, "no")
      BY <3>2, <3>3, <3>4 DEF DirsTold
    <3> QED
      BY <2>2, <3>1, <3>5 DEF DirsOK
  <2> QED
    BY <2>1, <2>2
<1>10. IndexesOK(v.indexes, ty, fr, IF v.indexes = <<>> THEN "no" ELSE "yes", <<>>)
  <2>1. CASE "M" \in ty.given
    BY <1>1, <1>8, <2>1 DEF IndexesOK
  <2>2. CASE "M" \notin ty.given /\ "f" \in ty.given
    BY <1>1, <1>7, <1>8, <2>2 DEF IndexesOK
  <2>3. CASE "M" \notin ty.given /\ "f" \notin ty.given
    <3>1. v.indexes = <<>>
      BY <1>7, <1>8, <2>3
    <3>2. IndexesTold(<<>>, <<>>, fr, "no")
      BY <1>3 DEF IndexesTold
    <3> QED
      BY <1>1, <1>8, <2>3, <3>1, <3>2 DEF IndexesOK
  <2> QED
    BY <2>1, <2>2, <2>3
<1>11. ReportsOK(v.verbose, ty, <<>>)
  BY <1>7, <1>8 DEF ReportsOK
<1> QED
  BY <1>2, <1>4, <1>5, <1>9, <1>10, <1>11, FilesWhole

(* StartFiles.                                                             *)
LEMMA StartFilesKeeps == ASSUME CommandInv, StartFiles PROVE CommandInv'
<1>1. commandStage = "files" /\ hasDir = "unknown"
  BY DEF StartFiles
<1>2. /\ Asking(mode, values, typed) /\ AllBehind(typed)
      /\ ValuesOK(values, typed) /\ Unconfigured(frames, hasDir, configured)
  BY <1>1 DEF CommandInv, WorkInv, StartInv
<1>3. CASE commandStage' = "refused"
  BY <1>3, RefusedKeeps
<1>4. CASE mode \in IndexModes /\ commandStage' # "refused"
  <2>1. /\ ~readOnly /\ mode' = mode /\ values' = values /\ typed' = typed /\ frames' = frames
        /\ configured' = configured /\ commandStage' = "files" /\ readOnly' = readOnly
        /\ hasDir' = IF values.dirs = <<>> THEN "no" ELSE "yes"
        /\ hasIndex' = IF values.indexes = <<>> THEN "no" ELSE "yes"
    BY <1>1, <1>4 DEF StartFiles, RefuseCommand, IndexModes
  <2>2. FilesInv(values, typed, frames, hasDir', hasIndex', configured)
    BY <1>2, <2>1, FilesBegin DEF Asking
  <2>3. WorkInv'
    BY <1>2, <2>1 DEF WorkInv
  <2>4. hasDir' # "unknown"
    BY <2>1
  <2>5. ReadingInv'
    BY <1>4, <2>1, <2>2, <2>4 DEF ReadingInv
  <2> QED
    BY <2>1, <2>3, <2>4, <2>5 DEF CommandInv, LineInv, StartInv, CommandObeyed
<1>5. CASE mode \notin IndexModes
  <2>1. /\ mode' = mode /\ values' = values /\ typed' = typed /\ commandStage' = "run"
    BY <1>5 DEF StartFiles, IndexModes
  <2>2. WorkInv'
    BY <1>2, <2>1 DEF WorkInv
  <2>3. ReadingInv'
    BY <1>5, <2>1 DEF ReadingInv
  <2> QED
    BY <2>1, <2>2, <2>3 DEF CommandInv, LineInv, StartInv, CommandObeyed
<1> QED
  BY <1>3, <1>4, <1>5

-----------------------------------------------------------------------------
(* The work that is done.                                                  *)

(* Where every switch has its words, they ask for the work.                *)
LEMMA WorksAre == ASSUME TypedOK(typed), AllBehind(typed) PROVE Works = Acts(typed)
<1>1. \A s \in {"i", "c", "M", "k"} : s \in Letters /\ s \notin Bare
  BY DEF Letters, Bare
<1>2. \A s \in {"i", "c", "M", "k"} : s \in typed.given <=> typed.behind[s] # <<>>
  BY <1>1 DEF TypedOK, AllBehind
<1> QED
  BY <1>2 DEF Works, Acts, IndexAct, MergeAct, SearchAct, DumpAct, WordsAct, Has, WordsBehind

(* One of them is the one.                                                 *)
LEMMA OnlyOne == ASSUME NEW S, S \subseteq {"index", "merge", "search", "dump", "words"} PROVE S = {} => Cardinality(S) # 1
BY FS_EmptySet

(* The work is the one that is asked for.                                  *)
LEMMA WorkIsAsked == ASSUME Asking(mode, values, typed), AllBehind(typed) PROVE WorkAsked
<1>1. Works = Acts(typed) /\ Acts(typed) \subseteq {"index", "merge", "search", "dump", "words"}
  BY WorksAre, ActsAre DEF Asking
<1>2. Cardinality(Works) = 1 => Works # {}
  BY <1>1, OnlyOne
<1>3. ModeOK(mode, typed)
  BY DEF Asking
<1> QED
  BY <1>1, <1>2, <1>3 DEF WorkAsked, ModeOK, Has

(* What was told, word by word.                                            *)
LEMMA ToldIs ==
  ASSUME ConfiguredOK(configured), NEW d \in Directives
  PROVE  /\ Told(d) \in Seq(AllWords) /\ Len(Told(d)) = Len(configured.told[d])
         /\ \A i \in 1..Len(configured.told[d]) : Told(d)[i] = configured.told[d][i].word
<1> DEFINE of == configured.told[d]
<1>1. of \in Seq(LineSet) /\ DOMAIN of = 1..Len(of) /\ Len(of) \in Nat
  BY DEF ConfiguredOK
<1>2. Told(d) = [i \in 1..Len(of) |-> of[i].word]
  BY <1>1 DEF Told
<1>3. \A i \in 1..Len(of) : of[i].word \in AllWords
  BY <1>1, LineFields
<1> HIDE DEF of
<1>4. Told(d) \in [1..Len(of) -> AllWords] /\ \A i \in 1..Len(of) : Told(d)[i] = of[i].word
  BY <1>2, <1>3
<1>5. Told(d) \in Seq(AllWords) /\ Len(Told(d)) = Len(of)
  BY <1>1, <1>4, FunctionIsSeq
<1> QED
  BY <1>4, <1>5 DEF of

(* The first of a sequence that got one more.                              *)
LEMMA HeadOfLonger ==
  ASSUME NEW X, NEW q \in Seq(X), NEW x \in X
  PROVE  Head(Append(q, x)) = IF q = <<>> THEN x ELSE q[1]
<1>1. Append(q, x) \in Seq(X) /\ Append(q, x) # <<>> /\ Head(Append(q, x)) = Append(q, x)[1]
  BY Longer
<1>2. CASE q = <<>>
  <2>1. Len(q) = 0
    BY <1>2
  <2> QED
    BY <1>1, <1>2, <2>1, Longer
<1>3. CASE q # <<>>
  <2>1. 1 \in 1..Len(q)
    BY <1>3
  <2> QED
    BY <1>1, <1>3, <2>1, Longer
<1> QED
  BY <1>2, <1>3

(* The index of the work is the one that is asked for.                     *)
LEMMA IndexAsked ==
  ASSUME FilesInv(values, typed, <<>>, hasDir, hasIndex, configured), TypedOK(typed), AllBehind(typed), ~Has("M")
  PROVE  LET out == Head(Append(values.indexes, DefaultIndex))
         IN IF Has("f") THEN out = Head(WordsBehind("f"))
            ELSE IF Told("IndexFile") # <<>> THEN out \in Range(Told("IndexFile"))
            ELSE out = DefaultIndex
<1> DEFINE out == Head(Append(values.indexes, DefaultIndex))
           of == configured.told["IndexFile"]
<1>1. ConfiguredOK(configured) /\ IndexesOK(values.indexes, typed, <<>>, hasIndex, of)
  BY FilesParts
<1>2. values.indexes \in Seq(AllWords)
  BY <1>1 DEF IndexesOK
<1>3. out = IF values.indexes = <<>> THEN DefaultIndex ELSE values.indexes[1]
  BY <1>2, HeadOfLonger, DefaultIsWord
<1>4. of \in Seq(LineSet)
  BY <1>1, DirectivesAre DEF ConfiguredOK
<1>5. /\ Told("IndexFile") \in Seq(AllWords) /\ Len(Told("IndexFile")) = Len(of)
      /\ \A i \in 1..Len(of) : Told("IndexFile")[i] = of[i].word
  BY <1>1, ToldIs, DirectivesAre
<1> HIDE DEF out, of
<1>6. CASE Has("f")
  <2>1. "f" \in Letters \ Bare
    BY DEF Letters, Bare
  <2>2. typed.behind["f"] \in Seq(AllWords) /\ typed.behind["f"] # <<>>
    BY <1>6, <2>1 DEF TypedOK, AllBehind, Has
  <2>3. out = typed.behind["f"][1]
    BY <1>1, <1>3, <1>6 DEF IndexesOK, Has
  <2> QED
    BY <1>6, <2>2, <2>3 DEF WordsBehind, out
<1>7. CASE ~Has("f")
  <2>1. IndexesTold(values.indexes, of, <<>>, hasIndex)
    BY <1>1, <1>7 DEF IndexesOK, Has
  <2>2. CASE of = <<>>
    <3>1. Told("IndexFile") = <<>>
      BY <1>4, <1>5, <2>2
    <3>2. out = DefaultIndex
      BY <1>3, <2>1, <2>2 DEF IndexesTold
    <3> QED
      BY <1>7, <3>1, <3>2 DEF out
  <2>3. CASE of # <<>>
    <3>1. Told("IndexFile") # <<>>
      BY <1>4, <1>5, <2>3
    <3>2. PICK i \in 1..Len(of) : values.indexes # <<>> /\ values.indexes[1] = of[i].word
      BY <2>1, <2>3 DEF IndexesTold
    <3>3. out = Told("IndexFile")[i] /\ i \in DOMAIN Told("IndexFile")
      BY <1>3, <1>5, <3>2
    <3>4. out \in Range(Told("IndexFile"))
      BY <3>3 DEF Range
    <3> QED
      BY <1>7, <3>1, <3>4 DEF out
  <2> QED
    BY <2>2, <2>3
<1> QED
  BY <1>6, <1>7

(* One file: its places are the same.                                      *)
LEMMA OneFile ==
  ASSUME ConfiguredOK(configured), NEW d \in Directives, Cardinality(FilesWith(d)) = 1
  PROVE  \A i, j \in 1..Len(configured.told[d]) : configured.told[d][i].place = configured.told[d][j].place
<1> DEFINE of == configured.told[d]
           places == {of[i].place : i \in 1..Len(of)}
<1>1. of \in Seq(LineSet) /\ DOMAIN of = 1..Len(of) /\ Len(of) \in Nat
  BY DEF ConfiguredOK
<1>2. FilesWith(d) = places
  BY <1>1 DEF FilesWith
<1>3. IsFiniteSet(places)
  <2>1. configured.lines \in Nat /\ \A i \in 1..Len(of) : of[i].place < configured.lines
    BY DEF ConfiguredOK
  <2>2. \A i \in 1..Len(of) : of[i].place \in Nat
    BY <1>1, LineFields
  <2> HIDE DEF of
  <2>3. places \subseteq 0..configured.lines
    BY <2>1, <2>2
  <2>4. IsFiniteSet(0..configured.lines)
    BY <2>1, FS_Interval
  <2> QED
    BY <2>3, <2>4, FS_Subset
<1> HIDE DEF places
<1>4. PICK p : places = {p}
  BY <1>2, <1>3, FS_Singleton
<1> QED
  BY <1>4 DEF places

(* The documents, and what is said of them, are what was asked for.        *)
LEMMA DocumentsAsked ==
  ASSUME FilesInv(values, typed, <<>>, hasDir, hasIndex, configured), hasDir = "yes",
         TypedOK(typed), AllBehind(typed)
  PROVE  /\ IF Has("i") THEN values.dirs = WordsBehind("i")
            ELSE /\ values.dirs # <<>> /\ IsPrefix(values.dirs, Told("IndexDir"))
                 /\ Cardinality(FilesWith("IndexDir")) = 1 => values.dirs = Told("IndexDir")
         /\ Has("v") => values.verbose = Last(WordsBehind("v"))
         /\ ~Has("v") /\ Told("IndexReport") # <<>> => values.verbose = Last(Told("IndexReport"))
<1> DEFINE of == configured.told["IndexDir"]
           reports == configured.told["IndexReport"]
<1>1. /\ ConfiguredOK(configured) /\ DirsOK(values.dirs, typed, <<>>, hasDir, of)
      /\ ReportsOK(values.verbose, typed, reports)
  BY FilesParts
<1>2. of \in Seq(LineSet) /\ reports \in Seq(LineSet)
  BY <1>1, DirectivesAre DEF ConfiguredOK
<1>3. /\ Told("IndexDir") \in Seq(AllWords) /\ Len(Told("IndexDir")) = Len(of)
      /\ \A i \in 1..Len(of) : Told("IndexDir")[i] = of[i].word
  BY <1>1, ToldIs, DirectivesAre
<1>4. /\ Told("IndexReport") \in Seq(AllWords) /\ Len(Told("IndexReport")) = Len(reports)
      /\ \A i \in 1..Len(reports) : Told("IndexReport")[i] = reports[i].word
  BY <1>1, ToldIs, DirectivesAre
<1>5. Cardinality(FilesWith("IndexDir")) = 1 => \A i, j \in 1..Len(of) : of[i].place = of[j].place
  BY <1>1, OneFile, DirectivesAre
<1> HIDE DEF of, reports
<1>6. ASSUME ~Has("i")
      PROVE  /\ values.dirs # <<>> /\ IsPrefix(values.dirs, Told("IndexDir"))
             /\ Cardinality(FilesWith("IndexDir")) = 1 => values.dirs = Told("IndexDir")
  <2>1. DirsTold(values.dirs, of, <<>>, "yes")
    BY <1>1, <1>6 DEF DirsOK, Has
  <2>2. values.dirs \in Seq(AllWords) /\ values.dirs # <<>> /\ DirsAreTold(values.dirs, of, "yes")
    BY <2>1 DEF DirsTold, DirsEnded
  <2>3. /\ Len(values.dirs) \in Nat /\ Len(of) \in Nat /\ Len(values.dirs) <= Len(of)
        /\ \A i \in 1..Len(values.dirs) : values.dirs[i] = of[i].word
    BY <1>2, <2>2 DEF DirsAreTold
  <2>4. \A i \in 1..Len(values.dirs) : values.dirs[i] = Told("IndexDir")[i]
    BY <1>3, <2>3
  <2>5. IsPrefix(values.dirs, Told("IndexDir"))
    <3> DEFINE n == Len(values.dirs)
               told == Told("IndexDir")
    <3>1. n \in Nat /\ n <= Len(told) /\ told \in Seq(AllWords) /\ n <= Len(values.dirs)
      BY <1>3, <2>3
    <3>2. /\ SubSeq(told, 1, n) \in Seq(AllWords) /\ Len(SubSeq(told, 1, n)) = n
          /\ \A k \in 1..n : SubSeq(told, 1, n)[k] = told[k]
      BY <3>1, Beginning
    <3>3. /\ SubSeq(values.dirs, 1, n) \in Seq(AllWords) /\ Len(SubSeq(values.dirs, 1, n)) = n
          /\ \A k \in 1..n : SubSeq(values.dirs, 1, n)[k] = values.dirs[k]
      <4> HIDE DEF n
      <4> QED
        BY <2>2, <3>1, Beginning
    <3>4. SubSeq(values.dirs, 1, n) = SubSeq(told, 1, n)
      BY <2>4, <3>2, <3>3
    <3> QED
      BY <3>1, <3>4 DEF IsPrefix
  <2>6. ASSUME Cardinality(FilesWith("IndexDir")) = 1 PROVE values.dirs = Told("IndexDir")
    <3>1. Len(values.dirs) = Len(of)
      BY <1>5, <2>2, <2>6 DEF DirsAreTold
    <3> QED
      BY <1>3, <2>2, <2>4, <3>1
  <2> QED
    BY <2>2, <2>5, <2>6
<1>7. Has("i") => values.dirs = WordsBehind("i")
  BY <1>1 DEF DirsOK, Has, WordsBehind
<1>8. Has("v") => values.verbose = Last(WordsBehind("v"))
  BY <1>1 DEF ReportsOK, Has, WordsBehind, Last, LastOf
<1>9. ASSUME ~Has("v"), Told("IndexReport") # <<>> PROVE values.verbose = Last(Told("IndexReport"))
  <2>1. reports # <<>> /\ Len(reports) \in 1..Len(reports)
    BY <1>2, <1>4, <1>9
  <2>2. values.verbose = reports[Len(reports)].word
    BY <1>1, <1>9, <2>1 DEF ReportsOK, Has
  <2> QED
    BY <1>4, <2>1, <2>2 DEF Last
<1> QED
  BY <1>6, <1>7, <1>8, <1>9

(* Run.                                                                    *)
LEMMA RunKeeps ==
  ASSUME CommandInv, NEW existing \in SUBSET (IndexNames \cup {DefaultIndex}), Run(existing)
  PROVE  CommandInv'
<1> DEFINE refused ==
             \/ mode = "merge" /\ (readOnly \/ values.indexes = <<>> \/ values.merge \in existing)
             \/ ~(IF mode \in Updating THEN Target \in existing ELSE Needed \subseteq existing)
<1>1. /\ commandStage = "run" /\ commandStage' = IF refused THEN "refused" ELSE "done"
      /\ output' = IF refused THEN NoIndex ELSE Target
      /\ mode' = mode /\ values' = values /\ typed' = typed /\ frames' = frames /\ hasDir' = hasDir
      /\ hasIndex' = hasIndex /\ configured' = configured /\ readOnly' = readOnly
  BY DEF Run
<1>2. CASE refused
  BY <1>1, <1>2, RefusedKeeps
<1>3. CASE ~refused
  <2>1. commandStage' = "done" /\ output' = Target
    BY <1>1, <1>3
  <2>2. Asking(mode, values, typed) /\ AllBehind(typed)
    BY <1>1 DEF CommandInv, WorkInv
  <2>3. mode \in IndexModes =>
          ~readOnly /\ hasDir = "yes" /\ FilesInv(values, typed, <<>>, hasDir, hasIndex, configured)
    BY <1>1 DEF CommandInv, ReadingInv
  <2>4. TypedOK(typed) /\ ModeOK(mode, typed) /\ MergeOK(values, typed)
    BY <2>2 DEF Asking
  <2>5. mode = "merge" => ~readOnly /\ values.indexes # <<>> /\ values.merge \notin existing /\ Needed \subseteq existing
    BY <1>3 DEF Updating
  <2> HIDE DEF refused
  <2>6. WorkAsked'
    <3>1. WorkAsked
      BY <2>2, WorkIsAsked
    <3> QED
      BY <1>1, <3>1 DEF WorkAsked, Works, Has, WordsBehind
  <2>7. output' # NoIndex => mode \in {"index", "merge"} \cup Updating /\ ~readOnly
    BY <2>1, <2>3, <2>5 DEF Target, IndexModes
  <2>8. mode = "merge" => output' = LastOf(typed.behind["M"]) /\ output' \notin Range(values.indexes)
    <3>1. SUFFICES ASSUME mode = "merge" PROVE output' = LastOf(typed.behind["M"]) /\ output' \notin Range(values.indexes)
      OBVIOUS
    <3>2. output' = values.merge
      BY <2>1, <3>1 DEF Target, Updating
    <3>3. typed.behind["M"] # <<>>
      BY <2>4, <3>1 DEF ModeOK
    <3>4. Needed = Range(values.indexes)
      BY <2>5, <3>1 DEF Needed, Updating
    <3> QED
      BY <2>4, <2>5, <3>1, <3>2, <3>3, <3>4 DEF MergeOK
  <2>9. mode \in IndexModes /\ ~Has("M") =>
          IF Has("f") THEN output' = Head(WordsBehind("f"))
          ELSE IF Told("IndexFile") # <<>> THEN output' \in Range(Told("IndexFile"))
          ELSE output' = DefaultIndex
    <3>1. mode \in IndexModes => Target = Head(Append(values.indexes, DefaultIndex))
      BY DEF Target, IndexModes, Updating
    <3> QED
      BY <2>1, <2>3, <2>2, <2>4, <3>1, IndexAsked
  <2>10. OutputAsked'
    <3>1. (output # NoIndex)' => (mode \in {"index", "merge"} \cup Updating /\ ~readOnly)'
      BY <1>1, <2>7 DEF Updating, NoIndex
    <3>2. (mode = "merge")' => (output = Last(WordsBehind("M")) /\ output \notin Range(values.indexes))'
      BY <1>1, <2>8 DEF WordsBehind, Last, LastOf
    <3>3. (mode \in {"index"} \cup Updating /\ ~Has("M"))' =>
            (IF Has("f") THEN output = Head(WordsBehind("f"))
             ELSE IF Told("IndexFile") # <<>> THEN output \in Range(Told("IndexFile"))
             ELSE output = DefaultIndex)'
      BY <1>1, <2>9 DEF IndexModes, Updating, Has, WordsBehind, Told, DefaultIndex
    <3> QED
      BY <3>1, <3>2, <3>3 DEF OutputAsked
  <2>11. ValuesAsked'
    <3>1. mode \in IndexModes =>
            /\ IF Has("i") THEN values.dirs = WordsBehind("i")
               ELSE /\ values.dirs # <<>> /\ IsPrefix(values.dirs, Told("IndexDir"))
                    /\ Cardinality(FilesWith("IndexDir")) = 1 => values.dirs = Told("IndexDir")
            /\ Has("v") => values.verbose = Last(WordsBehind("v"))
            /\ ~Has("v") /\ Told("IndexReport") # <<>> => values.verbose = Last(Told("IndexReport"))
      BY <2>2, <2>3, <2>4, DocumentsAsked
    <3>2. ValuesAsked
      BY <3>1 DEF ValuesAsked, IndexModes
    <3> QED
      BY <1>1, <3>2 DEF ValuesAsked, Has, WordsBehind, Told, FilesWith, Updating
  <2> QED
    BY <2>1, <2>6, <2>10, <2>11 DEF CommandInv, LineInv, WorkInv, StartInv, ReadingInv, CommandObeyed
<1> QED
  BY <1>2, <1>3

-----------------------------------------------------------------------------
(* The theorem.                                                            *)

LEMMA CommandInitially == CommandInit => CommandInv
<1> SUFFICES ASSUME CommandInit PROVE CommandInv
  OBVIOUS
<1>1. /\ commandStage = "line" /\ mode = "search" /\ values = NoValues /\ taking = NoSwitch
      /\ typed.given = {} /\ typed.behind = [s \in Letters |-> <<>>]
      /\ Unconfigured(frames, hasDir, configured)
  BY DEF CommandInit, Unconfigured
<1>2. TypedOK(typed) /\ \A s \in Letters : typed.behind[s] = <<>>
  BY <1>1 DEF TypedOK
<1>3. /\ typed.behind["i"] = <<>> /\ typed.behind["c"] = <<>> /\ typed.behind["M"] = <<>> /\ typed.behind["w"] = <<>>
      /\ typed.behind["T"] = <<>> /\ typed.behind["k"] = <<>> /\ typed.behind["f"] = <<>> /\ typed.behind["v"] = <<>>
  BY <1>2 DEF Letters
<1>4. Range(<<>>) = {}
  BY DEF Range
<1>5. Acts(typed) = {}
  BY <1>3, <1>4 DEF Acts, IndexAct, MergeAct, SearchAct, DumpAct, WordsAct
<1>6. ModeOK(mode, typed)
  BY <1>1, <1>5 DEF ModeOK
<1>7. values.merge = NoIndex /\ values.dirs = <<>> /\ values.indexes = <<>>
  BY <1>1 DEF NoValues
<1>8. MergeOK(values, typed)
  BY <1>3, <1>7 DEF MergeOK, AllWords
<1>9. ValuesOK(values, typed)
  BY <1>3, <1>7 DEF ValuesOK, IndexesAsked
<1>10. TakingOK(taking, typed)
  BY <1>1 DEF TakingOK, NoSwitch
<1> QED
  BY <1>1, <1>2, <1>6, <1>8, <1>9, <1>10 DEF CommandInv, LineInv, WorkInv, StartInv, ReadingInv, CommandObeyed, Asking

LEMMA CommandStep == CommandInv /\ [CommandNext]_commandVars => CommandInv'
<1> SUFFICES ASSUME CommandInv, [CommandNext]_commandVars PROVE CommandInv'
  OBVIOUS
<1>1. CASE UNCHANGED commandVars
  <2>1. /\ mode' = mode /\ values' = values /\ taking' = taking /\ typed' = typed /\ frames' = frames
        /\ hasDir' = hasDir /\ hasIndex' = hasIndex /\ configured' = configured
        /\ commandStage' = commandStage /\ readOnly' = readOnly /\ output' = output
    BY <1>1 DEF commandVars
  <2>2. LineInv' /\ WorkInv' /\ StartInv' /\ ReadingInv'
    BY <2>1 DEF CommandInv, LineInv, WorkInv, StartInv, ReadingInv
  <2>3. (WorkAsked' <=> WorkAsked) /\ (ValuesAsked' <=> ValuesAsked) /\ (OutputAsked' <=> OutputAsked)
    BY <2>1 DEF WorkAsked, ValuesAsked, OutputAsked, Works, Has, WordsBehind, Told, FilesWith
  <2>4. CommandObeyed'
    BY <2>1, <2>3 DEF CommandInv, CommandObeyed
  <2> QED
    BY <2>2, <2>4 DEF CommandInv
<1>2. CASE CommandNext
  <2>1. CASE \E s \in Switches : Switch(s)
    BY <2>1, SwitchKeeps
  <2>2. CASE \E w \in IF taking = NoSwitch THEN {} ELSE ParamsOf[taking.switch] : Word(w)
    BY <2>2, WordKeeps
  <2>3. CASE EndLine
    BY <2>3, EndLineKeeps
  <2>4. CASE StartFiles
    BY <2>4, StartFilesKeeps
  <2>5. CASE OpenFile
    BY <2>5, OpenFileKeeps
  <2>6. CASE IncludeConfigFile
    BY <2>6, IncludeConfigFileKeeps
  <2>7. CASE \E d \in Directories : IndexDir(d)
    BY <2>7, IndexDirKeeps
  <2>8. CASE \E f \in IndexNames : IndexFile(f)
    BY <2>8, IndexFileKeeps
  <2>9. CASE \E n \in Numbers : IndexReport(n) \/ ParserWarnLevel(n)
    BY <2>9, IndexReportKeeps, ParserWarnLevelKeeps
  <2>10. CASE BadDirective
    BY <2>10, BadDirectiveKeeps
  <2>11. CASE BadValue
    BY <2>11, BadValueKeeps
  <2>12. CASE EndFile
    BY <2>12, EndFileKeeps
  <2>13. CASE EndFiles
    BY <2>13, EndFilesKeeps
  <2>14. CASE \E existing \in SUBSET (IndexNames \cup {DefaultIndex}) : Run(existing)
    BY <2>14, RunKeeps
  <2> QED
    BY <1>2, <2>1, <2>2, <2>3, <2>4, <2>5, <2>6, <2>7, <2>8, <2>9, <2>10, <2>11, <2>12, <2>13, <2>14 DEF CommandNext
<1> QED
  BY <1>1, <1>2

(* The work that is done is the one that the command line and the files it *)
(* names ask for, with any number of switches, words, files and lines.     *)
THEOREM CommandObeyedAlways == CommandSpec => []CommandObeyed
<1>1. CommandInv => CommandObeyed
  BY DEF CommandInv
<1> QED
  BY <1>1, CommandInitially, CommandStep, PTL DEF CommandSpec

-----------------------------------------------------------------------------
(* The library: what is counted.                                           *)

Shape(f) == IsFiniteSet(DOMAIN f) /\ \A o \in DOMAIN f : ObjectOK(f, o)

(* The same facts in f and g of an object, but for the count.              *)
SameObject(f, g, x) ==
  /\ g[x].kind = f[x].kind /\ g[x].of = f[x].of /\ g[x].held = f[x].held
  /\ {"kind", "of", "refs", "held"} \subseteq DOMAIN g[x]
  /\ f[x].kind = "results" => {"hits", "keys"} \subseteq DOMAIN g[x]

(* And of results, what they hold.                                         *)
SameResults(f, g, x) ==
  f[x].kind = "results" => g[x].hits = f[x].hits /\ g[x].keys = f[x].keys

LEMMA OriginIn ==
  ASSUME NEW f, Shape(f), NEW o \in DOMAIN f
  PROVE  f[o].of \in DOMAIN f /\ Handle \in DOMAIN f /\ (o # Handle => f[o].of # o)
BY DEF Shape, ObjectOK

LEMMA CameFinite ==
  ASSUME NEW f, Shape(f), NEW o
  PROVE  /\ IsFiniteSet(Came(f, o)) /\ Cardinality(Came(f, o)) \in Nat
         /\ Cardinality(Came(f, o)) = 0 <=> Came(f, o) = {}
<1>1. IsFiniteSet(DOMAIN f) /\ Came(f, o) \subseteq DOMAIN f
  BY DEF Shape, Came
<1> QED
  BY <1>1, FS_Subset, FS_CardinalityType, FS_EmptySet

(* An object that changes in other ways counts as before.                  *)
LEMMA CountsKept ==
  ASSUME NEW f, NEW g, Shape(f), Counted(f), DOMAIN g = DOMAIN f,
         \A x \in DOMAIN f : SameObject(f, g, x) /\ g[x].refs = f[x].refs
  PROVE  Shape(g) /\ Counted(g) /\ Structures(g) = Structures(f)
<1>1. \A o \in DOMAIN g : ObjectOK(g, o)
  BY DEF Shape, ObjectOK, SameObject
<1>2. \A o \in DOMAIN g : Came(g, o) = Came(f, o)
  BY DEF Came, SameObject
<1>3. Counted(g)
  BY <1>2 DEF Counted, Referring, SameObject
<1>4. Structures(g) = Structures(f)
  BY DEF Structures, SameObject
<1> QED
  BY <1>1, <1>3, <1>4 DEF Shape

(* g is f with a new object o that came from p.                            *)
AddedTo(f, g, o, p) ==
  /\ p \in DOMAIN f /\ o \notin DOMAIN f /\ DOMAIN g = DOMAIN f \cup {o}
  /\ \A x \in DOMAIN f :
       SameObject(f, g, x) /\ g[x].refs = f[x].refs + (IF x = p THEN 1 ELSE 0)
  /\ {"kind", "of", "refs", "held"} \subseteq DOMAIN g[o]
  /\ g[o].of = p /\ g[o].refs = 1 /\ g[o].held = TRUE
  /\ \/ g[o].kind = "results" /\ {"hits", "keys"} \subseteq DOMAIN g[o] /\ p = Handle
     \/ g[o].kind \in {"search", "meta"} /\ p = Handle
     \/ g[o].kind = "result" /\ f[p].kind = "results"

(* It is counted in the one it came from.                                  *)
LEMMA CountedIn ==
  ASSUME NEW f, NEW g, NEW o, NEW p, Shape(f), Counted(f), AddedTo(f, g, o, p)
  PROVE  /\ Shape(g) /\ Counted(g)
         /\ Structures(g) = Structures(f) \cup
              IF g[o].kind \in {"search", "results"} THEN {o} ELSE {}
<1> USE DEF AddedTo
<1>1. Handle \in DOMAIN f /\ o # Handle /\ o # p
  BY OriginIn
<1>2. IsFiniteSet(DOMAIN g)
  BY FS_AddElement DEF Shape
<1>3. ASSUME NEW x \in DOMAIN g PROVE ObjectOK(g, x)
  <2>1. CASE x = o
    <3>1. g[p].kind = f[p].kind /\ p \in DOMAIN g /\ Handle \in DOMAIN g /\ 1 \in Nat
      BY <1>1 DEF SameObject
    <3>2. CASE g[o].kind = "result"
      BY <1>1, <2>1, <3>1, <3>2 DEF ObjectOK
    <3>3. CASE g[o].kind \in {"results", "search", "meta"}
      <4>1. g[o].of = Handle
        BY <3>3
      <4> QED
        BY <1>1, <2>1, <3>1, <3>3, <4>1 DEF ObjectOK
    <3> QED
      BY <3>2, <3>3
  <2>2. CASE x # o
    <3>1. x \in DOMAIN f /\ ObjectOK(f, x) /\ SameObject(f, g, x)
      BY <2>2 DEF Shape
    <3>2. f[x].of \in DOMAIN f /\ SameObject(f, g, f[x].of)
      BY <3>1, OriginIn
    <3> QED
      BY <1>1, <3>1, <3>2 DEF ObjectOK, SameObject
  <2> QED
    BY <2>1, <2>2
<1>4. \A x \in DOMAIN f : f[x].of # o
  BY OriginIn
<1>5. ASSUME NEW x \in DOMAIN g
      PROVE  Came(g, x) = Came(f, x) \cup (IF x = p THEN {o} ELSE {})
  BY <1>1 DEF Came, SameObject
<1>6. Came(f, o) = {}
  BY <1>4 DEF Came
<1>7. ASSUME NEW x \in DOMAIN g PROVE g[x].refs = Referring(g, x) /\ g[x].refs > 0
  <2>1. CASE x = o
    <3>1. Came(g, o) = {}
      BY <1>1, <1>5, <1>6, <2>1
    <3>2. Cardinality(Came(g, o)) = 0
      BY <3>1, FS_EmptySet
    <3> QED
      BY <2>1, <3>2 DEF Referring
  <2>2. CASE x = p
    <3>1. o \notin Came(f, p)
      BY DEF Came
    <3>2. Cardinality(Came(g, p)) = Cardinality(Came(f, p)) + 1
      BY <1>5, <2>2, <3>1, CameFinite, FS_AddElement
    <3>3. f[p].refs = Referring(f, p) /\ f[p].refs > 0 /\ f[p].refs \in Nat
      BY DEF Counted, Shape, ObjectOK
    <3>4. Cardinality(Came(f, p)) \in Nat /\ g[p].held = f[p].held /\ g[p].refs = f[p].refs + 1
      BY CameFinite DEF SameObject
    <3> QED
      BY <2>2, <3>2, <3>3, <3>4 DEF Referring
  <2>3. CASE x # o /\ x # p
    <3>1. x \in DOMAIN f /\ Came(g, x) = Came(f, x)
      BY <1>5, <2>3
    <3>2. f[x].refs = Referring(f, x) /\ f[x].refs > 0 /\ f[x].refs \in Nat
      BY <3>1 DEF Counted, Shape, ObjectOK
    <3>3. g[x].held = f[x].held /\ g[x].refs = f[x].refs
      BY <2>3, <3>1, <3>2 DEF SameObject
    <3> QED
      BY <3>1, <3>2, <3>3 DEF Referring
  <2> QED
    BY <2>1, <2>2, <2>3
<1>8. Structures(g) = Structures(f) \cup IF g[o].kind \in {"search", "results"} THEN {o} ELSE {}
  BY <1>1 DEF Structures, SameObject
<1> QED
  BY <1>2, <1>3, <1>7, <1>8 DEF Shape, Counted

(* The count of one object is one too high.                                *)
Owing(f, o) ==
  /\ Shape(f) /\ o \in DOMAIN f
  /\ \A x \in DOMAIN f :
       f[x].refs = Referring(f, x) + (IF x = o THEN 1 ELSE 0) /\ f[x].refs > 0

(* What of f is left in g, as it was.                                      *)
Left(f, g) ==
  /\ DOMAIN g \subseteq DOMAIN f
  /\ \A x \in DOMAIN g : SameObject(f, g, x) /\ SameResults(f, g, x)

(* Counting down: the count is then right, or the object is gone and its   *)
(* origin's is too high.                                                   *)
LEMMA CountingDown ==
  ASSUME NEW f, NEW o, Owing(f, o)
  PROVE  /\ Left(f, CountedDown(f, o))
         /\ o \in DOMAIN CountedDown(f, o) =>
              Shape(CountedDown(f, o)) /\ Counted(CountedDown(f, o))
         /\ o \notin DOMAIN CountedDown(f, o) /\ o # Handle =>
              Owing(CountedDown(f, o), f[o].of)
         /\ o \notin DOMAIN CountedDown(f, o) /\ o = Handle =>
              Shape(CountedDown(f, o)) /\ Counted(CountedDown(f, o))
<1> DEFINE g == CountedDown(f, o)
<1>0. o \in DOMAIN f /\ Shape(f)
  BY DEF Owing
<1>1. \A x \in DOMAIN f : Cardinality(Came(f, x)) \in Nat /\ f[x].refs \in Nat
                            /\ f[x].held \in BOOLEAN /\ f[x].refs > 0
  BY CameFinite DEF Owing, Shape, ObjectOK
<1>2. CASE f[o].refs > 1
  <2>1. g = [f EXCEPT ![o].refs = @ - 1]
    BY <1>2 DEF CountedDown
  <2>2. DOMAIN g = DOMAIN f
    BY <2>1
  <2> HIDE DEF g
  <2>3. ASSUME NEW x \in DOMAIN f
        PROVE  /\ SameObject(f, g, x) /\ SameResults(f, g, x)
               /\ g[x].refs = f[x].refs - (IF x = o THEN 1 ELSE 0)
    <3>1. ObjectOK(f, x)
      BY <1>0 DEF Shape
    <3>2. CASE x = o
      <4>1. g[x] = [f[o] EXCEPT !.refs = f[o].refs - 1]
        BY <1>0, <2>1, <3>2
      <4> QED
        BY <3>1, <3>2, <4>1 DEF SameObject, SameResults, ObjectOK
    <3>3. CASE x # o
      <4>1. g[x] = f[x]
        BY <2>1, <3>3
      <4> QED
        BY <1>1, <3>1, <3>3, <4>1 DEF SameObject, SameResults, ObjectOK
    <3> QED
      BY <3>2, <3>3
  <2>4. \A x \in DOMAIN f : Came(g, x) = Came(f, x)
    BY <2>2, <2>3 DEF Came, SameObject
  <2>5. ASSUME NEW x \in DOMAIN f PROVE g[x].refs = Referring(g, x) /\ g[x].refs > 0 /\ g[x].refs \in Nat
    <3>1. f[x].refs = Referring(f, x) + (IF x = o THEN 1 ELSE 0)
      BY DEF Owing
    <3>2. Referring(g, x) = Referring(f, x)
      BY <2>3, <2>4 DEF Referring, SameObject
    <3>3. Referring(f, x) \in Nat
      BY <1>1 DEF Referring
    <3> QED
      BY <1>1, <1>2, <2>3, <3>1, <3>2, <3>3
  <2>6. ASSUME NEW x \in DOMAIN f PROVE ObjectOK(g, x)
    <3>1. ObjectOK(f, x) /\ f[x].of \in DOMAIN f /\ SameObject(f, g, x) /\ SameObject(f, g, f[x].of)
      BY <1>0, <2>3, OriginIn DEF Shape
    <3> QED
      BY <2>2, <2>5, <3>1 DEF ObjectOK, SameObject
  <2>7. Shape(g) /\ Counted(g) /\ Left(f, g)
    BY <1>0, <2>2, <2>3, <2>5, <2>6 DEF Shape, Counted, Left
  <2>8. o \in DOMAIN g
    BY <1>0, <2>2
  <2> QED
    BY <2>7, <2>8 DEF g
<1>3. CASE ~(f[o].refs > 1)
  <2>1. g = [x \in DOMAIN f \ {o} |-> f[x]]
    BY <1>3 DEF CountedDown
  <2>2. DOMAIN g = DOMAIN f \ {o} /\ \A x \in DOMAIN f \ {o} : g[x] = f[x]
    BY <2>1
  <2> HIDE DEF g
  <2>3. Came(f, o) = {} /\ f[o].held = FALSE
    <3>1. f[o].refs = Referring(f, o) + 1
      BY <1>0 DEF Owing
    <3>2. Referring(f, o) = 0
      BY <1>0, <1>1, <1>3, <3>1 DEF Referring
    <3>3. Cardinality(Came(f, o)) = 0 /\ f[o].held = FALSE
      BY <1>0, <1>1, <3>2 DEF Referring
    <3> QED
      BY <1>0, <3>3, CameFinite
  <2>4. \A x \in DOMAIN f : x # Handle => f[x].of # o
    BY <2>3 DEF Came
  <2>5. Left(f, g)
    BY <1>0, <2>2 DEF Left, SameObject, SameResults, Shape, ObjectOK
  <2>6. CASE o = Handle
    <3>1. ASSUME NEW x \in DOMAIN f, x # Handle PROVE FALSE
      <4>1. ObjectOK(f, x) /\ f[x].of # Handle
        BY <1>0, <2>4, <2>6, <3>1 DEF Shape
      <4>2. f[x].of \in DOMAIN f /\ f[f[x].of].kind = "results"
        BY <4>1 DEF ObjectOK
      <4>3. f[f[x].of].of = Handle
        BY <1>0, <4>2 DEF Shape, ObjectOK
      <4> QED
        BY <2>4, <2>6, <4>1, <4>2, <4>3
    <3>2. DOMAIN g = {}
      BY <2>2, <2>6, <3>1
    <3>3. Shape(g) /\ Counted(g)
      BY <3>2, FS_EmptySet DEF Shape, Counted
    <3> QED
      BY <2>5, <2>6, <3>2, <3>3 DEF g
  <2>7. CASE o # Handle
    <3> DEFINE p == f[o].of
    <3>1. p \in DOMAIN f /\ p # o /\ p \in DOMAIN g
      BY <1>0, <2>2, <2>7, OriginIn
    <3>2. IsFiniteSet(DOMAIN g)
      BY <1>0, <2>2, FS_RemoveElement DEF Shape
    <3>3. ASSUME NEW x \in DOMAIN g PROVE ObjectOK(g, x)
      <4>1. x \in DOMAIN f /\ x # o /\ ObjectOK(f, x) /\ g[x] = f[x] /\ f[x].of \in DOMAIN f
        BY <1>0, <2>2, OriginIn DEF Shape
      <4>2. Handle \in DOMAIN g
        BY <1>0, <2>2, <2>7, OriginIn
      <4>3. f[x].of # o
        BY <2>4, <2>7, <4>1 DEF ObjectOK
      <4>4. f[x].of \in DOMAIN g /\ g[f[x].of] = f[f[x].of]
        BY <2>2, <4>1, <4>3
      <4> QED
        BY <4>1, <4>2, <4>4 DEF ObjectOK
    <3>4. ASSUME NEW x \in DOMAIN g
          PROVE  Came(g, x) = Came(f, x) \ (IF x = p THEN {o} ELSE {})
      BY <2>2 DEF Came
    <3>5. o \in Came(f, p)
      BY <1>0, <2>7 DEF Came
    <3>6. ASSUME NEW x \in DOMAIN g
          PROVE  g[x].refs = Referring(g, x) + (IF x = p THEN 1 ELSE 0) /\ g[x].refs > 0
      <4>1. x \in DOMAIN f /\ x # o /\ g[x] = f[x]
        BY <2>2
      <4>2. f[x].refs = Referring(f, x) /\ f[x].refs > 0
        <5>1. f[x].refs = Referring(f, x) + 0 /\ f[x].refs > 0
          BY <4>1 DEF Owing
        <5>2. Referring(f, x) \in Nat
          BY <1>1, <4>1 DEF Referring
        <5> QED
          BY <5>1, <5>2
      <4>3. CASE x = p
        <5>1. Came(g, p) = Came(f, p) \ {o}
          BY <3>4, <4>3
        <5>2. Cardinality(Came(g, p)) = Cardinality(Came(f, p)) - 1
          BY <1>0, <3>5, <5>1, CameFinite, FS_RemoveElement, SMTT(20)
        <5>3. Cardinality(Came(f, p)) \in Nat
          BY <1>1, <3>1
        <5> QED
          BY <4>1, <4>2, <4>3, <5>2, <5>3 DEF Referring
      <4>4. CASE x # p
        <5>1. Came(g, x) = Came(f, x)
          BY <3>4, <4>4
        <5>2. Referring(g, x) = Referring(f, x) /\ Referring(f, x) \in Nat
          BY <1>1, <4>1, <5>1 DEF Referring
        <5> QED
          BY <4>1, <4>2, <4>4, <5>2
      <4> QED
        BY <4>3, <4>4
    <3>7. Owing(g, p)
      BY <3>1, <3>2, <3>3, <3>6 DEF Owing, Shape
    <3>8. o \notin DOMAIN g
      BY <2>2
    <3> QED
      BY <2>5, <2>7, <3>7, <3>8 DEF g
  <2> QED
    BY <2>6, <2>7
<1> QED
  BY <1>2, <1>3

LEMMA LeftTwice ==
  ASSUME NEW f, NEW g, NEW h, Left(f, g), Left(g, h)
  PROVE  Left(f, h)
BY DEF Left, SameObject, SameResults

LEMMA DroppingWith ==
  ASSUME NEW f, NEW o, Owing(f, o), o # Handle, f[o].of = Handle
  PROVE  /\ Left(f, DroppedWith(f, o, Handle))
         /\ Shape(DroppedWith(f, o, Handle)) /\ Counted(DroppedWith(f, o, Handle))
<1> DEFINE g == CountedDown(f, o)
<1>1. CASE o \in DOMAIN g
  BY <1>1, CountingDown DEF DroppedWith
<1>2. CASE o \notin DOMAIN g
  <2>1. Owing(g, Handle) /\ Left(f, g)
    BY <1>2, CountingDown
  <2>2. DroppedWith(f, o, Handle) = CountedDown(g, Handle)
    BY <1>2 DEF DroppedWith
  <2> HIDE DEF g
  <2>3. /\ Left(g, CountedDown(g, Handle))
        /\ Shape(CountedDown(g, Handle)) /\ Counted(CountedDown(g, Handle))
    BY <2>1, CountingDown
  <2> QED
    BY <2>1, <2>2, <2>3, LeftTwice
<1> QED
  BY <1>1, <1>2

(* However far the counting down goes, what is left is right.              *)
LEMMA Dropping ==
  ASSUME NEW f, NEW o, Owing(f, o)
  PROVE  Left(f, Dropped(f, o)) /\ Shape(Dropped(f, o)) /\ Counted(Dropped(f, o))
<1> DEFINE g == CountedDown(f, o)
<1>1. CASE o = Handle
  BY <1>1, CountingDown DEF Dropped
<1>2. CASE o # Handle /\ f[o].of = Handle
  BY <1>2, DroppingWith DEF Dropped
<1>3. CASE o # Handle /\ f[o].of # Handle /\ o \in DOMAIN g
  BY <1>3, CountingDown DEF Dropped
<1>4. CASE o # Handle /\ f[o].of # Handle /\ o \notin DOMAIN g
  <2> DEFINE p == f[o].of
  <2>1. Owing(g, p) /\ Left(f, g)
    BY <1>4, CountingDown
  <2>2. Dropped(f, o) = DroppedWith(g, p, Handle)
    BY <1>4 DEF Dropped
  <2>3. f[p].kind = "results" /\ ObjectOK(f, o) /\ p \in DOMAIN f
    BY <1>4 DEF Owing, Shape, ObjectOK
  <2> HIDE DEF g
  <2>4. p \in DOMAIN g /\ g[p].kind = "results" /\ ObjectOK(g, p)
    BY <2>1, <2>3 DEF Owing, Shape, Left, SameObject
  <2>5. g[p].of = Handle
    BY <2>4 DEF ObjectOK
  <2>6. /\ Left(g, DroppedWith(g, p, Handle))
        /\ Shape(DroppedWith(g, p, Handle)) /\ Counted(DroppedWith(g, p, Handle))
    BY <1>4, <2>1, <2>5, DroppingWith
  <2> QED
    BY <2>1, <2>2, <2>6, LeftTwice
<1> QED
  BY <1>1, <1>2, <1>3, <1>4

-----------------------------------------------------------------------------
(* The library: sort keys that have no error are of one type in every      *)
(* index, and results keep theirs.                                         *)

LEMMA GoodKeysAgree ==
  ASSUME NEW keys, \A p \in Places : BadKeys(keys, p) = {},
         NEW i \in DOMAIN keys, NEW p \in Places, NEW q \in Places
  PROVE  /\ keys[i][1] \in DOMAIN IndexFacts[p]
         /\ IndexFacts[p][keys[i][1]] = IndexFacts[q][keys[i][1]]
<1> DEFINE key == keys[i][1]
<1>1. PICK N \in Nat : N = Len(IndexFacts) /\ Places = 1..N
  BY LibraryFacts DEF Places
<1>2. \A r \in Places : key \in DOMAIN IndexFacts[r]
  BY DEF BadKeys
<1>3. \A r \in Places : r > 1 => IndexFacts[r - 1][key] = IndexFacts[r][key]
  <2>1. ASSUME NEW r \in Places, r > 1 PROVE IndexFacts[r - 1][key] = IndexFacts[r][key]
    <3>1. r - 1 \in Places
      BY <1>1, <2>1
    <3>2. key \in DOMAIN IndexFacts[r - 1]
      BY <1>2, <3>1
    <3> QED
      BY <2>1, <3>2 DEF BadKeys
  <2> QED
    BY <2>1
<1>4. N >= 1 /\ N - 1 \in Nat
  BY <1>1
<1> DEFINE Same == {n \in Nat : IndexFacts[n + 1][key] = IndexFacts[1][key]}
<1>5. 0 \in Same
  OBVIOUS
<1>6. ASSUME NEW n \in 0..((N - 1) - 1), n \in Same PROVE n + 1 \in Same
  <2>1. n + 2 \in Places /\ n + 2 > 1 /\ (n + 2) - 1 = n + 1 /\ (n + 1) + 1 = n + 2
    BY <1>1, <1>4
  <2>2. IndexFacts[n + 1][key] = IndexFacts[n + 2][key]
    BY <1>3, <2>1
  <2> QED
    BY <1>6, <2>1, <2>2
<1>7. \A n \in 0..(N - 1) : n \in Same
  <2> HIDE DEF Same
  <2> QED
    BY <1>4, <1>5, <1>6, UpTo
<1>8. ASSUME NEW r \in Places PROVE IndexFacts[r][key] = IndexFacts[1][key]
  <2>1. r - 1 \in 0..(N - 1) /\ (r - 1) + 1 = r
    BY <1>1
  <2> QED
    BY <1>7, <2>1
<1> QED
  BY <1>2, <1>8

LEMMA KeysKept ==
  ASSUME KeysComparable,
         \A r \in DOMAIN objects' :
           (objects'[r].kind = "results" /\ objects'[r].held) =>
             \/ /\ r \in DOMAIN objects /\ objects[r].kind = "results" /\ objects[r].held
                /\ objects'[r].hits = objects[r].hits /\ objects'[r].keys = objects[r].keys
             \/ objects'[r].hits = 0
             \/ \A p \in Places : BadKeys(objects'[r].keys, p) = {}
  PROVE  KeysComparable'
<1> SUFFICES ASSUME NEW CONSTANT r \in Held("results")', objects'[r].hits > 0,
                    NEW CONSTANT i \in DOMAIN objects'[r].keys,
                    NEW CONSTANT p \in Places, NEW CONSTANT q \in Places
             PROVE  /\ objects'[r].keys[i][1] \in DOMAIN IndexFacts[p]
                    /\ IndexFacts[p][objects'[r].keys[i][1]] = IndexFacts[q][objects'[r].keys[i][1]]
  BY DEF KeysComparable, Places
<1>1. r \in DOMAIN objects' /\ objects'[r].kind = "results" /\ objects'[r].held
  BY DEF Held
<1>2. CASE /\ r \in DOMAIN objects /\ objects[r].kind = "results" /\ objects[r].held
           /\ objects'[r].hits = objects[r].hits /\ objects'[r].keys = objects[r].keys
  BY <1>2 DEF KeysComparable, Held
<1>3. CASE \A x \in Places : BadKeys(objects'[r].keys, x) = {}
  <2>1. PICK keys : keys = objects'[r].keys
    OBVIOUS
  <2>2. i \in DOMAIN keys /\ \A x \in Places : BadKeys(keys, x) = {}
    BY <1>3, <2>1
  <2> QED
    BY <2>1, <2>2, GoodKeysAgree, ZenonT(30)
<1> QED
  BY <1>1, <1>2, <1>3

-----------------------------------------------------------------------------
(* The library: what the calls do.                                         *)

LEMMA HandleThere ==
  ASSUME LibInv, NEW o \in DOMAIN objects
  PROVE  /\ Shape(objects) /\ Handle \in DOMAIN objects /\ objects[Handle].kind = "handle"
         /\ ObjectOK(objects, o)
BY DEF LibInv, Shape, ObjectOK

(* A call that makes an object of the handle.                              *)
LEMMA NewKeeps ==
  ASSUME LibInv, NEW o, o \notin DOMAIN objects, Handle \in DOMAIN objects, NEW object,
         New(o, object), {"kind", "of", "refs", "held"} \subseteq DOMAIN object,
         object.of = Handle, object.refs = 1, object.held = TRUE,
         \/ object.kind = "results" /\ {"hits", "keys"} \subseteq DOMAIN object
         \/ object.kind \in {"search", "meta"},
         object.kind = "results" =>
           \/ object.hits = 0
           \/ \A p \in Places : BadKeys(object.keys, p) = {},
         memory' = memory \cup (IF object.kind \in {"search", "results"} THEN {o} ELSE {})
  PROVE  LibInv'
<1>0. Shape(objects) /\ Counted(objects) /\ KeysComparable /\ memory = Structures(objects)
  BY DEF LibInv, Shape
<1>1. DOMAIN objects' = DOMAIN objects \cup {o} /\ o # Handle
  BY DEF New
<1>2. objects'[o] = object
  BY DEF New
<1>3. ASSUME NEW x \in DOMAIN objects
      PROVE  /\ SameObject(objects, objects', x) /\ SameResults(objects, objects', x)
             /\ objects'[x].refs = objects[x].refs + (IF x = Handle THEN 1 ELSE 0)
  <2>1. ObjectOK(objects, x) /\ x # o
    BY <1>0 DEF Shape
  <2>2. CASE x = Handle
    <3>1. objects'[x] = [objects[x] EXCEPT !.refs = objects[x].refs + 1]
      BY <2>1, <2>2 DEF New
    <3> QED
      BY <2>1, <2>2, <3>1 DEF SameObject, SameResults, ObjectOK
  <2>3. CASE x # Handle
    <3>1. objects'[x] = objects[x]
      BY <2>1, <2>3 DEF New
    <3> QED
      BY <2>1, <2>3, <3>1 DEF SameObject, SameResults, ObjectOK
  <2> QED
    BY <2>2, <2>3
<1>4. /\ Shape(objects') /\ Counted(objects')
      /\ Structures(objects') = Structures(objects) \cup
           IF objects'[o].kind \in {"search", "results"} THEN {o} ELSE {}
  <2>2. PICK f : f = objects
    OBVIOUS
  <2>3. PICK g : g = objects'
    OBVIOUS
  <2>4. \A x \in DOMAIN f : /\ SameObject(f, g, x)
                            /\ g[x].refs = f[x].refs + (IF x = Handle THEN 1 ELSE 0)
    BY <1>3, <2>2, <2>3
  <2>5. /\ Shape(f) /\ Counted(f) /\ Handle \in DOMAIN f
        /\ o \notin DOMAIN f /\ DOMAIN g = DOMAIN f \cup {o}
    BY <1>0, <1>1, <2>2, <2>3
  <2>6. /\ {"kind", "of", "refs", "held"} \subseteq DOMAIN g[o]
        /\ g[o].of = Handle /\ g[o].refs = 1 /\ g[o].held = TRUE
        /\ \/ g[o].kind = "results" /\ {"hits", "keys"} \subseteq DOMAIN g[o]
           \/ g[o].kind \in {"search", "meta"}
    BY <1>2, <2>3
  <2>7. /\ Shape(g) /\ Counted(g)
        /\ Structures(g) = Structures(f) \cup
             IF g[o].kind \in {"search", "results"} THEN {o} ELSE {}
    <3>1. AddedTo(f, g, o, Handle)
      BY <2>4, <2>5, <2>6 DEF AddedTo
    <3> QED
      BY <2>5, <3>1, CountedIn
  <2> QED
    BY <2>2, <2>3, <2>7
<1>5. KeysComparable'
  <2>1. ASSUME NEW r \in DOMAIN objects', objects'[r].kind = "results", objects'[r].held
        PROVE  \/ /\ r \in DOMAIN objects /\ objects[r].kind = "results" /\ objects[r].held
                  /\ objects'[r].hits = objects[r].hits /\ objects'[r].keys = objects[r].keys
               \/ objects'[r].hits = 0
               \/ \A p \in Places : BadKeys(objects'[r].keys, p) = {}
    <3>1. CASE r = o
      BY <1>2, <2>1, <3>1
    <3>2. CASE r # o
      BY <1>1, <1>3, <2>1, <3>2 DEF SameObject, SameResults
    <3> QED
      BY <3>1, <3>2
  <2> QED
    BY <1>0, <2>1, KeysKept
<1> QED
  BY <1>0, <1>2, <1>4, <1>5 DEF LibInv, Shape

(* A call that leaves the objects and their counts as they are.            *)
LEMMA ObjectsKept ==
  ASSUME LibInv, DOMAIN objects' = DOMAIN objects, memory' = memory,
         \A x \in DOMAIN objects :
           /\ SameObject(objects, objects', x) /\ SameResults(objects, objects', x)
           /\ objects'[x].refs = objects[x].refs
  PROVE  LibInv'
<1>0. Shape(objects) /\ Counted(objects) /\ KeysComparable /\ memory = Structures(objects)
  BY DEF LibInv, Shape
<1>1. Shape(objects') /\ Counted(objects') /\ Structures(objects') = Structures(objects)
  BY <1>0, CountsKept
<1>2. KeysComparable'
  BY <1>0, KeysKept DEF SameObject, SameResults
<1> QED
  BY <1>0, <1>1, <1>2 DEF LibInv, Shape

LEMMA UnchangedKeeps ==
  ASSUME LibInv, UNCHANGED <<objects, memory>>
  PROVE  LibInv'
<1>1. \A x \in DOMAIN objects : ObjectOK(objects, x)
  BY DEF LibInv
<1> QED
  BY <1>1, ObjectsKept DEF SameObject, SameResults, ObjectOK

LEMMA FoundKeeps ==
  ASSUME LibInv, Handle \in DOMAIN objects, NEW o, o \notin DOMAIN objects, NEW q, NEW sort,
         Found(o, q, sort)
  PROVE  LibInv'
<1> DEFINE keys == SortKeys(sort)
           object(hits, n) == [kind |-> "results", of |-> Handle, refs |-> 1, held |-> TRUE,
                               hits |-> hits, at |-> 0, read |-> n, keys |-> keys]
<1>1. SortError(keys).error = OK => \A p \in Places : BadKeys(keys, p) = {}
  BY DEF SortError, OK
<1>2. CASE UNCHANGED <<objects, memory>>
  BY <1>2, UnchangedKeeps
<1>3. ASSUME NEW hits, NEW n, New(o, object(hits, n)), memory' = memory \cup {o},
             hits = 0 \/ SortError(keys).error = OK
      PROVE  LibInv'
  <2>1. PICK made : made = object(hits, n)
    OBVIOUS
  <2>2. /\ {"kind", "of", "refs", "held"} \subseteq DOMAIN made
        /\ made.of = Handle /\ made.refs = 1 /\ made.held = TRUE
        /\ made.kind = "results" /\ {"hits", "keys"} \subseteq DOMAIN made
        /\ made.hits = hits /\ made.keys = keys
    BY <2>1
  <2>3. New(o, made) /\ memory' = memory \cup {o}
    BY <1>3, <2>1
  <2> HIDE DEF object, keys
  <2>4. made.hits = 0 \/ \A p \in Places : BadKeys(made.keys, p) = {}
    BY <1>1, <1>3, <2>2
  <2>5. memory' = memory \cup (IF made.kind \in {"search", "results"} THEN {o} ELSE {})
    BY <2>2, <2>3
  <2> QED
    BY <2>2, <2>3, <2>4, <2>5, NewKeeps
<1>4. \/ UNCHANGED <<objects, memory>>
      \/ \E hits, n : /\ New(o, object(hits, n)) /\ memory' = memory \cup {o}
                      /\ hits = 0 \/ SortError(keys).error = OK
  BY DEF Found
<1> QED
  BY <1>2, <1>3, <1>4

(* A result counts in its results, which it takes forward.                 *)
LEMMA NextResultKeeps ==
  ASSUME LibInv, SwishNextResult
  PROVE  LibInv'
<1>0. Shape(objects) /\ Counted(objects) /\ KeysComparable /\ memory = Structures(objects)
      /\ memory' = memory
  BY DEF LibInv, Shape, SwishNextResult
<1>1. CASE UNCHANGED objects
  BY <1>0, <1>1, ObjectsKept DEF SameObject, SameResults, Shape, ObjectOK
<1>2. ASSUME NEW r \in Held("results"), NEW o \in Ids \ DOMAIN objects, NEW p \in Places,
             objects' = [x \in DOMAIN objects \cup {o} |->
                  IF x = o THEN [kind |-> "result", of |-> r, refs |-> 1, held |-> TRUE, place |-> p]
                  ELSE IF x = r THEN [objects[x] EXCEPT !.refs = @ + 1, !.at = @ + 1]
                  ELSE objects[x]]
      PROVE  LibInv'
  <2>1. r \in DOMAIN objects /\ objects[r].kind = "results" /\ o \notin DOMAIN objects
    BY <1>2 DEF Held
  <2>2. DOMAIN objects' = DOMAIN objects \cup {o}
    BY <1>2
  <2>3. objects'[o] = [kind |-> "result", of |-> r, refs |-> 1, held |-> TRUE, place |-> p]
    BY <1>2
  <2>4. ASSUME NEW x \in DOMAIN objects
        PROVE  /\ SameObject(objects, objects', x) /\ SameResults(objects, objects', x)
               /\ objects'[x].refs = objects[x].refs + (IF x = r THEN 1 ELSE 0)
    <3>1. ObjectOK(objects, x) /\ x # o
      BY <1>0, <2>1 DEF Shape
    <3>2. CASE x = r
      <4>1. objects'[x] = [objects[x] EXCEPT !.refs = @ + 1, !.at = @ + 1]
        BY <1>2, <3>1, <3>2
      <4> QED
        BY <3>1, <3>2, <4>1 DEF SameObject, SameResults, ObjectOK
    <3>3. CASE x # r
      <4>1. objects'[x] = objects[x]
        BY <1>2, <3>1, <3>3
      <4> QED
        BY <3>1, <3>3, <4>1 DEF SameObject, SameResults, ObjectOK
    <3> QED
      BY <3>2, <3>3
  <2>5. /\ Shape(objects') /\ Counted(objects')
        /\ Structures(objects') = Structures(objects)
    <3>1. PICK f : f = objects
      OBVIOUS
    <3>2. PICK g : g = objects'
      OBVIOUS
    <3>3. \A x \in DOMAIN f : /\ SameObject(f, g, x)
                              /\ g[x].refs = f[x].refs + (IF x = r THEN 1 ELSE 0)
      BY <2>4, <3>1, <3>2
    <3>4. /\ {"kind", "of", "refs", "held"} \subseteq DOMAIN g[o]
          /\ g[o].of = r /\ g[o].refs = 1 /\ g[o].held = TRUE /\ g[o].kind = "result"
      BY <2>3, <3>2
    <3>5. /\ Shape(f) /\ Counted(f) /\ r \in DOMAIN f /\ f[r].kind = "results"
          /\ o \notin DOMAIN f /\ DOMAIN g = DOMAIN f \cup {o}
      BY <1>0, <2>1, <2>2, <3>1, <3>2
    <3>6. /\ Shape(g) /\ Counted(g)
          /\ Structures(g) = Structures(f) \cup
               IF g[o].kind \in {"search", "results"} THEN {o} ELSE {}
      <4>1. AddedTo(f, g, o, r)
        BY <3>3, <3>4, <3>5 DEF AddedTo
      <4> QED
        BY <3>5, <4>1, CountedIn
    <3> QED
      BY <3>1, <3>2, <3>4, <3>6
  <2>6. KeysComparable'
    <3>1. ASSUME NEW x \in DOMAIN objects', objects'[x].kind = "results", objects'[x].held
          PROVE  /\ x \in DOMAIN objects /\ objects[x].kind = "results" /\ objects[x].held
                 /\ objects'[x].hits = objects[x].hits /\ objects'[x].keys = objects[x].keys
      <4>1. x # o
        BY <2>3, <3>1
      <4> QED
        BY <2>2, <2>4, <3>1, <4>1 DEF SameObject, SameResults
    <3> QED
      BY <1>0, <3>1, KeysKept
  <2> QED
    BY <1>0, <2>5, <2>6 DEF LibInv, Shape
<1> QED
  BY <1>1, <1>2 DEF SwishNextResult

(* A variable of the program goes out of scope.                            *)
LEMMA ScopeKeeps ==
  ASSUME LibInv, Scope
  PROVE  LibInv'
<1>0. Shape(objects) /\ Counted(objects) /\ KeysComparable /\ memory = Structures(objects)
  BY DEF LibInv, Shape
<1>1. PICK o \in DOMAIN objects :
        objects[o].held /\ objects' = Dropped([objects EXCEPT ![o].held = FALSE], o)
  BY DEF Scope
<1>2. memory' = memory \ (Structures(objects) \ Structures(objects'))
  BY DEF Scope
<1> DEFINE f == [objects EXCEPT ![o].held = FALSE]
<1>3. DOMAIN f = DOMAIN objects
  OBVIOUS
<1>4. ASSUME NEW x \in DOMAIN objects
      PROVE  /\ f[x].kind = objects[x].kind /\ f[x].of = objects[x].of
             /\ f[x].refs = objects[x].refs
             /\ f[x].held = IF x = o THEN FALSE ELSE objects[x].held
             /\ {"kind", "of", "refs", "held"} \subseteq DOMAIN f[x]
             /\ f[x].kind = "results" =>
                  /\ {"hits", "keys"} \subseteq DOMAIN f[x]
                  /\ f[x].hits = objects[x].hits /\ f[x].keys = objects[x].keys
             /\ ObjectOK(objects, x)
  <2>1. ObjectOK(objects, x)
    BY <1>0 DEF Shape
  <2>2. CASE x = o
    <3>1. f[x] = [objects[x] EXCEPT !.held = FALSE]
      BY <2>2
    <3> HIDE DEF f
    <3> QED
      BY <2>1, <2>2, <3>1 DEF ObjectOK
  <2>3. CASE x # o
    <3>1. f[x] = objects[x]
      BY <2>3
    <3> HIDE DEF f
    <3> QED
      BY <2>1, <2>3, <3>1 DEF ObjectOK
  <2> QED
    BY <2>2, <2>3
<1>5. objects' = Dropped(f, o)
  BY <1>1
<1> HIDE DEF f
<1>6. Owing(f, o)
  <2>1. ASSUME NEW x \in DOMAIN f PROVE ObjectOK(f, x)
    <3>1. objects[x].of \in DOMAIN objects
      BY <1>0, <1>3, OriginIn
    <3>2. f[objects[x].of].kind = objects[objects[x].of].kind
      BY <1>4, <3>1
    <3> QED
      BY <1>3, <1>4, <3>2, ZenonT(30) DEF ObjectOK
  <2>2. \A x \in DOMAIN f : Came(f, x) = Came(objects, x)
    BY <1>3, <1>4 DEF Came
  <2>3. ASSUME NEW x \in DOMAIN f
        PROVE  f[x].refs = Referring(f, x) + (IF x = o THEN 1 ELSE 0) /\ f[x].refs > 0
    <3>1. objects[x].refs = Referring(objects, x) /\ objects[x].refs > 0
      BY <1>0, <1>3 DEF Counted
    <3>2. Cardinality(Came(objects, x)) \in Nat
      BY <1>0, CameFinite
    <3>5. f[x].refs = objects[x].refs /\ Came(f, x) = Came(objects, x)
            /\ f[x].held = IF x = o THEN FALSE ELSE objects[x].held
      BY <1>3, <1>4, <2>2
    <3>3. CASE x = o
      <4>1. Referring(objects, x) = Cardinality(Came(objects, x)) + 1
        BY <1>1, <3>3 DEF Referring
      <4>2. Referring(f, x) = Cardinality(Came(objects, x)) + 0
        BY <3>3, <3>5 DEF Referring
      <4> QED
        BY <3>1, <3>2, <3>3, <3>5, <4>1, <4>2
    <3>4. CASE x # o
      <4>1. Referring(f, x) = Referring(objects, x)
        BY <3>4, <3>5 DEF Referring
      <4>2. Referring(objects, x) \in Nat
        BY <3>2 DEF Referring
      <4> QED
        BY <3>1, <3>4, <3>5, <4>1, <4>2
    <3> QED
      BY <3>3, <3>4
  <2> QED
    BY <1>0, <1>3, <2>1, <2>3 DEF Owing, Shape
<1>7. Left(f, objects') /\ Shape(objects') /\ Counted(objects')
  BY <1>5, <1>6, Dropping
<1>8. \A x \in DOMAIN objects' : x \in DOMAIN objects /\ objects'[x].kind = objects[x].kind
  BY <1>3, <1>4, <1>7 DEF Left, SameObject
<1>9. memory' = Structures(objects')
  BY <1>0, <1>2, <1>8 DEF Structures
<1>10. KeysComparable'
  <2>1. ASSUME NEW x \in DOMAIN objects', objects'[x].kind = "results", objects'[x].held
        PROVE  /\ x \in DOMAIN objects /\ objects[x].kind = "results" /\ objects[x].held
               /\ objects'[x].hits = objects[x].hits /\ objects'[x].keys = objects[x].keys
    <3>1. x \in DOMAIN f /\ x \in DOMAIN objects /\ objects'[x].held = f[x].held
            /\ f[x].kind = "results" /\ objects[x].kind = "results"
            /\ objects'[x].hits = f[x].hits /\ objects'[x].keys = f[x].keys
      BY <1>3, <1>4, <1>7, <2>1, ZenonT(30) DEF Left, SameObject, SameResults
    <3> QED
      BY <1>4, <2>1, <3>1
  <2> QED
    BY <1>0, <2>1, KeysKept
<1> QED
  BY <1>7, <1>9, <1>10 DEF LibInv, Shape

LEMMA SwishInitKeeps ==
  ASSUME LibInv, SwishInit
  PROVE  LibInv'
<1>1. PICK opened \in BOOLEAN :
        objects' = [o \in {Handle} |->
            [kind |-> "handle", of |-> Handle, refs |-> 1, held |-> TRUE, opened |-> opened]]
  BY DEF SwishInit
<1>2. DOMAIN objects' = {Handle} /\ memory' = {Handle}
  BY <1>1 DEF SwishInit
<1>3. /\ objects'[Handle].kind = "handle" /\ objects'[Handle].of = Handle
      /\ objects'[Handle].refs = 1 /\ objects'[Handle].held = TRUE
      /\ {"kind", "of", "refs", "held"} \subseteq DOMAIN objects'[Handle]
  BY <1>1
<1>4. IsFiniteSet(DOMAIN objects')
  BY <1>2, FS_Singleton
<1>5. ObjectOK(objects', Handle)
  <2>1. 1 \in Nat /\ TRUE \in BOOLEAN /\ Handle \in DOMAIN objects'
    BY <1>2
  <2>2. "handle" # "results" /\ "handle" \in {"handle", "search", "results", "meta"}
    OBVIOUS
  <2> QED
    BY <1>3, <2>1, <2>2 DEF ObjectOK
<1>6. Came(objects', Handle) = {}
  BY <1>2 DEF Came
<1>7. Counted(objects')
  BY <1>2, <1>3, <1>6, FS_EmptySet DEF Counted, Referring
<1>8. memory' = Structures(objects')
  BY <1>2, <1>3 DEF Structures
<1>9. KeysComparable'
  BY <1>2, <1>3, KeysKept DEF LibInv
<1> QED
  BY <1>2, <1>4, <1>5, <1>7, <1>8, <1>9 DEF LibInv

(* A field of a search or of results is set.                               *)
LEMMA FieldKeeps ==
  ASSUME LibInv, memory' = memory, NEW o \in DOMAIN objects, NEW value,
         \/ objects[o].kind = "search" /\ objects' = [objects EXCEPT ![o].sort = value]
         \/ objects[o].kind = "search" /\ objects' = [objects EXCEPT ![o].query = value]
         \/ objects[o].kind = "results" /\ objects' = [objects EXCEPT ![o].at = value]
  PROVE  LibInv'
<1>1. DOMAIN objects' = DOMAIN objects
  OBVIOUS
<1>2. ASSUME NEW x \in DOMAIN objects
      PROVE  /\ SameObject(objects, objects', x) /\ SameResults(objects, objects', x)
             /\ objects'[x].refs = objects[x].refs
  <2>1. ObjectOK(objects, x)
    BY DEF LibInv
  <2>2. CASE x = o
    <3>1. \/ objects'[x] = [objects[x] EXCEPT !.sort = value] /\ objects[x].kind = "search"
          \/ objects'[x] = [objects[x] EXCEPT !.query = value] /\ objects[x].kind = "search"
          \/ objects'[x] = [objects[x] EXCEPT !.at = value]
      BY <2>2
    <3> QED
      BY <2>1, <3>1 DEF SameObject, SameResults, ObjectOK
  <2>3. CASE x # o
    <3>1. objects'[x] = objects[x]
      BY <2>3
    <3> QED
      BY <2>1, <3>1 DEF SameObject, SameResults, ObjectOK
  <2> QED
    BY <2>2, <2>3
<1> QED
  BY <1>1, <1>2, ObjectsKept

LEMMA LibStep ==
  ASSUME LibInv, [LibNext]_libVars
  PROVE  LibInv'
<1>1. CASE SwishInit
  BY <1>1, SwishInitKeeps
<1>2. CASE NewSearchObject
  <2>1. PICK o \in Ids \ DOMAIN objects, q \in DOMAIN Answers \cup {NoQuery} :
          /\ New(o, [kind |-> "search", of |-> Handle, refs |-> 1, held |-> TRUE,
                     sort |-> <<>>, query |-> q])
          /\ memory' = memory \cup {o}
    BY <1>2 DEF NewSearchObject
  <2>2. PICK made : made = [kind |-> "search", of |-> Handle, refs |-> 1, held |-> TRUE,
                            sort |-> <<>>, query |-> q]
    OBVIOUS
  <2>3. /\ {"kind", "of", "refs", "held"} \subseteq DOMAIN made /\ made.kind = "search"
        /\ made.of = Handle /\ made.refs = 1 /\ made.held = TRUE
    BY <2>2
  <2>4. Handle \in DOMAIN objects
    BY <1>2, HandleThere DEF NewSearchObject, Usable, Held
  <2>5. New(o, made)
    BY <2>1, <2>2
  <2>6. memory' = memory \cup (IF made.kind \in {"search", "results"} THEN {o} ELSE {})
    BY <2>1, <2>3
  <2> QED
    BY <2>3, <2>4, <2>5, <2>6, NewKeeps
<1>3. CASE SwishSetSort
  <2>1. PICK o \in Held("search"), words \in SortWords :
          objects' = IF words = <<>> THEN objects ELSE [objects EXCEPT ![o].sort = words]
    BY <1>3 DEF SwishSetSort
  <2>2. memory' = memory /\ o \in DOMAIN objects /\ objects[o].kind = "search"
    BY <1>3 DEF SwishSetSort, Held
  <2> QED
    BY <2>1, <2>2, FieldKeeps, UnchangedKeeps
<1>4. CASE SwishSetQuery
  <2>1. PICK o \in Held("search"), q \in DOMAIN Answers :
          objects' = [objects EXCEPT ![o].query = q]
    BY <1>4 DEF SwishSetQuery
  <2>2. memory' = memory /\ o \in DOMAIN objects /\ objects[o].kind = "search"
    BY <1>4 DEF SwishSetQuery, Held
  <2> QED
    BY <2>1, <2>2, FieldKeeps
<1>5. CASE SwishExecute
  <2>1. PICK o \in Held("search"), r \in Ids \ DOMAIN objects :
          Found(r, objects[o].query, objects[o].sort)
    BY <1>5 DEF SwishExecute
  <2>2. Handle \in DOMAIN objects
    BY HandleThere DEF Held
  <2> QED
    BY <2>1, <2>2, FoundKeeps
<1>6. CASE SwishQuery
  <2>1. PICK r \in Ids \ DOMAIN objects, q \in DOMAIN Answers \cup {NoQuery} :
          Found(r, q, <<>>)
    BY <1>6 DEF SwishQuery
  <2>2. Handle \in DOMAIN objects
    BY <1>6, HandleThere DEF SwishQuery, Usable, Held
  <2> QED
    BY <2>1, <2>2, FoundKeeps
<1>7. CASE SwishNextResult
  BY <1>7, NextResultKeeps
<1>8. CASE SwishSeekResult
  <2>1. PICK r \in Held("results"), pos \in 0..2 :
          objects' = [objects EXCEPT ![r].at = IF pos < objects[r].hits THEN pos ELSE objects[r].hits]
    BY <1>8 DEF SwishSeekResult
  <2>2. memory' = memory /\ r \in DOMAIN objects /\ objects[r].kind = "results"
    BY <1>8 DEF SwishSeekResult, Held
  <2>3. PICK at : at = IF pos < objects[r].hits THEN pos ELSE objects[r].hits
    OBVIOUS
  <2> QED
    BY <2>1, <2>2, <2>3, FieldKeeps
<1>9. CASE SwishProperty \/ SwishHeaderValue \/ UNCHANGED libVars
  BY <1>9, UnchangedKeeps DEF SwishProperty, SwishHeaderValue, libVars
<1>10. CASE SwishMetaList
  <2>1. CASE UNCHANGED objects
    BY <1>10, <2>1, UnchangedKeeps DEF SwishMetaList
  <2>2. CASE \E o \in Ids \ DOMAIN objects :
               New(o, [kind |-> "meta", of |-> Handle, refs |-> 1, held |-> TRUE])
    <3>1. PICK o \in Ids \ DOMAIN objects :
            New(o, [kind |-> "meta", of |-> Handle, refs |-> 1, held |-> TRUE])
      BY <2>2
    <3>2. PICK made : made = [kind |-> "meta", of |-> Handle, refs |-> 1, held |-> TRUE]
      OBVIOUS
    <3>3. /\ {"kind", "of", "refs", "held"} \subseteq DOMAIN made /\ made.kind = "meta"
          /\ made.of = Handle /\ made.refs = 1 /\ made.held = TRUE
      BY <3>2
    <3>4. Handle \in DOMAIN objects /\ memory' = memory
      BY <1>10, HandleThere DEF SwishMetaList, Usable, Held
    <3>5. New(o, made)
      BY <3>1, <3>2
    <3>6. memory' = memory \cup (IF made.kind \in {"search", "results"} THEN {o} ELSE {})
      BY <3>3, <3>4
    <3> QED
      BY <3>3, <3>4, <3>5, <3>6, NewKeeps
  <2> QED
    BY <1>10, <2>1, <2>2 DEF SwishMetaList
<1>11. CASE Scope
  BY <1>11, ScopeKeeps
<1> QED
  BY <1>1, <1>2, <1>3, <1>4, <1>5, <1>6, <1>7, <1>8, <1>9, <1>10, <1>11 DEF LibNext

(* What is not freed is what the variables of the program still read: what *)
(* has a count has one that refers to it, and so on up to a variable.      *)
LEMMA MemoryIs ==
  ASSUME LibInv
  PROVE  MemoryExact
<1>0. Shape(objects) /\ Counted(objects) /\ memory = Structures(objects)
  BY DEF LibInv, Shape
<1>1. ASSUME NEW o \in DOMAIN objects, ~objects[o].held
      PROVE  \E c \in DOMAIN objects \ {Handle} : objects[c].of = o
  <2>1. objects[o].refs = Referring(objects, o) /\ objects[o].refs > 0 /\ ObjectOK(objects, o)
    BY <1>0 DEF Counted, Shape
  <2>2. objects[o].held = FALSE
    BY <1>1, <2>1 DEF ObjectOK
  <2>3. Cardinality(Came(objects, o)) # 0
    BY <1>0, <2>1, <2>2, CameFinite DEF Referring
  <2>4. Came(objects, o) # {}
    BY <1>0, <2>3, CameFinite
  <2> QED
    BY <2>4 DEF Came
<1>2. ASSUME NEW d \in DOMAIN objects, objects[d].kind = "result" PROVE objects[d].held
  <2>1. SUFFICES ASSUME ~objects[d].held PROVE FALSE
    OBVIOUS
  <2>2. PICK e \in DOMAIN objects \ {Handle} : objects[e].of = d
    BY <1>1, <2>1
  <2>3. ObjectOK(objects, e) /\ ObjectOK(objects, d)
    BY <1>0 DEF Shape
  <2> QED
    BY <1>2, <2>2, <2>3 DEF ObjectOK
<1>3. ASSUME NEW s \in Structures(objects)
      PROVE  \E o \in DOMAIN objects : objects[o].held /\ s \in Reads(o)
  <2>1. s \in DOMAIN objects /\ objects[s].kind \in {"handle", "search", "results"}
    BY DEF Structures
  <2>2. CASE objects[s].held
    BY <2>1, <2>2 DEF Reads
  <2>3. CASE ~objects[s].held
    <3>1. PICK c \in DOMAIN objects \ {Handle} : objects[c].of = s
      BY <1>1, <2>1, <2>3
    <3>2. CASE objects[c].held
      BY <3>1, <3>2 DEF Reads
    <3>3. CASE ~objects[c].held
      <4>1. PICK d \in DOMAIN objects \ {Handle} : objects[d].of = c
        BY <1>1, <3>1, <3>3
      <4>2. ObjectOK(objects, d) /\ ObjectOK(objects, c)
        BY <1>0 DEF Shape
      <4>3. objects[d].kind = "result" /\ objects[c].of = Handle
        BY <3>1, <4>1, <4>2 DEF ObjectOK
      <4> QED
        BY <1>2, <3>1, <4>3 DEF Reads
    <3> QED
      BY <3>2, <3>3
  <2> QED
    BY <2>2, <2>3
<1>4. ASSUME NEW o \in DOMAIN objects, NEW s \in Reads(o)
      PROVE  s \in Structures(objects)
  <2>1. ObjectOK(objects, o) /\ Handle \in DOMAIN objects /\ ObjectOK(objects, Handle)
    BY <1>0, OriginIn DEF Shape
  <2> QED
    BY <2>1 DEF Reads, Structures, ObjectOK
<1> QED
  BY <1>0, <1>3, <1>4 DEF MemoryExact

(* Whatever is searched for and in whatever order the variables of a       *)
(* program go out of scope, memory is exactly what the others still read,  *)
(* and results that are compared have the same keys in all indexes         *)
(* (search.c and perl/API.xs).                                             *)
THEOREM ObjectsUsableAlways == LibSpec => []ObjectsUsable
<1>1. LibInit => LibInv
  <2> SUFFICES ASSUME LibInit PROVE LibInv
    OBVIOUS
  <2>1. DOMAIN objects = {} /\ memory = {}
    BY DEF LibInit
  <2> QED
    BY <2>1, FS_EmptySet DEF LibInv, Counted, Structures, KeysComparable, Held
<1>2. LibInv /\ [LibNext]_libVars => LibInv'
  BY LibStep
<1>3. LibInv => ObjectsUsable
  BY MemoryIs DEF LibInv, ObjectsUsable
<1> QED
  BY <1>1, <1>2, <1>3, PTL DEF LibSpec
=============================================================================
