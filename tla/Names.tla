-------------------------------- MODULE Names --------------------------------
(***************************************************************************)
(* The names of an index and the other settings of its header              *)
(* (metanames.c, parse_conffile.c, swish2.c, write_header of db_write.c,   *)
(* read_header of db_read.c): directives give metanames and properties an  *)
(* entry, an alias or attributes, documents look them up, and the table is *)
(* written at the end of a session, read by searches, and read into the    *)
(* place of the configured one by a session that updates the index.        *)
(*                                                                         *)
(* A name stands for itself in lower case; directives with several names   *)
(* are several directives.  Left out: strings that only are shown (names   *)
(* and descriptions of the index), and counters (module UpdateMode).       *)
(***************************************************************************)
EXTENDS Integers, Sequences, FiniteSets, FiniteSetsExt, Functions

CONSTANTS
  Given,         \* the names directives and documents use
  Kept,          \* settings the header on disk holds
  Unstored,      \* settings it does not: IgnoreNumberChars, UseWords, ...
  Lists,         \* those that are tables of words, which grow
  Values,        \* of a setting; members of a list
  Lengths,       \* for sort keys and properties
  Biases,        \* of ranks
  BiasRange,     \* RANK_BIAS_RANGE
  MaxFirst,      \* directives of the session that builds the index
  MaxLater,      \* and of one that updates it
  MaxIndexings,
  LinkSessions,  \* the sessions whose configuration may name HTMLLinksMetaName
  Documents      \* the elements of a document, in order

ASSUME NamesAssumption ==
  /\ "nobody" \notin Given
  /\ Lengths \subseteq Nat /\ Biases \subseteq Int /\ BiasRange \in Nat
  /\ Documents \subseteq Seq(Given)

VARIABLES
  names,      \* header.metaEntryArray
  settings,   \* the settings of the header
  disk,       \* the header in the index file; <<>>: there is none
  stage,      \* "config", "index", "idle" or "refused" (progerr)
  session,    \* their number
  left,       \* directives, or documents, that may still come
  links,      \* sw->links_meta: the name, and whether its entry is still there
  stands,     \* history: the name that each name is said to stand for
  used,       \* history: what was stored in the index, and under which entry
  cut         \* history: the settings words were cut with

namesVars == <<names, settings, disk, stage, session, left, links, stands, used, cut>>

EntryKinds == {"index", "prop"}
Nobody == "nobody"
NoLinks == <<>>    \* a null pointer
MaxSortLen == 100  \* MAX_SORT_STRING_LEN

----------------------------------------------------------------------------
(* The table.                                                              *)

FullEntry(n, id, type, alias, sortLen, maxLen, bias) ==
  [name |-> n, id |-> id, type |-> type, alias |-> alias,
   sortLen |-> sortLen, maxLen |-> maxLen, bias |-> bias]

AliasEntry(n, type, id, of) == FullEntry(n, id, type, of, MaxSortLen, 0, 0)

Entry(n, type, id) == AliasEntry(n, type, id, 0)

With(e, field, v) ==
  FullEntry(e.name, e.id, IF field = "type" THEN v ELSE e.type, e.alias,
            IF field = "sortLen" THEN v ELSE e.sortLen,
            IF field = "maxLen" THEN v ELSE e.maxLen,
            IF field = "bias" THEN v ELSE e.bias)

\* addMetaEntry: appended, with the number of its place.
Add(table, n, type) == Append(table, Entry(n, type, Len(table) + 1))

\* One of each kind of those in SwishDefaultMetaNames.
DefaultEntries ==
  << <<"swishdefault", {"index"}>>,
     <<"swishreccount", {"prop", "internal", "number"}>>,
     <<"swishdocpath", {"prop", "string"}>>,
     <<"swishtitle", {"prop", "string", "ignorecase"}>> >>

Defaults == [i \in 1..Len(DefaultEntries) |-> Entry(DefaultEntries[i][1], DefaultEntries[i][2], i)]

\* The first of some places in the table, and 0 if there is none.
FirstOf(places) == IF places = {} THEN 0 ELSE Min(places)

NoAlias(table, kind, n) == FirstOf({i \in DOMAIN table : kind \in table[i].type /\ table[i].name = n})
ById(table, kind, id) == FirstOf({i \in DOMAIN table : kind \in table[i].type /\ table[i].id = id})

\* An alias has to have the type asked for, and so has what it stands for.
ByName(table, kind, n) ==
  LET i == NoAlias(table, kind, n)
  IN IF i # 0 /\ table[i].alias # 0 THEN ById(table, kind, table[i].alias) ELSE i

Real(e) == "prop" \in e.type /\ e.alias = 0 /\ "internal" \notin e.type

\* init_property_list: where a document's record has the position of a property.
Place(table, id) == Cardinality({i \in DOMAIN table : Real(table[i]) /\ table[i].id < id})

\* meta_entries_for_index: the list of the library; aliases of properties are
\* among the metanames.
Listed(table, props) ==
  {table[i] : i \in {j \in DOMAIN table : ("prop" \in table[j].type /\ table[j].alias = 0) <=> props}}

----------------------------------------------------------------------------
(* The header in the index file.                                           *)

\* As before sort_len was written.
WrittenShort(table) ==
  [i \in DOMAIN table |->
    [name |-> table[i].name, id |-> table[i].id, type |-> table[i].type,
     alias |-> table[i].alias + 1, sortLen |-> MaxSortLen, bias |-> table[i].bias + BiasRange + 1]]

\* write_MetaNames: numbers are moved away from zero; max_len is not written.
Written(table) ==
  [i \in DOMAIN table |->
    [name |-> table[i].name, id |-> table[i].id, type |-> table[i].type,
     alias |-> table[i].alias + 1, sortLen |-> table[i].sortLen,
     bias |-> table[i].bias + BiasRange + 1]]

\* parse_MetaNames_from_buffer, into an empty table.
ReadNames(written) ==
  [i \in DOMAIN written |->
    FullEntry(written[i].name, written[i].id, written[i].type, written[i].alias - 1,
              written[i].sortLen, 0, written[i].bias - BiasRange - 1)]

\* write_header: an empty list is not written.
HeaderOf(table, set) ==
  [names |-> Written(table),
   settings |-> Restrict(set, {s \in Kept : s \in Lists => set[s] # {}})]

\* read_header: lists are added to what the table has, other settings replaced.
ReadSettings(set, header) ==
  [s \in DOMAIN set |->
    IF s \notin DOMAIN header.settings THEN set[s]
    ELSE IF s \in Lists THEN set[s] \cup header.settings[s]
    ELSE header.settings[s]]

\* init_header.
DefaultSettings == [s \in Kept \cup Unstored |-> IF s \in Lists THEN {} ELSE Min(Values)]

\* What a search has: addindexfile, and then read_header.
SearchNames == ReadNames(disk.names)
SearchSettings == ReadSettings(DefaultSettings, disk)

----------------------------------------------------------------------------
NamesInit ==
  /\ names = Defaults /\ settings = DefaultSettings /\ disk = <<>>
  /\ stage = "config" /\ session = 1 /\ left = MaxFirst /\ links = NoLinks
  /\ stands = [k \in EntryKinds \X Given |-> IF ByName(Defaults, k[1], k[2]) # 0 THEN k[2] ELSE Nobody]
  /\ used = {} /\ cut = {}

(* Directives.  In a session that updates an index, what they say of names *)
(* is replaced later.                                                      *)

Directive == stage = "config" /\ left > 0 /\ left' = left - 1

Refuse ==
  /\ stage' = "refused"
  /\ UNCHANGED <<names, settings, disk, session, links, stands, used, cut>>

Accept(table) ==
  /\ names' = table
  /\ UNCHANGED <<settings, disk, stage, session, used, cut>>

Says(kind, n, m) == stands' = IF session = 1 THEN [stands EXCEPT ![<<kind, n>>] = m] ELSE stands

\* Said for the first time, the name stands for itself.
SaysNew(kind, n) == Says(kind, n, IF stands[kind, n] = Nobody THEN n ELSE stands[kind, n])

\* Directives that create an entry, and want a new name.
Declare(kind, n, type) ==
  /\ Directive
  /\ IF ByName(names, kind, n) # 0 THEN Refuse
     ELSE Accept(Add(names, n, type)) /\ Says(kind, n, n) /\ UNCHANGED links

MetaNames(n) == Declare("index", n, {"index"})

PropertyNames(n, type) == Declare("prop", n, {"prop"} \cup type)

PropertyTypes == {{"string", "ignorecase"}, {"number"}, {"date"}}

\* MetaNameAlias and PropertyNameAlias: of what is no alias itself.
CanAlias(kind, b, n) ==
  LET i == NoAlias(names, kind, b)
  IN i # 0 /\ names[i].alias = 0 /\ NoAlias(names, kind, n) = 0

Alias(kind, b, n) ==
  /\ Directive
  /\ IF ~CanAlias(kind, b, n) THEN Refuse
     ELSE LET base == names[NoAlias(names, kind, b)]
          IN /\ Accept(Append(names, AliasEntry(n, base.type, Len(names) + 1, base.id)))
             /\ Says(kind, n, stands[kind, b])
             /\ UNCHANGED links

\* ExtractPath, ExtractPathDefault, ImageLinksMetaName: created if new.
MetaUsed(n) ==
  /\ Directive
  /\ IF ByName(names, "index", n) # 0 THEN Accept(names) ELSE Accept(Add(names, n, {"index"}))
  /\ SaysNew("index", n)
  /\ UNCHANGED links

\* HTMLLinksMetaName keeps a pointer to the entry.
HTMLLinksMetaName(n) ==
  /\ Directive
  /\ session \in LinkSessions
  /\ IF ByName(names, "index", n) # 0 THEN Accept(names) ELSE Accept(Add(names, n, {"index"}))
  /\ links' = [name |-> n, live |-> TRUE]
  /\ SaysNew("index", n)

\* MetaNamesRank, PropertyNamesMaxLength and PropertyNamesSortKeyLength: of
\* what is no alias, and of texts only; created if new.
Attribute(kind, n, type, field, v) ==
  /\ Directive
  /\ LET i == NoAlias(names, kind, n)
         table == IF i = 0 THEN Add(names, n, type) ELSE names
         j == NoAlias(table, kind, n)
     IN IF i # 0 /\ (names[i].alias # 0 \/ (kind = "prop" /\ "string" \notin names[i].type)) THEN Refuse
        ELSE /\ Accept([table EXCEPT ![j] = With(table[j], field, v)])
             /\ SaysNew(kind, n)
             /\ UNCHANGED links

MetaNamesRank(n, bias) == Attribute("index", n, {"index"}, "bias", bias)
PropertyNamesMaxLength(n, len) == Attribute("prop", n, {"prop", "string"}, "maxLen", len)
PropertyNamesSortKeyLength(n, len) == Attribute("prop", n, {"prop", "string"}, "sortLen", len)

\* PropertyNamesIgnoreCase, ...CompareCase, ...UseStrcoll, ...NoStripChars and
\* ...StripChars: of what the name stands for.
Flags ==
  {[flag |-> "ignorecase", on |-> TRUE,  new |-> {"prop", "string", "ignorecase"}],
   [flag |-> "ignorecase", on |-> FALSE, new |-> {"prop", "string"}],
   [flag |-> "strcoll",    on |-> TRUE,  new |-> {"prop", "string", "strcoll"}],
   [flag |-> "nostrip",    on |-> TRUE,  new |-> {"prop", "string", "ignorecase", "nostrip"}],
   [flag |-> "nostrip",    on |-> FALSE, new |-> {"prop", "string", "ignorecase"}]}

PropertyFlag(n, f) ==
  /\ Directive
  /\ LET i == ByName(names, "prop", n)
     IN IF i = 0 THEN Accept(Add(names, n, f.new)) /\ SaysNew("prop", n) /\ UNCHANGED links
        ELSE IF "string" \notin names[i].type THEN Refuse
        ELSE /\ LET type == IF f.on THEN names[i].type \cup {f.flag} ELSE names[i].type \ {f.flag}
                IN Accept([names EXCEPT ![i] = With(names[i], "type", type)])
             /\ SaysNew("prop", n)
             /\ UNCHANGED links

\* A value, or a word for a list (word_hash_config).
Setting(s, v) ==
  /\ Directive
  /\ settings' = [settings EXCEPT ![s] = IF s \in Lists THEN @ \cup {v} ELSE v]
  /\ UNCHANGED <<names, disk, stage, session, links, stands, used, cut>>

----------------------------------------------------------------------------
(* cmd_index: the configuration is read before the index is opened, which  *)
(* frees the configured entries if it is to be updated (open_single_index).*)

StartIndexing ==
  /\ stage = "config"
  /\ stage' = "index" /\ left' = 1
  /\ IF disk = <<>> THEN UNCHANGED <<names, settings, links>>
     ELSE /\ names' = ReadNames(disk.names)
          /\ settings' = ReadSettings(settings, disk)
          /\ links' = IF links = NoLinks THEN NoLinks ELSE [links EXCEPT !.live = FALSE]
  /\ UNCHANGED <<disk, session, stands, used, cut>>

\* What of an entry the index is bound to: words are under the number, the
\* value of a property in a place, in a form, and sorted by it.
Bound(table, kind, n, i) ==
  [kind |-> kind, name |-> n, id |-> table[i].id, type |-> table[i].type, bias |-> table[i].bias,
   sortLen |-> table[i].sortLen,
   place |-> IF kind = "prop" THEN Place(table, table[i].id) ELSE 0]

Stored(table, kind, n) ==
  LET i == ByName(table, kind, n)
  IN IF i = 0 \/ "internal" \in table[i].type THEN {} ELSE {Bound(table, kind, n, i)}

StoredBy(table, doc) == UNION {Stored(table, k, n) : k \in EntryKinds, n \in Range(doc)}

\* start_metaTag: UndefinedMetaTags auto makes an element a metaname.
AutoAdded(table, n) == IF ByName(table, "index", n) # 0 THEN table ELSE Add(table, n, {"index"})
AutoNames(table, doc) ==
  LET behind[i \in 0..Len(doc)] == IF i = 0 THEN table ELSE AutoAdded(behind[i - 1], doc[i])
  IN behind[Len(doc)]

\* extract_html_links: the words of a link are put under links_meta's number;
\* in memory that was freed, it may be that of any entry.
LinkIds ==
  IF links.live THEN {names[ByName(names, "index", links.name)].id} ELSE {names[i].id : i \in DOMAIN names}

LinkWords(id) ==
  {[kind |-> "link", name |-> links.name, id |-> id]}

NameDocument(doc, auto) ==
  /\ stage = "index" /\ left > 0 /\ left' = left - 1
  /\ names' = IF auto THEN AutoNames(names, doc) ELSE names
  /\ stands' = [k \in DOMAIN stands |->
       IF k[1] = "index" /\ ByName(names, k[1], k[2]) = 0 /\ ByName(names', k[1], k[2]) # 0
       THEN k[2] ELSE stands[k]]
  /\ \E words \in IF links = NoLinks THEN {{}} ELSE {LinkWords(id) : id \in LinkIds} :
       used' = used \cup words \cup StoredBy(names', doc)
  /\ cut' = cut \cup {Restrict(settings, Kept)}
  /\ UNCHANGED <<settings, disk, stage, session, links>>

\* write_header, and the next session's swish_new, addindexfile, ...
EndIndexing ==
  /\ stage = "index"
  /\ stage' = "idle"
  /\ disk' = HeaderOf(names, settings)
  /\ UNCHANGED <<names, settings, session, left, links, stands, used, cut>>

NextSession ==
  /\ stage = "idle" /\ session < MaxIndexings
  /\ stage' = "config" /\ session' = session + 1 /\ left' = MaxLater
  /\ names' = Defaults /\ settings' = DefaultSettings /\ links' = NoLinks
  /\ UNCHANGED <<disk, stands, used, cut>>

NamesNext ==
  \/ \E n \in Given :
       \/ MetaNames(n) \/ MetaUsed(n) \/ HTMLLinksMetaName(n)
       \/ \E type \in PropertyTypes : PropertyNames(n, type)
       \/ \E kind \in EntryKinds, b \in Given : Alias(kind, b, n)
       \/ \E bias \in Biases : MetaNamesRank(n, bias)
       \/ \E len \in Lengths : PropertyNamesMaxLength(n, len) \/ PropertyNamesSortKeyLength(n, len)
       \/ \E f \in Flags : PropertyFlag(n, f)
  \/ \E s \in Kept \cup Unstored, v \in Values : Setting(s, v)
  \/ StartIndexing
  \/ \E doc \in Documents, auto \in BOOLEAN : NameDocument(doc, auto)
  \/ EndIndexing
  \/ NextSession

NamesSpec == NamesInit /\ [][NamesNext]_namesVars

----------------------------------------------------------------------------
(* Properties.                                                             *)

\* What is stored in the index is found by it: a search that reads its header
\* resolves every name a document used to the number, the place and the form
\* of then, whatever aliases, automatic metanames and sessions came between,
\* names that mean the same and only they share a number, and the library
\* lists what is used.
NamesFound ==
  \A u \in {v \in used : v.kind \in EntryKinds} :
    /\ Stored(SearchNames, u.kind, u.name) = {u}
    /\ \A v \in {w \in used : w.kind \in EntryKinds} :
         (u.id = v.id) <=> (u.kind = v.kind /\ stands[u.kind, u.name] = stands[v.kind, v.name])
    /\ \E e \in Listed(SearchNames, u.kind = "prop") : e.id = u.id

\* Words are asked for with the settings they were cut with: a session that
\* updates the index takes them from its header, whatever it configures; the
\* lists of words only grow.
CutAsSearched ==
  \A c \in cut, s \in Kept :
    IF s \in Lists THEN c[s] \subseteq SearchSettings[s] ELSE c[s] = SearchSettings[s]

\* The header of a finished index agrees with all that is in the index.
HeaderAgrees == stage = "idle" => NamesFound /\ CutAsSearched

\* The words of links are found under the metaname HTMLLinksMetaName gives
\* them (SWISH-CONFIG), also those of documents that update the index.
LinksFound ==
  stage = "idle" =>
    \A u \in {v \in used : v.kind = "link"} :
      LET i == ByName(SearchNames, "index", u.name) IN i # 0 => SearchNames[i].id = u.id
=============================================================================
