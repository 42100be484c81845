------------------------------- MODULE Parser -------------------------------
(***************************************************************************)
(* The HTML and XML parser (parser.c): what its handlers do with the       *)
(* events of libxml2, which calls them for the start and end of elements,  *)
(* for text and for comments, and stops at an error.                       *)
(*                                                                         *)
(* Text is collected in a buffer and flushed - indexed, and added to       *)
(* properties - when a tag or a space shows that a word has ended.  What   *)
(* the words of the buffer belong to is read from stacks and counters that *)
(* the tags change, at the time of the flush.                              *)
(*                                                                         *)
(* Text is a sequence of pieces of words, which are numbers, and spaces.   *)
(* Left out: attributes, which are start tag, text and end tag again,      *)
(* links, StoreDescription, and the structure bits but that of emphasis.   *)
(***************************************************************************)
EXTENDS Integers, Sequences, FiniteSets

CONSTANTS
  MetaTags, PropTags,     \* MetaNames and PropertyNames
  IgnoreTags,             \* IgnoreMetaTags
  EmphasisTags,           \* b, em, i, strong
  BlockTags,              \* tags of HTML that are not inline
  Settings,               \* how documents may be parsed: see below
  BufferSize,             \* BUFFER_CHUNK_SIZE
  MaxEvents               \* bound: events of a document

VARIABLES
  set,      \* [html, noContents, undefined, tags]: a member of Settings
  data,     \* parse_data
  open,     \* elements libxml2 has open, the outermost first
  said,     \* history: where every piece of text was met
  events,   \* events so far
  ends,     \* of them, ends of elements that bound phrases
  parsed    \* parse_chunks has returned

parserVars == <<set, data, open, said, events, ends, parsed>>

Space == 0
Path == -1      \* the words of fprop->real_path

(* check_html_tag's answer: libxml2 knows the tag.                         *)
HtmlTag(t) == set.html /\ t \in EmphasisTags \cup BlockTags

(* The elements that are to keep phrases from going on past them: those    *)
(* with a name of the configuration, and the blocks of HTML.               *)
Bounding(t) == t \in MetaTags \cup PropTags \cup IgnoreTags \/ (set.html /\ t \in BlockTags \cup {"title"})

Title == "title"
Title1(t) == t = Title /\ set.html

ParserInit ==
  /\ set \in Settings
  /\ data = [metaStack |-> <<>>, propStack |-> <<>>,
             metaIgnore |-> IF set.noContents THEN 1 ELSE 0,
             propIgnore |-> IF set.noContents THEN 1 ELSE 0,
             titleIn |-> 0, emphasis |-> 0, flushWord |-> FALSE,
             buffer |-> <<>>, position |-> 1, noindex |-> 0,
             words |-> <<>>, texts |-> [p \in PropTags |-> <<>>], abort |-> 0]
  /\ open = <<>> /\ said = <<>> /\ events = 0 /\ ends = 0
  /\ parsed = FALSE

-----------------------------------------------------------------------------
(* flush_buffer.                                                           *)

(* build_metaID_list: the metanames whose in_tag is set.                   *)
MetaIDs(d) ==
  LET metas == {d.metaStack[i].tag : i \in {j \in DOMAIN d.metaStack : d.metaStack[j].meta}}
                 \cup (IF d.titleIn > 0 THEN {"swishtitle", "swishdefault"} ELSE {})
  IN  IF metas = {} THEN {"swishdefault"} ELSE metas

Pieces(text) == SelectSeq(text, LAMBDA c : c # Space)

(* indexstring: the words of a text, with positions that go on.            *)
WordsIn(text, d) ==
  LET first == {i \in DOMAIN text : text[i] # Space /\ (i = 1 \/ text[i - 1] = Space)}
      nth(k) == CHOOSE i \in first : Cardinality({j \in first : j <= i}) = k
      end(i) == CHOOSE j \in i..Len(text) :
                  /\ \A k \in i..j : text[k] # Space
                  /\ j = Len(text) \/ text[j + 1] = Space
  IN  [k \in 1..Cardinality(first) |->
         [pieces |-> SubSeq(text, nth(k), end(nth(k))),
          metas |-> MetaIDs(d), emphasized |-> d.emphasis > 0,
          position |-> d.position + k - 1]]

(* How much of the buffer is flushed: all, or up to the last space, or     *)
(* nothing of a single word, unless it fills the buffer.                   *)
FlushedTo(d, clear) ==
  LET length == Len(d.buffer)
      spaces == {i \in 1..length : d.buffer[i] = Space}
  IN  IF clear \/ length = 0 THEN length
      ELSE IF spaces # {} THEN CHOOSE i \in spaces : \A j \in spaces : j <= i
      ELSE IF length < BufferSize THEN 0 ELSE length

AddWords(d, new) == [d EXCEPT !.words = @ \o new, !.position = @ + Len(new)]
AddTexts(d, text) ==
  LET inProp == {d.propStack[i].tag :
                   i \in {j \in DOMAIN d.propStack : d.propStack[j].meta}}
  IN  [d EXCEPT !.texts = [p \in PropTags |->
                             IF p \in inProp THEN @[p] \o Pieces(text) ELSE @[p]]]
Flushed(d, cut) ==
  LET text == SubSeq(d.buffer, 1, cut)
      indexed == AddWords(d, IF d.metaIgnore > 0 THEN <<>> ELSE WordsIn(text, d))
  IN  [AddTexts(indexed, text) EXCEPT !.buffer = SubSeq(@, cut + 1, Len(@))]
FlushBuffer(d, clear) == Flushed(d, FlushedTo(d, clear))

-----------------------------------------------------------------------------
(* The stacks.                                                             *)

Bump(d) == [d EXCEPT !.position = @ + 1]

(* push_stack on each of the stacks.                                       *)
PushMeta(d, t, meta, ignore) ==
  [d EXCEPT !.metaStack = Append(@, [tag |-> t, meta |-> meta]),
            !.metaIgnore = @ + (IF ignore THEN 1 ELSE 0)]
PushProp(d, t, prop, ignore) ==
  [d EXCEPT !.propStack = Append(@, [tag |-> t, meta |-> prop]),
            !.propIgnore = @ + (IF ignore THEN 1 ELSE 0)]

OnTop(stack, t) == stack # <<>> /\ stack[Len(stack)].tag = t
Popped(stack) == SubSeq(stack, 1, Len(stack) - 1)
Ignoring(stack) == IF stack[Len(stack)].meta THEN 0 ELSE 1

(* Slip: the tag is taken from the stack before the text in it is flushed. *)
PopMetaFirst(d, t) ==
  IF ~OnTop(d.metaStack, t) THEN d
  ELSE FlushBuffer([d EXCEPT !.metaIgnore = @ - Ignoring(d.metaStack),
                             !.metaStack = Popped(@)], TRUE)

(* pop_stack_ifMatch.                                                      *)
PopMeta(d, t) ==
  IF ~OnTop(d.metaStack, t) THEN d
  ELSE [FlushBuffer(d, TRUE) EXCEPT !.metaIgnore = @ - Ignoring(d.metaStack),
                                    !.metaStack = Popped(@)]
PopProp(d, t) ==
  IF ~OnTop(d.propStack, t) THEN d
  ELSE [FlushBuffer(d, TRUE) EXCEPT !.propIgnore = @ - Ignoring(d.propStack),
                                    !.propStack = Popped(@)]

-----------------------------------------------------------------------------
(* Tags.                                                                   *)

(* UndefinedMetaTags ignore.                                               *)
Undefined(t) ==
  /\ set.undefined = "ignore" /\ ~HtmlTag(t) /\ ~Title1(t)
  /\ t \notin MetaTags \cup IgnoreTags

(* start_metaTag.  The position is bumped first, the text before the tag   *)
(* flushed then.                                                           *)
MetaPushed(d, t) ==
  IF t \in MetaTags THEN PushMeta(d, t, TRUE, FALSE)
  ELSE IF Undefined(t) THEN PushMeta(d, t, FALSE, TRUE)
  ELSE d
PropPushed(d, t) ==
  IF t \in PropTags THEN PushProp(FlushBuffer(d, TRUE), t, TRUE, FALSE) ELSE d
StartMetaTag(d, t, html) ==
  LET bumped == IF html THEN d ELSE Bump(d)
      flushed == IF html /\ t \notin MetaTags \cup IgnoreTags THEN bumped
                 ELSE FlushBuffer(bumped, TRUE)
  IN  IF t \in IgnoreTags THEN PushProp(PushMeta(flushed, t, FALSE, TRUE), t, FALSE, TRUE)
      ELSE PropPushed(MetaPushed(flushed, t), t)

EndMetaTag(d, t, html) ==
  LET popped == PopProp(PopMeta(d, t), t)
  IN  IF html THEN popped ELSE FlushBuffer(Bump(popped), TRUE)

(* The emphasis branch of check_html_tag: text up to the last space is     *)
(* flushed; with a piece of a word left, the end is put off to the next    *)
(* space.                                                                  *)
Emphasized(d, start) ==
  IF start THEN [d EXCEPT !.emphasis = @ + 1]
  ELSE IF d.buffer # <<>> THEN [d EXCEPT !.flushWord = TRUE]
  ELSE [d EXCEPT !.emphasis = @ - 1]
Emphasis(d, start) == Emphasized(FlushBuffer(d, FALSE), start)

(* The title branch.  Of a document without contents the title is indexed, *)
(* and no more is read.  refused: FileRules title matches.                 *)
TitleTag(d, start, refused) ==
  LET shown == IF ~set.noContents THEN d
               ELSE IF start THEN [d EXCEPT !.metaIgnore = @ - 1]
               ELSE [d EXCEPT !.abort = 1]
  IN  IF ~start /\ refused THEN [d EXCEPT !.abort = -2]
      ELSE Bump([FlushBuffer(shown, TRUE) EXCEPT !.titleIn = @ + (IF start THEN 1 ELSE -1)])

(* check_html_tag.  Without a title, a document without contents is read   *)
(* to the end of its head.                                                 *)
CheckHtmlTag(d, t, start, refused) ==
  IF Title1(t)
  THEN IF ~start /\ refused THEN TitleTag(d, start, refused)
       ELSE Bump(FlushBuffer(TitleTag(d, start, refused), TRUE))
  ELSE IF t \in EmphasisTags THEN Emphasis(d, start)
  ELSE IF t \in BlockTags
  THEN [Bump(FlushBuffer(d, TRUE)) EXCEPT
          !.abort = IF t = "head" /\ ~start /\ set.noContents THEN 1 ELSE @]
  ELSE d

-----------------------------------------------------------------------------
(* The handlers libxml2 calls.                                             *)

OpenTags == {open[i] : i \in DOMAIN open}

Event ==
  /\ ~parsed /\ data.abort = 0 /\ events < MaxEvents
  /\ events' = events + 1
  /\ UNCHANGED <<set, parsed>>

(* start_hndl.  A title does not stand in a title.                         *)
StartHndl(t) ==
  /\ Event
  /\ t = Title => Title \notin OpenTags
  /\ open' = Append(open, t)
  /\ data' = IF data.noindex > 0 THEN data
             ELSE IF set.html
             THEN StartMetaTag(CheckHtmlTag(data, t, TRUE, FALSE), t, HtmlTag(t) \/ Title1(t))
             ELSE StartMetaTag(data, t, FALSE)
  /\ UNCHANGED <<said, ends>>

(* end_hndl.  Noindex ends within the element it began in.                 *)
EndHndl ==
  /\ Event
  /\ open # <<>> /\ open[Len(open)] # "noindex"
  /\ open' = Popped(open)
  /\ LET t == open[Len(open)]
     IN  /\ \E refused \in BOOLEAN :
             data' = IF data.noindex > 0 THEN data
                   ELSE IF set.html
                   THEN EndMetaTag(CheckHtmlTag(data, t, FALSE, refused), t, HtmlTag(t) \/ Title1(t))
                   ELSE EndMetaTag(data, t, FALSE)
         /\ ends' = IF Bounding(t) /\ data.noindex = 0 THEN ends + 1 ELSE ends
  /\ UNCHANGED said

(* Where the text met now stands.                                          *)
Context ==
  LET metas == (OpenTags \cap MetaTags)
                 \cup (IF Title \in OpenTags THEN {"swishtitle", "swishdefault"} ELSE {})
      hidden == \/ OpenTags \cap (IgnoreTags \cup {"noindex"}) # {}
                \/ set.noContents /\ Title \notin OpenTags
  IN  [metas |-> IF metas = {} THEN {"swishdefault"} ELSE metas,
       props |-> IF hidden THEN {} ELSE OpenTags \cap PropTags,
       ignored |-> hidden \/ \E t \in OpenTags : Undefined(t),
       ends |-> ends]

(* The buffer takes text, making room first.                               *)
AppendBuffer(d, text) ==
  LET room == IF Len(d.buffer) + Len(text) >= BufferSize
              THEN FlushBuffer(d, FALSE) ELSE d
  IN  [room EXCEPT !.buffer = @ \o text]

(* A space ends the word that emphasis was prolonged for.                  *)
EndEmphasis(d, text, i) ==
  LET word == FlushBuffer(AppendBuffer(d, SubSeq(text, 1, i - 1)), TRUE)
  IN  [word EXCEPT !.emphasis = @ - 1, !.flushWord = FALSE,
                   !.buffer = SubSeq(text, i, Len(text))]

(* char_hndl, called with a space, a piece of a word, or both.             *)
CharHndl(text) ==
  /\ Event
  /\ said' = IF Pieces(text) = <<>> THEN said ELSE Append(said, Context)
  /\ data' = IF data.noindex > 0 \/ (data.metaIgnore > 0 /\ data.propIgnore > 0)
             THEN data
             ELSE IF data.flushWord /\ Space \in {text[i] : i \in DOMAIN text}
             THEN EndEmphasis(data, text, IF text[1] = Space THEN 1 ELSE 2)
             ELSE AppendBuffer(data, text)
  /\ UNCHANGED <<open, ends>>

(* comment_hndl: noindex and index.                                        *)
CommentHndl ==
  /\ Event
  /\ IF open # <<>> /\ open[Len(open)] = "noindex"
     THEN open' = Popped(open) /\ data' = [data EXCEPT !.noindex = @ - 1]
     ELSE open' = Append(open, "noindex") /\ data' = [data EXCEPT !.noindex = @ + 1]
  /\ UNCHANGED <<said, ends>>

(* The end of parse_chunks: no more is read, libxml2 has met an error, or  *)
(* a handler has stopped it; the HTML parser closes all elements first.  A *)
(* document without contents that gave no words is indexed by its path;    *)
(* what is in the buffer is flushed.                                       *)
Finish ==
  /\ ~parsed /\ parsed' = TRUE
  /\ set.html /\ data.abort = 0 => OpenTags \subseteq {"noindex"}
  /\ LET path == IF set.noContents /\ data.words = <<>>
                 THEN FlushBuffer([data EXCEPT !.buffer = @ \o <<Path>>, !.metaIgnore = 0], TRUE)
                 ELSE data
     IN  data' = IF data.abort = 0 THEN FlushBuffer(path, TRUE) ELSE path
  /\ UNCHANGED <<set, open, said, events, ends>>

TextChunks(k) == {<<Space>>, <<k>>, <<k, Space>>, <<Space, k>>}

ParserNext ==
  \/ \E t \in set.tags : StartHndl(t)
  \/ EndHndl
  \/ \E text \in TextChunks(Len(said) + 1) : CharHndl(text)
  \/ CommentHndl
  \/ Finish

ParserSpec == ParserInit /\ [][ParserNext]_parserVars

-----------------------------------------------------------------------------
(* Properties.                                                             *)

PiecesOf(words) ==
  LET upTo[k \in 0..Len(words)] ==
        IF k = 0 THEN <<>> ELSE upTo[k - 1] \o words[k].pieces
  IN  upTo[Len(words)]

Indexed == {data.words[k] : k \in DOMAIN data.words}
Met(w) == {said[p] : p \in {w.pieces[i] : i \in DOMAIN w.pieces} \ {Path}}

(* Every word is indexed under the metanames of the elements that all its  *)
(* pieces stand in, and no word that is to be ignored is indexed: however  *)
(* elements nest and whichever event the text waited for in the buffer.    *)
WordsInContext ==
  \A w \in Indexed : \A c \in Met(w) : ~c.ignored /\ c.metas = w.metas

(* When the document has been read, all the text that was not to be        *)
(* ignored has been indexed once and in order, and every property has the  *)
(* text of its elements: nothing is left in the buffer or flushed twice.   *)
(* A document without contents has its title, or its path.                 *)
Kept(p) == ~said[p].ignored
NothingLost ==
  parsed /\ data.abort >= 0 =>
    LET all == SelectSeq([p \in DOMAIN said |-> p], Kept)
    IN  /\ PiecesOf(data.words) =
             IF set.noContents /\ all = <<>> THEN <<Path>> ELSE all
        /\ \A prop \in PropTags :
             SelectSeq(data.texts[prop], LAMBDA p : p # Path) =
               SelectSeq([p \in DOMAIN said |-> p], LAMBDA p : prop \in said[p].props)

(* Every piece of text ends up in the right words and properties.          *)
TextIndexed == WordsInContext /\ NothingLost

(* Two words that follow each other.                                       *)
Adjacent(v, w) ==
  w.position = v.position + 1 /\ v.metas \cap w.metas # {}
LastPiece(w) == said[w.pieces[Len(w.pieces)]]
FirstPiece(w) == said[w.pieces[1]]
BesidePath(v, w) == Path \in {v.pieces[1], w.pieces[1]}

(* No phrase matches over the end of an element that bounds phrases, of    *)
(* those that are not left out by noindex.                                 *)
PhrasesEnd ==
  \A v, w \in Indexed :
    Adjacent(v, w) /\ ~BesidePath(v, w) => LastPiece(v).ends = FirstPiece(w).ends

(* Every word is indexed where it stands, and phrases end where they should. *)
WordsPlaced == TextIndexed /\ PhrasesEnd

=============================================================================
