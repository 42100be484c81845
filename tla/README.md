# Verification of swish-e 2.4.7 in TLA+

Swish-e collects documents from a file system, a web site or a program's output,
writes an index of their words, and answers searches from it. This directory
holds TLA+ models of it, the TLC configurations that check them on small
instances, and proofs that the TLA+ proof system checks for instances of every
size. The reference is the C code in `src/swish-e-2.4.7/src`; file names below
are relative to it, `pod/` is the documentation beside it. `PROJECT.json` gives
for every definition of a model the lines it stands for.

    tlc -workers 2 -config Storage.cfg MCStorage     # one run
    tlapm StorageProofs.tla                         # the proofs about one component

## 1. The system

### Components

| component | source | state it keeps | operations | what makes it correct |
|---|---|---|---|---|
| Index files | `db_native.c`, `swish2.c` | two files, or seven in the incremental format (`--enable-incremental`, `USE_BTREE`), each stamped with the build's `unique_ID` | create under `.temp` names, write, rename one by one, open read-write, open and compare stamps | a searcher never holds files of two builds; a crash leaves the old index usable |
| Incremental update | `index.c`, `swish.c`, `extprog.c`, `fhash.c` | file numbers, path hash, word-count array, header counters | `-u`, `-r`, `Update-Mode:` header, closing writes | one version of a path is shown; the counters agree with the files |
| Sources: files, web, programs | `fs.c`, `http.c`, `httpserver.c`, `extprog.c` | directories and files met, addresses to retrieve and met, robots rules, a stream | walk, follow, read | every document asked for, once; the stream in step |
| Parsers | `parser.c` | stacks of metanames and properties, a text buffer | start and end tags, text, flush | words go under the metanames open around them |
| Words | `index.c`, `swish_words.c` | header's tables of characters | cut a text, cut a query | a query asks for what its text was indexed as |
| Word table | `index.c`, `hash.c`, `compress.c` | hash chains of entries, locations, frequencies | `addentry`, end of document, `remove_last_file_from_list`, IgnoreLimit | the table is what the indexed documents gave, aborted ones leave no trace |
| Postings | `index.c`, `compress.c`, `db_write.c`, `search.c` | a word's data, packed | pack, coalesce, write, merge with the list in the index, read | a search reads what documents gave, in order |
| Native words | `db_native.c` | two-file format: words in order, chained by a hash | write, search, next | a word is found, and all that begin alike |
| B-tree | `btree.c` | pages on disk, pages in cache, root, the path of the last walk | insert, update, search, next, close | it is the map of what was put in it, in order |
| Word data file | `worddata.c` | pages of records, cache, free pages | put, get, delete, close | data stays under its id, pages do not overlap |
| Paged arrays | `array.c` | chains of pages of numbers | put, get, close | it is the array |
| Properties | `docprop.c`, `docprop_write.c` | values per document, a table of places | add, write, read | a property read is what documents gave |
| Presorted orders, limits | `pre_sort.c`, `proplimit.c`, `result_sort.c` | a rank per document and property | sort, binary search for `-L`, compare | the documents selected are those in range; the order is the one asked for |
| Query parser and evaluation | `swish_words.c`, `search.c` | a flat list of tokens, result lists | rewriting passes, recursive evaluation | the files found are those the query means |
| Ranking | `rank.c`, `search.c`, `result_sort.c` | tables of logarithms | rank, combine, scale | more of the words never ranks lower |
| Search, results, cursor | `search.c`, `result_sort.c` | a sorted list per index, a cursor each, the last error | execute, seek, next | the caller sees one sorted list |
| Library | `swish2.c`, `search.c`, `perl/API.xs` | handles, searches, results, names and their reference counts | make, use, drop | nothing is used that was freed |
| Names and header | `metanames.c`, `headers.c`, `db_read.c`, `db_write.c` | metanames, properties, aliases, settings | add, look up, write, read back | what a searcher and an update read is what was configured |
| Merge | `merge.c` | a place in every index, maps of file numbers and metanames | read in path order, add to a new index | the newest document of a path is kept, with its words |
| Commands | `swish.c`, `parse_conffile.c` | the work asked for | switches, directives, included files | what is done is what the line and the files say |
| String functions, output, memory | the rest | tables | parse, format | - |
| Vendored code | `expat/`, `snowball/`, `replace/`, `vms/` | - | - | left aside |

### How they interact

One process indexes: a source gives documents to `do_index_file` (`index.c`),
whose parser calls `addentry` for each word and may abort; the word table is
compressed document by document, written by `write_index` into word data and the
B-tree (or the native hash of words), and `DB_Close` renames the files. Other
processes search: `SwishInit` opens the files of one or more indexes,
`SwishExecute` parses and evaluates the query in each, and the caller reads
results through a cursor. The processes share nothing but the files. There are
no threads, no locks and no journal.

### What is hard

- *Interleaving.* Opens of a searcher between the renames of an indexer.
- *Crashes.* No write is atomic beyond a rename; update sessions change files in
  place, each file at its own time.
- *Undoing.* A parser that aborts after it added words; the file number it had
  is given out again.
- *Stale pointers and paths.* Cached pages freed, flushed and used again; a path
  from the root recorded before insertions above it change the tree; pointers
  into a header that is read again.
- *Rewriting in passes.* Passes over a flat token list, each relying on what
  earlier ones left.
- *Cycles.* Links between pages, directories and addresses; redirects.
- *Two readers of one language.* The indexer and the query parser cut words with
  functions of their own; writers and readers of a packed list.
- *Limits.* Page sizes, percentages, first and last elements, ends of lists.

The list with the line of each is `hazards` in `PROJECT.json`.

## 2. The modules

Every component has a module of its own, and where what it promises is simpler
than what it does, an abstract module that states the promise and is a property
of the detailed one (a refinement). `MC*` modules hold only the values of
constants. Because components share no variables, several are checked in one
run: its MC module has a variable `part` that says which one a behaviour is of,
and the others stay at an initial state. A definition marked *slip* is a
plausible mistake in the definition that follows it; nothing uses it, it
documents what the properties tell apart.

### Run `searching` (`MCSearching`)

- `IndexFiles`, `IndexStore`: the files of an index. The content of a file is
  the number of the build that wrote it. The indexer creates the files in the
  order of `DB_Create_Native` and renames them in the order of
  `DB_EndWriteWords_Native` and `DB_Close_Native`: word files first, the main
  file last. A searcher opens the published names in the order of
  `DB_Open_Native`, one per step, and compares stamps as `DB_CheckHeader` does.
  An accepted handle then reads the offsets, the roots and the header of the main
  file into memory (`read`; `db_native.c:635-650`) and never looks at them again,
  while a session may update the files in place under it: `ver` is the session
  whose changes a file has, `UpdateFile` the writes during a session, `CloseFile`
  those of `DB_EndWriteWords_Native` and `DB_Close_Native` at its end, file by
  file. `Crash` may come at every step of the indexer. `IndexStore` is the
  promise: an index replaced in one step.
- `Results`, `ResultCursor`: `SwishExecute` over the indexes with its
  bookkeeping of errors, any sorting that `swish_qsort` may do among equal keys,
  the merge while reading, and the cursor. `ResultCursor` is the promise: one
  list, best first, and a position in it.
- `PropertyLimits`: limits collected, made into tables by binary searches over
  the order of the documents, used for several executions, and reset.
- `Sorting`: the tables of `pre_sort.c`, `swish_qsort` itself, and the
  comparison of results by several keys, with and without tables.
- `Ranking`: both schemes in the integers of the code, with what operators and
  the scaling of results make of them.
- `Query`: one action per pass over the token list, then `parseterm` as a
  recursive operator over lists of files with positions. `MCQuery` builds
  queries together with their meaning, so that the expected answer does not come
  from a second parser.

### Run `program` (`MCProgram`)

- `UpdateMode`, `DocumentStore`: `disk` is the index as the next process would
  open it, `mem` as the session sees it. `IndexDocument` is `do_index_file` with
  `check_for_replace`: look the path up, compare dates, remove the old version,
  and only then parse the new one, which may fail. The closing writes reach the
  disk in the order the code and its stdio buffers allow; `Crash` may come
  between them. `DocumentStore` is the promise: one version of each path.
- `Words`: the indexer's and the query's functions that cut words, with
  wildcards, buzzwords, UseWords, stop words and stemmed words.
- `Library`: objects of the C library and their Perl wrappers with reference
  counts; any order of making and dropping; errors, sort keys and limits. A
  search whose sort keys were lost when their table grew reads a null pointer,
  and the process is gone (`crashed`).
- `Names`: metanames, properties and settings from configuration to header to
  the session that updates the index and to the searcher.
- `Commands`: switches, the mode they select, conflicts, configuration files.

### Run `indexing` (`MCIndexing`)

- `Spider`, `FileSystem`, `ExternalProgram`, composed in `Sources` by the method
  table of `methods.c`: the three ways documents come in.
- `Parser`: the handlers that libxml2 calls, the stacks, the buffer.
- `WordTable`: hash chains with `getentry`'s insertion at the head, uncompressed
  locations of the document being parsed, chunks of compressed ones, and with
  option `-e` (`swap_locdata`) coalesced ones in a file, of which an entry keeps
  no trace. `Walk` is `remove_last_file_from_list` along a chain, `NoOther` its
  test for an entry without other locations, `WriteTable` IgnoreLimit.
- `Postings`: one word's data from `addentry` to `getfileinfo`, byte by byte but
  for the offsets: packed locations, blocks, swap files, sessions.
- `Merge`: `merge.c` with its maps.

### Run `storage` (`MCStorage`)

- `WordData`, `IdStore`: `worddata.c` with bytes counted in blocks. The counts of
  blocks and records in a page's header go through the `Set` macros when a page is
  written and through `Get` when it is read (`Flushed`, `ReadBack`): with a `long`
  of four bytes (`LongBytes`, as in `storage`) they come back, with one of eight
  (`storage_wide`) as 0. `IdStore` is the promise: what is put under an id stays
  until it is deleted.
- `BTree`, `WordMap`: keys are numbers with lengths. The recursive
  `BTREE_InsertInPage` is the sequence `calls` of invocations still to be made;
  `path` is `b->tree`. `WordMap` is the promise: a map.
- `PagedArray`: two arrays in one file, as word data and properties have them.
- `Properties`: values as documents give them, their places, both formats.
- `NativeWords`: the words of the two-file format: `offsets`, the chains of the
  hash table, their data, and the two ways to read them.

## 3. What the runs check

| run | part | question | bounds, and why they are enough |
|---|---|---|---|
| `searching` | files | Is a searcher ever given files of two builds, or refused without having met a rename? Does what a handle has in memory fit the files it reads? Do started builds and opens end? | Seven files, one searcher (searchers never change what another sees), two builds (a mix needs two), one update in place, two seconds, crashes at every step. |
| | results | Does the caller see one sorted list, an exact record number, and an error that does not depend on the order of the indexes? | Two indexes of three files with keys that tie within and between them, any outcome in each. |
| | limits | Do limits let through the files in their ranges, over any sequence of set, execute, reset? | All indexes of three documents with values 0 to 3, ordered ones up to five, two indexes; two limits. |
| | sorting | Is the order the one asked for, whichever properties have tables? | Two indexes searched twice with two keys each; six and eight documents with the thresholds of `swish_qsort` scaled from 7, 7 and 40 to 3, 3 and 7, so that every pivot is chosen. |
| | query | Do queries find what they mean, and do all lists end in the right error? | 10,000 well-formed queries up to three terms with groups, phrases, near, wildcards, metanames and stop words; all lists up to four tokens. Twenty files tell the atoms apart. |
| | ranking | Does a file with more of the words, or all of them, rank no lower? | Three files, 64 patterns of occurrences by length, bias, scheme and IgnoreTotalWordCount; chains of three words; the cap of 100 occurrences scaled to 3; an `int` of 30 bits, logarithms exact at powers of two. |
| `program` | update | Is the index the store of documents that dates and modes say, after any sessions? | Two paths, dates 0 to 2 (none, old, new), four file numbers, three sessions (one lost, one that reuses its numbers, one that looks), one crash. |
| | words | Does a query with a text ask for what the text was indexed as? | All texts up to four characters of two letters, an ignored one, a separator and a blank, and 31 chosen ones; six headers. |
| | library | Is anything used after it was freed, or kept for ever; is the error of the last call reported? | A handle and three objects: a search, its results, one result; two indexes. |
| | names | Do a searcher and an update read the names and settings that were configured? | Three names, two directives in the first session, one in the next. |
| | command | Is what is done what the line says? | Four words of ten switches, three lines of files, includes two deep. |
| `indexing` | sources | Every document once; do the sources end? | Five pages with all links of up to two, redirects and equivalent servers, a web of seven with pages at two depths, every robots.txt of four lines; three directories with links and hard links in all places, rules; two documents of a program that deviate in up to two respects, those that bring the stream out of step included. |
| | parser | Are words under the metanames, and in the properties, around them? | Six sets of settings and tags, five events, a buffer of three. |
| | table | Is the table what the kept documents gave, whichever are aborted? | Three words in one chain (one before, one unlinked, one behind), two metanames, three documents, chunks of three and earlier coalescings, with and without `-e`. |
| | postings | Does a search read what documents gave, over three sessions? | Five texts that reach every packed form, 126 documents before the first (numbers of one and of two bytes), blocks of two. |
| | merge | Does the merged index show the newest of each path? | Three indexes of two, two and one documents, and those refused. |
| `storage` | data | Does every record stay under its id, through flushes and reopening? | Three pages of two blocks, a cache of two: pages emptied, used again as part of a big record, and back. |
| | tree | Is the tree the map of what was put in it? | Six keys in every order, three or four to a page: three levels. |
| | array | Does each element keep its value? | Two arrays of two slots a page, elements in the first three pages of a chain. |
| | properties | Is a property read what the document gave? | Two documents, a date and a string, three texts, two sessions. |
| | words | Are words found, and those that begin alike? | Every subset of five words in two chains. |

`Deepening = FALSE` in `storage` cuts off insertions that come to the finding
`btree_first_key`; `TreeSound` holds of all the others. In `program` the kind of
document of `update_mode_bare` is left out, and in `searching` the queries of
`query_not_group`. `storage` takes `long` and `off_t` of four bytes.

Deadlock is not checked where bounds let everything stop; each configuration
says so.

Safety needs no fairness. `SearchingSpec` takes the `Fairness` of `IndexFiles`:
a process that has begun to create, write, rename, close or open goes on with its
next call (weak fairness of each); so does one that updates in place, which runs
out of documents. These are straight sequences of calls that wait
for nobody, under any scheduler that lets each process run. `SourcesSpec` has
weak fairness of `IndexPath`, the loop that reads documents while there are any.
Nothing is assumed about starting a build, an update or an open, about closing a
searcher's handle, about crashes, or about what other processes remove or print.

### Findings

Eight runs are expected to fail; each shows code and documentation at odds.

- `update_mode_bare`: a document whose only indexed words are those of its path
  or title has a word count of zero, which `check_for_replace` takes for
  removed; every update adds a copy, and searches return all of them.
- `query_not_group`: `fixnot2` takes the term behind a negated group into the
  operand, so `not (a) b` finds what lacks a *or* b.
- `btree_first_key`: a new smallest key that splits a leaf and, by changing the
  first key above, a full root: the walk is repeated but the level is not, and
  the new leaf is added to the wrong page, where it hides its brothers. Compiled
  with four byte offsets, `btree.c` itself lost 11,342 of 23,007 keys this way.
- `limit_below`: `-L prop <= v` with v below all values selects the document
  with the smallest value.
- `words_cut`: a word of which ignored characters leave nothing ends a token of
  a query, and the words behind it are not asked for.
- `library_sort`: when the table of sort keys grows it is cleared as a whole
  (`search.c:549-555`), and the search that follows reads through the null
  pointers of the keys that were lost (`metanames.c:523` with several indexes,
  `result_sort.c:346` with one).
- `storage_wide`: `worddata.c:107-111` stores counts of a page through `int` that
  were packed as `long`. With a `long` of eight bytes on a little-endian machine
  they are read back as 0, and a record is not found once its page has been
  written out and read again.
- `links_freed`: a session that updates an index replaces the configured
  metanames, and HTMLLinksMetaName goes on pointing to one of them.

### Observations that no run carries

Met while modelling; most confirmed with the program.

- Index files. `unique_ID` is `time(NULL)`: two builds of one index begun in the
  same second look related, and `AcceptedIsOneBuild` fails with
  `OneBuildPerSecond = FALSE`. Words reach the disk before the header.
- Offsets of eight bytes. The `Set` macros of `btree.c`, like those of
  `worddata.c` (`storage_wide`), store eight-byte big-endian values through
  `int`, which leaves zeros, and `BTREE_GetDataEnd` reads another place than
  `BTREE_SetDataEnd` writes. Where `long` or `off_t` has eight bytes, an index of
  the incremental format cannot be read back. With `OffsetBytes = 8`,
  `ImplementsWordMap` fails for the reason `storage_wide` shows. In `array.c`
  longs of four bytes with offsets of eight overlap.
- Option `-e`. `add_coalesced` sends coalesced locations to a file and leaves
  `allLocationList` empty (`index.c:2774-2781`), so that
  `remove_last_file_from_list` (`index.c:462-477`) takes an entry all of whose
  other locations were swapped for one that only the aborted document made: it
  unlinks a word that kept documents have, which then is not found in them.
  `pod/SWISH-RUN.pod:464-469` promises of `-e` no more than longer indexing and a
  busy disk. With `swap_locdata`, `EntriesExact` claims `NothingLeft` only.
- B-tree. `DB_ReadFirstWordInvertedIndex` skips a first word smaller than the
  beginning looked for but does not look whether a greater one begins with it
  (`db_native.c:1561`): `a*` below all words finds the first word.
- Word data. `WORDDATA_Del` subtracts the blocks of the data without its header
  (`worddata.c:732`), so `used` may stay too high; `PagesSound` states the half
  of the claim that holds, and the half that is needed.
- IgnoreLimit leaves out words that are in *exactly* the percentage and number
  of files; the documentation says "over". Two such words at one position are
  subtracted twice. Positions have 24 bits; `compress3` of a negative number
  does not end.
- Update. `Update-Mode: Index` selects update (`extprog.c:460`), against
  `pod/SWISH-RUN.pod:315`. A file left unchanged leaks a handle. Metanames come
  from the header without their `max_len`.
- External programs. A document announced with `No-Contents` leaves its contents
  in the stream (`index.c:1143`, `pod/SWISH-RUN.pod:330`); after an aborted one
  `fsize` is 0 and a document without `Content-Length` is accepted
  (`extprog.c:348`). `StreamInStep` speaks of a stream up to the first such
  document (`CarefulUpTo`); the run has both.
- Spider. Redirects, and several addresses in IndexDir, let a page be marked
  with more than its least depth, and pages behind it are cut off by MaxDepth
  (`pod/SWISH-CONFIG.pod:2414`). Overlapping EquivalentServer lists break the
  recognition of pages met before.
- Files. Whether FileRules or FileMatch of a directory decide depends on the
  order of `readdir`; a path that a link reaches first may be refused by a rule
  for pathnames that the other would pass.
- Parser. A bump of positions in text that another tag flushes is lost
  (`parser.c:1261`, `parser.c:987` against `pod/SWISH-CONFIG.pod:2097`);
  `index_XML_attributes` leaves UndefinedMetaTags changed; `noindex` comments out
  of balance lose end tags. An early return leaks the parser's data.
- Old parsers (`html.c`, `xml.c`, `txt.c`, not modelled): an escaped `\<` before
  any tag ends the search for tags; a META START that is a property with
  converted entities ends the document; `getHTMLMeta` returns its own stack
  buffer; in `xml.c` a nested ignored element of the same name lets the rest be
  indexed; `&#` without digits vanishes.
- Queries. `a or not b` loses its `not`; a stop word first in a group leaves its
  operator; a query of only too short words reports that it has no words
  (`swish_words.c:922`); near binds groups unlike the comment at `search.c:2055`
  (`search.c:2103`) and any word that begins with `near` is taken for it
  (`swish_words.c:472`); a phrase
  with a word of two codes finds nothing; `m=a-b` and `not a-b` apply to the first
  part only; `(a)*` leaves a parenthesis open. The queries of `MCQuery` leave
  these out.
- Words. An escaped operator that stands alone is still an operator; a lone
  backslash ends the query; `?` is always a character of words.
- Results. With several indexes `SwishSeekResult` to 0 returns before it resets
  `cur_rec_number` (`search.c:1080`), so `swishreccount` counts on; to the
  position behind the last result it is accepted, with one index refused. The
  variable `counted` in `Results` marks the first; `ResultCursor` allows both.
- Ranking. `pod/SWISH-FAQ.pod:1076` says that the first result always has 1000:
  not with scheme 1 (993, 996, 989). Scheme 1 uses the frequency of one index
  with the totals of all, may overflow an `int`, and ends the program when
  IgnoreTotalWordCountWhenRanking is set, also in the library.
- Library. Errors of `metanames.c:562` and messages of `search.c:875` do not
  reach the caller as `pod/SWISH-LIBRARY.pod:467` and 499 say;
  SwishResultPropertyStr resets only the number of the error.
- Limits. After an error while limits are prepared the search counts as
  prepared; a limit's key is not cut to the length values were sorted by.
- Properties. A text that is encoded to nothing leaks; one of which only the
  separator fits is dropped. `properties_compatible` ignores `sort_len`.
- Merge. The order of paths is one without case, their comparison one with it
  (`merge.c:640`); documents removed from an incremental index come back; the
  frequencies of words are copied before documents are dropped (`index.c:1371`
  against `search.c:1739`); the stop words of the first index apply to all. A
  name that is a metaname of its own in one index and an alias in another becomes
  an alias (`merge.c:565`): the words that the first has under it are not found
  under it any more.
- Commands. IndexDir behind an included file, or in a second file, is ignored
  silently if the first had one (`pod/SWISH-CONFIG.pod:659`); ParserWarnLevel
  overrides -W (`pod/SWISH-RUN.pod:567`); -v without a number is refused; -u after
  -w, -M or -T and then -i becomes plain indexing; a file that includes itself
  recurses.

## 4. What is proved

| theorem | module | statement |
|---|---|---|
| `TypeCorrect` | `IndexFilesProofs` | `Spec => []TypeOK` |
| `OneBuild` | | `Spec => []AcceptedIsOneBuild`, if `OneBuildPerSecond` |
| `HandlesSettled` | | `Spec => []HandleSettled`, if `OneBuildPerSecond` |
| `MainFileIsLast` | | `Spec => []MainFileLast` |
| `QuietAccepted` | | `Spec => []QuietOpenAccepted` |
| `StoreImplemented` | | `Spec => ImplementsStore` (refinement), if `OneBuildPerSecond` |
| `UpdateTypeCorrect` | `UpdateModeProofs` | `UpdateSpec => []UpdateTypeOK` |
| `NamesAgreeAlways` | | `UpdateSpec => []NamesAgree` |
| `RemovalsAgreeAlways` | | `UpdateSpec => []RemovalsAgree`, if no document is bare |
| `DocumentStoreImplemented` | | `UpdateSpec => ImplementsDocumentStore` (refinement), if no document is bare |
| `StreamInStepAlways` | `SourcesProofs` | `SourcesSpec => []StreamInStep`, which speaks of documents up to the first that is not `Careful` |
| `EveryFileOnceAlways` | | `SourcesSpec => []EveryFileOnce` |
| `RobotsObeyedAlways` | | `SourcesSpec => []RobotsObeyed` |
| `EveryPageOnceAlways` | | `SourcesSpec => []EveryPageOnce` |
| `EntriesExactAlways` | `IndexingProofs` | `TableSpec => []EntriesExact`, of which `NothingLeft` alone is claimed with `-e` |
| `MergedNewestAlways` | | `MergeSpec => []MergedNewest`, if `AliasesAgree` |
| `PagesSoundAlways` | `StorageProofs` | `DataSpec => []PagesSound`, if `LongBytes = 4` |
| `WordDataImplementsIdStore` | | `DataSpec => ImplementsIdStore` (refinement), if `LongBytes = 4` |
| `ArrayHoldsAlways` | | `ArraySpec => []ArrayHolds` |
| `PropertiesKeptAlways` | | `PropSpec => []PropertiesKept` |
| `NativeWordsFoundAlways` | | `NativeSpec => []NativeWordsFound` |
| `RecordNumberAlways` | `ResultsProofs` | `ResultsSpec => []RecordNumber` |
| `ErrorOrderFreeAlways` | | `ResultsSpec => ErrorOrderFree` (an action property) |
| `ResultsImplementCursor` | | `ResultsSpec => ImplementsCursor` (refinement) |
| `LimitsFollowedAlways` | | `LimSpec => []LimitsFollowed` |
| `RanksFairAlways` | | `RankSpec /\ NumbersFit => []RanksFair`, if `LogarithmsRise` |
| `HeaderAgreesAlways` | `ProgramProofs` | `NamesSpec => []HeaderAgrees` |
| `CommandObeyedAlways` | | `CommandSpec => []CommandObeyed` |
| `ObjectsUsableAlways` | | `LibSpec => []ObjectsUsable` |

They hold for every value of the constants that meets the `ASSUME`s of the
modules. Those say what kind of value a constant is, but for these:

- `OneBuildPerSecond`: the clock ticks between the starts of two builds. Without
  it the theorems are false, as observed above.
- No document is bare (`"bare" \notin Kinds`): the finding `update_mode_bare`.
- `LongBytes = 4`, a hypothesis of `PagesSoundAlways` and
  `WordDataImplementsIdStore`: with eight bytes the second is false (the finding
  `storage_wide`).
- `TreesAssumption`: names within a directory differ, and the walk starts at a
  directory.
- `RobotsAssumption`: a robots.txt is a finite sequence of lines.
- `EquivalentAssumption`, `WebAssumption`: EquivalentServer lists do not overlap;
  there are finitely many pages; equivalent addresses give the same page and
  servers the same robots.txt, and only HTML and redirects have links.
- `MergeAssumption`: an index has no path and no name twice, its words and
  properties are under metanames that are no aliases, and an alias has a greater
  number than what it stands for.
- `AliasesAgree`, a hypothesis of `MergedNewestAlways` only: if one index to be
  merged has a name as an alias, so has each of them that has this name or the
  one it stands for. They may still differ in what it stands for: those are
  refused. Without it the theorem is false, as observed above.
- `LogarithmsRise`, a hypothesis of `RanksFairAlways` only: the logarithms are
  whole numbers, and those of greater numbers are not less. The tables of
  `rank.c` and `log()` are so.
- `NumbersFit`, of the index and scheme a search begins with: nothing that
  `getrank` adds or multiplies outgrows an `int`, and `MaxTerms` words of the
  highest rank come to at most ten million. Behind that `sortresults` divides to
  0, and raw ranks are shown; no rank is above 214876, so it takes more than 46
  words. The inputs of the run `searching` meet both: `RankInv`, of which
  `NumbersFit` is a part, holds there in every state.

### The arguments

- *Index files.* `AcceptedIsOneBuild` is not inductive: `CheckHeader` must know
  that equal stamps mean equal builds. `OneBuildInv` adds that stamps increase
  with builds, that no file comes from a build not begun, and that a searcher
  has opened exactly the files before its place. `MainFileInv` adds that the
  temporary names hold the current build until renamed, the renamed names
  afterwards. `QuietInv` adds that a handle opened without a rename holds what is
  on disk. `SettledInv` adds
  that the files which the closing writes of a session have passed have all its
  changes, and that those of an index no session of which was cut short have the
  same changes (`SessionInv`); and that a settled handle is on such an index, of
  which it has read the main file as it is (`ReadInv`). In the refinement the
  rename of the main file is `Replace`, its open `Look`, the comparison `Accept`
  or `Refuse`.
- *Update.* `NamesInv` relates the names in memory and on disk to the numbers
  given out, and says which parts of the session have reached the disk
  (`Synced`). `ConsistentInv` says of the index that the session under way, or
  the next one, sees: every word belongs to the file of its number, a file that
  is not removed is the one its path's entry names and has words, and the counter
  of removals counts those files. It holds until a session is cut short;
  `NamesInv` holds after crashes too. `IndexDocument` is then `Update` or
  `Remove` of `DocumentStore`, and everything else a stutter.
- *Programs.* `StepInv`: as long as only careful documents have been printed,
  `StreamInv`: the pipe holds the rest of one document's lines and
  all those of the documents behind it (`Rests`), and while headers are read the
  variables hold what the lines read so far say (`At`).
- *Files.* `FsInv`: what is asked for in a directory entered has been met or is
  still on the list of visits (`DirsInv`, `FilesInv`), and nothing is on the list
  of indexed files twice or without having been met (`OnceInv`). When the list is
  empty the directories met are closed under "contains", so by induction they
  are all that can be reached (`ReachedSeen`).
- *robots.txt.* By induction over the lines (`LineParsed`): before its own agent
  is named the parser holds the generic rules so far and whether `*` is in force,
  in its own record the rules behind that name, and behind the record just
  these. `AgentsInForce` and `RecordEnds` relate the parser's two states to
  records as sets of lines.
- *The crawl.* `SpiderInv`: no two pages met are the same, and each is listed or
  has been retrieved, once (`MetOnce`, `IndexedOnce`); a page listed is within
  its depth of the start (`ListedNear`) and only what may be asked for is indexed
  (`OnlyAsked`). Completeness has two forms. Without MaxDepth the links of all
  pages retrieved are met, so behind an empty list they are all that can be
  reached. With one the list is in the order of depths, of which
  it holds at most two (`TwoDepths`), and what is within the depth of its head has
  been met (`BreadthFirst`); this needs one starting page and no redirects, as the
  property does, and is false without (see the observations).
- *Word table.* `TableInv`: every chain has each word once and the entries that
  only the document being parsed made first (`NewestFirst`), frequencies and last
  files are those of the locations, and packed locations those of documents kept.
  `remove_last_file_from_list` unlinks an entry by pointing past it from the last
  one it has seen untouched, which would lose entries that stay in between;
  `NewestFirst` is why there are none. With `-e` an entry may be unlinked that is
  not the newest, and entries may be lost; `SwapInv` is the part of `TableInv` that
  is left, with `PackedInDocs` (locations kept are of documents that gave the
  word) in place of its exact form, and `WalkDistinct` for what stays in a chain.
- *Merge.* `MergeInv`. Metanames: the numbers mapped to stay those of the same
  names while the output grows, and an alias of the output is one of some index
  (`MakingOK`, by induction over the metanames); with `AliasesAgree` a name then
  means the same in the output as in every index (`SameMeaning`). Files: of every
  file passed there is one as new with its path in the output or still to be read
  (`Covered`), and all paths in the output are smaller than those to be read
  (`PathsBelow`). Within a round the winner has the smallest path so far and
  nothing is lost (`ContestOK`, by induction over the indexes): an index that
  passes a file of an equal path goes on to a greater one (`NextIs`), which needs
  that `path_order` has each file at its place (`PathOrderIs`). Words: the data
  merged of a word is that of its locations in the files kept (`MergedIs`; what
  `FlattenSeq` gives is proved by induction).
- *Word data*, with a `long` of four bytes, of which a page read back is the page
  written. `DataInv`: pages of live data are in the file and disjoint unless
  they share a small page (`LiveInv`), free runs are disjoint from these and from
  each other (`FreeInv`), a cached page that is not marked modified is the one on
  disk (`CacheInv`), and every record is found where its id says (`HeldInv`).
  `OccupiedSum` counts blocks.
- *Arrays.* `ArrayInv`: each array has chains of pages of its own that no other
  array, and no other slot of its root, shares (`Apart`, `Disjoint`); its cache has
  only these, and links go to later pages of the file (`Upward`), so that following
  them ends. What is read of an element is then a function of the chains
  (`ValueAt`). A put gives one chain the pages it lacks at the end of the file
  (`PutPages`, `ChainsPut`), whatever the other arrays took in between
  (`ChainsLeft`); two elements have different places (`PlacesDiffer`).
- *Properties.* `PropInv`: an open index is written behind its last value
  (`PropCounts`), so that a write changes no older cell (`Wrote`, by induction
  over the properties); the rows of all documents that are done lead to cells
  that are held (`DoneHeld`), and so is each value of the document at hand
  (`DocumentHeld`). `Held` is stronger than `Meant` by one thing: a value that
  misses its last separator does not itself end in white space, without which a
  text that is appended next could stand where the separator belongs. For this
  `EncodeProperty` must not return a text that ends in white space (`EncodedIs`).
- *Words of two files.* `NativeInv` has a part for each stage of writing. The
  words on disk ascend and `offsets` names the first of each letter
  (`FileOrdered`, `OffsetsFirst`). The loops over the hash table have passed
  its first entries (`PassedBy`): of these each leads to the next one of its hash,
  and `hashoffsets` and `lasthashval` to the first and last (`Chains`,
  `LastIs`). So a chain passes the words of its hash one by one, up to the word
  looked for or to the end (`ChainOfWord`, `ChainOfNone`, by induction over the
  steps); that words of one hash stand together in the table is needed. A search
  by prefix has read all words from the first match to where it goes on
  (`ReadUpTo`): words that begin alike follow each other (`PrefixedTogether`),
  and behind a word that is beyond the prefix there are none (`NoneBeyond`).
- *Results.* `ResultsInv`: what was popped from each list is a beginning of it,
  and all of these together are a `Cut` of the merged list. Seeking with several
  indexes is reading on from the start (`PoppedCut`, by induction).
- *Limits.* `LimitsInv`: before the first execution nothing limits a search; from
  it on the documents that pass are those meant, or the object stays in error. A
  table is made from an order that has every document once and the smaller value
  first (`LookupOrder` is a bijection). In the loop of `binary_search`, looking
  for the lower end, all elements before those still looked at are less than the
  key, and none behind them is; the last equal one seen stands directly behind
  (`FirstSought`; `LastSought` for the upper end; by induction over the rounds, each of
  which halves what is left). So the lower end is where the values that are not
  less begin, the upper one the last match or, without one, where the greater
  values begin, which `find_prop` takes back by one (`FirstEnd`, `LastEnd`), unless
  both are at position 0: that is `BelowAll`, which the property excludes. The
  parameters are loaded one by one (`LoadedTo`), up to an error or an empty table.
- *Ranking.* `RankInv`: the rank of a file is at most what so many words give,
  and as long as every word is asked for, `andLevel` is the number of words before
  the last and every file has all words. One more word then adds to what the
  divisions have dropped at most what remains of one (`AverageStep`): with n
  words at most n(n-1)/2. That better places rank no lower is that sums of greater
  scores are greater (`TotalRises`, by induction) and stay so through weights,
  which are not negative, divisions and logarithms (`DefaultRises`, `IDFRises`).
  The scale is not 0 by the bound on ranks, so that what is shown is between 1 and
  1000 (`DisplayedInOrder`).
- *Names.* `HeaderAgrees` speaks of the header of a finished index only;
  `NamesInv` speaks of the table in force at each stage (`Current`): the one being
  configured, the one in memory, the one written. In it each number has one
  meaning, a name of a kind stands once, aliases lead to entries that are none
  themselves (`TableOK`), names resolve as the directives said so far
  (`StandsOK`), and what is in the index is found under its number (`UsedOK`).
  Writing gives aliases by place and reading restores them (`ReadBack`); names
  that documents add by themselves are appended one by one (`AutoGrown`, by
  induction over the document).
- *Command line.* `CommandInv` has a part for each stage. While the line is read,
  mode and values are those that the words so far ask for (`ModeOK`, `ValuesOK`),
  and every switch but the last has its words (`TakingOK`). While files are read,
  the documents are a beginning of what IndexDir lines told, and all of them
  until a file that told one ends (`DirsTold`); the index is the first of -f or
  one that an IndexFile line named (`IndexesTold`). Files that include each other
  share `hasdir` and the lists, not the marks of what they told: that a file
  whose end sets `hasdir` is not one still open needs that files are opened at
  later and later lines (`FramesOK`).
- *Library.* `LibInv`: the count of every object is the number of those that came
  from it, plus one if a variable holds it, and is not 0; an object's origin is
  there. When a variable goes out of scope, the count of one object is one too
  high (`Owing`): counting it down either mends that or removes the object, and
  then its origin's count is (`CountingDown`). What has a count is referred to by an
  object or a variable, this object again, up to a variable: `MemoryExact`. Keys without an error
  have the same type in neighbouring indexes, so in all (`GoodKeysAgree`).
- *Induction over data.* `InductionLemmas` has induction up to a number without
  an operator as a parameter (`LeastNatural`, `UpTo`), and that a recursive
  function with given steps exists (`FoldExists`). Folds in the modules that are
  proved about are written as recursive functions for it.

Steps that take the provers long name their own time limit (`SMTT`, `ZenonT`), so
that all proofs are found again on a machine half as fast.

### What is only model-checked

- Liveness: `EverythingEnds` and `SourcesEnd`. The prover has no rules for
  fairness (`ENABLED`).
- `Query`, `Words`: their recursion is over lists of tokens and characters
  through `RECURSIVE` operators, which the prover does not take.
- `WordsPlaced` of `Parser`, `SearchReads` of `Postings`, `TreeSound` of `BTree`
  and `OrderAsked` of `Sorting`: not proved yet. The first two compare nested folds
  over documents with what was put in; the others need an invariant of a loop
  over parts of an array (`swish_qsort`), or of pages along a path that split.

## 5. Plan

Done: all modules above, the proofs of section 4. Next, in this order:

1. Proofs: the operators of `BTree` that keep a page sorted; `OrderAsked` of
   `Sorting`; then `Parser` and `Postings`.
2. The older parsers, if their findings are to be runs.

## 6. What is not modelled, and why

- Output formats, stemmers, soundex and regular expressions: functions of their
  input without state that outlives a call. Compression by zlib.
- Memory zones, the RAM disk of economic mode, string lists.
- The older parsers `html.c`, `xml.c` and `txt.c`; attributes, links and
  StoreDescription of `parser.c`; filters and temporary files.
- Encodings of the header's single values; directives that only store a value.
- Vendored code, the VMS and Windows ports.
