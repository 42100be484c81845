------------------------------ MODULE WordData ------------------------------
(***************************************************************************)
(* The file of word data (worddata.c): pages of blocks that hold small     *)
(* records, runs of pages that hold one big record, and in memory a cache  *)
(* of small pages, the pages last put into and deleted from, and a list of *)
(* pages to use again.                                                     *)
(*                                                                         *)
(* A record's id is its page and its number in the page, 0 for a big one.  *)
(* Bytes are counted, not stored: data is a member of Data of length       *)
(* Bytes[d]. last_get_page and in_use are left out: nothing reads them but *)
(* to set them again.                                                      *)
(***************************************************************************)
EXTENDS Naturals, Sequences, FiniteSets, SequencesExt, FiniteSetsExt

CONSTANTS
  Data,         \* the data callers store ...
  Bytes,        \* ... and the length of each
  BlockSize,    \* WORDDATA_BlockSize
  MaxBlocks,    \* WORDDATA_Max_Blocks_Per_Page; the header takes one more
  CacheSize,    \* WORDDATA_CACHE_SIZE
  MaxReusable,  \* WORDDATA_MAX_REUSABLE_PAGES
  LongBytes,    \* sizeof(long); one of eight is little-endian
  MaxPages      \* bound: pages of the file; page 0 holds the file's header

ASSUME WordDataAssumption ==
  /\ Bytes \in [Data -> Nat \ {0}]
  /\ BlockSize \in Nat \ {0} /\ MaxBlocks \in Nat \ {0}
  /\ CacheSize \in Nat \ {0} /\ MaxReusable \in Nat /\ MaxPages \in Nat
  /\ LongBytes \in {4, 8}

VARIABLES
  disk,      \* disk[p]: page p in the file
  cache,     \* the pages in memory, by page number
  modified,  \* the cached pages that differ from the file's
  lastPut,   \* last_put_page, 0 for NULL
  lastDel,   \* last_del_page, 0 for NULL
  counter,   \* page_counter
  reusable,  \* Reusable_Pages: runs of free pages
  fileEnd,   \* the number of pages of the file
  live       \* the data callers have stored and not deleted, by id

dataVars == <<disk, cache, modified, lastPut, lastDel, counter, reusable, fileEnd,
          live>>

-----------------------------------------------------------------------------
(* Sizes.                                                                  *)

DivUp(n, k) == (n + k - 1) \div k

PageSize == BlockSize * (MaxBlocks + 1)

(* The blocks of a record: its number, two bytes of length, the data.      *)
Blocks(d) == DivUp(Bytes[d] + 3, BlockSize)

IsBig(d) == Blocks(d) > MaxBlocks

(* The pages of a big record: a long for its length, and the data.         *)
Run(d) == DivUp(Bytes[d] + LongBytes, PageSize)

PageNumbers == 1..MaxPages
Ids == PageNumbers \X (0..MaxBlocks)

(* A page of small records has part 0; page i of a big record has part i.  *)
SmallPage(used, recs) == [used |-> used, recs |-> recs, part |-> 0]
BigPage(d, i) == [used |-> 0, recs |-> <<[id |-> 0, data |-> d]>>, part |-> i]

Records == [id : 0..MaxBlocks, data : Data]
Pages == [used : 0..MaxBlocks, recs : SeqOf(Records, MaxBlocks),
          part : 0..MaxPages]

DataTypeOK ==
  /\ disk \in [PageNumbers -> Pages]
  /\ DOMAIN cache \subseteq PageNumbers
  /\ \A p \in DOMAIN cache : cache[p] \in Pages /\ cache[p].part = 0
  /\ modified \subseteq DOMAIN cache
  /\ lastPut \in {0} \cup PageNumbers
  /\ lastDel \in {0} \cup PageNumbers
  /\ counter \in 0..CacheSize
  /\ reusable \in SeqOf([page : PageNumbers, size : PageNumbers], MaxReusable)
  /\ fileEnd \in 1..(MaxPages + 1)
  /\ DOMAIN live \subseteq Ids
  /\ \A i \in DOMAIN live : live[i] \in Data

Empty == [x \in {} |-> {}]

DataInit ==
  /\ disk = [p \in PageNumbers |-> SmallPage(0, <<>>)]
  /\ cache = Empty
  /\ modified = {}
  /\ lastPut = 0 /\ lastDel = 0
  /\ counter = 0
  /\ reusable = <<>>
  /\ fileEnd = 1
  /\ live = Empty

-----------------------------------------------------------------------------
(* The cache.                                                              *)

(* WORDDATA_ReadPage                                                       *)
Page(p) == IF p \in DOMAIN cache THEN cache[p] ELSE disk[p]

(* f with a value for x, f without x                                       *)
With(f, x, v) ==
  [y \in DOMAIN f \cup {x} |-> IF y = x THEN v ELSE f[y]]
Without(f, x) == [y \in DOMAIN f \ {x} |-> f[y]]

(* A page as it is read back.  Its two counts, of blocks and of records,   *)
(* are ints, written and read through PACKLONG and UNPACKLONG, which turn  *)
(* the bytes of a long around: the low half of one of eight bytes is 0.    *)
(* Nothing else tells where a page's records are.                          *)
ReadBack(page) == IF LongBytes = 4 THEN page ELSE SmallPage(0, <<>>)

(* WORDDATA_FlushCache                                                     *)
Flushed ==
  [p \in PageNumbers |-> IF p \in modified THEN ReadBack(cache[p]) ELSE disk[p]]

(* Free pages: the first run of the right size, or the first longer one,   *)
(* 0 if there is none.                                                     *)
Fit(size) ==
  LET same   == {i \in DOMAIN reusable : reusable[i].size = size}
      longer == {i \in DOMAIN reusable : reusable[i].size > size}
  IN  IF same # {} THEN Min(same)
      ELSE IF longer # {} THEN Min(longer) ELSE 0

Allocated(size) == IF Fit(size) = 0 THEN fileEnd ELSE reusable[Fit(size)].page

(* Slip: the run taken from stays as it was when it is longer.             *)
AllocateKeepsRun(size) ==
  LET i == Fit(size)
  IN  IF i = 0 THEN /\ fileEnd + size - 1 <= MaxPages
                    /\ fileEnd' = fileEnd + size
                    /\ UNCHANGED reusable
      ELSE /\ reusable' = IF reusable[i].size = size
                          THEN RemoveAt(reusable, i) ELSE reusable
           /\ UNCHANGED fileEnd

Allocate(size) ==
  LET i == Fit(size)
  IN  IF i = 0 THEN /\ fileEnd + size - 1 <= MaxPages
                    /\ fileEnd' = fileEnd + size
                    /\ UNCHANGED reusable
      ELSE /\ reusable' =
                IF reusable[i].size = size THEN RemoveAt(reusable, i)
                ELSE [reusable EXCEPT ![i] =
                        [page |-> @.page + size, size |-> @.size - size]]
           /\ UNCHANGED fileEnd

(* DelBig and Del: a run is remembered if there is room, else lost.        *)
Remember(p, size) ==
  reusable' = IF Len(reusable) < MaxReusable
              THEN Append(reusable, [page |-> p, size |-> size]) ELSE reusable

-----------------------------------------------------------------------------
(* WORDDATA_Put                                                            *)

Before(recs, i) == IF i = 1 THEN 0 ELSE recs[i - 1].id

(* A new record's place: the first gap in the numbers, else the end.       *)
Place(recs) ==
  Min({i \in 1..(Len(recs) + 1) :
         i > Len(recs) \/ recs[i].id - Before(recs, i) > 1})

NewNumber(recs) == Before(recs, Place(recs)) + 1

Inserted(recs, d) ==
  InsertAt(recs, Place(recs), [id |-> NewNumber(recs), data |-> d])

Room(p, d) == Blocks(d) <= MaxBlocks - cache[p].used

(* The page to put d into: that of the last delete, else that of the last  *)
(* put, else 0, for a new one.                                             *)
Target(d) ==
  IF lastDel # 0 /\ Room(lastDel, d) THEN lastDel
  ELSE IF lastPut # 0 /\ Room(lastPut, d) THEN lastPut
  ELSE 0

PutInPage(d) ==
  /\ ~IsBig(d)
  /\ Target(d) # 0
  /\ LET p == Target(d)
         page == cache[p]
     IN  /\ cache' = [cache EXCEPT ![p] =
                        SmallPage(page.used + Blocks(d), Inserted(page.recs, d))]
         /\ modified' = modified \cup {p}
         /\ live' = With(live, <<p, NewNumber(page.recs)>>, d)
  /\ UNCHANGED <<disk, lastPut, lastDel, counter, reusable, fileEnd>>

(* Every CacheSize new pages the cache is flushed and emptied first.       *)
PutInNewPage(d) ==
  /\ ~IsBig(d)
  /\ Target(d) = 0
  /\ Allocate(1)
  /\ LET p == Allocated(1)
         flush == counter % CacheSize = 0
     IN  /\ disk' = IF flush THEN Flushed ELSE disk
         /\ cache' = With(IF flush THEN Empty ELSE cache, p,
                          SmallPage(Blocks(d), Inserted(<<>>, d)))
         /\ modified' = (IF flush THEN {} ELSE modified) \cup {p}
         /\ counter' = IF flush THEN 1 ELSE counter + 1
         /\ lastDel' = IF flush THEN 0 ELSE lastDel
         /\ lastPut' = p
         /\ live' = With(live, <<p, NewNumber(<<>>)>>, d)

(* WORDDATA_PutBig writes to the file, past the cache.                     *)
PutBig(d) ==
  /\ IsBig(d)
  /\ Allocate(Run(d))
  /\ LET p == Allocated(Run(d))
     IN  /\ disk' = [q \in PageNumbers |->
                       IF q \in p..(p + Run(d) - 1) THEN BigPage(d, q - p + 1)
                       ELSE disk[q]]
         /\ live' = With(live, <<p, 0>>, d)
  /\ UNCHANGED <<cache, modified, lastPut, lastDel, counter>>

-----------------------------------------------------------------------------
(* WORDDATA_Get reads the page into the cache; GetBig reads the file.      *)
Get(i) ==
  /\ i[2] # 0
  /\ cache' = With(cache, i[1], Page(i[1]))
  /\ UNCHANGED <<disk, modified, lastPut, lastDel, counter, reusable, fileEnd,
                 live>>

-----------------------------------------------------------------------------
(* WORDDATA_Del                                                            *)

(* The blocks a deleted record is taken to free: its data's alone.         *)
FreedBlocks(d) == DivUp(Bytes[d], BlockSize)

(* Slip: the last put's page is not forgotten when it is freed.            *)
LastPutKept(p) == lastPut

(* last_put_page once page p is free.                                      *)
LastPutWithout(p) == IF lastPut = p THEN 0 ELSE lastPut

(* A page that loses its last record is free, and forgotten unwritten; one *)
(* that does not hold the record is only read.                             *)
DelInPage(i) ==
  /\ i[2] # 0
  /\ LET p == i[1]
         page == Page(p)
         at == {k \in DOMAIN page.recs : page.recs[k].id = i[2]}
     IN  IF at = {}
         THEN /\ cache' = With(cache, p, page)
              /\ lastDel' = p
              /\ UNCHANGED <<modified, lastPut, reusable>>
         ELSE \E k \in at :
           IF Len(page.recs) = 1
           THEN /\ Remember(p, 1)
                /\ lastPut' = LastPutWithout(p)
                /\ lastDel' = 0
                /\ cache' = Without(cache, p)
                /\ modified' = modified \ {p}
           ELSE /\ cache' = With(cache, p,
                     SmallPage(page.used - FreedBlocks(page.recs[k].data),
                               RemoveAt(page.recs, k)))
                /\ modified' = modified \cup {p}
                /\ lastDel' = p
                /\ UNCHANGED <<lastPut, reusable>>
  /\ live' = Without(live, i)
  /\ UNCHANGED <<disk, counter, fileEnd>>

DelBig(i) ==
  /\ i[2] = 0
  /\ Remember(i[1], Run(disk[i[1]].recs[1].data))
  /\ live' = Without(live, i)
  /\ UNCHANGED <<disk, cache, modified, lastPut, lastDel, counter, fileEnd>>

(* WORDDATA_Close, and WORDDATA_Open in the next session: the free pages   *)
(* are forgotten.                                                          *)
Reopen ==
  /\ disk' = Flushed
  /\ cache' = Empty
  /\ modified' = {}
  /\ lastPut' = 0 /\ lastDel' = 0
  /\ counter' = 0
  /\ reusable' = <<>>
  /\ UNCHANGED <<fileEnd, live>>

DataNext ==
  \/ \E d \in Data : PutInPage(d) \/ PutInNewPage(d) \/ PutBig(d)
  \/ \E i \in DOMAIN live : Get(i) \/ DelInPage(i) \/ DelBig(i)
  \/ Reopen

DataSpec == DataInit /\ [][DataNext]_dataVars

-----------------------------------------------------------------------------
(***************************************************************************)
(* Properties.                                                             *)
(***************************************************************************)
(* What WORDDATA_Get finds under an id: exactly one of Data, if all is     *)
(* well.                                                                   *)
Found(i) ==
  IF i[2] = 0
  THEN {d \in Data : \A k \in 1..Run(d) :
          i[1] + k - 1 \in PageNumbers /\ disk[i[1] + k - 1] = BigPage(d, k)}
  ELSE {r.data : r \in {r \in Range(Page(i[1]).recs) : r.id = i[2]}}

(* Every stored record is found under its id, with its data, through       *)
(* flushes, deletions of its neighbours, pages used again and reopening;   *)
(* no stored record's id is given to another.  (Store!Spec, but that steps *)
(* which leave the file alone are not looked into.)                        *)
Store == INSTANCE IdStore
         WITH Data <- {{d} : d \in Data}, Ids <- Ids,
              store <- [i \in DOMAIN live |-> Found(i)]
ImplementsIdStore ==
  Store!Init /\ [][UNCHANGED dataVars \/ Store!Next]_[i \in DOMAIN live |-> Found(i)]

(* Whatever was put is got back until it is deleted.  The test at the end  *)
(* of worddata.c puts records, gets each back, flushes and closes the      *)
(* file, opens it again and gets each back once more (worddata.c:821-846). *)
RecordsRead == \A i \in DOMAIN live : Found(i) = {live[i]}

(* The pages of stored records and of each free run.                       *)
LivePages(i) == IF i[2] = 0 THEN i[1]..(i[1] + Run(live[i]) - 1) ELSE {i[1]}
FreePages(k) == reusable[k].page..(reusable[k].page + reusable[k].size - 1)

(* A free page holds no stored record, is not cached and is free once; the *)
(* pages of big records are shared with nothing and never cached.          *)
PagesDisjoint ==
  /\ \A k \in DOMAIN reusable :
       /\ FreePages(k) \cap DOMAIN cache = {}
       /\ \A i \in DOMAIN live : FreePages(k) \cap LivePages(i) = {}
       /\ \A l \in DOMAIN reusable \ {k} : FreePages(k) \cap FreePages(l) = {}
  /\ \A i \in DOMAIN live : i[2] = 0 =>
       /\ LivePages(i) \cap DOMAIN cache = {}
       /\ \A j \in DOMAIN live \ {i} : LivePages(i) \cap LivePages(j) = {}

(* A page's records are those stored in it, once each, in ascending order  *)
(* of number: the search for a free number relies on it.                   *)
NumbersAscending ==
  \A p \in DOMAIN cache \cup {i[1] : i \in {i \in DOMAIN live : i[2] # 0}} :
    LET recs == Page(p).recs
    IN  /\ {recs[k].id : k \in DOMAIN recs} =
             {n \in 1..MaxBlocks : <<p, n>> \in DOMAIN live}
        /\ \A k, l \in DOMAIN recs : k < l => recs[k].id < recs[l].id

(* The blocks of a page's records.                                         *)
Occupied(recs) ==
  LET upTo[k \in 0..Len(recs)] ==
        IF k = 0 THEN 0 ELSE upTo[k - 1] + Blocks(recs[k].data)
  IN  upTo[Len(recs)]

(* The count of used blocks, which alone decides whether a record fits,    *)
(* covers the page's records and never exceeds the page: no Put writes     *)
(* past the end of the page.                                               *)
UsedCovers ==
  \A p \in DOMAIN cache :
    Occupied(cache[p].recs) <= cache[p].used /\ cache[p].used <= MaxBlocks

(* The pages of the last put and the last delete are in the cache: neither *)
(* pointer outlives its page.                                              *)
LastPagesCached == {lastPut, lastDel} \subseteq {0} \cup DOMAIN cache

(* The file of word data is sound: no page is used twice or past its end,  *)
(* and what the search for a page or a number relies on holds.             *)
PagesSound ==
  PagesDisjoint /\ NumbersAscending /\ UsedCovers /\ LastPagesCached
=============================================================================
