----------------------------- MODULE PagedStore -----------------------------
(***************************************************************************)
(* PagedKeyValueStore (src/storage/paged-key-value-store.ts): an append-    *)
(* only key-value store on two temporary files.  `pages` is the backing     *)
(* file, `buckets` the table of chain heads; a record carries the link of   *)
(* the record that headed its bucket before it.  Links are record addresses *)
(* plus one, so zero ends a chain.  `cache` is the LRU page cache: a        *)
(* JavaScript Map, oldest entry first.                                      *)
(*                                                                          *)
(* The store is synchronous, so a request runs to its end before another    *)
(* starts; its steps are separate here because each one can be where a      *)
(* write fails and the request throws.  A caller may go on using the store  *)
(* after that, as the conversion does to record the failure itself.         *)
(***************************************************************************)
EXTENDS Integers, Sequences

CONSTANTS Keys, Values, NoValue, Idle,
          Buckets,       \* the hash buckets
          BucketOf,      \* the bucket each key hashes to
          KeyLength,     \* bytes of each key
          ValueLength,   \* bytes of each value
          PageHeader,    \* PAGE_HEADER_BYTES
          RecordHeader,  \* RECORD_HEADER_BYTES
          PageSize,
          CachePages,    \* whole pages the cache budget holds
          MaxPages,      \* pages the backing file may grow to
          Blank          \* bytes at a page offset that are no whole record

ASSUME SizesAssumption ==
  /\ PageHeader \in Nat \ {0}
  /\ RecordHeader \in Nat \ {0}
  /\ PageSize \in Nat /\ PageSize >= PageHeader + RecordHeader
  /\ CachePages \in Nat \ {0}
  /\ MaxPages \in Nat
  /\ KeyLength \in [Keys -> Nat]
  /\ ValueLength \in [Values -> Nat]

ASSUME NamesAssumption ==
  /\ BucketOf \in [Keys -> Buckets]
  /\ NoValue \notin Values
  /\ Idle \notin [op : {"get"}, key : Keys]
  /\ Idle \notin [op : {"set"}, key : Keys, value : Values]
  /\ Blank \notin [key : Keys, value : Values, previous : Nat]

VARIABLES pages,       \* the backing file: page number |-> page image
          buckets,     \* the bucket table: bucket |-> link of its newest record
          cache,       \* cached pages, least recently used first
          pageCount,   \* pages ever allocated, written or not
          activePage,  \* the page appends go to, -1 before the first
          uniqueKeys,  \* distinct keys held
          open,
          request,     \* the call being served, or Idle
          reply,       \* how the last call ended
          pc,          \* where that call is
          link,        \* the chain walk's cursor
          head,        \* the bucket head `set` read before its walk
          replaces,    \* whether that walk found the key
          slot,        \* the address `set` has written its record at
          live         \* history: addresses of the records `set` returned for

files == <<pages, buckets>>
walk  == <<link, head, replaces, slot>>
vars  == <<pages, buckets, cache, pageCount, activePage, uniqueKeys, open,
           request, reply, pc, link, head, replaces, slot, live>>

-----------------------------------------------------------------------------
\* Data

Records == [key : Keys, value : Values, previous : Nat]
Images  == [used : 0..PageSize, at : [0..PageSize-1 -> Records \cup {Blank}]]
Entries == [page : 0..MaxPages-1, image : Images]
Gets    == [op : {"get"}, key : Keys]
Sets    == [op : {"set"}, key : Keys, value : Values]

RecordLength(k, v) == RecordHeader + KeyLength[k] + ValueLength[v]

Address(page, offset) == page * PageSize + offset
PageOf(address)       == address \div PageSize
OffsetOf(address)     == address % PageSize

Nothing  == [offset \in 0..PageSize-1 |-> Blank]
Hole     == [used |-> 0, at |-> Nothing]            \* never written: zeros
NewImage == [used |-> PageHeader, at |-> Nothing]

\* #readRecord's bounds checks: does `image` hold a whole record at `offset`?
Readable(image, offset) ==
  /\ image.used >= PageHeader
  /\ offset >= PageHeader
  /\ image.at[offset] # Blank
  /\ offset + RecordLength(image.at[offset].key, image.at[offset].value) <= image.used

-----------------------------------------------------------------------------
\* The page cache

Cached(page) == \E i \in 1..Len(cache) : cache[i].page = page
IndexOf(page) == CHOOSE i \in 1..Len(cache) : cache[i].page = page
Without(c, i) == SubSeq(c, 1, i - 1) \o SubSeq(c, i + 1, Len(c))

\* Mutant of MakeRoom: counts the pages it holds, not the one to come.
MakeRoomTooLate(c) ==
  IF Len(c) <= CachePages THEN c ELSE SubSeq(c, Len(c) - CachePages + 1, Len(c))

\* #makeRoom: evict the oldest until one more page fits the budget.
MakeRoom(c) == IF Len(c) < CachePages THEN c ELSE SubSeq(c, Len(c) - CachePages + 2, Len(c))

\* #loadPage: a hit moves the page to the young end, a miss reads the file.
Image(page) == IF Cached(page) THEN cache[IndexOf(page)].image ELSE pages[page]
Load(page) ==
  cache' = IF Cached(page)
           THEN Append(Without(cache, IndexOf(page)), cache[IndexOf(page)])
           ELSE Append(MakeRoom(cache), [page |-> page, image |-> pages[page]])

-----------------------------------------------------------------------------
Init ==
  /\ pages = [p \in 0..MaxPages-1 |-> Hole]
  /\ buckets = [b \in Buckets |-> 0]
  /\ cache = <<>>
  /\ pageCount = 0
  /\ activePage = -1
  /\ uniqueKeys = 0
  /\ open = TRUE
  /\ request = Idle
  /\ reply = "none"
  /\ pc = "idle"
  /\ link = 0 /\ head = 0 /\ replaces = FALSE /\ slot = 0
  /\ live = {}

\* A request ends: its locals die with it.
End(answer) ==
  /\ reply' = answer
  /\ request' = Idle
  /\ pc' = "idle"
  /\ link' = 0 /\ head' = 0 /\ replaces' = FALSE /\ slot' = 0

\* Both calls read the bucket's head first.
Start(r) ==
  /\ open /\ request = Idle
  /\ r.op = "set" => PageHeader + RecordLength(r.key, r.value) <= PageSize
  /\ request' = r
  /\ reply' = "none"
  /\ pc' = "walk"
  /\ head' = buckets[BucketOf[r.key]]
  /\ link' = head'
  /\ UNCHANGED <<files, cache, pageCount, activePage, uniqueKeys, open,
                 replaces, slot, live>>

\* PAGED_STORE_CLOSED, and PAGED_STORE_RECORD_TOO_LARGE before anything moves.
Refuse(r) ==
  /\ request = Idle
  /\ \/ ~open /\ reply' = "closed"
     \/ /\ open /\ r.op = "set"
        /\ PageHeader + RecordLength(r.key, r.value) > PageSize
        /\ reply' = "too large"
  /\ UNCHANGED <<files, cache, pageCount, activePage, uniqueKeys, open,
                 request, pc, walk, live>>

\* Where `set` goes once it knows whether its key is held: an append starts by
\* loading the active page, or by making the first one.
ToAppend(found) ==
  /\ pc' = IF activePage < 0 THEN "create" ELSE "load"
  /\ replaces' = found
  /\ link' = 0
  /\ UNCHANGED <<reply, request, head, slot>>

\* A miss rejects a page that was never written through.
Unwritten(page) == page >= pageCount \/ (~Cached(page) /\ pages[page].used < PageHeader)

\* One turn of #findInChain: load the page the link points into, check it is a
\* record of ours, and stop at the first whose key bytes match.
WalkChain ==
  /\ pc = "walk" /\ link # 0
  /\ LET page   == PageOf(link - 1)
         offset == OffsetOf(link - 1)
         record == Image(page).at[offset]
     IN  IF Unwritten(page)
         THEN End("corrupt") /\ UNCHANGED cache
         ELSE /\ Load(page)
              /\ CASE ~Readable(Image(page), offset) -> End("corrupt")
                   [] Readable(Image(page), offset) /\ record.key # request.key ->
                        /\ link' = record.previous
                        /\ UNCHANGED <<reply, request, pc, head, replaces, slot>>
                   [] OTHER -> IF request.op = "get" THEN End(record.value)
                                                     ELSE ToAppend(TRUE)
  /\ UNCHANGED <<files, pageCount, activePage, uniqueKeys, open, live>>

\* The chain ended without the key.
WalkEnds ==
  /\ pc = "walk" /\ link = 0
  /\ IF request.op = "get" THEN End(NoValue) ELSE ToAppend(FALSE)
  /\ UNCHANGED <<files, cache, pageCount, activePage, uniqueKeys, open, live>>

Needed == RecordLength(request.key, request.value)
\* Mutant of Fits: forgets that the header takes some of the page.
FitsBesideHeader(image) == image.used - PageHeader + Needed <= PageSize

Fits(image) == image.used + Needed <= PageSize

LoadActive ==
  /\ pc = "load"
  /\ IF Unwritten(activePage)
     THEN End("corrupt") /\ UNCHANGED cache
     ELSE /\ Load(activePage)
          /\ pc' = IF Fits(Image(activePage)) THEN "write" ELSE "create"
          /\ UNCHANGED <<request, reply, walk>>
  /\ UNCHANGED <<files, pageCount, activePage, uniqueKeys, open, live>>

\* #createPage takes its number and evicts before it writes; the page becomes
\* the active one, and is cached, only once it is on disk.
CreatePage ==
  /\ pc = "create" /\ pageCount < MaxPages
  /\ pageCount' = pageCount + 1
  /\ pages' = [pages EXCEPT ![pageCount] = NewImage]
  /\ cache' = Append(MakeRoom(cache), [page |-> pageCount, image |-> NewImage])
  /\ activePage' = pageCount
  /\ pc' = "write"
  /\ UNCHANGED <<buckets, uniqueKeys, open, request, reply, walk, live>>

\* Mutant of CreatePageFails: the page is made active before it is written.
CreateActiveFails ==
  /\ pc = "create" /\ pageCount < MaxPages
  /\ pageCount' = pageCount + 1
  /\ \E image \in {Hole, NewImage} : pages' = [pages EXCEPT ![pageCount] = image]
  /\ cache' = MakeRoom(cache)
  /\ activePage' = pageCount
  /\ End("out of space")
  /\ UNCHANGED <<buckets, uniqueKeys, open, live>>

\* The write of the new page throws, with none or all of its header on disk.
CreatePageFails ==
  /\ pc = "create" /\ pageCount < MaxPages
  /\ pageCount' = pageCount + 1
  /\ \E image \in {Hole, NewImage} : pages' = [pages EXCEPT ![pageCount] = image]
  /\ cache' = MakeRoom(cache)
  /\ End("out of space")
  /\ UNCHANGED <<buckets, activePage, uniqueKeys, open, live>>

\* PAGED_STORE_SIZE_LIMIT, thrown once the number is taken and before anything
\* is evicted.  pageCount stops one past MaxPages here: every later number is
\* refused the same way.
SizeLimit ==
  /\ pc = "create" /\ pageCount >= MaxPages
  /\ pageCount' = MaxPages + 1
  /\ End("too many pages")
  /\ UNCHANGED <<files, cache, activePage, uniqueKeys, open, live>>

\* Mutants of Appended: the record is not linked to its bucket's chain; it is
\* linked to itself; it is put at the page's start.
AppendedWith(image, offset, previous) ==
  [used |-> image.used + Needed,
   at   |-> [image.at EXCEPT ![offset] =
               [key |-> request.key, value |-> request.value, previous |-> previous]]]
AppendedUnlinked(image) == AppendedWith(image, image.used, 0)
AppendedLooping(image)  == AppendedWith(image, image.used, Address(activePage, image.used) + 1)

\* The active page's image with the request's record appended at its end.
Appended(image) ==
  [used |-> image.used + Needed,
   at   |-> [image.at EXCEPT ![image.used] =
               [key |-> request.key, value |-> request.value, previous |-> head]]]

\* The same bytes cut short on their way to disk: the page header went through
\* and the record did not.
Torn(image) ==
  [used |-> image.used + Needed, at |-> [image.at EXCEPT ![image.used] = Blank]]

\* Mutant of AppendToPage: appends to a copy.
AppendToCopy == UNCHANGED cache

\* `set` appends to the cached page in place, then writes the page through.
\* The page is the youngest entry, so #putCached leaves it where it is.
AppendToPage ==
  cache' = [cache EXCEPT ![IndexOf(activePage)].image = Appended(Image(activePage))]

WritePage ==
  /\ pc = "write"
  /\ AppendToPage
  /\ pages' = [pages EXCEPT ![activePage] = Appended(Image(activePage))]
  /\ slot' = Address(activePage, Image(activePage).used)
  /\ pc' = "head"
  /\ UNCHANGED <<buckets, pageCount, activePage, uniqueKeys, open, request,
                 reply, link, head, replaces, live>>

\* The write throws after any prefix of the page.  The cached page keeps the
\* record nobody points at, so the cache and the file may now differ.
WritePageFails ==
  /\ pc = "write"
  /\ AppendToPage
  /\ \E image \in {pages[activePage], Torn(Image(activePage)),
                   Appended(Image(activePage))} :
        pages' = [pages EXCEPT ![activePage] = image]
  /\ End("out of space")
  /\ UNCHANGED <<buckets, pageCount, activePage, uniqueKeys, open, live>>

\* The record becomes its bucket's head: only now is it held.
WriteHead ==
  /\ pc = "head"
  /\ buckets' = [buckets EXCEPT ![BucketOf[request.key]] = slot + 1]
  /\ uniqueKeys' = IF replaces THEN uniqueKeys ELSE uniqueKeys + 1
  /\ live' = live \cup {slot}
  /\ End("ok")
  /\ UNCHANGED <<pages, cache, pageCount, activePage, open>>

\* The eight-byte head did not go through: the record stays, dead.
WriteHeadFails ==
  /\ pc = "head"
  /\ End("out of space")
  /\ UNCHANGED <<files, cache, pageCount, activePage, uniqueKeys, open, live>>

\* Closing drops the cache and removes both files, which nothing reads again:
\* every later call is refused.  A second close does nothing.
Close ==
  /\ request = Idle
  /\ open' = FALSE
  /\ cache' = <<>>
  /\ UNCHANGED <<files, pageCount, activePage, uniqueKeys, request, reply, pc,
                 walk, live>>

Next ==
  \/ \E r \in Gets \cup Sets : Start(r) \/ Refuse(r)
  \/ WalkChain \/ WalkEnds
  \/ LoadActive \/ CreatePage \/ CreatePageFails \/ SizeLimit
  \/ WritePage \/ WritePageFails
  \/ WriteHead \/ WriteHeadFails
  \/ Close

Spec == Init /\ [][Next]_vars

\* A request runs on one thread to its end: whatever step is next is taken.
Serve == WalkChain \/ WalkEnds \/ LoadActive \/ CreatePage \/ CreatePageFails \/ SizeLimit
         \/ WritePage \/ WritePageFails \/ WriteHead \/ WriteHeadFails
FairSpec == Spec /\ WF_vars(Serve)

-----------------------------------------------------------------------------
\* Properties

Answers == Values \cup {NoValue, "none", "ok", "closed", "too large", "out of space", "too many pages", "corrupt"}

\* Every variable holds a value of its type; in particular no page's `used`
\* ever passes the page's end.
TypeOK ==
  /\ pages \in [0..MaxPages-1 -> Images]
  /\ buckets \in [Buckets -> Nat]
  /\ cache \in Seq(Entries)
  /\ pageCount \in 0..MaxPages+1
  /\ activePage \in -1..MaxPages-1
  /\ uniqueKeys \in Nat
  /\ open \in BOOLEAN
  /\ request \in Gets \cup Sets \cup {Idle}
  /\ reply \in Answers
  /\ pc \in {"idle", "walk", "load", "create", "write", "head"}
  /\ link \in Nat /\ head \in Nat /\ replaces \in BOOLEAN /\ slot \in Nat
  /\ live \subseteq Nat

\* The cache never holds more pages than its budget and never two copies of
\* one page: an append through one copy would otherwise leave the other stale.
CacheSound ==
  /\ Len(cache) <= CachePages
  /\ \A i, j \in 1..Len(cache) : cache[i].page = cache[j].page => i = j
  /\ \A i \in 1..Len(cache) : cache[i].page <= activePage /\ cache[i].image.used >= PageHeader

Record(a) == pages[PageOf(a)].at[OffsetOf(a)]

\* A record whose `set` returned stays whole on disk and in every cached copy
\* of its page, whatever writes fail afterwards: no later append, from either
\* copy, can land on it, because both count it among their used bytes.
CommittedRecordsSurvive ==
  \A a \in live :
    /\ PageOf(a) <= activePage
    /\ Readable(pages[PageOf(a)], OffsetOf(a))
    /\ \A i \in 1..Len(cache) : cache[i].page = PageOf(a) =>
          /\ Readable(cache[i].image, OffsetOf(a))
          /\ cache[i].image.at[OffsetOf(a)] = Record(a)

InBucket(b) == {a \in live : BucketOf[Record(a).key] = b}
LeadsToNewest(l, S) ==
  \/ l = 0 /\ S = {}
  \/ l > 0 /\ l - 1 \in S /\ \A a \in S : a < l

\* Every bucket's chain visits its committed records, newest first, and nothing
\* else: the head leads to the newest of all, and each record to the newest of
\* those before it.  Records abandoned by a failed `set` are on no chain.
ChainsSound ==
  /\ \A b \in Buckets : LeadsToNewest(buckets[b], InBucket(b))
  /\ \A a \in live :
        LeadsToNewest(Record(a).previous,
                      {c \in InBucket(BucketOf[Record(a).key]) : c < a})

\* What the files hold for each key: its newest committed record's value.
Newest(a, k) == Record(a).key = k /\ \A c \in live : Record(c).key = k => c <= a
Dict == [k \in Keys |-> IF \E a \in live : Newest(a, k)
                        THEN Record(CHOOSE a \in live : Newest(a, k)).value
                        ELSE NoValue]

KV == INSTANCE KeyValueStore WITH dict <- Dict, size <- uniqueKeys

\* The store implements the map it promises: a `get` answers with the value
\* last set, `size` counts the keys held, and a `set` that throws changes
\* neither.
ImplementsKeyValueStore == KV!Spec

\* A record whose `set` returned is never changed, moved or dropped again, so
\* an older value of a key stays where its replacement's chain link points.
CommittedForGood ==
  [][\A a \in live : a \in live' /\ Record(a)' = Record(a)]_vars

\* Every call returns or throws: no chain loops.
RequestsEnd == request # Idle ~> request = Idle
=============================================================================
