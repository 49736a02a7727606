-------------------------- MODULE PagedStoreProofs --------------------------
(***************************************************************************)
(* Theorems about PagedStore, for every page size, cache budget, hash and   *)
(* set of keys: the store's invariants, and that it implements              *)
(* KeyValueStore.                                                           *)
(***************************************************************************)
EXTENDS PagedStore, SequenceTheorems, TLAPS

-----------------------------------------------------------------------------
\* The inductive invariant

\* The active page is allocated, and written at least as far as its header.
ActiveSound ==
  /\ activePage < pageCount
  /\ activePage >= 0 => pages[activePage].used >= PageHeader

\* What a request knows at each of its steps.
Serving == {"walk", "load", "create", "write", "head"}
Appending == {"load", "create", "write", "head"}

Held(k) == \E a \in live : Record(a).key = k

RequestSound ==
  /\ request = Idle <=> pc = "idle"
  /\ pc \in Appending => request \in Sets
  /\ pc \in Serving =>
       /\ head = buckets[BucketOf[request.key]]
       /\ request \in Sets => PageHeader + Needed <= PageSize

\* The records of the key that the walk has not passed are below its cursor,
\* and the cursor is on the chain of the key's bucket.
WalkSound ==
  pc = "walk" =>
    /\ link = 0 \/ (link > 0 /\ link - 1 \in InBucket(BucketOf[request.key]))
    /\ \A a \in live : Record(a).key = request.key => a < link

\* After the walk `set` knows whether its key is held; once it has the page it
\* appends to, that page is the youngest in the cache and has the room.
AppendSound ==
  /\ pc \in Appending => (replaces <=> Held(request.key))
  /\ pc = "load" => activePage >= 0
  /\ pc = "write" =>
       /\ activePage >= 0
       /\ Cached(activePage)
       /\ Fits(Image(activePage))

\* The record is written and above every committed one, and nobody links to it.
HeadSound ==
  pc = "head" =>
    /\ PageOf(slot) = activePage
    /\ \A a \in live : a < slot
    /\ Record(slot) = [key |-> request.key, value |-> request.value, previous |-> head]
    /\ Readable(pages[activePage], OffsetOf(slot))
    /\ \A i \in 1..Len(cache) : cache[i].page = activePage =>
         /\ Readable(cache[i].image, OffsetOf(slot))
         /\ cache[i].image.at[OffsetOf(slot)] = Record(slot)

\* Every key with a committed record has a newest one.
NewestExists == \A a \in live : \E c \in live : Newest(c, Record(a).key)

IInv ==
  /\ TypeOK /\ CacheSound /\ CommittedRecordsSurvive /\ ChainsSound
  /\ ActiveSound /\ RequestSound /\ WalkSound /\ AppendSound /\ HeadSound
  /\ NewestExists

-----------------------------------------------------------------------------
\* Addresses: a page number and an offset make one number, and give it back.

LEMMA DivisionFacts ==
  ASSUME NEW a \in Nat
  PROVE  /\ PageOf(a) \in Nat /\ OffsetOf(a) \in 0..PageSize-1
         /\ a = PageOf(a) * PageSize + OffsetOf(a)
  BY SizesAssumption, SMT DEF PageOf, OffsetOf

LEMMA PagesApart ==
  ASSUME NEW p \in Nat, NEW q \in Nat, p < q
  PROVE  p * PageSize + PageSize <= q * PageSize
<1>1. PICK d \in Nat : q = p + 1 + d
  <2>. WITNESS q - p - 1 \in Nat
  <2>. QED  OBVIOUS
<1>2. q * PageSize = p * PageSize + PageSize + d * PageSize
  BY <1>1, SizesAssumption, SMT
<1>3. d * PageSize >= 0 /\ p * PageSize \in Nat /\ d * PageSize \in Nat
  BY SizesAssumption, SMT
<1>. QED  BY <1>2, <1>3, SizesAssumption

\* The page and the offset #readRecord takes an address apart into are the
\* ones `set` put it together from.
LEMMA AddressDecodes ==
  ASSUME NEW p \in Nat, NEW o \in 0..PageSize-1
  PROVE  /\ Address(p, o) \in Nat
         /\ PageOf(Address(p, o)) = p
         /\ OffsetOf(Address(p, o)) = o
<1> DEFINE a == Address(p, o)
           q == PageOf(a)
           r == OffsetOf(a)
<1>1. a \in Nat /\ p * PageSize \in Nat /\ a = p * PageSize + o
  BY SizesAssumption, SMT DEF Address
<1>2. q \in Nat /\ r \in 0..PageSize-1 /\ a = q * PageSize + r
  BY <1>1, DivisionFacts
<1>3. q * PageSize \in Nat
  BY <1>2, SizesAssumption, SMT
<1> HIDE DEF a, q, r
<1>4. ~(p < q)
  <2> SUFFICES ASSUME p < q PROVE FALSE  OBVIOUS
  <2>1. p * PageSize + PageSize <= q * PageSize
    BY <1>2, PagesApart
  <2> QED  BY <2>1, <1>1, <1>2, <1>3, SizesAssumption
<1>5. ~(q < p)
  <2> SUFFICES ASSUME q < p PROVE FALSE  OBVIOUS
  <2>1. q * PageSize + PageSize <= p * PageSize
    BY <1>2, PagesApart
  <2> QED  BY <2>1, <1>1, <1>2, <1>3, SizesAssumption
<1>6. q = p
  BY <1>2, <1>4, <1>5
<1>7. r = o
  BY <1>1, <1>2, <1>3, <1>6, SizesAssumption
<1>. QED  BY <1>1, <1>6, <1>7 DEF a, q, r

\* Addresses are ordered as their pages are, and within a page as their offsets.
LEMMA AddressOrder ==
  ASSUME NEW a \in Nat, NEW p \in Nat, NEW o \in 0..PageSize-1,
         PageOf(a) <= p,
         PageOf(a) = p => OffsetOf(a) < o
  PROVE  a < Address(p, o)
<1>1. /\ PageOf(a) \in Nat /\ OffsetOf(a) \in 0..PageSize-1
      /\ a = PageOf(a) * PageSize + OffsetOf(a)
  BY DivisionFacts
<1>2. p * PageSize \in Nat /\ PageOf(a) * PageSize \in Nat
  BY <1>1, SizesAssumption, SMT
<1>3. CASE PageOf(a) = p
  BY <1>1, <1>2, <1>3, SizesAssumption DEF Address
<1>4. CASE PageOf(a) < p
  <2>1. PageOf(a) * PageSize + PageSize <= p * PageSize
    BY <1>1, <1>4, PagesApart
  <2>. QED  BY <2>1, <1>1, <1>2, SizesAssumption DEF Address
<1>. QED  BY <1>1, <1>3, <1>4

-----------------------------------------------------------------------------
\* The page cache as a sequence

Distinct(c) == \A i, j \in 1..Len(c) : c[i].page = c[j].page => i = j

LEMMA WithoutEntries ==
  ASSUME NEW c \in Seq(Entries), NEW i \in 1..Len(c)
  PROVE  /\ Without(c, i) \in Seq(Entries)
         /\ Len(Without(c, i)) = Len(c) - 1
         /\ \A j \in 1..Len(c)-1 : Without(c, i)[j] = IF j < i THEN c[j] ELSE c[j + 1]
<1> DEFINE front == SubSeq(c, 1, i - 1)
           back  == SubSeq(c, i + 1, Len(c))
<1>1. front \in Seq(Entries) /\ Len(front) = i - 1 /\ \A j \in 1..i-1 : front[j] = c[j]
  OBVIOUS
<1>2. back \in Seq(Entries) /\ Len(back) = Len(c) - i /\ \A j \in 1..Len(c)-i : back[j] = c[i + j]
  OBVIOUS
<1> HIDE DEF front, back
<1>3. front \o back \in Seq(Entries) /\ Len(front \o back) = Len(c) - 1
  <2>1. /\ front \o back \in Seq(Entries)
        /\ Len(front \o back) = Len(front) + Len(back)
    BY <1>1, <1>2, ConcatProperties
  <2>. QED  BY <2>1, <1>1, <1>2
<1>4. ASSUME NEW j \in 1..Len(c)-1
      PROVE  (front \o back)[j] = IF j < i THEN c[j] ELSE c[j + 1]
  <2>1. (front \o back)[j] = IF j <= Len(front) THEN front[j] ELSE back[j - Len(front)]
    BY <1>1, <1>2, ConcatProperties
  <2>2. Len(front) = i - 1
    BY <1>1
  <2>3. CASE j < i
    <3>1. j \in 1..i-1
      BY <2>3
    <3>2. (front \o back)[j] = front[j]
      BY <2>1, <2>2, <3>1
    <3>. QED  BY <1>1, <2>3, <3>1, <3>2
  <2>4. CASE ~(j < i)
    <3>1. j - (i - 1) \in 1..Len(c)-i /\ i + (j - (i - 1)) = j + 1
      BY <2>4
    <3>2. (front \o back)[j] = back[j - (i - 1)]
      BY <2>1, <2>2, <2>4
    <3>. QED  BY <1>2, <2>4, <3>1, <3>2
  <2>. QED  BY <2>3, <2>4
<1>. QED  BY <1>3, <1>4 DEF Without, front, back

LEMMA MakeRoomEntries ==
  ASSUME NEW c \in Seq(Entries), Len(c) <= CachePages
  PROVE  /\ MakeRoom(c) \in Seq(Entries)
         /\ Len(MakeRoom(c)) < CachePages
         /\ \E d \in Nat : /\ Len(MakeRoom(c)) = Len(c) - d
                           /\ \A j \in 1..Len(MakeRoom(c)) : MakeRoom(c)[j] = c[j + d]
<1>1. CASE Len(c) < CachePages
  BY <1>1 DEF MakeRoom
<1>2. CASE Len(c) = CachePages
  <2>1. MakeRoom(c) = SubSeq(c, 2, Len(c))
    BY <1>2, SizesAssumption DEF MakeRoom
  <2>2. /\ SubSeq(c, 2, Len(c)) \in Seq(Entries)
        /\ Len(SubSeq(c, 2, Len(c))) = Len(c) - 1
        /\ \A j \in 1..Len(c)-1 : SubSeq(c, 2, Len(c))[j] = c[j + 1]
    BY <1>2, SizesAssumption
  <2>. QED  BY <1>2, <2>1, <2>2, SizesAssumption
<1>. QED  BY <1>1, <1>2, SizesAssumption

\* A page is cached at one index, so that is the index IndexOf finds.
LEMMA IndexIsUnique ==
  ASSUME NEW i \in 1..Len(cache), Distinct(cache)
  PROVE  IndexOf(cache[i].page) = i
  BY DEF IndexOf, Distinct

\* After #loadPage the page is the youngest entry, with the image the cache or
\* the file held; every other entry was there before; nothing is there twice
\* and the budget holds.
LEMMA LoadedCache ==
  ASSUME TypeOK, Len(cache) <= CachePages, Distinct(cache),
         NEW page \in 0..MaxPages-1, Load(page)
  PROVE  /\ cache' \in Seq(Entries)
         /\ Len(cache') \in 1..CachePages
         /\ Distinct(cache)'
         /\ cache'[Len(cache')] = [page |-> page, image |-> Image(page)]
         /\ \A j \in 1..Len(cache') :
              \/ cache'[j] = [page |-> page, image |-> Image(page)]
              \/ \E i \in 1..Len(cache) : cache'[j] = cache[i]
<1>0. cache \in Seq(Entries) /\ pages[page] \in Images
  BY DEF TypeOK
<1>1. CASE Cached(page)
  <2> DEFINE k == IndexOf(page)
             w == Without(cache, k)
  <2>1. k \in 1..Len(cache) /\ cache[k].page = page
    BY <1>1 DEF Cached, IndexOf
  <2>2. cache[k] \in Entries /\ cache[k] = [page |-> page, image |-> Image(page)]
    <3>1. cache[k] \in Entries
      BY <1>0, <2>1
    <3>2. Image(page) = cache[k].image
      BY <1>1 DEF Image
    <3>. QED  BY <2>1, <3>1, <3>2 DEF Entries
  <2>3. /\ w \in Seq(Entries) /\ Len(w) = Len(cache) - 1
        /\ \A j \in 1..Len(cache)-1 : w[j] = IF j < k THEN cache[j] ELSE cache[j + 1]
    BY <1>0, <2>1, WithoutEntries
  <2>4. cache' = Append(w, cache[k])
    BY <1>1 DEF Load
  <2> HIDE DEF k, w
  <2>5. /\ cache' \in Seq(Entries) /\ Len(cache') = Len(cache)
        /\ cache'[Len(cache')] = cache[k]
        /\ \A j \in 1..Len(cache)-1 : cache'[j] = IF j < k THEN cache[j] ELSE cache[j + 1]
    BY <1>0, <2>1, <2>2, <2>3, <2>4
  <2>6. Distinct(cache)'
    <3> SUFFICES ASSUME NEW i \in 1..Len(cache), NEW j \in 1..Len(cache),
                        cache'[i].page = cache'[j].page
                 PROVE  i = j
      BY <2>5 DEF Distinct
    <3> DEFINE from(m) == IF m = Len(cache) THEN k ELSE IF m < k THEN m ELSE m + 1
    <3>1. \A m \in 1..Len(cache) : from(m) \in 1..Len(cache) /\ cache'[m] = cache[from(m)]
      BY <1>0, <2>1, <2>5
    <3>2. from(i) = from(j)
      <4>1. /\ from(i) \in 1..Len(cache) /\ from(j) \in 1..Len(cache)
            /\ cache'[i] = cache[from(i)] /\ cache'[j] = cache[from(j)]
        BY <3>1
      <4>2. cache[from(i)].page = cache[from(j)].page
        BY <4>1
      <4> HIDE DEF from
      <4>. QED  BY <4>1, <4>2 DEF Distinct
    <3>3. Len(cache) \in Nat /\ k \in 1..Len(cache)
      BY <2>1, <1>0
    <3>4. CASE i = Len(cache)
      <4>1. from(i) = k
        BY <3>4
      <4>2. j < Len(cache) => from(j) # k
        BY <3>3
      <4>. QED  BY <3>2, <3>3, <3>4, <4>1, <4>2
    <3>5. CASE i < Len(cache)
      <4>1. from(i) = (IF i < k THEN i ELSE i + 1) /\ from(i) # k
        BY <3>3, <3>5
      <4>2. j < Len(cache)
        BY <3>2, <3>3, <4>1
      <4>3. from(j) = IF j < k THEN j ELSE j + 1
        BY <4>2, <3>3
      <4>. QED  BY <3>2, <3>3, <4>1, <4>3
    <3>. QED  BY <3>3, <3>4, <3>5
  <2>7. ASSUME NEW j \in 1..Len(cache')
        PROVE  \E i \in 1..Len(cache) : cache'[j] = cache[i]
    BY <1>0, <2>1, <2>5
  <2>8. Len(cache') \in 1..CachePages
    BY <1>0, <2>1, <2>5, SizesAssumption
  <2>. QED  BY <2>2, <2>5, <2>6, <2>7, <2>8
<1>2. CASE ~Cached(page)
  <2> DEFINE m == MakeRoom(cache)
             e == [page |-> page, image |-> pages[page]]
  <2>1. PICK d \in Nat :
          /\ m \in Seq(Entries) /\ Len(m) < CachePages
          /\ Len(m) = Len(cache) - d
          /\ \A j \in 1..Len(m) : m[j] = cache[j + d]
    BY <1>0, MakeRoomEntries
  <2>2. e \in Entries /\ e = [page |-> page, image |-> Image(page)]
    BY <1>0, <1>2 DEF Entries, Image
  <2>3. cache' = Append(m, e)
    BY <1>2 DEF Load
  <2>x. e.page = page  OBVIOUS
  <2> HIDE DEF m, e
  <2>4. /\ cache' \in Seq(Entries) /\ Len(cache') = Len(m) + 1
        /\ cache'[Len(cache')] = e
        /\ \A j \in 1..Len(m) : cache'[j] = cache[j + d]
    BY <2>1, <2>2, <2>3
  <2>5. \A j \in 1..Len(m) : j + d \in 1..Len(cache)
    BY <1>0, <2>1
  <2>6. Distinct(cache)'
    <3> SUFFICES ASSUME NEW i \in 1..Len(cache'), NEW j \in 1..Len(cache'),
                        cache'[i].page = cache'[j].page
                 PROVE  i = j
      BY DEF Distinct
    <3>1. CASE i \in 1..Len(m) /\ j \in 1..Len(m)
      <4>1. cache[i + d].page = cache[j + d].page
        BY <3>1, <2>4
      <4>2. i + d = j + d
        BY <3>1, <4>1, <2>5 DEF Distinct
      <4>. QED  BY <3>1, <4>2
    <3>2. CASE i = Len(m) + 1 /\ j = Len(m) + 1
      BY <3>2
    <3>3. CASE i = Len(m) + 1 /\ j \in 1..Len(m)
      BY <3>3, <1>2, <2>4, <2>5, <2>x DEF Cached
    <3>4. CASE i \in 1..Len(m) /\ j = Len(m) + 1
      BY <3>4, <1>2, <2>4, <2>5, <2>x DEF Cached
    <3>. QED
      <4>1. i \in 1..Len(m)+1 /\ j \in 1..Len(m)+1 /\ Len(m) \in Nat
        BY <2>1, <2>4
      <4>. QED  BY <4>1, <3>1, <3>2, <3>3, <3>4
  <2>7. ASSUME NEW j \in 1..Len(cache')
        PROVE  \/ cache'[j] = e
               \/ \E i \in 1..Len(cache) : cache'[j] = cache[i]
    <3>1. CASE j = Len(cache')
      BY <3>1, <2>4
    <3>2. CASE j \in 1..Len(m)
      BY <3>2, <2>4, <2>5
    <3>. QED  BY <3>1, <3>2, <2>1, <2>4
  <2>8. Len(cache') \in 1..CachePages
    BY <2>1, <2>4, SizesAssumption
  <2>. QED  BY <2>2, <2>4, <2>6, <2>7, <2>8
<1>. QED  BY <1>1, <1>2

-----------------------------------------------------------------------------
\* What the invariant says of the parts an action reads

LEMMA LengthFacts ==
  /\ \A r \in Records : RecordLength(r.key, r.value) \in Nat \ {0}
  /\ request \in Sets => Needed \in Nat \ {0}
<1>1. \A k \in Keys, v \in Values : RecordLength(k, v) \in Nat \ {0}
  BY SizesAssumption DEF RecordLength
<1>. QED  BY <1>1 DEF Records, Sets, Needed

LEMMA LiveFacts ==
  ASSUME TypeOK, CommittedRecordsSurvive, ActiveSound, NEW a \in live
  PROVE  /\ a \in Nat
         /\ PageOf(a) \in 0..MaxPages-1 /\ OffsetOf(a) \in 0..PageSize-1
         /\ PageOf(a) <= activePage
         /\ Record(a) \in Records
         /\ BucketOf[Record(a).key] \in Buckets
         /\ ~Unwritten(PageOf(a))
<1>1. a \in Nat /\ PageOf(a) \in Nat /\ OffsetOf(a) \in 0..PageSize-1
  BY DivisionFacts DEF TypeOK
<1>2. PageOf(a) <= activePage /\ Readable(pages[PageOf(a)], OffsetOf(a))
  BY DEF CommittedRecordsSurvive
<1>3. activePage \in Int /\ activePage <= MaxPages - 1 /\ activePage < pageCount /\ pageCount \in Int
  BY SizesAssumption DEF TypeOK, ActiveSound
<1>4. PageOf(a) \in 0..MaxPages-1
  BY <1>1, <1>2, <1>3, SizesAssumption
<1>5. pages[PageOf(a)] \in Images
  BY <1>4 DEF TypeOK
<1>6. Record(a) \in Records
  BY <1>1, <1>2, <1>5 DEF Record, Readable, Images
<1>7. ~Unwritten(PageOf(a))
  <2>1. pages[PageOf(a)].used >= PageHeader
    BY <1>2 DEF Readable
  <2>2. pages[PageOf(a)].used \in Nat
    BY <1>5 DEF Images
  <2>. QED  BY <1>1, <1>2, <1>3, <2>1, <2>2, SizesAssumption DEF Unwritten
<1>. QED  BY <1>1, <1>2, <1>4, <1>6, <1>7, NamesAssumption DEF Records

\* The image #loadPage returns agrees with the file on every committed record,
\* whichever of the two it comes from.
LEMMA ImageFacts ==
  ASSUME TypeOK, CacheSound, CommittedRecordsSurvive, ActiveSound,
         NEW page \in 0..MaxPages-1, ~Unwritten(page)
  PROVE  /\ Image(page) \in Images
         /\ Image(page).used >= PageHeader
         /\ \A a \in live : PageOf(a) = page =>
              /\ Readable(Image(page), OffsetOf(a))
              /\ Image(page).at[OffsetOf(a)] = Record(a)
<1>1. CASE Cached(page)
  <2>1. /\ IndexOf(page) \in 1..Len(cache) /\ cache[IndexOf(page)].page = page
        /\ Image(page) = cache[IndexOf(page)].image
    BY <1>1 DEF Cached, IndexOf, Image
  <2>2. cache[IndexOf(page)] \in Entries
    BY <2>1 DEF TypeOK
  <2>. QED  BY <2>1, <2>2 DEF Entries, CacheSound, CommittedRecordsSurvive
<1>2. CASE ~Cached(page)
  <2>1. Image(page) = pages[page] /\ pages[page] \in Images
    BY <1>2 DEF Image, TypeOK
  <2>2. pages[page].used >= PageHeader
    BY <1>2, <2>1, SizesAssumption DEF Unwritten, Images
  <2>. QED  BY <2>1, <2>2 DEF CommittedRecordsSurvive, Record
<1>. QED  BY <1>1, <1>2

\* Loading a written page disturbs nothing and leaves that page in the cache.
LEMMA LoadKeeps ==
  ASSUME TypeOK, CacheSound, CommittedRecordsSurvive, ActiveSound,
         NEW page \in 0..MaxPages-1, page <= activePage, ~Unwritten(page),
         Load(page), UNCHANGED <<pages, live, activePage>>
  PROVE  /\ cache' \in Seq(Entries)
         /\ CacheSound' /\ CommittedRecordsSurvive'
         /\ Cached(page)' /\ Image(page)' = Image(page)
<1>1. /\ cache \in Seq(Entries) /\ Len(cache) <= CachePages /\ Distinct(cache)
  BY DEF TypeOK, CacheSound, Distinct
<1>2. /\ cache' \in Seq(Entries)
      /\ Len(cache') \in 1..CachePages
      /\ Distinct(cache)'
      /\ cache'[Len(cache')] = [page |-> page, image |-> Image(page)]
      /\ \A j \in 1..Len(cache') :
           \/ cache'[j] = [page |-> page, image |-> Image(page)]
           \/ \E i \in 1..Len(cache) : cache'[j] = cache[i]
  BY <1>1, LoadedCache
<1>3. /\ Image(page) \in Images
      /\ Image(page).used >= PageHeader
      /\ \A a \in live : PageOf(a) = page =>
           /\ Readable(Image(page), OffsetOf(a))
           /\ Image(page).at[OffsetOf(a)] = Record(a)
  BY ImageFacts
<1>4. CacheSound'
  <2>1. \A j \in 1..Len(cache') :
          cache'[j].page <= activePage /\ cache'[j].image.used >= PageHeader
    BY <1>2, <1>3 DEF CacheSound
  <2>2. Len(cache') <= CachePages
    BY <1>2, SizesAssumption
  <2>3. \A i, j \in 1..Len(cache') : cache'[i].page = cache'[j].page => i = j
    BY <1>2 DEF Distinct
  <2>. QED  BY <2>1, <2>2, <2>3 DEF CacheSound
<1>5. CommittedRecordsSurvive'
  <2> SUFFICES ASSUME NEW a \in live, NEW j \in 1..Len(cache'), cache'[j].page = PageOf(a)
               PROVE  /\ Readable(cache'[j].image, OffsetOf(a))
                      /\ cache'[j].image.at[OffsetOf(a)] = Record(a)
    BY DEF CommittedRecordsSurvive, Record
  <2>1. CASE cache'[j] = [page |-> page, image |-> Image(page)]
    BY <2>1, <1>3
  <2>2. CASE \E i \in 1..Len(cache) : cache'[j] = cache[i]
    BY <2>2 DEF CommittedRecordsSurvive
  <2>. QED  BY <1>2, <2>1, <2>2
<1>6. Cached(page)' /\ Image(page)' = Image(page)
  <2>1. Len(cache') \in 1..Len(cache') /\ cache'[Len(cache')].page = page
    BY <1>2
  <2>2. Cached(page)'
    BY <2>1 DEF Cached
  <2>3. (IndexOf(page))' = Len(cache')
    BY <1>2, <2>1 DEF IndexOf, Distinct
  <2>. QED  BY <2>2, <2>3, <1>2 DEF Image
<1>. QED  BY <1>2, <1>4, <1>5, <1>6

\* A step that keeps every committed record keeps the chains.
LEMMA ChainsKept ==
  ASSUME ChainsSound, NewestExists, UNCHANGED <<live, buckets>>,
         \A a \in live : Record(a)' = Record(a)
  PROVE  /\ ChainsSound' /\ NewestExists'
         /\ \A b \in Buckets : InBucket(b)' = InBucket(b)
         /\ \A k \in Keys : Held(k)' <=> Held(k)
<1>1. \A b : InBucket(b)' = InBucket(b)
  BY DEF InBucket
<1>2. ChainsSound'
  <2>1. \A b \in Buckets : LeadsToNewest(buckets[b], InBucket(b))'
    BY <1>1 DEF ChainsSound, LeadsToNewest
  <2>2. ASSUME NEW a \in live
        PROVE  LeadsToNewest(Record(a).previous,
                             {c \in InBucket(BucketOf[Record(a).key]) : c < a})'
    BY <1>1 DEF ChainsSound, LeadsToNewest
  <2>. QED  BY <2>1, <2>2 DEF ChainsSound
<1>3. NewestExists'
  BY DEF NewestExists, Newest
<1>. QED  BY <1>1, <1>2, <1>3 DEF Held

-----------------------------------------------------------------------------
\* The invariant is inductive

LEMMA InitIInv == Init => IInv
<1> SUFFICES ASSUME Init PROVE IInv  OBVIOUS
<1> USE DEF Init
<1>1. TypeOK
  <2>1. Hole \in Images
    BY SizesAssumption DEF Hole, Nothing, Images
  <2>2. cache \in Seq(Entries)
    BY EmptySeq
  <2>3. /\ pages \in [0..MaxPages-1 -> Images] /\ buckets \in [Buckets -> Nat]
        /\ pageCount \in 0..MaxPages+1 /\ activePage \in -1..MaxPages-1
    BY <2>1, SizesAssumption
  <2>. QED  BY <2>2, <2>3 DEF TypeOK, Answers
<1>2. CacheSound /\ CommittedRecordsSurvive /\ NewestExists
  BY SizesAssumption DEF CacheSound, CommittedRecordsSurvive, NewestExists
<1>3. ChainsSound
  BY DEF ChainsSound, LeadsToNewest, InBucket
<1>4. ActiveSound /\ RequestSound /\ WalkSound /\ AppendSound /\ HeadSound
  BY DEF ActiveSound, RequestSound, WalkSound, AppendSound, HeadSound, Serving, Appending
<1>. QED  BY <1>1, <1>2, <1>3, <1>4 DEF IInv

\* A step that changes only how a request stands keeps what the files and the
\* cache hold.
LEMMA StillSound ==
  ASSUME IInv, UNCHANGED <<pages, buckets, cache, pageCount, activePage, live>>
  PROVE  /\ CacheSound' /\ CommittedRecordsSurvive' /\ ChainsSound'
         /\ ActiveSound' /\ NewestExists'
         /\ \A b \in Buckets : InBucket(b)' = InBucket(b)
         /\ \A k \in Keys : Held(k)' <=> Held(k)
<1>1. \A a : Record(a)' = Record(a)
  BY DEF Record
<1>2. CacheSound' /\ ActiveSound' /\ CommittedRecordsSurvive'
  BY DEF IInv, CacheSound, ActiveSound, CommittedRecordsSurvive, Record
<1>. QED  BY <1>1, <1>2, ChainsKept DEF IInv

LEMMA StartIInv ==
  ASSUME IInv, NEW r \in Gets \cup Sets, Start(r)
  PROVE  IInv'
<1> USE DEF Start, files
<1>1. /\ r.key \in Keys /\ BucketOf[r.key] \in Buckets
      /\ r # Idle
      /\ r.op = "set" <=> r \in Sets
  BY NamesAssumption DEF Gets, Sets
<1>2. buckets[BucketOf[r.key]] \in Nat
  BY <1>1 DEF IInv, TypeOK
<1>3. TypeOK'
  BY <1>1, <1>2 DEF IInv, TypeOK, Answers
<1>4. /\ CacheSound' /\ CommittedRecordsSurvive' /\ ChainsSound'
      /\ ActiveSound' /\ NewestExists'
      /\ \A b \in Buckets : InBucket(b)' = InBucket(b)
  BY StillSound
<1>5. RequestSound'
  BY <1>1 DEF IInv, RequestSound, Serving, Appending, Needed
<1>6. WalkSound'
  <2>1. LeadsToNewest(link', InBucket(BucketOf[r.key]))
    BY <1>1 DEF IInv, ChainsSound
  <2>2. \A a \in live : Record(a).key = r.key => a \in InBucket(BucketOf[r.key])
    BY DEF InBucket
  <2>3. \A a \in live : Record(a)' = Record(a)
    BY DEF Record
  <2>4. \A a \in live : Record(a).key = r.key => a < link'
    BY <2>1, <2>2 DEF LeadsToNewest
  <2>5. link' = 0 \/ (link' > 0 /\ link' - 1 \in InBucket(BucketOf[r.key]))
    BY <2>1 DEF LeadsToNewest
  <2>. QED  BY <1>1, <1>4, <2>3, <2>4, <2>5 DEF WalkSound
<1>7. AppendSound' /\ HeadSound'
  BY DEF AppendSound, HeadSound, Appending
<1>. QED  BY <1>3, <1>4, <1>5, <1>6, <1>7 DEF IInv

LEMMA RefuseIInv ==
  ASSUME IInv, NEW r \in Gets \cup Sets, Refuse(r)
  PROVE  IInv'
<1> USE DEF Refuse, files, walk
<1>1. TypeOK'
  BY DEF IInv, TypeOK, Answers
<1>2. /\ CacheSound' /\ CommittedRecordsSurvive' /\ ChainsSound'
      /\ ActiveSound' /\ NewestExists'
  BY StillSound
<1>3. pc = "idle"
  BY DEF IInv, RequestSound
<1>4. RequestSound' /\ WalkSound' /\ AppendSound' /\ HeadSound'
  BY <1>3 DEF IInv, RequestSound, WalkSound, AppendSound, HeadSound, Serving, Appending
<1>. QED  BY <1>1, <1>2, <1>4 DEF IInv

\* A request that ends leaves nothing behind to hold.
LEMMA EndSound ==
  ASSUME NEW answer, End(answer)
  PROVE  RequestSound' /\ WalkSound' /\ AppendSound' /\ HeadSound'
  BY DEF End, RequestSound, WalkSound, AppendSound, HeadSound, Serving, Appending

LEMMA CloseIInv == IInv /\ Close => IInv'
<1> SUFFICES ASSUME IInv, Close PROVE IInv'  OBVIOUS
<1> USE DEF Close, files, walk
<1>1. pc = "idle"
  BY DEF IInv, RequestSound
<1>2. TypeOK'
  <2>1. cache' \in Seq(Entries)
    BY EmptySeq
  <2>. QED  BY <2>1 DEF IInv, TypeOK
<1>3. CacheSound' /\ CommittedRecordsSurvive' /\ ActiveSound'
  BY SizesAssumption DEF IInv, CacheSound, CommittedRecordsSurvive, ActiveSound, Record
<1>4. ChainsSound' /\ NewestExists'
  BY ChainsKept DEF IInv, Record
<1>5. RequestSound' /\ WalkSound' /\ AppendSound' /\ HeadSound'
  BY <1>1 DEF IInv, RequestSound, WalkSound, AppendSound, HeadSound, Serving, Appending
<1>. QED  BY <1>2, <1>3, <1>4, <1>5 DEF IInv

\* The walk's cursor: where it points, and what it reads there.
LEMMA CursorFacts ==
  ASSUME IInv, pc = "walk", link # 0
  PROVE  LET a == link - 1 IN
         /\ a \in live
         /\ BucketOf[Record(a).key] = BucketOf[request.key]
         /\ PageOf(a) \in 0..MaxPages-1 /\ PageOf(a) <= activePage
         /\ ~Unwritten(PageOf(a))
         /\ Readable(Image(PageOf(a)), OffsetOf(a))
         /\ Image(PageOf(a)).at[OffsetOf(a)] = Record(a)
         /\ Record(a) \in Records
<1>1. link - 1 \in live /\ BucketOf[Record(link - 1).key] = BucketOf[request.key]
  BY DEF IInv, WalkSound, InBucket
<1>2. /\ PageOf(link - 1) \in 0..MaxPages-1 /\ PageOf(link - 1) <= activePage
      /\ ~Unwritten(PageOf(link - 1))
      /\ Record(link - 1) \in Records
  BY <1>1, LiveFacts DEF IInv
<1>3. /\ Readable(Image(PageOf(link - 1)), OffsetOf(link - 1))
      /\ Image(PageOf(link - 1)).at[OffsetOf(link - 1)] = Record(link - 1)
  BY <1>1, <1>2, ImageFacts DEF IInv
<1>. QED  BY <1>1, <1>2, <1>3

\* What one turn of the walk is, now that it never faults.
LEMMA WalkCases ==
  ASSUME IInv, WalkChain
  PROVE  LET record == Record(link - 1) IN
         /\ pc = "walk" /\ link # 0
         /\ Load(PageOf(link - 1))
         /\ UNCHANGED <<files, pageCount, activePage, uniqueKeys, open, live>>
         /\ \/ /\ record.key # request.key
               /\ link' = record.previous
               /\ UNCHANGED <<reply, request, pc, head, replaces, slot>>
            \/ /\ record.key = request.key /\ request.op = "get"
               /\ End(record.value)
            \/ /\ record.key = request.key /\ request.op # "get"
               /\ ToAppend(TRUE)
  BY CursorFacts DEF WalkChain

LEMMA WalkChainIInv == IInv /\ WalkChain => IInv'
<1> SUFFICES ASSUME IInv, WalkChain PROVE IInv'  OBVIOUS
<1> DEFINE a == link - 1
           record == Record(a)
<1>1. /\ pc = "walk" /\ link # 0
      /\ Load(PageOf(a))
      /\ UNCHANGED <<pages, buckets, pageCount, activePage, uniqueKeys, open, live>>
  BY WalkCases DEF files
<1>2. /\ a \in live /\ PageOf(a) \in 0..MaxPages-1 /\ PageOf(a) <= activePage
      /\ ~Unwritten(PageOf(a))
      /\ BucketOf[record.key] = BucketOf[request.key]
      /\ record \in Records
  BY <1>1, CursorFacts
<1>3. cache' \in Seq(Entries) /\ CacheSound' /\ CommittedRecordsSurvive'
  BY <1>1, <1>2, LoadKeeps DEF IInv
<1>4. ActiveSound'
  BY <1>1 DEF IInv, ActiveSound
<1>5. \A c : Record(c)' = Record(c)
  BY <1>1 DEF Record
<1>6. /\ ChainsSound' /\ NewestExists'
      /\ \A b \in Buckets : InBucket(b)' = InBucket(b)
      /\ \A k \in Keys : Held(k)' <=> Held(k)
  BY <1>1, <1>5, ChainsKept DEF IInv
<1>7. request \in Gets \cup Sets /\ request.key \in Keys /\ BucketOf[request.key] \in Buckets
  BY <1>1, NamesAssumption DEF IInv, TypeOK, RequestSound, Gets, Sets
<1>8. CASE /\ record.key # request.key
           /\ link' = record.previous
           /\ UNCHANGED <<reply, request, pc, head, replaces, slot>>
  <2>1. TypeOK'
    BY <1>1, <1>2, <1>3, <1>8 DEF IInv, TypeOK, Records
  <2>2. RequestSound' /\ AppendSound' /\ HeadSound'
    BY <1>1, <1>8 DEF IInv, RequestSound, AppendSound, HeadSound, Serving, Appending, Needed
  <2>3. LeadsToNewest(record.previous, {c \in InBucket(BucketOf[request.key]) : c < a})
    BY <1>2 DEF IInv, ChainsSound
  <2>4. ASSUME NEW c \in live, Record(c).key = request.key
        PROVE  c < link'
    <3>1. c < link /\ c # a /\ c \in Nat /\ link \in Nat
      BY <1>1, <1>8, <2>4 DEF IInv, WalkSound, TypeOK
    <3>2. c < a /\ c \in InBucket(BucketOf[request.key])
      BY <3>1, <2>4 DEF InBucket
    <3>. QED  BY <3>2, <2>3, <1>8 DEF LeadsToNewest
  <2>5. link' = 0 \/ (link' > 0 /\ link' - 1 \in InBucket(BucketOf[request.key]))
    BY <2>3, <1>8 DEF LeadsToNewest
  <2>6. WalkSound'
    BY <1>1, <1>5, <1>6, <1>7, <1>8, <2>4, <2>5 DEF WalkSound
  <2>. QED  BY <1>3, <1>4, <1>6, <2>1, <2>2, <2>6 DEF IInv
<1>9. CASE record.key = request.key /\ request.op = "get" /\ End(record.value)
  <2>1. TypeOK'
    BY <1>1, <1>2, <1>3, <1>9 DEF IInv, TypeOK, Records, End, Answers
  <2>. QED  BY <1>3, <1>4, <1>6, <1>9, <2>1, EndSound DEF IInv
<1>10. CASE record.key = request.key /\ request.op # "get" /\ ToAppend(TRUE)
  <2>1. request \in Sets
    BY <1>7, <1>10 DEF Gets
  <2>2. TypeOK'
    BY <1>1, <1>3, <1>10 DEF IInv, TypeOK, ToAppend
  <2>3. RequestSound' /\ WalkSound' /\ HeadSound'
    BY <1>1, <1>10, <2>1 DEF IInv, RequestSound, WalkSound, HeadSound, ToAppend, Serving,
       Appending, Needed
  <2>4. Held(request.key)
    BY <1>2, <1>10 DEF Held
  <2>5. AppendSound'
    BY <1>1, <1>6, <1>7, <1>10, <2>2, <2>4 DEF AppendSound, ToAppend, Appending, TypeOK
  <2>. QED  BY <1>3, <1>4, <1>6, <2>2, <2>3, <2>5 DEF IInv
<1>. QED  BY WalkCases, <1>8, <1>9, <1>10

LEMMA WalkEndsIInv == IInv /\ WalkEnds => IInv'
<1> SUFFICES ASSUME IInv, WalkEnds PROVE IInv'  OBVIOUS
<1> USE DEF WalkEnds, files
<1>1. /\ CacheSound' /\ CommittedRecordsSurvive' /\ ChainsSound'
      /\ ActiveSound' /\ NewestExists'
      /\ \A k \in Keys : Held(k)' <=> Held(k)
  BY StillSound
<1>2. request \in Gets \cup Sets /\ request.key \in Keys
  BY DEF IInv, TypeOK, RequestSound, Gets, Sets
<1>3. CASE request.op = "get"
  <2>1. End(NoValue)
    BY <1>3
  <2>2. TypeOK'
    BY <2>1 DEF IInv, TypeOK, End, Answers
  <2>. QED  BY <1>1, <2>1, <2>2, EndSound DEF IInv
<1>4. CASE request.op # "get"
  <2>1. request \in Sets /\ ToAppend(FALSE)
    BY <1>2, <1>4 DEF Gets
  <2>2. TypeOK'
    BY <2>1 DEF IInv, TypeOK, ToAppend
  <2>3. RequestSound' /\ WalkSound' /\ HeadSound'
    BY <2>1 DEF IInv, RequestSound, WalkSound, HeadSound, ToAppend, Serving, Appending, Needed
  <2>4. ~Held(request.key)
    BY DEF IInv, WalkSound, Held, TypeOK
  <2>5. AppendSound'
    BY <1>1, <1>2, <2>1, <2>2, <2>4 DEF AppendSound, ToAppend, Appending, TypeOK
  <2>. QED  BY <1>1, <2>2, <2>3, <2>5 DEF IInv
<1>. QED  BY <1>3, <1>4

LEMMA LoadActiveIInv == IInv /\ LoadActive => IInv'
<1> SUFFICES ASSUME IInv, LoadActive PROVE IInv'  OBVIOUS
<1>1. pc = "load" /\ activePage \in 0..MaxPages-1
  BY SizesAssumption DEF LoadActive, IInv, AppendSound, TypeOK
<1>2. ~Unwritten(activePage)
  <2>1. pages[activePage].used \in Nat /\ pages[activePage].used >= PageHeader
    BY <1>1, SizesAssumption DEF IInv, TypeOK, ActiveSound, Images
  <2>. QED  BY <1>1, <2>1, SizesAssumption DEF Unwritten, IInv, ActiveSound, TypeOK
<1>3. /\ Load(activePage)
      /\ pc' = IF Fits(Image(activePage)) THEN "write" ELSE "create"
      /\ UNCHANGED <<request, reply, link, head, replaces, slot>>
      /\ UNCHANGED <<pages, buckets, pageCount, activePage, uniqueKeys, open, live>>
  BY <1>2 DEF LoadActive, files, walk
<1>4. /\ cache' \in Seq(Entries) /\ CacheSound' /\ CommittedRecordsSurvive'
      /\ Cached(activePage)' /\ Image(activePage)' = Image(activePage)
  BY <1>1, <1>2, <1>3, LoadKeeps DEF IInv
<1>5. \A c : Record(c)' = Record(c)
  BY <1>3 DEF Record
<1>6. ChainsSound' /\ NewestExists' /\ \A k \in Keys : Held(k)' <=> Held(k)
  BY <1>3, <1>5, ChainsKept DEF IInv
<1>7. TypeOK'
  BY <1>3, <1>4 DEF IInv, TypeOK
<1>8. ActiveSound'
  BY <1>3 DEF IInv, ActiveSound
<1>9. RequestSound' /\ WalkSound' /\ HeadSound'
  BY <1>1, <1>3 DEF IInv, RequestSound, WalkSound, HeadSound, Serving, Appending, Needed
<1>10. AppendSound'
  <2>1. request \in Sets /\ request.key \in Keys
    BY <1>1 DEF IInv, RequestSound, Appending, Sets
  <2>2. replaces' <=> Held(request.key)'
    BY <1>1, <1>3, <1>6, <2>1 DEF IInv, AppendSound, Appending
  <2>3. pc' = "write" => Fits(Image(activePage))'
    BY <1>3, <1>4 DEF Fits, Needed
  <2>. QED  BY <1>1, <1>3, <1>4, <2>2, <2>3 DEF AppendSound
<1>. QED  BY <1>4, <1>6, <1>7, <1>8, <1>9, <1>10 DEF IInv

\* Taking a fresh page touches no page that holds a committed record.
LEMMA FreshPage ==
  ASSUME IInv, pageCount < MaxPages, NEW image \in Images,
         pages' = [pages EXCEPT ![pageCount] = image],
         UNCHANGED <<live, buckets>>
  PROVE  /\ pages' \in [0..MaxPages-1 -> Images]
         /\ pageCount \in 0..MaxPages-1
         /\ \A a \in live : PageOf(a) # pageCount /\ pages'[PageOf(a)] = pages[PageOf(a)]
         /\ \A a \in live : Record(a)' = Record(a)
         /\ ChainsSound' /\ NewestExists'
         /\ \A k \in Keys : Held(k)' <=> Held(k)
<1>1. pageCount \in 0..MaxPages-1 /\ pages \in [0..MaxPages-1 -> Images] /\ activePage < pageCount
      /\ activePage \in Int
  BY SizesAssumption DEF IInv, TypeOK, ActiveSound
<1>2. ASSUME NEW a \in live
      PROVE  PageOf(a) # pageCount /\ pages'[PageOf(a)] = pages[PageOf(a)]
  <2>1. PageOf(a) \in 0..MaxPages-1 /\ PageOf(a) <= activePage
    BY LiveFacts DEF IInv
  <2>. QED  BY <1>1, <2>1
<1>3. \A a \in live : Record(a)' = Record(a)
  BY <1>2 DEF Record
<1>4. /\ ChainsSound' /\ NewestExists'
      /\ \A k \in Keys : Held(k)' <=> Held(k)
  BY <1>3, ChainsKept DEF IInv
<1>. QED  BY <1>1, <1>2, <1>3, <1>4

LEMMA ImagesOfNewPages == Hole \in Images /\ NewImage \in Images
  BY SizesAssumption DEF Hole, NewImage, Nothing, Images

\* The entries #makeRoom leaves are sound, and leave room for one more.
LEMMA RoomMade ==
  ASSUME IInv
  PROVE  /\ MakeRoom(cache) \in Seq(Entries)
         /\ Len(MakeRoom(cache)) < CachePages
         /\ Distinct(MakeRoom(cache))
         /\ \A j \in 1..Len(MakeRoom(cache)) :
              \E i \in 1..Len(cache) : MakeRoom(cache)[j] = cache[i]
<1>1. cache \in Seq(Entries) /\ Len(cache) <= CachePages
  BY DEF IInv, TypeOK, CacheSound
<1> DEFINE m == MakeRoom(cache)
<1>2. PICK d \in Nat :
        /\ m \in Seq(Entries) /\ Len(m) < CachePages
        /\ Len(m) = Len(cache) - d
        /\ \A j \in 1..Len(m) : m[j] = cache[j + d]
  BY <1>1, MakeRoomEntries
<1> HIDE DEF m
<1>3. \A j \in 1..Len(m) : j + d \in 1..Len(cache)
  BY <1>1, <1>2
<1>4. Distinct(m)
  <2> SUFFICES ASSUME NEW i \in 1..Len(m), NEW j \in 1..Len(m), m[i].page = m[j].page
               PROVE  i = j
    BY DEF Distinct
  <2>1. i + d = j + d
    BY <1>2, <1>3 DEF IInv, CacheSound
  <2>. QED  BY <2>1
<1>5. \A j \in 1..Len(m) : \E i \in 1..Len(cache) : m[j] = cache[i]
  BY <1>2, <1>3
<1>. QED  BY <1>2, <1>4, <1>5 DEF m

LEMMA CreatePageIInv == IInv /\ CreatePage => IInv'
<1> SUFFICES ASSUME IInv, CreatePage PROVE IInv'  OBVIOUS
<1> USE DEF CreatePage
<1> DEFINE m == MakeRoom(cache)
           e == [page |-> pageCount, image |-> NewImage]
<1>1. /\ pc = "create" /\ request \in Sets /\ pageCount < MaxPages
      /\ UNCHANGED <<buckets, uniqueKeys, open, request, reply, link, head, replaces, slot, live>>
  BY DEF walk, IInv, RequestSound, Appending
<1>2. /\ pages' \in [0..MaxPages-1 -> Images]
      /\ pageCount \in 0..MaxPages-1
      /\ \A a \in live : PageOf(a) # pageCount /\ pages'[PageOf(a)] = pages[PageOf(a)]
      /\ \A a \in live : Record(a)' = Record(a)
      /\ ChainsSound' /\ NewestExists'
      /\ \A k \in Keys : Held(k)' <=> Held(k)
  BY <1>1, FreshPage, ImagesOfNewPages
<1>3. /\ m \in Seq(Entries) /\ Len(m) < CachePages /\ Distinct(m)
      /\ \A j \in 1..Len(m) : \E i \in 1..Len(cache) : m[j] = cache[i]
  BY RoomMade
<1>4. e \in Entries /\ e.page = pageCount /\ e.image = NewImage /\ cache' = Append(m, e)
  BY <1>2, ImagesOfNewPages DEF Entries
<1>x. activePage \in Int /\ activePage < pageCount /\ activePage' = pageCount /\ pageCount' = pageCount + 1
  BY DEF IInv, TypeOK, ActiveSound
<1> HIDE DEF m, e
<1>5. /\ cache' \in Seq(Entries) /\ Len(cache') = Len(m) + 1 /\ Len(m) \in Nat
      /\ cache'[Len(m) + 1] = e
      /\ \A j \in 1..Len(m) : cache'[j] = m[j]
  <2>1. m \in Seq(Entries) /\ e \in Entries /\ cache' = Append(m, e)
    BY <1>3, <1>4
  <2>2. /\ Append(m, e) \in Seq(Entries) /\ Len(Append(m, e)) = Len(m) + 1
        /\ Append(m, e)[Len(m) + 1] = e
        /\ \A j \in 1..Len(m) : Append(m, e)[j] = m[j]
    BY <2>1, AppendProperties
  <2>3. Len(m) \in Nat
    BY <2>1, LenProperties
  <2>. QED  BY <2>1, <2>2, <2>3
<1>6. \A j \in 1..Len(m) : /\ cache'[j].page < pageCount
                          /\ cache'[j].image.used >= PageHeader
  <2> SUFFICES ASSUME NEW j \in 1..Len(m)
               PROVE  cache'[j].page < pageCount /\ cache'[j].image.used >= PageHeader
    OBVIOUS
  <2>1. PICK i \in 1..Len(cache) : cache'[j] = cache[i]
    BY <1>3, <1>5
  <2>2. cache[i].page \in Int /\ cache[i].page <= activePage /\ cache[i].image.used >= PageHeader
    <3>1. cache[i] \in Entries
      BY DEF IInv, TypeOK
    <3>. QED  BY <3>1 DEF IInv, CacheSound, Entries
  <2>3. cache[i].page < pageCount
    BY <2>2, <1>x, <1>2
  <2>. QED  BY <2>1, <2>2, <2>3
<1>7. Distinct(cache')
  <2> SUFFICES ASSUME NEW i \in 1..Len(m)+1, NEW j \in 1..Len(m)+1,
                      cache'[i].page = cache'[j].page
               PROVE  i = j
    BY <1>5 DEF Distinct
  <2>1. CASE i \in 1..Len(m) /\ j \in 1..Len(m)
    BY <2>1, <1>3, <1>5 DEF Distinct
  <2>2. CASE i = Len(m) + 1 /\ j \in 1..Len(m)
    BY <2>2, <1>2, <1>4, <1>5, <1>6
  <2>3. CASE i \in 1..Len(m) /\ j = Len(m) + 1
    BY <2>3, <1>2, <1>4, <1>5, <1>6
  <2>. QED  BY <2>1, <2>2, <2>3, <1>5
<1>8. CacheSound'
  <2>1. Len(cache') <= CachePages
    BY <1>3, <1>5, SizesAssumption
  <2>2. ASSUME NEW j \in 1..Len(cache')
        PROVE  cache'[j].page <= activePage' /\ cache'[j].image.used >= PageHeader
    <3>1. CASE j \in 1..Len(m)
      <4>0. cache'[j] \in Entries
        BY <1>5, <2>2, ElementOfSeq
      <4>1. cache'[j].page \in Int
        BY <4>0 DEF Entries
      <4>. QED  BY <3>1, <4>1, <1>2, <1>6, <1>x
    <3>2. CASE j = Len(m) + 1
      BY <3>2, <1>2, <1>4, <1>5, <1>x, SizesAssumption DEF NewImage
    <3>. QED  BY <3>1, <3>2, <1>5
  <2>. QED  BY <1>7, <2>1, <2>2 DEF CacheSound, Distinct
<1>9. CommittedRecordsSurvive'
  <2> SUFFICES ASSUME NEW a \in live
               PROVE  /\ PageOf(a) <= activePage'
                      /\ Readable(pages'[PageOf(a)], OffsetOf(a))
                      /\ \A i \in 1..Len(cache') : cache'[i].page = PageOf(a) =>
                            /\ Readable(cache'[i].image, OffsetOf(a))
                            /\ cache'[i].image.at[OffsetOf(a)] = Record(a)
    BY <1>1, <1>2 DEF CommittedRecordsSurvive
  <2>1. PageOf(a) \in Int /\ PageOf(a) <= activePage
    BY LiveFacts DEF IInv
  <2>2. Readable(pages'[PageOf(a)], OffsetOf(a))
    BY <1>2 DEF IInv, CommittedRecordsSurvive
  <2>3. ASSUME NEW i \in 1..Len(cache'), cache'[i].page = PageOf(a)
        PROVE  /\ Readable(cache'[i].image, OffsetOf(a))
               /\ cache'[i].image.at[OffsetOf(a)] = Record(a)
    <3>1. i # Len(m) + 1
      BY <2>3, <1>2, <1>4, <1>5
    <3>2. PICK j \in 1..Len(cache) : cache'[i] = cache[j]
      BY <3>1, <1>3, <1>5
    <3>. QED  BY <2>3, <3>2 DEF IInv, CommittedRecordsSurvive
  <2>. QED  BY <2>1, <2>2, <2>3, <1>2, <1>x
<1>10. TypeOK'
  BY <1>1, <1>2, <1>5, <1>x, SizesAssumption DEF IInv, TypeOK
<1>11. ActiveSound'
  BY <1>2, <1>x, SizesAssumption DEF ActiveSound, NewImage, IInv, TypeOK
<1>12. RequestSound' /\ WalkSound' /\ HeadSound'
  BY <1>1 DEF IInv, RequestSound, WalkSound, HeadSound, Serving, Appending, Needed
<1>13. AppendSound'
  <2>1. request.key \in Keys
    BY <1>1 DEF Sets
  <2>2. replaces' <=> Held(request.key)'
    BY <1>1, <1>2, <2>1 DEF IInv, AppendSound, Appending
  <2>3. Len(m) + 1 \in 1..Len(cache') /\ cache'[Len(m) + 1].page = activePage'
    BY <1>4, <1>5, <1>x
  <2>4. Cached(activePage)'
    BY <2>3 DEF Cached
  <2>5. IndexOf(activePage)' = Len(m) + 1
    BY <1>7, <2>3 DEF IndexOf, Distinct
  <2>6. Image(activePage)' = NewImage
    BY <1>4, <1>5, <2>4, <2>5 DEF Image
  <2>7. Fits(Image(activePage))'
    BY <1>1, <2>6 DEF Fits, NewImage, IInv, RequestSound, Serving, Needed
  <2>. QED  BY <1>1, <1>2, <1>x, <2>2, <2>4, <2>7 DEF AppendSound
<1>. QED  BY <1>2, <1>8, <1>9, <1>10, <1>11, <1>12, <1>13 DEF IInv

LEMMA CreatePageFailsIInv == IInv /\ CreatePageFails => IInv'
<1> SUFFICES ASSUME IInv, CreatePageFails PROVE IInv'  OBVIOUS
<1> DEFINE m == MakeRoom(cache)
<1>0. End("out of space")
  BY DEF CreatePageFails
<1>1. /\ pageCount < MaxPages /\ pageCount' = pageCount + 1 /\ cache' = m
      /\ UNCHANGED <<buckets, activePage, uniqueKeys, open, live>>
  BY DEF CreatePageFails
<1>2. PICK image \in Images : pages' = [pages EXCEPT ![pageCount] = image]
  BY ImagesOfNewPages DEF CreatePageFails
<1>3. /\ pages' \in [0..MaxPages-1 -> Images]
      /\ pageCount \in 0..MaxPages-1
      /\ \A a \in live : PageOf(a) # pageCount /\ pages'[PageOf(a)] = pages[PageOf(a)]
      /\ \A a \in live : Record(a)' = Record(a)
      /\ ChainsSound' /\ NewestExists'
  BY <1>1, <1>2, FreshPage
<1>4. /\ m \in Seq(Entries) /\ Len(m) < CachePages /\ Distinct(m)
      /\ \A j \in 1..Len(m) : \E i \in 1..Len(cache) : m[j] = cache[i]
  BY RoomMade
<1> HIDE DEF m
<1>5. CacheSound'
  <2>0. Len(m) \in Nat
    BY <1>4, LenProperties
  <2>1. Len(cache') <= CachePages
    BY <2>0, <1>1, <1>4, SizesAssumption
  <2>2. ASSUME NEW j \in 1..Len(cache')
        PROVE  cache'[j].page <= activePage /\ cache'[j].image.used >= PageHeader
    BY <1>1, <1>4 DEF IInv, CacheSound
  <2>. QED  BY <1>1, <1>4, <2>1, <2>2 DEF CacheSound, Distinct
<1>6. CommittedRecordsSurvive'
  <2> SUFFICES ASSUME NEW a \in live
               PROVE  /\ PageOf(a) <= activePage
                      /\ Readable(pages'[PageOf(a)], OffsetOf(a))
                      /\ \A i \in 1..Len(m) : m[i].page = PageOf(a) =>
                            /\ Readable(m[i].image, OffsetOf(a))
                            /\ m[i].image.at[OffsetOf(a)] = Record(a)
    BY <1>1, <1>3 DEF CommittedRecordsSurvive
  <2>1. PageOf(a) <= activePage /\ Readable(pages'[PageOf(a)], OffsetOf(a))
    BY <1>3 DEF IInv, CommittedRecordsSurvive
  <2>2. ASSUME NEW i \in 1..Len(m), m[i].page = PageOf(a)
        PROVE  /\ Readable(m[i].image, OffsetOf(a))
               /\ m[i].image.at[OffsetOf(a)] = Record(a)
    BY <2>2, <1>4 DEF IInv, CommittedRecordsSurvive
  <2>. QED  BY <2>1, <2>2
<1>7. TypeOK'
  <2>1. pageCount' \in 0..MaxPages+1
    BY <1>1, <1>3, SizesAssumption
  <2>2. /\ reply' \in Answers /\ request' = Idle /\ pc' = "idle"
        /\ link' = 0 /\ head' = 0 /\ replaces' = FALSE /\ slot' = 0
    BY <1>0 DEF End, Answers
  <2>. QED  BY <1>1, <1>3, <1>4, <2>1, <2>2 DEF IInv, TypeOK
<1>8. ActiveSound'
  <2>1. activePage \in Int /\ activePage < pageCount
    BY DEF IInv, ActiveSound, TypeOK
  <2>2. pages'[activePage] = pages[activePage] \/ activePage < 0
    BY <1>2, <1>3, <2>1 DEF IInv, TypeOK
  <2>. QED  BY <1>1, <1>3, <2>1, <2>2 DEF IInv, ActiveSound
<1>. QED  BY <1>0, <1>3, <1>5, <1>6, <1>7, <1>8, EndSound DEF IInv

LEMMA SizeLimitIInv == IInv /\ SizeLimit => IInv'
<1> SUFFICES ASSUME IInv, SizeLimit PROVE IInv'  OBVIOUS
<1>0. End("too many pages")
  BY DEF SizeLimit
<1>1. /\ pageCount >= MaxPages /\ pageCount' = MaxPages + 1
      /\ UNCHANGED <<pages, buckets, cache, activePage, uniqueKeys, open, live>>
  BY DEF SizeLimit, files
<1>2. \A a \in live : Record(a)' = Record(a)
  BY <1>1 DEF Record
<1>3. CacheSound' /\ CommittedRecordsSurvive' /\ ChainsSound' /\ NewestExists'
  BY <1>1, <1>2, ChainsKept DEF IInv, CacheSound, CommittedRecordsSurvive, Record
<1>4. ActiveSound'
  BY <1>1, SizesAssumption DEF IInv, TypeOK, ActiveSound
<1>5. TypeOK'
  <2>1. /\ reply' \in Answers /\ request' = Idle /\ pc' = "idle"
        /\ link' = 0 /\ head' = 0 /\ replaces' = FALSE /\ slot' = 0
    BY <1>0 DEF End, Answers
  <2>2. pageCount' \in 0..MaxPages+1
    BY <1>1, SizesAssumption
  <2>. QED  BY <1>1, <2>1, <2>2 DEF IInv, TypeOK
<1>. QED  BY <1>0, <1>3, <1>4, <1>5, EndSound DEF IInv

LEMMA WriteHeadFailsIInv == IInv /\ WriteHeadFails => IInv'
<1> SUFFICES ASSUME IInv, WriteHeadFails PROVE IInv'  OBVIOUS
<1> USE DEF WriteHeadFails, files
<1>1. /\ CacheSound' /\ CommittedRecordsSurvive' /\ ChainsSound'
      /\ ActiveSound' /\ NewestExists'
  BY StillSound
<1>2. TypeOK'
  BY DEF IInv, TypeOK, End, Answers
<1>. QED  BY <1>1, <1>2, EndSound DEF IInv

-----------------------------------------------------------------------------
\* Appending to the active page

\* The image with one more record: everything on it stays, the record is whole
\* and the page is not overfull.
LEMMA AppendedFacts ==
  ASSUME IInv, pc = "write"
  PROVE  LET image == Image(activePage)
             new   == Appended(image)
             torn  == Torn(image)
             record == [key |-> request.key, value |-> request.value, previous |-> head]
         IN  /\ activePage \in 0..MaxPages-1 /\ request \in Sets
             /\ image \in Images /\ image.used \in PageHeader..PageSize-1
             /\ new \in Images /\ new.used >= PageHeader
             /\ torn \in Images /\ torn.used >= PageHeader
             /\ record \in Records
             /\ new.at[image.used] = record /\ Readable(new, image.used)
             /\ \A a \in live : PageOf(a) = activePage =>
                  /\ OffsetOf(a) < image.used
                  /\ Readable(new, OffsetOf(a)) /\ new.at[OffsetOf(a)] = Record(a)
                  /\ Readable(torn, OffsetOf(a)) /\ torn.at[OffsetOf(a)] = Record(a)
<1> DEFINE image == Image(activePage)
           new   == Appended(image)
           torn  == Torn(image)
           record == [key |-> request.key, value |-> request.value, previous |-> head]
<1>1. activePage \in 0..MaxPages-1 /\ request \in Sets /\ Fits(image) /\ Cached(activePage)
  BY SizesAssumption DEF IInv, AppendSound, RequestSound, Appending, TypeOK
<1>2. ~Unwritten(activePage)
  BY <1>1, SizesAssumption DEF Unwritten, IInv, ActiveSound, TypeOK
<1>3. /\ image \in Images /\ image.used >= PageHeader
      /\ \A a \in live : PageOf(a) = activePage =>
           /\ Readable(image, OffsetOf(a))
           /\ image.at[OffsetOf(a)] = Record(a)
  BY <1>1, <1>2, ImageFacts DEF IInv
<1>4. Needed \in Nat \ {0} /\ RecordLength(request.key, request.value) = Needed
  BY <1>1, LengthFacts DEF Needed
<1>5. record \in Records
  BY <1>1 DEF IInv, TypeOK, Records, Sets
<1> HIDE DEF image
<1>6. image.used \in PageHeader..PageSize-1 /\ image.used + Needed \in 0..PageSize
  BY <1>1, <1>3, <1>4, SizesAssumption DEF Images, Fits
<1>7. /\ new \in Images /\ new.used = image.used + Needed /\ new.at[image.used] = record
      /\ torn \in Images /\ torn.used = image.used + Needed
      /\ \A o \in 0..PageSize-1 : o # image.used =>
            new.at[o] = image.at[o] /\ torn.at[o] = image.at[o]
  BY <1>3, <1>5, <1>6, SizesAssumption DEF Appended, Torn, Images
<1> HIDE DEF new, torn
<1>8. new.used >= PageHeader /\ torn.used >= PageHeader
  BY <1>4, <1>6, <1>7, SizesAssumption
<1>9. Readable(new, image.used)
  <2>1. record # Blank /\ record.key = request.key /\ record.value = request.value
    BY <1>5, NamesAssumption DEF Records
  <2>. QED  BY <1>4, <1>6, <1>7, <1>8, <2>1, SizesAssumption DEF Readable
<1>10. ASSUME NEW a \in live, PageOf(a) = activePage
       PROVE  /\ OffsetOf(a) < image.used
              /\ Readable(new, OffsetOf(a)) /\ new.at[OffsetOf(a)] = Record(a)
              /\ Readable(torn, OffsetOf(a)) /\ torn.at[OffsetOf(a)] = Record(a)
  <2>1. /\ OffsetOf(a) \in 0..PageSize-1 /\ Record(a) \in Records
        /\ Readable(image, OffsetOf(a)) /\ image.at[OffsetOf(a)] = Record(a)
    BY <1>3, <1>10, LiveFacts DEF IInv
  <2>2. RecordLength(Record(a).key, Record(a).value) \in Nat \ {0}
    BY <2>1, LengthFacts
  <2>3. OffsetOf(a) < image.used
    BY <2>1, <2>2, <1>6, SizesAssumption DEF Readable
  <2>4. new.at[OffsetOf(a)] = Record(a) /\ torn.at[OffsetOf(a)] = Record(a)
    BY <1>6, <1>7, <2>1, <2>3, SizesAssumption
  <2>. QED  BY <1>4, <1>6, <1>7, <1>8, <2>1, <2>2, <2>3, <2>4, SizesAssumption DEF Readable
<1>. QED  BY <1>1, <1>3, <1>5, <1>6, <1>7, <1>8, <1>9, <1>10 DEF image, new, torn

\* The cached page takes the record in place; no other entry changes.
LEMMA AppendedCache ==
  ASSUME IInv, pc = "write", AppendToPage
  PROVE  /\ cache' \in Seq(Entries) /\ Len(cache') = Len(cache)
         /\ Len(cache) \in Nat
         /\ \A i \in 1..Len(cache) :
              IF cache[i].page = activePage
              THEN cache'[i] = [page |-> activePage, image |-> Appended(Image(activePage))]
              ELSE cache'[i] = cache[i]
<1> DEFINE k == IndexOf(activePage)
           new == Appended(Image(activePage))
<1>1. cache \in Seq(Entries) /\ Distinct(cache)
  BY DEF IInv, TypeOK, CacheSound, Distinct
<1>2. Cached(activePage) /\ activePage \in 0..MaxPages-1 /\ new \in Images
  BY AppendedFacts DEF IInv, AppendSound
<1>3. k \in 1..Len(cache) /\ cache[k].page = activePage
  BY <1>2 DEF Cached, IndexOf
<1>4. cache[k] \in Entries
  BY <1>1, <1>3
<1>5. cache' = [cache EXCEPT ![k] = [page |-> activePage, image |-> new]]
  <2>1. [cache[k] EXCEPT !.image = new] = [page |-> activePage, image |-> new]
    BY <1>3, <1>4 DEF Entries
  <2>2. cache' = [cache EXCEPT ![k] = [cache[k] EXCEPT !.image = new]]
    BY DEF AppendToPage
  <2>. QED  BY <2>1, <2>2
<1>6. [page |-> activePage, image |-> new] \in Entries
  BY <1>2 DEF Entries
<1> HIDE DEF k, new
<1>7. cache' \in Seq(Entries) /\ Len(cache') = Len(cache)
  BY <1>1, <1>3, <1>5, <1>6, ExceptSeq
<1>8. \A i \in 1..Len(cache) : cache[i].page = activePage <=> i = k
  BY <1>1, <1>3 DEF Distinct
<1>. QED  BY <1>1, <1>3, <1>5, <1>7, <1>8, LenProperties DEF new

\* Whatever the page's write left in the file, the committed records are as
\* they were, there and in the cache.
LEMMA PageAppended ==
  ASSUME IInv, pc = "write", AppendToPage, NEW file \in Images,
         pages' = [pages EXCEPT ![activePage] = file],
         file.used >= PageHeader,
         \A a \in live : PageOf(a) = activePage =>
            Readable(file, OffsetOf(a)) /\ file.at[OffsetOf(a)] = Record(a),
         UNCHANGED <<live, buckets, activePage, pageCount>>
  PROVE  /\ pages' \in [0..MaxPages-1 -> Images] /\ cache' \in Seq(Entries)
         /\ CacheSound' /\ CommittedRecordsSurvive' /\ ActiveSound'
         /\ ChainsSound' /\ NewestExists'
         /\ \A k \in Keys : Held(k)' <=> Held(k)
         /\ \A a \in live : Record(a)' = Record(a)
<1> DEFINE new == Appended(Image(activePage))
<1>1. /\ activePage \in 0..MaxPages-1 /\ new \in Images /\ new.used >= PageHeader
      /\ \A a \in live : PageOf(a) = activePage =>
           Readable(new, OffsetOf(a)) /\ new.at[OffsetOf(a)] = Record(a)
  BY AppendedFacts
<1>2. /\ cache' \in Seq(Entries) /\ Len(cache') = Len(cache) /\ Len(cache) \in Nat
      /\ \A i \in 1..Len(cache) :
           IF cache[i].page = activePage
           THEN cache'[i] = [page |-> activePage, image |-> new]
           ELSE cache'[i] = cache[i]
  BY AppendedCache
<1> HIDE DEF new
<1>3. pages \in [0..MaxPages-1 -> Images] /\ pages' \in [0..MaxPages-1 -> Images]
  BY DEF IInv, TypeOK
<1>4. \A a \in live : /\ Record(a)' = Record(a)
                     /\ PageOf(a) \in 0..MaxPages-1
                     /\ Readable(pages'[PageOf(a)], OffsetOf(a))
  <2> SUFFICES ASSUME NEW a \in live
               PROVE  /\ Record(a)' = Record(a)
                      /\ PageOf(a) \in 0..MaxPages-1
                      /\ Readable(pages'[PageOf(a)], OffsetOf(a))
    OBVIOUS
  <2>1. PageOf(a) \in 0..MaxPages-1
    BY LiveFacts DEF IInv
  <2>2. CASE PageOf(a) = activePage
    BY <2>1, <2>2, <1>3 DEF Record
  <2>3. CASE PageOf(a) # activePage
    BY <2>1, <2>3, <1>3 DEF Record, IInv, CommittedRecordsSurvive
  <2>. QED  BY <2>1, <2>2, <2>3
<1>5. /\ ChainsSound' /\ NewestExists'
      /\ \A k \in Keys : Held(k)' <=> Held(k)
  BY <1>4, ChainsKept DEF IInv
<1>6. \A i \in 1..Len(cache) : /\ cache'[i].page = cache[i].page
                              /\ cache'[i].image.used >= PageHeader
  BY <1>1, <1>2 DEF IInv, CacheSound
<1>7. CacheSound'
  BY <1>2, <1>6 DEF IInv, CacheSound
<1>8. CommittedRecordsSurvive'
  <2> SUFFICES ASSUME NEW a \in live, NEW i \in 1..Len(cache), cache'[i].page = PageOf(a)
               PROVE  /\ Readable(cache'[i].image, OffsetOf(a))
                      /\ cache'[i].image.at[OffsetOf(a)] = Record(a)
    BY <1>2, <1>4 DEF CommittedRecordsSurvive, IInv
  <2>1. CASE cache[i].page = activePage
    BY <2>1, <1>1, <1>2, <1>6
  <2>2. CASE cache[i].page # activePage
    BY <2>2, <1>2, <1>6 DEF IInv, CommittedRecordsSurvive
  <2>. QED  BY <2>1, <2>2
<1>9. ActiveSound'
  BY <1>1, <1>3 DEF IInv, ActiveSound
<1>. QED  BY <1>2, <1>3, <1>4, <1>5, <1>7, <1>8, <1>9

LEMMA WritePageIInv == IInv /\ WritePage => IInv'
<1> SUFFICES ASSUME IInv, WritePage PROVE IInv'  OBVIOUS
<1> USE DEF WritePage
<1> DEFINE image == Image(activePage)
           new   == Appended(image)
           record == [key |-> request.key, value |-> request.value, previous |-> head]
<1>1. pc = "write" /\ AppendToPage
  OBVIOUS
<1>2. /\ activePage \in 0..MaxPages-1 /\ request \in Sets
      /\ image \in Images /\ image.used \in PageHeader..PageSize-1
      /\ new \in Images /\ new.used >= PageHeader
      /\ new.at[image.used] = record /\ Readable(new, image.used)
      /\ \A a \in live : PageOf(a) = activePage =>
           /\ OffsetOf(a) < image.used
           /\ Readable(new, OffsetOf(a)) /\ new.at[OffsetOf(a)] = Record(a)
  BY <1>1, AppendedFacts
<1>3. /\ pages' \in [0..MaxPages-1 -> Images] /\ cache' \in Seq(Entries)
      /\ CacheSound' /\ CommittedRecordsSurvive' /\ ActiveSound'
      /\ ChainsSound' /\ NewestExists'
      /\ \A k \in Keys : Held(k)' <=> Held(k)
  BY <1>1, <1>2, PageAppended
<1>4. /\ Len(cache') = Len(cache)
      /\ \A i \in 1..Len(cache) :
           IF cache[i].page = activePage
           THEN cache'[i] = [page |-> activePage, image |-> new]
           ELSE cache'[i] = cache[i]
  BY <1>1, AppendedCache
<1>5. slot' \in Nat /\ PageOf(slot') = activePage /\ OffsetOf(slot') = image.used
  BY <1>2, AddressDecodes, SizesAssumption
<1>6. \A a \in live : a < slot'
  <2> SUFFICES ASSUME NEW a \in live PROVE a < slot'
    OBVIOUS
  <2>1. a \in Nat /\ PageOf(a) <= activePage
    BY LiveFacts DEF IInv
  <2>2. image.used \in 0..PageSize-1 /\ activePage \in Nat
    BY <1>2, SizesAssumption
  <2>3. PageOf(a) = activePage => OffsetOf(a) < image.used
    BY <1>2
  <2>. QED  BY <2>1, <2>2, <2>3, AddressOrder
<1>7. TypeOK'
  BY <1>3, <1>5 DEF IInv, TypeOK
<1>8. RequestSound' /\ WalkSound'
  BY <1>2 DEF IInv, RequestSound, WalkSound, Serving, Appending, Needed
<1>9. AppendSound'
  <2>1. request.key \in Keys
    BY <1>2 DEF Sets
  <2>. QED  BY <1>3, <2>1 DEF IInv, AppendSound, Appending
<1>10. HeadSound'
  <2>1. pages'[activePage] = new
    BY <1>2 DEF IInv, TypeOK
  <2>2. Record(slot)' = record
    BY <1>2, <1>5, <2>1 DEF Record
  <2>3. Readable(pages'[activePage], OffsetOf(slot'))
    BY <1>2, <1>5, <2>1
  <2>4. ASSUME NEW i \in 1..Len(cache'), cache'[i].page = activePage
        PROVE  /\ Readable(cache'[i].image, OffsetOf(slot'))
               /\ cache'[i].image.at[OffsetOf(slot')] = record
    BY <2>4, <1>2, <1>4, <1>5
  <2>. QED  BY <1>5, <1>6, <2>2, <2>3, <2>4 DEF HeadSound
<1>. QED  BY <1>3, <1>7, <1>8, <1>9, <1>10 DEF IInv

LEMMA WritePageFailsIInv == IInv /\ WritePageFails => IInv'
<1> SUFFICES ASSUME IInv, WritePageFails PROVE IInv'  OBVIOUS
<1> DEFINE image == Image(activePage)
<1>0. End("out of space")
  BY DEF WritePageFails
<1>1. /\ pc = "write" /\ AppendToPage
      /\ UNCHANGED <<buckets, pageCount, activePage, uniqueKeys, open, live>>
  BY DEF WritePageFails
<1>2. PICK file \in {pages[activePage], Torn(image), Appended(image)} :
        pages' = [pages EXCEPT ![activePage] = file]
  BY DEF WritePageFails
<1>3. /\ file \in Images /\ file.used >= PageHeader
      /\ \A a \in live : PageOf(a) = activePage =>
           Readable(file, OffsetOf(a)) /\ file.at[OffsetOf(a)] = Record(a)
  <2>1. CASE file = pages[activePage]
    <3>1. activePage \in 0..MaxPages-1
      BY <1>1, AppendedFacts
    <3>. QED  BY <2>1, <3>1 DEF IInv, TypeOK, ActiveSound, CommittedRecordsSurvive, Record
  <2>2. CASE file \in {Torn(image), Appended(image)}
    BY <2>2, <1>1, AppendedFacts
  <2>. QED  BY <2>1, <2>2
<1>4. /\ pages' \in [0..MaxPages-1 -> Images] /\ cache' \in Seq(Entries)
      /\ CacheSound' /\ CommittedRecordsSurvive' /\ ActiveSound'
      /\ ChainsSound' /\ NewestExists'
  BY <1>1, <1>2, <1>3, PageAppended
<1>5. TypeOK'
  <2>1. /\ reply' \in Answers /\ request' = Idle /\ pc' = "idle"
        /\ link' = 0 /\ head' = 0 /\ replaces' = FALSE /\ slot' = 0
    BY <1>0 DEF End, Answers
  <2>. QED  BY <1>1, <1>4, <2>1 DEF IInv, TypeOK
<1>. QED  BY <1>0, <1>4, <1>5, EndSound DEF IInv

LEMMA WriteHeadIInv == IInv /\ WriteHead => IInv'
<1> SUFFICES ASSUME IInv, WriteHead PROVE IInv'  OBVIOUS
<1> DEFINE b == BucketOf[request.key]
<1>0. End("ok")
  BY DEF WriteHead
<1>1. /\ pc = "head" /\ live' = live \cup {slot}
      /\ buckets' = [buckets EXCEPT ![b] = slot + 1]
      /\ uniqueKeys' = IF replaces THEN uniqueKeys ELSE uniqueKeys + 1
      /\ UNCHANGED <<pages, cache, pageCount, activePage, open>>
  BY DEF WriteHead
<1>2. /\ request \in Sets /\ request.key \in Keys /\ b \in Buckets
      /\ slot \in Nat /\ head = buckets[b]
  BY <1>1, NamesAssumption DEF IInv, RequestSound, Serving, Appending, TypeOK, Sets
<1>3. /\ PageOf(slot) = activePage
      /\ \A a \in live : a < slot
      /\ Record(slot).key = request.key /\ Record(slot).previous = head
      /\ Readable(pages[activePage], OffsetOf(slot))
      /\ \A i \in 1..Len(cache) : cache[i].page = activePage =>
           /\ Readable(cache[i].image, OffsetOf(slot))
           /\ cache[i].image.at[OffsetOf(slot)] = Record(slot)
  BY <1>1 DEF IInv, HeadSound
<1>4. \A a : Record(a)' = Record(a)
  BY <1>1 DEF Record
<1>5. live \subseteq Nat
  BY DEF IInv, TypeOK
<1>6. TypeOK'
  <2>1. /\ reply' \in Answers /\ request' = Idle /\ pc' = "idle"
        /\ link' = 0 /\ head' = 0 /\ replaces' = FALSE /\ slot' = 0
    BY <1>0 DEF End, Answers
  <2>2. uniqueKeys' \in Nat
    <3>1. uniqueKeys \in Nat /\ uniqueKeys + 1 \in Nat
      BY DEF IInv, TypeOK
    <3>. QED  BY <1>1, <3>1
  <2>3. buckets' \in [Buckets -> Nat]
    <3>1. buckets \in [Buckets -> Nat] /\ slot + 1 \in Nat
      BY <1>2 DEF IInv, TypeOK
    <3>. QED  BY <1>1, <3>1
  <2>4. live' \subseteq Nat
    BY <1>1, <1>2, <1>5
  <2>. QED  BY <1>1, <2>1, <2>2, <2>3, <2>4 DEF IInv, TypeOK
<1>7. CacheSound' /\ ActiveSound'
  BY <1>1 DEF IInv, CacheSound, ActiveSound
<1>8. CommittedRecordsSurvive'
  <2> SUFFICES ASSUME NEW a \in live'
               PROVE  /\ PageOf(a) <= activePage
                      /\ Readable(pages[PageOf(a)], OffsetOf(a))
                      /\ \A i \in 1..Len(cache) : cache[i].page = PageOf(a) =>
                            /\ Readable(cache[i].image, OffsetOf(a))
                            /\ cache[i].image.at[OffsetOf(a)] = Record(a)
    BY <1>1, <1>4 DEF CommittedRecordsSurvive
  <2>1. CASE a \in live
    BY <2>1 DEF IInv, CommittedRecordsSurvive
  <2>2. CASE a = slot
    BY <2>2, <1>3 DEF IInv, TypeOK
  <2>. QED  BY <1>1, <2>1, <2>2
<1>9. \A c : InBucket(c)' = IF c = b THEN InBucket(c) \cup {slot} ELSE InBucket(c)
  BY <1>1, <1>3, <1>4 DEF InBucket
<1>10. ChainsSound'
  <2>1. ASSUME NEW c \in Buckets
        PROVE  LeadsToNewest(buckets[c], InBucket(c))'
    <3>1. CASE c = b
      <4>1. buckets'[c] = slot + 1 /\ InBucket(c)' = InBucket(c) \cup {slot}
        BY <3>1, <1>1, <1>2, <1>9 DEF IInv, TypeOK
      <4>2. \A a \in InBucket(c) : a \in Nat /\ a < slot + 1
        BY <1>2, <1>3, <1>5 DEF InBucket
      <4>3. slot + 1 > 0 /\ slot + 1 - 1 = slot /\ slot < slot + 1
        BY <1>2
      <4>4. LeadsToNewest(slot + 1, InBucket(c) \cup {slot})
        <5> DEFINE l == slot + 1
                   S == InBucket(c) \cup {slot}
        <5>1. l > 0 /\ l - 1 = slot
          BY <1>2
        <5>2. slot \in S /\ \A a \in S : a < l
          BY <4>2, <4>3
        <5> HIDE DEF l, S
        <5>3. LeadsToNewest(l, S)
          BY <5>1, <5>2 DEF LeadsToNewest
        <5>. QED  BY <5>3 DEF l, S
      <4>. QED  BY <4>1, <4>4 DEF LeadsToNewest
    <3>2. CASE c # b
      <4>1. buckets'[c] = buckets[c] /\ InBucket(c)' = InBucket(c)
        BY <3>2, <1>1, <1>9 DEF IInv, TypeOK
      <4>. QED  BY <4>1 DEF IInv, ChainsSound, LeadsToNewest
    <3>. QED  BY <3>1, <3>2
  <2>2. ASSUME NEW a \in live'
        PROVE  LeadsToNewest(Record(a).previous,
                             {c \in InBucket(BucketOf[Record(a).key]) : c < a})'
    <3> DEFINE below == {c \in InBucket(BucketOf[Record(a).key]) : c < a}
    <3>1. CASE a \in live
      <4>1. LeadsToNewest(Record(a).previous, below)
        BY <3>1 DEF IInv, ChainsSound
      <4>2. below' = below
        BY <3>1, <1>2, <1>3, <1>4, <1>5, <1>9
      <4>. QED  BY <4>1, <4>2, <1>4 DEF LeadsToNewest
    <3>2. CASE a = slot
      <4>1. LeadsToNewest(head, InBucket(b))
        BY <1>2 DEF IInv, ChainsSound
      <4>2. below' = InBucket(b)
        <5>1. below' = {c \in InBucket(b) \cup {slot} : c < slot}
          BY <3>2, <1>3, <1>4, <1>9
        <5>2. \A c \in InBucket(b) : c < slot
          BY <1>3 DEF InBucket
        <5>. QED  BY <5>1, <5>2, <1>2
      <4>3. Record(a)'.previous = head
        BY <3>2, <1>3, <1>4
      <4>. QED  BY <4>1, <4>2, <4>3 DEF LeadsToNewest
    <3>. QED  BY <1>1, <3>1, <3>2
  <2>. QED  BY <2>1, <2>2 DEF ChainsSound
<1>11. NewestExists'
  <2> SUFFICES ASSUME NEW a \in live'
               PROVE  \E c \in live' : Newest(c, Record(a).key)'
    BY <1>4 DEF NewestExists, Newest
  <2>1. CASE Record(a).key = request.key
    <3>1. PICK s \in live' : s = slot
      BY <1>1
    <3>2. Record(s)'.key = Record(a)'.key
      BY <2>1, <3>1, <1>3, <1>4
    <3>3. \A c \in live' : c <= s
      BY <3>1, <1>1, <1>2, <1>3, <1>5
    <3>. QED  BY <3>2, <3>3 DEF Newest
  <2>2. CASE Record(a).key # request.key
    <3>1. a \in live
      BY <2>2, <1>1, <1>3
    <3>2. PICK c \in live : Newest(c, Record(a).key)
      BY <3>1 DEF IInv, NewestExists
    <3>3. Newest(c, Record(a).key)'
      BY <2>2, <3>2, <1>1, <1>3, <1>4 DEF Newest
    <3>. QED  BY <3>3, <1>1
  <2>. QED  BY <2>1, <2>2
<1>. QED  BY <1>0, <1>6, <1>7, <1>8, <1>10, <1>11, EndSound DEF IInv

-----------------------------------------------------------------------------
\* The invariant holds of every behaviour

LEMMA StutterIInv == IInv /\ UNCHANGED vars => IInv'
<1> SUFFICES ASSUME IInv, UNCHANGED vars PROVE IInv'  OBVIOUS
<1>1. \A p : Cached(p)' = Cached(p) /\ Image(p)' = Image(p) /\ Record(p)' = Record(p)
  BY DEF vars, files, walk, Cached, Image, IndexOf, Record
<1>2. TypeOK' /\ CacheSound' /\ ActiveSound'
  BY DEF vars, files, walk, IInv, TypeOK, CacheSound, ActiveSound
<1>3. CommittedRecordsSurvive' /\ ChainsSound' /\ NewestExists'
  BY <1>1, StillSound DEF vars, files, walk, IInv
<1>. QED  BY <1>1, <1>2, <1>3
          DEF vars, files, walk, IInv, RequestSound, WalkSound, AppendSound, HeadSound,
              Held, InBucket, Needed, Fits

LEMMA StepIInv == IInv /\ [Next]_vars => IInv'
<1> SUFFICES ASSUME IInv, [Next]_vars PROVE IInv'  OBVIOUS
<1>1. ASSUME NEW r \in Gets \cup Sets, Start(r) PROVE IInv'
  BY <1>1, StartIInv
<1>2. ASSUME NEW r \in Gets \cup Sets, Refuse(r) PROVE IInv'
  BY <1>2, RefuseIInv
<1>3. CASE WalkChain        BY <1>3, WalkChainIInv
<1>4. CASE WalkEnds         BY <1>4, WalkEndsIInv
<1>5. CASE LoadActive       BY <1>5, LoadActiveIInv
<1>6. CASE CreatePage       BY <1>6, CreatePageIInv
<1>7. CASE CreatePageFails  BY <1>7, CreatePageFailsIInv
<1>8. CASE SizeLimit        BY <1>8, SizeLimitIInv
<1>9. CASE WritePage        BY <1>9, WritePageIInv
<1>10. CASE WritePageFails  BY <1>10, WritePageFailsIInv
<1>11. CASE WriteHead       BY <1>11, WriteHeadIInv
<1>12. CASE WriteHeadFails  BY <1>12, WriteHeadFailsIInv
<1>13. CASE Close           BY <1>13, CloseIInv
<1>14. CASE UNCHANGED vars  BY <1>14, StutterIInv
<1>. QED  BY <1>1, <1>2, <1>3, <1>4, <1>5, <1>6, <1>7, <1>8, <1>9, <1>10, <1>11,
             <1>12, <1>13, <1>14 DEF Next

\* The conjunction of the store's invariants with what each step of a request
\* relies on is inductive.
THEOREM InductiveInvariant == Spec => []IInv
  BY InitIInv, StepIInv, PTL DEF Spec

\* The variables keep their types; no page is filled past its end.
THEOREM TypeCorrect == Spec => []TypeOK
<1>1. IInv => TypeOK  BY DEF IInv
<1>. QED  BY <1>1, InductiveInvariant, PTL

\* The page cache stays inside its budget with one copy of a page at most.
THEOREM CacheIsSound == Spec => []CacheSound
<1>1. IInv => CacheSound  BY DEF IInv
<1>. QED  BY <1>1, InductiveInvariant, PTL

\* No failed or torn write ever damages a record whose `set` returned.
THEOREM RecordsSurvive == Spec => []CommittedRecordsSurvive
<1>1. IInv => CommittedRecordsSurvive  BY DEF IInv
<1>. QED  BY <1>1, InductiveInvariant, PTL

\* Every bucket chain runs through exactly its committed records, newest first.
THEOREM ChainsAreSound == Spec => []ChainsSound
<1>1. IInv => ChainsSound  BY DEF IInv
<1>. QED  BY <1>1, InductiveInvariant, PTL

-----------------------------------------------------------------------------
\* PagedStore implements KeyValueStore: read through the chains, the files always
\* hold exactly the map the store promises.

\* A committed record is never changed, moved or dropped.

LEMMA RecordsKept ==
  ASSUME IInv, [Next]_vars
  PROVE  \A a \in live : a \in live' /\ Record(a)' = Record(a)
<1>1. CASE UNCHANGED <<pages, live>>
  BY <1>1 DEF Record
<1>2. CASE CreatePage
  BY <1>2, FreshPage, ImagesOfNewPages DEF CreatePage
<1>3. CASE CreatePageFails
  <2>1. PICK image \in Images : pages' = [pages EXCEPT ![pageCount] = image]
    BY <1>3, ImagesOfNewPages DEF CreatePageFails
  <2>. QED  BY <1>3, <2>1, FreshPage DEF CreatePageFails
<1>4. CASE WritePage
  <2>1. /\ pc = "write" /\ AppendToPage
        /\ pages' = [pages EXCEPT ![activePage] = Appended(Image(activePage))]
        /\ UNCHANGED <<live, buckets, activePage, pageCount>>
    BY <1>4 DEF WritePage
  <2>. QED  BY <2>1, AppendedFacts, PageAppended
<1>5. CASE WritePageFails
  <2>1. /\ pc = "write" /\ AppendToPage
        /\ UNCHANGED <<live, buckets, activePage, pageCount>>
    BY <1>5 DEF WritePageFails
  <2>2. PICK file \in {pages[activePage], Torn(Image(activePage)), Appended(Image(activePage))} :
          pages' = [pages EXCEPT ![activePage] = file]
    BY <1>5 DEF WritePageFails
  <2>3. /\ file \in Images /\ file.used >= PageHeader
        /\ \A a \in live : PageOf(a) = activePage =>
             Readable(file, OffsetOf(a)) /\ file.at[OffsetOf(a)] = Record(a)
    <3>1. CASE file = pages[activePage]
      <4>1. activePage \in 0..MaxPages-1
        BY <2>1, AppendedFacts
      <4>. QED  BY <3>1, <4>1 DEF IInv, TypeOK, ActiveSound, CommittedRecordsSurvive, Record
    <3>2. CASE file \in {Torn(Image(activePage)), Appended(Image(activePage))}
      BY <3>2, <2>1, AppendedFacts
    <3>. QED  BY <3>1, <3>2
  <2>. QED  BY <2>1, <2>2, <2>3, PageAppended
<1>6. CASE WriteHead
  BY <1>6 DEF WriteHead, Record
<1>. QED  BY <1>1, <1>2, <1>3, <1>4, <1>5, <1>6
          DEF Next, vars, files, Start, Refuse, WalkChain, WalkEnds, LoadActive,
              SizeLimit, WriteHeadFails, Close

-----------------------------------------------------------------------------
\* What the map holds for a key

DictRight ==
  \A k \in Keys :
    /\ \A a \in live : Newest(a, k) => Dict[k] = Record(a).value
    /\ ~Held(k) => Dict[k] = NoValue
    /\ Held(k) => \E a \in live : Newest(a, k)
    /\ Held(k) => Dict[k] # NoValue

LEMMA DictFacts == IInv => DictRight
<1> SUFFICES ASSUME IInv, NEW k \in Keys
             PROVE  /\ \A a \in live : Newest(a, k) => Dict[k] = Record(a).value
                    /\ ~Held(k) => Dict[k] = NoValue
                    /\ Held(k) => \E a \in live : Newest(a, k)
                    /\ Held(k) => Dict[k] # NoValue
  BY DEF DictRight
<1>1. ASSUME NEW a \in live, Newest(a, k)
      PROVE  Dict[k] = Record(a).value
  <2> DEFINE c == CHOOSE x \in live : Newest(x, k)
  <2>1. c \in live /\ Newest(c, k)
    BY <1>1
  <2>2. Dict[k] = Record(c).value
    BY <1>1 DEF Dict
  <2> HIDE DEF c
  <2>3. a \in Nat /\ c \in Nat /\ a <= c /\ c <= a
    BY <1>1, <2>1 DEF IInv, TypeOK, Newest
  <2>4. a = c
    BY <2>3
  <2>. QED  BY <2>2, <2>4
<1>2. ~Held(k) => Dict[k] = NoValue
  BY DEF Held, Dict, Newest
<1>3. Held(k) => \E a \in live : Newest(a, k)
  BY DEF IInv, NewestExists, Held
<1>4. Held(k) => Dict[k] # NoValue
  <2> SUFFICES ASSUME Held(k) PROVE Dict[k] # NoValue  OBVIOUS
  <2>1. PICK a \in live : Newest(a, k)
    BY <1>3
  <2>2. Record(a).value \in Values
    BY LiveFacts DEF IInv, Records
  <2>. QED  BY <1>1, <2>1, <2>2, NamesAssumption
<1>. QED  BY <1>1, <1>2, <1>3, <1>4

LEMMA DictAfter == IInv /\ [Next]_vars => DictRight'
<1>1. IInv' => DictRight'
  BY DictFacts, PTL
<1>. QED  BY <1>1, StepIInv

\* A step that commits nothing leaves the map alone.
LEMMA DictKept ==
  ASSUME DictRight, DictRight', UNCHANGED live,
         \A a \in live : Record(a)' = Record(a)
  PROVE  Dict' = Dict
<1>1. ASSUME NEW k \in Keys PROVE Dict'[k] = Dict[k]
  <2>1. Held(k)' <=> Held(k)
    BY DEF Held
  <2>2. CASE Held(k)
    <3>1. PICK a \in live : Newest(a, k)
      BY <2>2 DEF DictRight
    <3>2. Newest(a, k)'
      BY <3>1 DEF Newest
    <3>. QED  BY <3>1, <3>2 DEF DictRight
  <2>3. CASE ~Held(k)
    BY <2>1, <2>3 DEF DictRight
  <2>. QED  BY <2>2, <2>3
<1>. QED  BY <1>1 DEF Dict

-----------------------------------------------------------------------------
\* Each step is one of the map's, or none

LEMMA InitMaps == Init => KV!Init
<1> SUFFICES ASSUME Init PROVE KV!Init  OBVIOUS
<1>1. Dict = [k \in Keys |-> NoValue]
  BY DEF Init, Dict
<1>. QED  BY <1>1 DEF Init, KV!Init

LEMMA WalkChainMaps ==
  ASSUME IInv, WalkChain, Dict' = Dict, DictRight
  PROVE  KV!AnswerGet \/ UNCHANGED KV!vars
<1>1. /\ pc = "walk" /\ link # 0
      /\ UNCHANGED <<uniqueKeys, open, live>>
  BY WalkCases
<1>2. request \in Gets \cup Sets
  BY <1>1 DEF IInv, TypeOK, RequestSound
<1>3. CASE UNCHANGED <<reply, request>>
  BY <1>1, <1>3 DEF KV!vars
<1>4. CASE /\ Record(link - 1).key = request.key /\ request.op = "get"
           /\ End(Record(link - 1).value)
  <2>1. request \in Gets /\ request.key \in Keys
    BY <1>2, <1>4 DEF Gets, Sets
  <2>2. link - 1 \in live /\ link \in Nat
    BY <1>1, CursorFacts DEF IInv, TypeOK
  <2>3. \A c \in live : Record(c).key = request.key => c <= link - 1
    <3>1. \A c \in live : c \in Nat /\ (Record(c).key = request.key => c < link)
      BY <1>1 DEF IInv, TypeOK, WalkSound
    <3>. QED  BY <3>1, <2>2
  <2>4. Newest(link - 1, request.key)
    BY <1>4, <2>3 DEF Newest
  <2>5. Dict[request.key] = Record(link - 1).value
    BY <2>1, <2>2, <2>4 DEF DictRight
  <2>. QED  BY <1>1, <1>4, <2>1, <2>5 DEF End, KV!AnswerGet, KV!Gets, Gets
<1>5. CASE ToAppend(TRUE)
  BY <1>1, <1>5 DEF ToAppend, KV!vars
<1>. QED  BY WalkCases, <1>3, <1>4, <1>5

LEMMA WalkEndsMaps ==
  ASSUME IInv, WalkEnds, Dict' = Dict, DictRight
  PROVE  KV!AnswerGet \/ UNCHANGED KV!vars
<1>1. /\ pc = "walk" /\ link = 0
      /\ UNCHANGED <<uniqueKeys, open, live>>
  BY DEF WalkEnds
<1>2. request \in Gets \cup Sets /\ request.key \in Keys
  BY <1>1 DEF IInv, TypeOK, RequestSound, Gets, Sets
<1>3. CASE request.op = "get"
  <2>1. request \in Gets
    BY <1>2, <1>3 DEF Gets, Sets
  <2>2. ~Held(request.key)
    <3>1. \A a \in live : a \in Nat /\ (Record(a).key = request.key => a < 0)
      BY <1>1 DEF IInv, TypeOK, WalkSound
    <3>. QED  BY <3>1 DEF Held
  <2>3. Dict[request.key] = NoValue
    BY <1>2, <2>2 DEF DictRight
  <2>. QED  BY <1>1, <1>3, <2>1, <2>3 DEF WalkEnds, End, KV!AnswerGet, KV!Gets, Gets
<1>4. CASE request.op # "get"
  BY <1>1, <1>4 DEF WalkEnds, ToAppend, KV!vars
<1>. QED  BY <1>3, <1>4

\* A `set` that throws.
LEMMA FailureMaps ==
  ASSUME request \in Sets, Dict' = Dict, UNCHANGED <<uniqueKeys, open>>,
         End("out of space") \/ End("too many pages")
  PROVE  KV!AbandonSet
BY DEF End, KV!AbandonSet, KV!Sets, Sets

LEMMA WriteHeadMaps ==
  ASSUME IInv, WriteHead, DictRight, DictRight'
  PROVE  KV!CommitSet
<1> DEFINE key == request.key
<1>1. /\ pc = "head" /\ live' = live \cup {slot}
      /\ uniqueKeys' = IF replaces THEN uniqueKeys ELSE uniqueKeys + 1
      /\ UNCHANGED <<pages, open>>
      /\ End("ok")
  BY DEF WriteHead
<1>2. request \in Sets /\ key \in Keys /\ slot \in Nat /\ live \subseteq Nat
  BY <1>1 DEF IInv, RequestSound, Appending, TypeOK, Sets
<1>3. \A a : Record(a)' = Record(a)
  BY <1>1 DEF Record
<1>4. PICK s \in live' : s = slot
  BY <1>1
<1>5. Record(s).key = key /\ Record(s).value = request.value /\ \A a \in live : a < s
  BY <1>1, <1>4 DEF IInv, HeadSound
<1>6. Dict'[key] = request.value
  <2>1. \A c \in live' : c <= s
    BY <1>1, <1>2, <1>4, <1>5
  <2>2. PICK k \in Keys : k = key
    BY <1>2
  <2>3. Newest(s, k)'
    BY <1>3, <1>5, <2>1, <2>2 DEF Newest
  <2>4. Dict'[k] = Record(s)'.value
    BY <1>4, <2>3 DEF DictRight
  <2>. QED  BY <1>3, <1>5, <2>2, <2>4
<1>7. ASSUME NEW k \in Keys, k # key
      PROVE  Dict'[k] = Dict[k]
  <2>1. Held(k)' <=> Held(k)
    BY <1>1, <1>3, <1>4, <1>5, <1>7 DEF Held
  <2>2. CASE Held(k)
    <3>1. PICK a \in live : Newest(a, k)
      BY <2>2 DEF DictRight
    <3>2. Newest(a, k)'
      BY <1>1, <1>3, <1>4, <1>5, <1>7, <3>1 DEF Newest
    <3>3. a \in live'
      BY <1>1
    <3>. QED  BY <1>3, <3>1, <3>2, <3>3 DEF DictRight
  <2>3. CASE ~Held(k)
    BY <2>1, <2>3 DEF DictRight
  <2>. QED  BY <2>2, <2>3
<1>8. Dict' = [Dict EXCEPT ![key] = request.value]
  BY <1>6, <1>7 DEF Dict
<1>9. replaces <=> Dict[key] # NoValue
  <2>1. replaces <=> Held(key)
    BY <1>1 DEF IInv, AppendSound, Appending
  <2>. QED  BY <1>2, <2>1 DEF DictRight
<1>. QED  BY <1>1, <1>2, <1>8, <1>9 DEF End, KV!CommitSet, KV!Sets, Sets

LEMMA StepMaps == IInv /\ [Next]_vars /\ DictRight /\ DictRight' => [KV!Next]_(KV!vars)
<1> SUFFICES ASSUME IInv, [Next]_vars, DictRight, DictRight'
             PROVE  KV!Next \/ UNCHANGED KV!vars
  OBVIOUS
<1>1. UNCHANGED live => Dict' = Dict
  BY RecordsKept, DictKept
<1>2. ASSUME NEW r \in Gets \cup Sets, Start(r) PROVE KV!Ask(r) /\ r \in KV!Gets \cup KV!Sets
  BY <1>1, <1>2 DEF Start, KV!Ask, KV!Gets, KV!Sets, Gets, Sets
<1>3. ASSUME NEW r \in Gets \cup Sets, Refuse(r) PROVE KV!Refuse
  BY <1>1, <1>3 DEF Refuse, KV!Refuse
<1>4. CASE WalkChain
  <2>1. Dict' = Dict
    BY <1>1, <1>4 DEF WalkChain
  <2>. QED  BY <1>4, <2>1, WalkChainMaps DEF KV!Next
<1>5. CASE WalkEnds
  <2>1. Dict' = Dict
    BY <1>1, <1>5 DEF WalkEnds
  <2>. QED  BY <1>5, <2>1, WalkEndsMaps DEF KV!Next
<1>6. CASE LoadActive
  <2>1. ~Unwritten(activePage)
    <3>1. activePage \in 0..MaxPages-1
      BY <1>6, SizesAssumption DEF LoadActive, IInv, AppendSound, TypeOK
    <3>2. pages[activePage].used \in Nat /\ pages[activePage].used >= PageHeader
      BY <3>1, SizesAssumption DEF IInv, TypeOK, ActiveSound, Images
    <3>. QED  BY <3>1, <3>2, SizesAssumption DEF Unwritten, IInv, ActiveSound, TypeOK
  <2>. QED  BY <1>1, <1>6, <2>1 DEF LoadActive, KV!vars
<1>7. CASE CreatePage \/ WritePage
  BY <1>1, <1>7 DEF CreatePage, WritePage, walk, KV!vars
<1>8. CASE CreatePageFails \/ SizeLimit \/ WritePageFails \/ WriteHeadFails
  <2>1. request \in Sets
    BY <1>8 DEF IInv, RequestSound, Appending, CreatePageFails, SizeLimit, WritePageFails,
                WriteHeadFails
  <2>2. UNCHANGED <<live, uniqueKeys, open>>
    BY <1>8 DEF CreatePageFails, SizeLimit, WritePageFails, WriteHeadFails
  <2>3. End("out of space") \/ End("too many pages")
    BY <1>8 DEF CreatePageFails, SizeLimit, WritePageFails, WriteHeadFails
  <2>. QED  BY <1>1, <2>1, <2>2, <2>3, FailureMaps DEF KV!Next
<1>9. CASE WriteHead
  BY <1>9, WriteHeadMaps DEF KV!Next
<1>10. CASE Close
  BY <1>1, <1>10 DEF Close, walk, KV!Close, KV!Next
<1>11. CASE UNCHANGED vars
  BY <1>1, <1>11 DEF vars, KV!vars
<1>. QED  BY <1>2, <1>3, <1>4, <1>5, <1>6, <1>7, <1>8, <1>9, <1>10, <1>11 DEF Next, KV!Next

\* The paged store implements the key-value map its callers are promised.
THEOREM StoreImplementsMap == Spec => ImplementsKeyValueStore
<1>1. Init => KV!Init
  BY InitMaps
<1>2. IInv /\ [Next]_vars => [KV!Next]_(KV!vars)
  BY DictFacts, DictAfter, StepMaps
<1>. QED  BY <1>1, <1>2, InductiveInvariant, PTL DEF Spec, ImplementsKeyValueStore, KV!Spec

\* A record whose `set` returned is never changed, moved or dropped again.
THEOREM RecordsNeverChange == Spec => CommittedForGood
<1>1. IInv /\ [Next]_vars => [\A a \in live : a \in live' /\ Record(a)' = Record(a)]_vars
  BY RecordsKept
<1>. QED  BY <1>1, InductiveInvariant, PTL DEF Spec, CommittedForGood
=============================================================================
