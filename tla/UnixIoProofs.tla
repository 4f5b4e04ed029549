---------------------------- MODULE UnixIoProofs ----------------------------
(***************************************************************************)
(* Proofs about UnixIo, for every size of the device, of the cache and of  *)
(* the requests: the cache holds at most one copy of a block, and what it  *)
(* takes for clean is what the device holds.                               *)
(***************************************************************************)
EXTENDS UnixIo, WellFoundedInduction, TLAPS

\* A set of natural numbers has a least element.
LEMMA Least ==
  ASSUME NEW S \in SUBSET Nat, S # {}
  PROVE  \E n \in S : \A m \in S : n <= m
<1>1. PICK x \in S : \A y \in S : ~ (<<y, x>> \in OpToRel(<, Nat))
  BY NatLessThanWellFounded, WFMin, Zenon
<1>2. ASSUME NEW y \in S PROVE x <= y
  <2>1. ~ (y < x)
    BY <1>1, Zenon DEF OpToRel
  <2> QED
    BY <2>1
<1> QED
  BY <1>2

LEMMA Sizes ==
  /\ NBlocks \in Nat /\ NBlocks > 0 /\ CACHE_SIZE \in Nat /\ CACHE_SIZE > 0
  /\ WRITE_DIRECT_SIZE \in Nat /\ MaxCount \in Nat
  /\ Zero \in Data
  /\ Entry \subseteq Nat /\ 1 \in Entry /\ Block \subseteq Nat
BY UnixIoAssumption DEF Entry, Block

LEMMA Kth ==
  ASSUME NEW B \in Nat, NEW C \in Nat, NEW M \in Nat, B + C <= M, NEW k \in 1 .. C
  PROVE  /\ B + k - 1 \in 0 .. M - 1 /\ B + k - 1 \in B .. B + C - 1
         /\ (B + k - 1) - B + 1 = k
OBVIOUS

\* What a request is made of.
LEMMA CallFacts ==
  ASSUME NEW c \in Calls
  PROVE  /\ c.name \in {"read", "write", "zeroout", "flush", "set_blksize", "close"}
         /\ c.block \in Nat /\ c.count \in 0 .. MaxCount /\ c.odd \in BOOLEAN
         /\ c.name \in {"read", "write", "zeroout"} =>
              c.count > 0 /\ c.block + c.count <= NBlocks
         /\ c.name \in {"write", "zeroout"} => c.data \in [1 .. c.count -> Data]
<1>1. /\ c.name \in Transfers \cup {"flush", "set_blksize", "close"}
      /\ c.block \in 0 .. NBlocks /\ c.count \in 0 .. MaxCount
      /\ c.odd \in BOOLEAN
      /\ \E n \in 0 .. MaxCount : c.data \in [1 .. n -> Data]
  BY DEF Calls
<1>2. /\ c.block + c.count <= NBlocks
      /\ c.name \in Transfers => c.count > 0
      /\ c.name \in {"write", "zeroout"} => DOMAIN c.data = 1 .. c.count
  BY DEF Calls, Transfers
<1>3. c.name \in {"write", "zeroout"} => c.data \in [1 .. c.count -> Data]
  BY <1>1, <1>2
<1> QED
  BY <1>1, <1>2, <1>3, Sizes DEF Transfers

\* The entry that a search finds.
LEMMA Found ==
  ASSUME NEW b, Cached(b) # {}
  PROVE  /\ find_cached_block(b) \in Entry
         /\ cache[find_cached_block(b)].in_use
         /\ cache[find_cached_block(b)].block = b
<1>1. Cached(b) \in SUBSET Nat
  BY Sizes, Zenon DEF Cached
<1>2. \E e \in Cached(b) : \A x \in Cached(b) : e <= x
  BY <1>1, Least
<1>3. find_cached_block(b) \in Cached(b)
  BY <1>2 DEF find_cached_block
<1> QED
  BY <1>3 DEF Cached

\* The entry that is offered for reuse.
LEMMA EldestFacts ==
  ASSUME age \in [Entry -> Entry], \A r \in Entry : \E e \in Entry : age[e] = r
  PROVE  Eldest \in Entry
<1>1. CASE Free # {}
  <2>1. Free \in SUBSET Nat
    BY Sizes, Zenon DEF Free
  <2>2. \E e \in Free : \A x \in Free : e <= x
    BY <1>1, <2>1, Least
  <2>3. Eldest \in Free
    BY <1>1, <2>2 DEF Eldest
  <2> QED
    BY <2>3 DEF Free
<1>2. CASE Free = {}
  <2>1. PICK e \in Entry : age[e] = 1
    BY Sizes
  <2>2. \A x \in Entry : age[x] \in Entry
    OBVIOUS
  <2>3. \A x \in Entry : age[e] <= age[x]
    BY <2>1, <2>2, Sizes DEF Entry
  <2> QED
    BY <1>2, <2>3 DEF Eldest
<1> QED
  BY <1>1, <1>2

\* A ranking of the entries: each has a rank, and each rank has its entry.
Ranking(a) ==
  /\ a \in [Entry -> Entry]
  /\ \A x, y \in Entry : x # y => a[x] # a[y]
  /\ \A r \in Entry : \E e \in Entry : a[e] = r

\* An access keeps it a ranking.
LEMMA TouchedRanking ==
  ASSUME NEW a, Ranking(a), NEW e \in Entry
  PROVE  Ranking(Touched(a, e))
<1> DEFINE t == Touched(a, e)
<1>1. \A x \in Entry : t[x] = IF x = e THEN CACHE_SIZE
                              ELSE IF a[x] > a[e] THEN a[x] - 1 ELSE a[x]
  BY DEF Touched
<1>2. ASSUME NEW x \in Entry
      PROVE  a[x] \in Nat /\ 1 <= a[x] /\ a[x] <= CACHE_SIZE
  <2>1. a[x] \in Entry
    BY DEF Ranking
  <2> QED
    BY <2>1, Sizes DEF Entry
<1>3. \A x \in Entry : x # e => a[x] # a[e]
  BY DEF Ranking
<1>4. \A x \in Entry : t[x] \in Entry
  BY <1>1, <1>2, <1>3, Sizes DEF Entry
<1>5. t \in [Entry -> Entry]
  BY <1>4 DEF Touched
<1>6. ASSUME NEW x \in Entry, NEW y \in Entry, x # y
      PROVE  t[x] # t[y]
  <2>1. a[x] # a[y]
    BY <1>6 DEF Ranking
  <2> QED
    BY <1>1, <1>2, <1>3, <1>6, <2>1, Sizes
<1>7. ASSUME NEW r \in Entry
      PROVE  \E x \in Entry : t[x] = r
  <2>1. r \in Nat /\ 1 <= r /\ r <= CACHE_SIZE
    BY Sizes DEF Entry
  <2>2. CASE r = CACHE_SIZE
    BY <1>1, <2>2
  <2>3. CASE r < a[e]
    <3>1. PICK x \in Entry : a[x] = r
      BY DEF Ranking
    <3> QED
      BY <1>1, <1>2, <2>1, <2>3, <3>1
  <2>4. CASE r # CACHE_SIZE /\ ~ (r < a[e])
    <3>1. r + 1 \in Entry
      BY <2>1, <2>4, Sizes DEF Entry
    <3>2. PICK x \in Entry : a[x] = r + 1
      BY <3>1 DEF Ranking
    <3> QED
      BY <1>1, <1>2, <2>1, <2>4, <3>2
  <2> QED
    BY <2>2, <2>3, <2>4
<1> QED
  BY <1>5, <1>6, <1>7, Zenon DEF Ranking

-----------------------------------------------------------------------------
CacheEntry == [in_use : BOOLEAN, dirty : BOOLEAN, block : Block, data : Data]

LEMMA UnusedType == Unused \in CacheEntry
  BY Sizes DEF Unused, CacheEntry, Block

\* What a write into an entry makes of the cache.
LEMMA FilledFacts ==
  ASSUME cache \in [Entry -> CacheEntry],
         NEW e \in Entry, NEW b \in Block, NEW d \in Data, NEW dirty \in BOOLEAN
  PROVE  LET c == Filled(e, b, d, dirty)
         IN  /\ c \in [Entry -> CacheEntry]
             /\ c[e].in_use /\ (c[e].dirty <=> dirty) /\ c[e].block = b /\ c[e].data = d
             /\ \A x \in Entry : x # e => c[x] = cache[x]
<1> DEFINE entry == [in_use |-> TRUE, dirty |-> dirty, block |-> b, data |-> d]
<1>1. entry \in CacheEntry
  BY DEF CacheEntry
<1>2. entry.in_use /\ (entry.dirty <=> dirty) /\ entry.block = b /\ entry.data = d
  OBVIOUS
<1>3. Filled(e, b, d, dirty) = [cache EXCEPT ![e] = entry]
  BY DEF Filled
<1> HIDE DEF entry
<1> QED
  BY <1>1, <1>2, <1>3

\* What an eviction makes of the device.
LEMMA ReuseFacts ==
  ASSUME disk \in [Block -> Data], cache \in [Entry -> CacheEntry],
         NEW e \in Entry, reuse_cache(e)
  PROVE  /\ disk' \in [Block -> Data]
         /\ \A b \in Block : disk'[b] # disk[b] =>
              cache[e].in_use /\ cache[e].dirty /\ cache[e].block = b
<1>1. cache[e] \in CacheEntry
  OBVIOUS
<1>2. cache[e].block \in Block /\ cache[e].data \in Data
  BY <1>1 DEF CacheEntry
<1>3. WrittenBack(e) \in [Block -> Data]
  BY <1>2 DEF WrittenBack
<1>4. disk' \in {WrittenBack(e), disk}
  BY DEF reuse_cache
<1> QED
  BY <1>2, <1>3, <1>4 DEF WrittenBack

\* What a flush makes of the device and of the cache.
LEMMA FlushFacts ==
  ASSUME disk \in [Block -> Data], cache \in [Entry -> CacheEntry],
         NEW ok \in SUBSET Dirty
  PROVE  /\ FlushedDisk(ok) \in [Block -> Data]
         /\ FlushedCache(ok, FALSE) \in [Entry -> CacheEntry]
         /\ \A b \in Block : (\A e \in ok : cache[e].block # b) => FlushedDisk(ok)[b] = disk[b]
         /\ \A b \in Block : (\E e \in ok : cache[e].block = b) =>
              \E e \in ok : cache[e].block = b /\ FlushedDisk(ok)[b] = cache[e].data
<1>1. ok \subseteq Entry
  BY DEF Dirty
<1>2. \A e \in Entry : cache[e] \in CacheEntry
  OBVIOUS
<1>3. \A e \in Entry : cache[e].data \in Data /\ cache[e].block \in Block
                         /\ cache[e].in_use \in BOOLEAN /\ cache[e].dirty \in BOOLEAN
  BY <1>2 DEF CacheEntry
<1>4. ASSUME NEW b \in Block, \E e \in ok : cache[e].block = b
      PROVE  \E e \in ok : cache[e].block = b /\ FlushedDisk(ok)[b] = cache[e].data
  <2>1. (CHOOSE e \in ok : cache[e].block = b) \in ok
    BY <1>4
  <2>2. cache[CHOOSE e \in ok : cache[e].block = b].block = b
    BY <1>4
  <2>3. FlushedDisk(ok)[b] = cache[CHOOSE e \in ok : cache[e].block = b].data
    BY <1>4 DEF FlushedDisk
  <2> QED
    BY <2>1, <2>2, <2>3, Zenon
<1>5. ASSUME NEW b \in Block, \A e \in ok : cache[e].block # b
      PROVE  FlushedDisk(ok)[b] = disk[b]
  BY <1>5 DEF FlushedDisk
<1>6. \A b \in Block : FlushedDisk(ok)[b] \in Data
  BY <1>1, <1>3, <1>4, <1>5
<1>7. FlushedDisk(ok) \in [Block -> Data]
  BY <1>6 DEF FlushedDisk
<1>8. ASSUME NEW e \in Entry
      PROVE  /\ FlushedCache(ok, FALSE)[e] =
                  [in_use |-> cache[e].in_use, dirty |-> cache[e].dirty /\ e \notin ok,
                   block |-> cache[e].block, data |-> cache[e].data]
             /\ FlushedCache(ok, FALSE)[e] \in CacheEntry
  <2>1. FlushedCache(ok, FALSE)[e] = [cache[e] EXCEPT !.dirty = @ /\ e \notin ok]
    BY DEF FlushedCache
  <2>2. [cache[e] EXCEPT !.dirty = @ /\ e \notin ok] =
          [in_use |-> cache[e].in_use, dirty |-> cache[e].dirty /\ e \notin ok,
           block |-> cache[e].block, data |-> cache[e].data]
    BY <1>2 DEF CacheEntry
  <2> QED
    BY <1>3, <2>1, <2>2, Zenon DEF CacheEntry
<1>9. FlushedCache(ok, FALSE) \in [Entry -> CacheEntry]
  BY <1>8, Zenon DEF FlushedCache
<1> QED
  BY <1>4, <1>5, <1>7, <1>8, <1>9, Zenon

LEMMA FlushKeeps ==
  ASSUME disk \in [Block -> Data], cache \in [Entry -> CacheEntry],
         NEW ok \in SUBSET Dirty, NEW e \in Entry
  PROVE  /\ FlushedCache(ok, FALSE)[e].in_use <=> cache[e].in_use
         /\ FlushedCache(ok, FALSE)[e].dirty <=> (cache[e].dirty /\ e \notin ok)
         /\ FlushedCache(ok, FALSE)[e].block = cache[e].block
         /\ FlushedCache(ok, FALSE)[e].data = cache[e].data
<1>1. FlushedCache(ok, FALSE)[e] = [cache[e] EXCEPT !.dirty = @ /\ e \notin ok]
  BY DEF FlushedCache
<1>2. cache[e] \in CacheEntry
  OBVIOUS
<1>3. FlushedCache(ok, FALSE)[e].block = cache[e].block
  BY <1>1, <1>2, Zenon DEF CacheEntry
<1>4. FlushedCache(ok, FALSE)[e].data = cache[e].data
  BY <1>1, <1>2, Zenon DEF CacheEntry
<1>5. FlushedCache(ok, FALSE)[e].in_use <=> cache[e].in_use
  BY <1>1, <1>2, Zenon DEF CacheEntry
<1>6. FlushedCache(ok, FALSE)[e].dirty <=> (cache[e].dirty /\ e \notin ok)
  BY <1>1, <1>2, Zenon DEF CacheEntry
<1> QED
  BY <1>3, <1>4, <1>5, <1>6, Zenon

LEMMA FlushResultsDirty == FlushResults \subseteq SUBSET Dirty
  BY DEF FlushResults

\* What a raw write of the first n blocks of a request makes of the device.
LEMMA PutFacts ==
  ASSUME NEW d \in [Block -> Data], NEW c \in Calls, c.name \in {"write", "zeroout"},
         NEW n \in 0 .. c.count
  PROVE  /\ Put(d, c.block, SubSeq(c.data, 1, n)) \in [Block -> Data]
         /\ \A b \in Block : Put(d, c.block, SubSeq(c.data, 1, n))[b] =
              IF b \in c.block .. c.block + n - 1 THEN c.data[b - c.block + 1] ELSE d[b]
<1> DEFINE s == SubSeq(c.data, 1, n)
<1>1. c.data \in [1 .. c.count -> Data] /\ c.count \in Nat /\ c.block \in Nat /\ n \in Nat
      /\ n <= c.count
  BY CallFacts, Sizes
<1>2. \A k \in 1 .. n : c.data[k] \in Data
  BY <1>1
<1>3. /\ Len(s) = IF 1 <= n THEN n - 1 + 1 ELSE 0
      /\ \A k \in 1 .. n - 1 + 1 : s[k] = c.data[1 + k - 1]
  BY <1>1, <1>2
<1>4. Len(s) = n /\ \A k \in 1 .. n : s[k] = c.data[k]
  BY <1>1, <1>3
<1> HIDE DEF s
<1>5. ASSUME NEW b \in Block
      PROVE  Put(d, c.block, s)[b] =
               IF b \in c.block .. c.block + n - 1 THEN c.data[b - c.block + 1] ELSE d[b]
  <2>1. b \in Nat
    BY Sizes
  <2>2. b \in c.block .. c.block + n - 1 => b - c.block + 1 \in 1 .. n
    BY <1>1, <2>1
  <2> QED
    BY <1>4, <2>2 DEF Put
<1>6. ASSUME NEW b \in Block
      PROVE  Put(d, c.block, s)[b] \in Data
  <2>1. b \in Nat
    BY Sizes
  <2>2. b \in c.block .. c.block + n - 1 => b - c.block + 1 \in 1 .. n
    BY <1>1, <2>1
  <2> QED
    BY <1>2, <1>5, <2>2
<1>7. Put(d, c.block, s) \in [Block -> Data]
  BY <1>6 DEF Put
<1> QED
  BY <1>5, <1>7 DEF s

\* The blocks up to the next one in the cache.
LEMMA UncachedFacts ==
  ASSUME Rest \in Nat, Rest > 0, Cached(Next_b) = {}, Next_b \in Nat
  PROVE  /\ Uncached \in 1 .. Rest
         /\ \A k \in 0 .. Uncached - 1 : Cached(Next_b + k) = {}
         /\ Uncached < Rest => Cached(Next_b + Uncached) # {}
<1> DEFINE S == {n \in 1 .. Rest : n = Rest \/ Cached(Next_b + n) # {}}
<1>1. Rest \in S /\ S \in SUBSET Nat
  OBVIOUS
<1>2. PICK n \in S : \A m \in S : n <= m
  BY <1>1, Least, Zenon
<1>3. ASSUME NEW k \in 0 .. n - 1
      PROVE  Cached(Next_b + k) = {}
  <2>1. CASE k = 0
    BY <2>1
  <2>2. CASE k # 0
    BY <1>2, <2>2
  <2> QED
    BY <2>1, <2>2
<1>4. /\ n \in 1 .. Rest
      /\ \A k \in 0 .. n - 1 : Cached(Next_b + k) = {}
      /\ n < Rest => Cached(Next_b + n) # {}
  BY <1>2, <1>3
<1> QED
  BY <1>4, Zenon DEF Uncached

-----------------------------------------------------------------------------
\* The types, and what keeps them: the part of the invariant that needs no more.
Base ==
  /\ TypeOK
  /\ \A r \in Entry : \E e \in Entry : age[e] = r
  /\ call # None => done <= call.count
  /\ Calling("read") => done >= 0
  /\ Handing

\* What it says, in the form in which the proofs use it.
LEMMA BaseFacts ==
  ASSUME Base
  PROVE  /\ channel \in Channels
         /\ disk \in [Block -> Data] /\ cache \in [Entry -> CacheEntry]
         /\ Ranking(age) /\ Eldest \in Entry
         /\ call \in Calls \cup {None}
         /\ done \in -1 .. MaxCount /\ buf \in Seq(Data) /\ retval \in BOOLEAN
         /\ call # None => done <= call.count
         /\ Calling("read") => done >= 0
         /\ again \in [left : 0 .. MaxCount, entry : 0 .. CACHE_SIZE] \cup {None}
         /\ Handing
BY EldestFacts DEF Base, TypeOK, Ranking, CacheEntry

\* How it is established again.
LEMMA BaseNext ==
  ASSUME channel' \in Channels,
         disk' \in [Block -> Data], cache' \in [Entry -> CacheEntry], Ranking(age'),
         call' \in Calls \cup {None},
         done' \in -1 .. MaxCount, buf' \in Seq(Data), retval' \in BOOLEAN,
         call' # None => done' <= call'.count,
         Calling("read")' => done' >= 0,
         again' \in [left : 0 .. MaxCount, entry : 0 .. CACHE_SIZE] \cup {None}, Handing'
  PROVE  Base'
BY DEF Base, TypeOK, Ranking, CacheEntry

\* Most steps leave the error handlers alone.
LEMMA BasePlain ==
  ASSUME channel' \in Channels,
         disk' \in [Block -> Data], cache' \in [Entry -> CacheEntry], Ranking(age'),
         call' \in Calls \cup {None},
         done' \in -1 .. MaxCount, buf' \in Seq(Data), retval' \in BOOLEAN,
         call' # None => done' <= call'.count,
         Calling("read")' => done' >= 0,
         again' = None
  PROVE  Base'
<1>1. again' \in [left : 0 .. MaxCount, entry : 0 .. CACHE_SIZE] \cup {None}
  OBVIOUS
<1>2. Handing'
  BY DEF Handing
<1> QED
  BY <1>1, <1>2, BaseNext, Zenon

LEMMA BaseInit == Init => Base
<1> SUFFICES ASSUME Init PROVE Base
  OBVIOUS
<1>1. cache \in [Entry -> CacheEntry]
  BY UnusedType DEF Init, Empty
<1>2. Ranking(age)
  BY DEF Init, Ranking
<1>3. done \in -1 .. MaxCount /\ buf \in Seq(Data)
  BY Sizes DEF Init
<1> QED
  BY <1>1, <1>2, <1>3 DEF Init, Base, TypeOK, Ranking, CacheEntry, Calling, Handing

\* A call that goes on is about blocks of the device.
LEMMA Going ==
  ASSUME Base, call # None
  PROVE  /\ call \in Calls /\ call.block \in Nat /\ call.count \in Nat
         /\ call.count <= MaxCount /\ done \in Int
         /\ call.name \in Transfers => call.block + call.count <= NBlocks
         /\ call.name \in {"write", "zeroout"} => call.data \in [1 .. call.count -> Data]
         /\ Calling("read") => Rest \in Nat /\ Next_b \in Nat
BY BaseFacts, CallFacts, Sizes DEF Transfers, Rest, Next_b

\* The next block of a read that has one.
LEMMA Reading ==
  ASSUME Base, Calling("read"), Rest > 0
  PROVE  Next_b \in Block
<1>1. call # None /\ call.name = "read"
  BY Zenon DEF Calling
<1>2. call.name \in Transfers
  BY <1>1, Zenon DEF Transfers
<1>3. call.block \in Nat /\ call.count \in Nat /\ call.block + call.count <= NBlocks
  BY <1>1, <1>2, Going, Zenon
<1>4. done \in Int /\ done >= 0
  BY <1>1, Going, BaseFacts, Zenon
<1> QED
  BY <1>3, <1>4, Sizes DEF Rest, Next_b, Block

LEMMA CallBase == ASSUME Base, Call, UNCHANGED channel, again' = None PROVE Base'
<1>1. call' \in Calls /\ call'.count \in 0 .. MaxCount
  BY CallFacts DEF Call
<1>2. done' \in -1 .. MaxCount /\ buf' \in Seq(Data)
  BY Sizes DEF Call
<1>3. Ranking(age')
  BY BaseFacts DEF Call
<1> QED
  BY <1>1, <1>2, <1>3, BaseFacts, BasePlain, Sizes DEF Call

LEMMA ReadDirectBase == ASSUME Base, ReadDirect, UNCHANGED channel, again' = None PROVE Base'
<1>1. PICK ok \in SUBSET Dirty : disk' = FlushedDisk(ok) /\ cache' = FlushedCache(ok, FALSE)
  BY FlushResultsDirty, Zenon DEF ReadDirect
<1>2. disk' \in [Block -> Data] /\ cache' \in [Entry -> CacheEntry]
  BY <1>1, FlushFacts, BaseFacts, Zenon
<1>3. call' = None /\ UNCHANGED <<age, done, buf, retval>>
  BY DEF ReadDirect, Return, working
<1> QED
  BY <1>2, <1>3, BaseFacts, BasePlain DEF Calling

LEMMA ReadHitBase == ASSUME Base, ReadHit, UNCHANGED channel, again' = None PROVE Base'
<1> DEFINE e == find_cached_block(Next_b)
<1>1. e \in Entry
  BY Found DEF ReadHit
<1>2. cache[e].data \in Data
  BY <1>1, BaseFacts DEF CacheEntry
<1>3. Ranking(age')
  BY <1>1, TouchedRanking, BaseFacts DEF ReadHit
<1>4. buf' \in Seq(Data)
  BY <1>2, BaseFacts DEF ReadHit
<1>5. done' \in -1 .. MaxCount /\ done' <= call.count /\ done' >= 0
  <2>1. call # None /\ call.count - done > 0 /\ done' = done + 1
    BY DEF ReadHit, Calling, Rest
  <2>2. call.count \in Nat /\ call.count <= MaxCount /\ done \in Int
    BY <2>1, Going
  <2>3. done >= -1 /\ MaxCount \in Nat
    BY BaseFacts, Sizes
  <2> QED BY <2>1, <2>2, <2>3
<1> QED
  BY <1>3, <1>4, <1>5, BaseFacts, BasePlain DEF ReadHit, Calling

LEMMA ReadOneBase == ASSUME Base, ReadOne, UNCHANGED channel, again' = None PROVE Base'
<1>1. Next_b \in Block
  <2>1. Calling("read") /\ Rest > 0
    BY DEF ReadOne
  <2> QED
    BY <2>1, Reading, Zenon
<1>2. disk' \in [Block -> Data]
  BY ReuseFacts, BaseFacts DEF ReadOne
<1>3. Ranking(age')
  BY TouchedRanking, BaseFacts DEF ReadOne
<1>4. cache' \in [Entry -> CacheEntry]
  <2>1. CASE cache' = Filled(Eldest, Next_b, disk'[Next_b], FALSE)
    BY <2>1, <1>1, <1>2, FilledFacts, BaseFacts, Zenon
  <2>2. CASE cache' = [cache EXCEPT ![Eldest] = Unused]
    BY <2>2, UnusedType, BaseFacts
  <2> QED
    BY <2>1, <2>2, Zenon DEF ReadOne
<1>5. call' = None /\ UNCHANGED <<done, buf, retval>>
  BY Zenon DEF ReadOne, Return, working
<1> QED
  BY <1>2, <1>3, <1>4, <1>5, BaseFacts, BasePlain DEF Calling

\* The blocks that a read of several reads.
LEMMA ReadManyFacts ==
  ASSUME Base, ReadMany
  PROVE  /\ Uncached \in 1 .. Rest
         /\ \A k \in 0 .. Uncached - 1 : Cached(Next_b + k) = {} /\ Next_b + k \in Block
         /\ Next_b \in Nat /\ Next_b + Uncached - 1 \in Block
         /\ Ranking(Searched)
<1>1. Rest \in Nat /\ Rest > 0 /\ Next_b \in Nat /\ Cached(Next_b) = {}
  BY Going DEF ReadMany, Calling
<1>2. /\ Uncached \in 1 .. Rest
      /\ \A k \in 0 .. Uncached - 1 : Cached(Next_b + k) = {}
      /\ Uncached < Rest => Cached(Next_b + Uncached) # {}
  BY <1>1, UncachedFacts
<1>3. \A k \in 0 .. Rest - 1 : Next_b + k \in Block
  <2>1. /\ call.block \in Nat /\ call.count \in Nat /\ done \in Int
        /\ call.block + call.count <= NBlocks
    BY Going DEF ReadMany, Calling, Transfers
  <2> QED
    BY <1>1, <2>1, Sizes DEF Rest, Next_b, Block
<1>4. Ranking(Searched)
  <2>1. CASE Uncached < Rest
    <3>1. find_cached_block(Next_b + Uncached) \in Entry
      BY <1>2, <2>1, Found
    <3> QED
      BY <2>1, <3>1, TouchedRanking, BaseFacts DEF Searched
  <2>2. CASE ~ (Uncached < Rest)
    BY <2>2, BaseFacts DEF Searched
  <2> QED
    BY <2>1, <2>2
<1>5. Next_b + Uncached - 1 \in Block
  <2>1. Uncached - 1 \in 0 .. Rest - 1
    BY <1>1, <1>2
  <2>2. Next_b + Uncached - 1 = Next_b + (Uncached - 1)
    BY <1>1, <1>2
  <2> QED
    BY <1>3, <2>1, <2>2
<1>6. \A k \in 0 .. Uncached - 1 : k \in 0 .. Rest - 1
  BY <1>1, <1>2
<1> QED
  BY <1>1, <1>2, <1>3, <1>4, <1>5, <1>6

\* The last of them, which the cache keeps.
LEMMA LastUncached ==
  ASSUME Base, ReadMany
  PROVE  Next_b + Uncached - 1 \in Block /\ Cached(Next_b + Uncached - 1) = {}
<1>1. Next_b \in Nat /\ Uncached \in 1 .. Rest
  BY ReadManyFacts
<1>2. Rest \in Nat
  BY Going DEF ReadMany, Calling
<1>3. Uncached - 1 \in 0 .. Uncached - 1 /\ Next_b + Uncached - 1 = Next_b + (Uncached - 1)
  BY <1>1, <1>2
<1> QED
  BY <1>3, ReadManyFacts

LEMMA ReadManyBase == ASSUME Base, ReadMany, UNCHANGED channel, again' = None PROVE Base'
<1>1. CASE /\ reuse_cache(Eldest)
           /\ cache' = Filled(Eldest, Next_b + Uncached - 1, disk[Next_b + Uncached - 1], FALSE)
           /\ age' = Touched(Searched, Eldest)
           /\ buf' = buf \o [k \in 1 .. Uncached |-> disk[Next_b + k - 1]]
           /\ done' = done + Uncached
           /\ UNCHANGED <<call, reply>>
  <2>1. disk' \in [Block -> Data]
    BY <1>1, ReuseFacts, BaseFacts
  <2>2. Ranking(age')
    BY <1>1, TouchedRanking, ReadManyFacts, BaseFacts
  <2>3. disk[Next_b + Uncached - 1] \in Data
    BY ReadManyFacts, BaseFacts
  <2>4. cache' \in [Entry -> CacheEntry]
    BY <1>1, <2>3, FilledFacts, ReadManyFacts, BaseFacts, Zenon
  <2>5. buf' \in Seq(Data)
    <3> DEFINE got == [k \in 1 .. Uncached |-> disk[Next_b + k - 1]]
    <3>1. ASSUME NEW k \in 1 .. Uncached PROVE disk[Next_b + k - 1] \in Data
      <4>1. k - 1 \in 0 .. Uncached - 1 /\ Next_b + k - 1 = Next_b + (k - 1)
        BY ReadManyFacts
      <4>2. Next_b + k - 1 \in Block
        BY <4>1, ReadManyFacts
      <4> QED
        BY <4>2, BaseFacts
    <3>2. Uncached \in Nat
      BY ReadManyFacts
    <3>3. got \in [1 .. Uncached -> Data]
      BY <3>1
    <3>4. got \in Seq(Data)
      BY <3>2, <3>3
    <3>5. buf' = buf \o got
      BY <1>1
    <3> HIDE DEF got
    <3>6. buf \in Seq(Data)
      BY BaseFacts
    <3>7. buf \o got \in Seq(Data)
      BY <3>4, <3>6
    <3> QED
      BY <3>5, <3>7
  <2>6. done' \in -1 .. MaxCount /\ done' <= call.count /\ done' >= 0
    <3>1. /\ call.count \in Nat /\ call.count <= MaxCount /\ done \in Int /\ done >= 0
          /\ Uncached \in 1 .. call.count - done
      BY ReadManyFacts, Going, BaseFacts, Zenon DEF ReadMany, Calling, Rest
    <3> HIDE DEF Uncached
    <3> QED
      BY <1>1, <3>1, Sizes
  <2>7. UNCHANGED <<call, retval>>
    BY <1>1 DEF ReadMany
  <2> QED
    BY <2>1, <2>2, <2>4, <2>5, <2>6, <2>7, BaseFacts, BasePlain DEF Calling
<1>2. CASE /\ Return(FALSE, <<>>)
           /\ age' = Searched
           /\ UNCHANGED <<disk, cache, done, buf>>
  <2>1. Ranking(age')
    BY <1>2, ReadManyFacts
  <2>2. call' = None /\ UNCHANGED retval
    BY <1>2 DEF Return, ReadMany
  <2> QED
    BY <1>2, <2>1, <2>2, BaseFacts, BasePlain DEF Calling
<1> QED
  BY <1>1, <1>2, Zenon DEF ReadMany

LEMMA ReadReturnBase == ASSUME Base, ReadReturn, UNCHANGED channel, again' = None PROVE Base'
<1>1. call' = None /\ UNCHANGED <<disk, cache, age, done, buf, retval>>
  BY DEF ReadReturn, Return, working
<1> QED
  BY <1>1, BaseFacts, BasePlain DEF Calling

\* How much of a request a raw write may have written.
LEMMA Lengths ==
  ASSUME Base, Calling("write"), NEW n \in WriteLengths
  PROVE  n \in 0 .. call.count
BY Going DEF Calling, WriteLengths

LEMMA WriteDirectBase == ASSUME Base, WriteDirect, UNCHANGED channel, again' = None PROVE Base'
<1>1. PICK ok \in SUBSET Dirty, n \in WriteLengths :
        /\ cache' = FlushedCache(ok, TRUE)
        /\ IF ok # Dirty THEN disk' = FlushedDisk(ok) /\ Return(FALSE, <<>>)
           ELSE /\ disk' = Put(FlushedDisk(ok), call.block, SubSeq(call.data, 1, n))
                /\ Return(n = call.count, <<>>)
  BY FlushResultsDirty, Zenon DEF WriteDirect
<1>2. n \in 0 .. call.count /\ call \in Calls /\ call.name = "write"
  BY Lengths, Going DEF WriteDirect, Calling
<1>3. FlushedDisk(ok) \in [Block -> Data]
  BY FlushFacts, BaseFacts, Zenon
<1>4. Put(FlushedDisk(ok), call.block, SubSeq(call.data, 1, n)) \in [Block -> Data]
  BY <1>2, <1>3, PutFacts
<1>5. disk' \in [Block -> Data]
  BY <1>1, <1>3, <1>4, Zenon
<1>6. cache' \in [Entry -> CacheEntry]
  BY <1>1, UnusedType DEF FlushedCache
<1>7. call' = None /\ UNCHANGED <<age, done, buf, retval>>
  BY <1>1 DEF WriteDirect, Return, working
<1> QED
  BY <1>5, <1>6, <1>7, BaseFacts, BasePlain DEF Calling

LEMMA WriteThroughBase == ASSUME Base, WriteThrough, UNCHANGED channel, again' = None PROVE Base'
<1>1. PICK n \in WriteLengths :
        /\ disk' = Put(disk, call.block, SubSeq(call.data, 1, n))
        /\ retval' = (n = call.count)
  BY DEF WriteThrough
<1>2. n \in 0 .. call.count /\ call \in Calls /\ call.name = "write"
  BY Lengths, Going DEF WriteThrough, Calling
<1>3. disk' \in [Block -> Data]
  BY <1>1, <1>2, PutFacts, BaseFacts
<1>4. done' = -1 /\ UNCHANGED <<cache, age, call, buf>> /\ retval' \in BOOLEAN
  BY <1>1 DEF WriteThrough
<1>5. -1 \in -1 .. MaxCount /\ -1 <= call.count
  BY Going, Sizes DEF WriteThrough, Calling
<1> QED
  BY <1>2, <1>3, <1>4, <1>5, BaseFacts, BasePlain DEF Calling

\* The block that an iteration of a write deals with, and its entry.
LEMMA WriteBlockFacts ==
  ASSUME Base, WriteBlock
  PROVE  /\ call \in Calls /\ call.name = "write"
         /\ Written \in Nat /\ Written < call.count /\ call.count \in Nat /\ call.block \in Nat
         /\ call.block + Written \in Block
         /\ call.data[Written + 1] \in Data
         /\ WriteEntry(call.block + Written) \in Entry
<1>1. /\ call \in Calls /\ call.name = "write" /\ call.block \in Nat /\ call.count \in Nat
      /\ call.block + call.count <= NBlocks /\ done \in -1 .. MaxCount
      /\ call.data \in [1 .. call.count -> Data]
  BY Going, BaseFacts DEF WriteBlock, Calling, Transfers
<1>2. Written \in Nat /\ Written < call.count
  BY <1>1, Sizes DEF WriteBlock, Written
<1>3. call.block + Written \in Block /\ Written + 1 \in 1 .. call.count
  BY <1>1, <1>2, Sizes DEF Block
<1>4. WriteEntry(call.block + Written) \in Entry
  BY Found, BaseFacts DEF WriteEntry
<1> QED
  BY <1>1, <1>2, <1>3, <1>4

LEMMA StoreForm ==
  ASSUME Base, WriteBlock
  PROVE  LET b == call.block + Written
             e == WriteEntry(b)
         IN  /\ IF Cached(b) = {} THEN reuse_cache(e) ELSE UNCHANGED disk
             /\ cache' = Filled(e, b, call.data[Written + 1], ~ writethrough)
             /\ age' = Touched(age, e)
<1>1. call.block \in Nat /\ Written \in Nat
  BY WriteBlockFacts
<1>2. call.block + (Written + 1) - 1 = call.block + Written
  BY <1>1
<1>3. StoreBlock(Written + 1)
  BY DEF WriteBlock
<1> QED
  BY <1>2, <1>3, Zenon DEF StoreBlock

LEMMA WriteBlockBase == ASSUME Base, WriteBlock, UNCHANGED channel, again' = None PROVE Base'
<1> DEFINE b == call.block + Written
           e == WriteEntry(b)
<1>1. /\ IF Cached(b) = {} THEN reuse_cache(e) ELSE UNCHANGED disk
      /\ cache' = Filled(e, b, call.data[Written + 1], ~ writethrough)
      /\ age' = Touched(age, e)
      /\ done' = Written + 1
      /\ UNCHANGED <<call, buf, retval>>
  BY StoreForm, Zenon DEF WriteBlock
<1>2. b \in Block /\ e \in Entry /\ call.data[Written + 1] \in Data
  BY WriteBlockFacts
<1> HIDE DEF b, e
<1>3. disk' \in [Block -> Data]
  BY <1>1, <1>2, ReuseFacts, BaseFacts, Zenon
<1>4. cache' \in [Entry -> CacheEntry]
  BY <1>1, <1>2, FilledFacts, BaseFacts, Zenon
<1>5. Ranking(age')
  BY <1>1, <1>2, TouchedRanking, BaseFacts, Zenon
<1>6. done' \in -1 .. MaxCount /\ done' <= call.count
  <2>1. call # None
    BY Zenon DEF WriteBlock, Calling
  <2>2. call.count <= MaxCount
    BY <2>1, Going, Zenon
  <2>3. Written \in Nat /\ Written < call.count /\ call.count \in Nat
    BY WriteBlockFacts, Zenon
  <2>4. MaxCount \in Nat /\ done' = Written + 1
    BY <1>1, Sizes, Zenon
  <2> QED
    BY <2>2, <2>3, <2>4
<1>7. ~ Calling("read")'
  BY <1>1, WriteBlockFacts DEF Calling
<1> QED
  BY <1>1, <1>3, <1>4, <1>5, <1>6, <1>7, BaseFacts, BasePlain, Zenon

LEMMA WriteReturnBase == ASSUME Base, WriteReturn, UNCHANGED channel, again' = None PROVE Base'
<1>1. call' = None /\ UNCHANGED <<disk, cache, age, done, buf, retval>>
  BY DEF WriteReturn, Return, working
<1> QED
  BY <1>1, BaseFacts, BasePlain DEF Calling

LEMMA EmptyType == Empty \in [Entry -> CacheEntry]
BY UnusedType DEF Empty

\* What the operations that flush do.
LEMMA FlushingForms ==
  ASSUME Base, Flushing
  PROVE  /\ call' = None /\ UNCHANGED <<age, done, buf, retval>>
         /\ call # None /\ ~ Calling("write")
         /\ \/ UNCHANGED <<disk, cache>>
            \/ \E ok \in SUBSET Dirty :
                 disk' = FlushedDisk(ok) /\ cache' \in {Empty, FlushedCache(ok, FALSE)}
<1>1. CASE Flush
  BY <1>1, FlushResultsDirty, Zenon DEF Flush, Return, Calling, working
<1>2. CASE SetBlksize
  BY <1>2, FlushResultsDirty, Zenon DEF SetBlksize, Return, Calling, working
<1>3. CASE Close
  BY <1>3, FlushResultsDirty, Zenon DEF Close, Return, Calling, working
<1>4. CASE Idle
  <2>1. call \in Calls /\ call.idle
    BY <1>4, BaseFacts DEF Idle
  <2>2. ~ Calling("write")
    BY <2>1 DEF Calls, Calling
  <2> QED
    BY <1>4, <2>2, Zenon DEF Idle, Return, working
<1> QED
  BY <1>1, <1>2, <1>3, <1>4 DEF Flushing

LEMMA FlushBase == ASSUME Base, Flushing, UNCHANGED channel, again' = None PROVE Base'
<1>1. call' = None /\ UNCHANGED <<age, done, buf, retval>>
  BY FlushingForms, Zenon
<1>2. disk' \in [Block -> Data] /\ cache' \in [Entry -> CacheEntry]
  BY FlushingForms, FlushFacts, EmptyType, BaseFacts, Zenon
<1> QED
  BY <1>1, <1>2, BaseFacts, BasePlain DEF Calling

\* All of a request is its first blocks.
LEMMA PutAll ==
  ASSUME NEW d \in [Block -> Data], NEW c \in Calls, c.name \in {"write", "zeroout"}
  PROVE  /\ Put(d, c.block, c.data) \in [Block -> Data]
         /\ \A b \in Block : b \notin Extent(c) => Put(d, c.block, c.data)[b] = d[b]
<1>1. c.data \in [1 .. c.count -> Data] /\ c.count \in Nat /\ c.block \in Nat
  BY CallFacts, Sizes
<1>2. c.data \in Seq(Data) /\ Len(c.data) = c.count
  BY <1>1
<1>3. ASSUME NEW b \in Block
      PROVE  Put(d, c.block, c.data)[b] =
               IF b \in c.block .. c.block + c.count - 1 THEN c.data[b - c.block + 1] ELSE d[b]
  BY <1>2 DEF Put
<1>4. ASSUME NEW b \in Block
      PROVE  Put(d, c.block, c.data)[b] \in Data
  <2>1. b \in Nat
    BY Sizes
  <2>2. b \in c.block .. c.block + c.count - 1 => b - c.block + 1 \in 1 .. c.count
    BY <1>1, <2>1
  <2> QED
    BY <1>1, <1>3, <2>2
<1> QED
  BY <1>3, <1>4 DEF Put, Extent

LEMMA ZerooutBase == ASSUME Base, Zeroout, UNCHANGED channel, again' = None PROVE Base'
<1>1. call \in Calls /\ call.name = "zeroout"
  BY Going DEF Zeroout, Calling
<1>2. disk' \in [Block -> Data]
  BY <1>1, PutAll, BaseFacts, Zenon DEF Zeroout
<1>3. call' = None /\ UNCHANGED <<cache, age, done, buf, retval>>
  BY DEF Zeroout, Return, working
<1> QED
  BY <1>2, <1>3, BaseFacts, BasePlain DEF Calling

LEMMA CrashBase == ASSUME Base, Crash, UNCHANGED channel, again' = None PROVE Base'
<1>1. done' \in -1 .. MaxCount /\ buf' \in Seq(Data) /\ retval' \in BOOLEAN
  BY Sizes DEF Crash
<1> QED
  BY <1>1, EmptyType, BaseFacts, BasePlain DEF Crash, Calling

-----------------------------------------------------------------------------
\* The error handlers.  What a request in the hands of one looks like:
LEMMA InHand ==
  ASSUME Base, again # None
  PROVE  /\ again \in [left : 0 .. MaxCount, entry : 0 .. CACHE_SIZE]
         /\ again.left \in Nat /\ again.entry \in 0 .. CACHE_SIZE
         /\ channel.handler /\ call # None /\ call \in Calls
         /\ call.block \in Nat /\ call.count \in Nat /\ call.count <= MaxCount
         /\ call.block + call.count <= NBlocks
         /\ Calling("read") =>
              /\ done \in Nat /\ done + again.left <= call.count
              /\ again.entry # 0 => done + again.left > 0 /\ Len(buf) + again.left > 0
         /\ Calling("write") => again.left <= call.count
<1>1. again \in [left : 0 .. MaxCount, entry : 0 .. CACHE_SIZE]
  BY BaseFacts, Zenon
<1>2. call # None /\ call.name \in Transfers
  BY BaseFacts, Zenon DEF Handing, Calling, Transfers
<1>3. Calling("read") => done \in Nat
  BY BaseFacts, Sizes
<1>4. Calling("read") => ~ Calling("write")
  BY DEF Calling
<1>5. /\ channel.handler
      /\ Calling("read") =>
           /\ done + again.left <= call.count
           /\ again.entry # 0 => done + again.left > 0 /\ Len(buf) + again.left > 0
      /\ Calling("write") => again.left <= call.count
  BY <1>4, BaseFacts, Zenon DEF Handing
<1>6. /\ call \in Calls /\ call.block \in Nat /\ call.count \in Nat /\ call.count <= MaxCount
      /\ call.block + call.count <= NBlocks
  BY <1>2, Going, Zenon
<1>7. again.left \in Nat /\ again.entry \in 0 .. CACHE_SIZE
  BY <1>1, Sizes
<1> QED
  BY <1>1, <1>2, <1>3, <1>5, <1>6, <1>7, Zenon

\* The handler of a read has l blocks left to read.
LEMMA HandReads ==
  ASSUME channel' \in Channels, channel'.handler,
         disk' \in [Block -> Data], cache' \in [Entry -> CacheEntry], Ranking(age'),
         call' \in Calls, Calling("read")', call'.count \in 0 .. MaxCount,
         done' \in Nat, buf' \in Seq(Data), retval' \in BOOLEAN,
         NEW l \in Nat, done' + l <= call'.count,
         NEW e \in 0 .. CACHE_SIZE, e # 0 => done' + l > 0 /\ Len(buf') + l > 0,
         again' = [left |-> l, entry |-> e]
  PROVE  Base'
<1>1. again'.left = l /\ again'.entry = e
  OBVIOUS
<1>2. Handing'
  BY <1>1 DEF Handing
<1>3. l \in 0 .. MaxCount /\ done' <= call'.count /\ done' \in -1 .. MaxCount /\ done' >= 0
  BY Sizes
<1>4. again' \in [left : 0 .. MaxCount, entry : 0 .. CACHE_SIZE]
  BY <1>3
<1> QED
  BY <1>2, <1>3, <1>4, BaseNext

LEMMA HandCount ==
  ASSUME Base, Calling("read")
  PROVE  call \in Calls /\ call.count \in 0 .. MaxCount /\ Rest \in Nat
<1>1. call # None
  BY DEF Calling
<1>2. call \in Calls /\ call.count \in Nat /\ call.count <= MaxCount /\ Rest \in Nat
  BY <1>1, Going, Zenon
<1> QED
  BY <1>2, Sizes

LEMMA HandReadDirectBase == ASSUME Base, HandReadDirect, UNCHANGED channel PROVE Base'
<1>1. /\ disk' = FlushedDisk(Dirty) /\ cache' = FlushedCache(Dirty, FALSE)
      /\ UNCHANGED <<age, call, done, buf, retval>>
      /\ again' = [left |-> Rest, entry |-> 0]
      /\ Calling("read") /\ channel.handler
  BY DEF HandReadDirect, Handed, working
<1>2. disk' \in [Block -> Data] /\ cache' \in [Entry -> CacheEntry]
  BY <1>1, FlushFacts, BaseFacts, Zenon
<1>3. call # None /\ call \in Calls /\ call.count \in 0 .. MaxCount /\ Rest \in Nat
  BY <1>1, HandCount, Zenon DEF Calling
<1>4. done \in Nat /\ done + Rest <= call.count
  BY <1>1, <1>3, BaseFacts DEF Rest
<1>5. Calling("read")' /\ Ranking(age')
  BY <1>1, BaseFacts DEF Calling
<1>6. 0 \in 0 .. CACHE_SIZE
  BY Sizes
<1> QED
  BY <1>1, <1>2, <1>3, <1>4, <1>5, <1>6, BaseFacts, HandReads

LEMMA HandReadManyBase == ASSUME Base, HandReadMany, UNCHANGED channel PROVE Base'
<1>1. /\ UNCHANGED <<disk, cache, call, done, buf, retval>> /\ age' = Searched
      /\ again' = [left |-> Uncached, entry |-> Eldest]
      /\ Calling("read") /\ channel.handler /\ Rest > 1 /\ Cached(Next_b) = {}
  BY DEF HandReadMany, Handed, working
<1>2. call # None /\ call \in Calls /\ call.count \in 0 .. MaxCount /\ Rest \in Nat
  BY <1>1, HandCount, Zenon DEF Calling
<1>3. Uncached \in 1 .. Rest /\ Ranking(Searched)
  <2>1. Next_b \in Nat
    BY <1>1, <1>2, Going
  <2>2. Uncached \in 1 .. Rest /\ (Uncached < Rest => Cached(Next_b + Uncached) # {})
    BY <1>1, <1>2, <2>1, UncachedFacts
  <2>3. Uncached < Rest => find_cached_block(Next_b + Uncached) \in Entry
    BY <2>2, Found
  <2>4. Ranking(Searched)
    BY <2>3, TouchedRanking, BaseFacts, Zenon DEF Searched
  <2> QED
    BY <2>2, <2>4
<1>4. done \in Nat /\ Uncached \in Nat /\ done + Uncached <= call.count /\ Uncached > 0
  BY <1>1, <1>2, <1>3, BaseFacts DEF Rest
<1>5. Calling("read")' /\ Eldest \in 0 .. CACHE_SIZE /\ Len(buf) \in Nat
  BY <1>1, BaseFacts, Sizes DEF Calling, Entry
<1>6. done + Uncached > 0 /\ Len(buf) + Uncached > 0
  BY <1>4, <1>5
<1> QED
  BY <1>1, <1>2, <1>3, <1>4, <1>5, <1>6, BaseFacts, HandReads

\* One block less is left to read.
LEMMA RereadLeft ==
  ASSUME Base, again # None, Calling("read"), again.left > 0
  PROVE  /\ Next_b \in Block /\ again.left - 1 \in Nat
         /\ done + 1 + (again.left - 1) <= call.count
         /\ done + 1 + (again.left - 1) > 0 /\ done + 1 \in Nat
         /\ [again EXCEPT !.left = @ - 1] = [left |-> again.left - 1, entry |-> again.entry]
<1>1. /\ done \in Nat /\ again.left \in Nat /\ done + again.left <= call.count
      /\ call.block \in Nat /\ call.count \in Nat /\ call.block + call.count <= NBlocks
  BY InHand
<1>2. again \in [left : 0 .. MaxCount, entry : 0 .. CACHE_SIZE]
  BY InHand
<1> QED
  BY <1>1, <1>2, Sizes DEF Next_b, Block

LEMMA RereadHitBase ==
  ASSUME Base, again # None, RereadHit, UNCHANGED channel
  PROVE  Base'
<1> DEFINE e == find_cached_block(Next_b)
<1>1. /\ Calling("read") /\ again.left > 0 /\ Cached(Next_b) # {}
      /\ buf' = Append(buf, cache[e].data) /\ age' = Touched(age, e) /\ done' = done + 1
      /\ again' = [again EXCEPT !.left = @ - 1] /\ UNCHANGED <<disk, cache, call, retval>>
  BY DEF RereadHit
<1>2. e \in Entry
  BY <1>1, Found
<1> HIDE DEF e
<1>3. cache[e].data \in Data
  BY <1>2, BaseFacts DEF CacheEntry
<1>4. buf' \in Seq(Data) /\ Len(buf') \in Nat /\ Len(buf') > 0
  BY <1>1, <1>3, BaseFacts
<1>5. Ranking(age')
  BY <1>1, <1>2, TouchedRanking, BaseFacts, Zenon
<1>6. /\ call \in Calls /\ call.count \in 0 .. MaxCount /\ channel.handler
      /\ again.entry \in 0 .. CACHE_SIZE
  BY InHand, Sizes
<1>7. /\ again' = [left |-> again.left - 1, entry |-> again.entry]
      /\ again.left - 1 \in Nat /\ done' \in Nat /\ done' + (again.left - 1) <= call.count
      /\ done' + (again.left - 1) > 0
  BY <1>1, RereadLeft, Zenon
<1>8. Calling("read")' /\ Len(buf') + (again.left - 1) > 0
  BY <1>1, <1>4, <1>7 DEF Calling
<1> QED
  BY <1>1, <1>4, <1>5, <1>6, <1>7, <1>8, BaseFacts, HandReads

LEMMA RereadOneBase ==
  ASSUME Base, again # None, RereadOne, UNCHANGED channel
  PROVE  Base'
<1>1. /\ Calling("read") /\ again.left > 0 /\ reuse_cache(Eldest)
      /\ age' = Touched(age, Eldest) /\ retval' = retval
  BY DEF RereadOne
<1>2. Next_b \in Block /\ Eldest \in Entry
  BY <1>1, RereadLeft, BaseFacts
<1>3. disk' \in [Block -> Data] /\ Ranking(age')
  BY <1>1, <1>2, ReuseFacts, TouchedRanking, BaseFacts, Zenon
<1>4. disk'[Next_b] \in Data
  BY <1>2, <1>3
<1>5. CASE /\ cache' = Filled(Eldest, Next_b, disk'[Next_b], FALSE)
           /\ buf' = Append(buf, disk'[Next_b]) /\ done' = done + 1
           /\ again' = [again EXCEPT !.left = @ - 1] /\ UNCHANGED call
  <2>1. cache' \in [Entry -> CacheEntry]
    BY <1>2, <1>4, <1>5, FilledFacts, BaseFacts, Zenon
  <2>2. buf' \in Seq(Data) /\ Len(buf') \in Nat /\ Len(buf') > 0
    BY <1>4, <1>5, BaseFacts
  <2>3. /\ call \in Calls /\ call.count \in 0 .. MaxCount /\ channel.handler
        /\ again.entry \in 0 .. CACHE_SIZE
    BY InHand, Sizes
  <2>4. /\ again' = [left |-> again.left - 1, entry |-> again.entry]
        /\ again.left - 1 \in Nat /\ done' \in Nat /\ done' + (again.left - 1) <= call.count
        /\ done' + (again.left - 1) > 0
    BY <1>1, <1>5, RereadLeft, Zenon
  <2>5. Calling("read")' /\ Len(buf') + (again.left - 1) > 0
    BY <1>1, <1>5, <2>2, <2>4 DEF Calling
  <2> QED
    BY <1>1, <1>3, <1>5, <2>1, <2>2, <2>3, <2>4, <2>5, BaseFacts, HandReads
<1>6. CASE /\ cache' = [cache EXCEPT ![Eldest] = Unused]
           /\ call' = None /\ again' = None /\ UNCHANGED <<done, buf>>
  <2>1. cache' \in [Entry -> CacheEntry]
    BY <1>2, <1>6, UnusedType, BaseFacts
  <2> QED
    BY <1>1, <1>3, <1>6, <2>1, BaseFacts, BasePlain DEF Calling
<1> QED
  BY <1>5, <1>6, Zenon DEF RereadOne, Return

LEMMA RereadDoneBase ==
  ASSUME Base, again # None, RereadDone, UNCHANGED channel
  PROVE  Base'
<1>1. /\ Calling("read") /\ again.left = 0 /\ again' = None
      /\ UNCHANGED <<done, buf, retval>>
  BY DEF RereadDone, working
<1>2. CASE again.entry = 0
  <2>1. call' = None /\ UNCHANGED <<disk, cache, age>>
    BY <1>2 DEF RereadDone, Return
  <2> QED
    BY <1>1, <2>1, BaseFacts, BasePlain DEF Calling
<1>3. CASE again.entry # 0
  <2> DEFINE e == again.entry
             d == buf[Len(buf)]
             b == Next_b - 1
  <2>1. /\ reuse_cache(e) /\ cache' = Filled(e, b, d, FALSE)
        /\ age' = Touched(age, e) /\ UNCHANGED call
    BY <1>3 DEF RereadDone
  <2>2. /\ done \in Nat /\ done <= call.count /\ done > 0 /\ Len(buf) > 0
        /\ call.block \in Nat /\ call.count \in Nat /\ call.block + call.count <= NBlocks
        /\ e \in 0 .. CACHE_SIZE
    BY <1>1, <1>3, InHand, BaseFacts
  <2>3. b \in Block /\ e \in Entry
    <3>1. e # 0
      BY <1>3
    <3> HIDE DEF e
    <3>2. e \in Entry
      BY <2>2, <3>1, Sizes DEF Entry
    <3>3. b \in Block
      BY <2>2, Sizes DEF Block, Next_b
    <3> HIDE DEF b
    <3> QED
      BY <3>2, <3>3, Zenon
  <2>4. d \in Data
    <3>1. buf \in Seq(Data)
      BY BaseFacts, Zenon
    <3> QED
      BY <2>2, <3>1
  <2> HIDE DEF e, d, b
  <2>5. disk' \in [Block -> Data] /\ cache' \in [Entry -> CacheEntry] /\ Ranking(age')
    BY <2>1, <2>3, <2>4, ReuseFacts, FilledFacts, TouchedRanking, BaseFacts, Zenon
  <2> QED
    BY <1>1, <2>1, <2>5, BaseFacts, BasePlain DEF Calling
<1> QED
  BY <1>2, <1>3

\* The handler of a write has l blocks left to write.
LEMMA HandWrites ==
  ASSUME Base, channel' = channel, channel.handler, Calling("write"),
         disk' \in [Block -> Data], cache' \in [Entry -> CacheEntry], Ranking(age'),
         UNCHANGED <<call, done, buf, retval>>,
         NEW l \in Nat, l <= call.count,
         NEW e \in 0 .. CACHE_SIZE, again' = [left |-> l, entry |-> e]
  PROVE  Base'
<1>1. call # None /\ call.count \in Nat /\ call.count <= MaxCount /\ ~ Calling("read")
  BY Going DEF Calling
<1>2. again'.left = l /\ l \in 0 .. MaxCount
  BY <1>1, Sizes
<1>3. Calling("write")' /\ ~ Calling("read")'
  BY <1>1 DEF Calling
<1>4. Handing'
  BY <1>2, <1>3 DEF Handing
<1>5. again' \in [left : 0 .. MaxCount, entry : 0 .. CACHE_SIZE]
  BY <1>2
<1> QED
  BY <1>3, <1>4, <1>5, BaseFacts, BaseNext

LEMMA HandWriteBase == ASSUME Base, HandWrite, UNCHANGED channel PROVE Base'
<1>1. /\ cache' = FlushedCache(Dirty, TRUE) /\ Calling("write") /\ channel.handler
      /\ again' = [left |-> call.count, entry |-> 0]
      /\ UNCHANGED <<age, call, done, buf, retval>>
  BY DEF HandWrite, Handed, working
<1>2. PICK n \in 0 .. call.count - 1 :
        disk' = Put(FlushedDisk(Dirty), call.block, SubSeq(call.data, 1, n))
  BY DEF HandWrite
<1>3. call \in Calls /\ call.name = "write" /\ call.count \in Nat /\ n \in 0 .. call.count
  BY <1>1, Going DEF Calling
<1>4. FlushedDisk(Dirty) \in [Block -> Data]
  BY FlushFacts, BaseFacts, Zenon
<1>5. disk' \in [Block -> Data]
  BY <1>2, <1>3, <1>4, PutFacts
<1>6. cache' \in [Entry -> CacheEntry]
  BY <1>1, UnusedType DEF FlushedCache
<1>7. 0 \in 0 .. CACHE_SIZE /\ call.count <= call.count /\ Ranking(age')
  BY <1>1, <1>3, Sizes, BaseFacts
<1> QED
  BY <1>1, <1>3, <1>5, <1>6, <1>7, HandWrites, Zenon

\* The k-th block of a write is put into the cache.
LEMMA StoreBlockFacts ==
  ASSUME Base, Calling("write"), NEW k \in 1 .. call.count, StoreBlock(k)
  PROVE  disk' \in [Block -> Data] /\ cache' \in [Entry -> CacheEntry] /\ Ranking(age')
<1> DEFINE b == call.block + k - 1
           e == WriteEntry(b)
<1>1. /\ IF Cached(b) = {} THEN reuse_cache(e) ELSE UNCHANGED disk
      /\ cache' = Filled(e, b, call.data[k], ~ writethrough) /\ age' = Touched(age, e)
  BY DEF StoreBlock
<1>2. /\ call.block \in Nat /\ call.count \in Nat /\ call.block + call.count <= NBlocks
      /\ call.data \in [1 .. call.count -> Data]
  BY Going DEF Calling, Transfers
<1>3. b \in Block /\ call.data[k] \in Data
  BY <1>2, Sizes, Kth DEF Block
<1>4. e \in Entry
  BY Found, BaseFacts DEF WriteEntry
<1> HIDE DEF b, e
<1>5. writethrough \in BOOLEAN
  BY BaseFacts, UnixIoAssumption DEF writethrough
<1>6. disk' \in [Block -> Data]
  BY <1>1, <1>4, ReuseFacts, BaseFacts, Zenon
<1>7. cache' \in [Entry -> CacheEntry]
  BY <1>1, <1>3, <1>4, <1>5, FilledFacts, BaseFacts, Zenon
<1> QED
  BY <1>1, <1>4, <1>6, <1>7, TouchedRanking, BaseFacts, Zenon

LEMMA RewriteBase ==
  ASSUME Base, again # None, Rewrite, UNCHANGED channel
  PROVE  Base'
<1>1. /\ Calling("write") /\ again.left > 0 /\ StoreBlock(call.count - again.left + 1)
      /\ again' = [again EXCEPT !.left = @ - 1]
      /\ UNCHANGED <<call, done, buf, retval>>
  BY DEF Rewrite, working
<1>2. /\ again.left \in Nat /\ call.count \in Nat /\ again.left <= call.count
      /\ channel.handler /\ again.entry \in 0 .. CACHE_SIZE
  BY <1>1, InHand
<1>3. /\ call.count - again.left + 1 \in 1 .. call.count
      /\ again.left - 1 \in Nat /\ again.left - 1 <= call.count
  BY <1>1, <1>2
<1>4. disk' \in [Block -> Data] /\ cache' \in [Entry -> CacheEntry] /\ Ranking(age')
  BY <1>1, <1>3, StoreBlockFacts, Zenon
<1>5. again' = [left |-> again.left - 1, entry |-> again.entry]
  <2>1. again \in [left : 0 .. MaxCount, entry : 0 .. CACHE_SIZE]
    BY InHand
  <2> QED
    BY <1>1, <2>1
<1> QED
  BY <1>1, <1>2, <1>3, <1>4, <1>5, HandWrites, Zenon

LEMMA RewriteDoneBase ==
  ASSUME Base, RewriteDone, UNCHANGED channel
  PROVE  Base'
<1>1. call' = None /\ again' = None /\ UNCHANGED <<disk, cache, age, done, buf, retval>>
  BY DEF RewriteDone, Return, working
<1> QED
  BY <1>1, BaseFacts, BasePlain DEF Calling

\* The steps: a channel without error handlers does not take theirs.
LEMMA StepCases ==
  ASSUME Base, [Next]_vars
  PROVE  \/ Plain /\ again' = None /\ UNCHANGED channel
         \/ channel.handler /\ Hand /\ UNCHANGED channel
         \/ channel.handler /\ again # None /\ Again /\ UNCHANGED channel
         \/ Crash /\ UNCHANGED channel
         \/ UNCHANGED vars
<1>1. again # None => channel.handler
  BY BaseFacts, Zenon DEF Handing
<1>2. Hand => channel.handler
  BY Zenon DEF Hand, HandReadDirect, HandReadMany, HandWrite, Handed
<1> QED
  BY <1>1, <1>2, Zenon DEF Next

LEMMA BaseStep == Base /\ [Next]_vars => Base'
<1> SUFFICES ASSUME Base, [Next]_vars PROVE Base'
  OBVIOUS
<1>1. CASE Plain /\ again' = None /\ UNCHANGED channel
  BY <1>1, CallBase, ReadDirectBase, ReadHitBase, ReadOneBase, ReadManyBase, ReadReturnBase,
     WriteDirectBase, WriteThroughBase, WriteBlockBase, WriteReturnBase,
     FlushBase, ZerooutBase
     DEF Plain, Read, Write
<1>2. CASE Hand /\ UNCHANGED channel
  BY <1>2, HandReadDirectBase, HandReadManyBase, HandWriteBase DEF Hand
<1>3. CASE again # None /\ Again /\ UNCHANGED channel
  BY <1>3, RereadHitBase, RereadOneBase, RereadDoneBase, RewriteBase, RewriteDoneBase DEF Again
<1>4. CASE Crash /\ UNCHANGED channel
  BY <1>4, CrashBase DEF Crash
<1>5. CASE UNCHANGED vars
  BY <1>5 DEF vars, Base, TypeOK, Calling, Handing
<1> QED
  BY <1>1, <1>2, <1>3, <1>4, <1>5, StepCases

-----------------------------------------------------------------------------
\* An entry is filled with a block that no other entry holds.
LEMMA FilledUnique ==
  ASSUME OneCopy, cache \in [Entry -> CacheEntry],
         NEW e \in Entry, NEW b \in Block, NEW d \in Data, NEW dirty \in BOOLEAN,
         Cached(b) \subseteq {e}, cache' = Filled(e, b, d, dirty)
  PROVE  OneCopy'
<1>1. \A x \in Entry : x # e /\ cache[x].in_use => cache[x].block # b
  BY DEF Cached
<1>2. cache'[e].block = b /\ \A x \in Entry : x # e => cache'[x] = cache[x]
  BY FilledFacts
<1> QED
  BY <1>1, <1>2 DEF OneCopy

\* No entry gets another block.
LEMMA FewerUnique ==
  ASSUME OneCopy,
         \A x \in Entry : cache'[x].in_use => cache[x].in_use /\ cache'[x].block = cache[x].block
  PROVE  OneCopy'
BY DEF OneCopy

LEMMA EmptyUnused == \A x \in Entry : ~ Empty[x].in_use
BY DEF Empty, Unused

\* A block that is written goes to the entry that has it, if there is one.
LEMMA WriteEntryUnique ==
  ASSUME OneCopy, NEW b
  PROVE  /\ Cached(b) \subseteq {WriteEntry(b)}
         /\ Cached(b) = {} => WriteEntry(b) = Eldest
BY Found DEF WriteEntry, OneCopy, Cached

LEMMA OneCopyStep ==
  ASSUME Base, OneCopy, Plain \/ Crash \/ UNCHANGED vars
  PROVE  OneCopy'
<1> DEFINE Kept == \A x \in Entry :
                     cache'[x].in_use => cache[x].in_use /\ cache'[x].block = cache[x].block
<1>0. Eldest \in Entry /\ disk \in [Block -> Data] /\ cache \in [Entry -> CacheEntry]
  BY BaseFacts
<1> USE <1>0
<1>1. CASE UNCHANGED cache
  BY <1>1 DEF OneCopy
<1>2. CASE ReadDirect
  <2>1. PICK ok \in SUBSET Dirty : cache' = FlushedCache(ok, FALSE)
    BY <1>2, FlushResultsDirty, Zenon DEF ReadDirect
  <2>2. Kept
    BY <2>1, FlushKeeps, Zenon
  <2> QED
    BY <2>2, FewerUnique
<1>3. CASE ReadOne
  <2>1. CASE cache' = [cache EXCEPT ![Eldest] = Unused]
    <3>1. Kept
      BY <2>1 DEF Unused
    <3> QED
      BY <3>1, FewerUnique
  <2>2. CASE cache' = Filled(Eldest, Next_b, disk'[Next_b], FALSE)
    <3>0. Calling("read") /\ Rest > 0
      BY <1>3 DEF ReadOne
    <3>1. Next_b \in Block
      BY <3>0, Reading, Zenon
    <3>2. disk' \in [Block -> Data]
      BY <1>3, ReuseFacts, Zenon DEF ReadOne
    <3>3. Cached(Next_b) \subseteq {Eldest}
      BY <1>3 DEF ReadOne
    <3> QED
      BY <2>2, <3>1, <3>2, <3>3, FilledUnique, Zenon
  <2> QED
    BY <1>3, <2>1, <2>2, Zenon DEF ReadOne
<1>4. CASE ReadMany
  <2>1. CASE cache' = Filled(Eldest, Next_b + Uncached - 1, disk[Next_b + Uncached - 1], FALSE)
    <3> DEFINE b == Next_b + Uncached - 1
    <3>1. b \in Block
      BY <1>4, LastUncached
    <3>2. Cached(b) = {}
      BY <1>4, LastUncached
    <3>3. cache' = Filled(Eldest, b, disk[b], FALSE)
      BY <2>1
    <3> HIDE DEF b
    <3> QED
      BY <3>1, <3>2, <3>3, FilledUnique, Zenon
  <2> QED
    BY <1>1, <1>4, <2>1, Zenon DEF ReadMany
<1>5. CASE WriteDirect
  <2>1. \A x \in Entry : ~ cache'[x].in_use
    BY <1>5 DEF WriteDirect, FlushedCache, Unused
  <2> QED
    BY <2>1, FewerUnique
<1>6. CASE WriteBlock
  <2> DEFINE b == call.block + Written
             e == WriteEntry(b)
  <2>1. cache' = Filled(e, b, call.data[Written + 1], ~ writethrough)
    BY <1>6, StoreForm, Zenon
  <2>2. b \in Block /\ e \in Entry /\ call.data[Written + 1] \in Data
    BY <1>6, WriteBlockFacts
  <2>3. Cached(b) \subseteq {e}
    BY WriteEntryUnique
  <2> HIDE DEF b, e
  <2> QED
    BY <2>1, <2>2, <2>3, FilledUnique, Zenon
<1>7. CASE Flushing
  <2>1. CASE UNCHANGED cache
    BY <1>1, <2>1
  <2>2. CASE cache' = Empty
    BY <2>2, EmptyUnused, FewerUnique
  <2>3. CASE \E ok \in SUBSET Dirty : cache' = FlushedCache(ok, FALSE)
    <3>0. PICK ok \in SUBSET Dirty : cache' = FlushedCache(ok, FALSE)
      BY <2>3
    <3>1. Kept
      BY <3>0, FlushKeeps, Zenon
    <3> QED
      BY <3>1, FewerUnique
  <2> QED
    BY <1>7, <2>1, <2>2, <2>3, FlushingForms, Zenon
<1>8. CASE Crash
  <2>1. Kept
    BY <1>8, EmptyUnused DEF Crash
  <2> QED
    BY <2>1, FewerUnique
<1>9. CASE Call \/ ReadHit \/ ReadReturn \/ WriteThrough \/ WriteReturn \/ Zeroout
  BY <1>1, <1>9, Zenon DEF Call, ReadHit, ReadReturn, WriteThrough, WriteReturn, Zeroout
<1>10. CASE UNCHANGED vars
  BY <1>1, <1>10 DEF vars
<1> QED
  BY <1>2, <1>3, <1>4, <1>5, <1>6, <1>7, <1>8, <1>9, <1>10 DEF Plain, Read, Write

LEMMA UniqueStep == Base /\ UniqueCopies /\ [Next]_vars => UniqueCopies'
<1> SUFFICES ASSUME Base, UniqueCopies, [Next]_vars PROVE UniqueCopies'
  OBVIOUS
<1>1. channel' = channel
  BY StepCases, Zenon DEF vars
<1>2. CASE channel.handler
  BY <1>1, <1>2, Zenon DEF UniqueCopies
<1>3. CASE ~ channel.handler
  BY <1>3, StepCases, OneCopyStep, Zenon DEF UniqueCopies
<1> QED
  BY <1>2, <1>3

-----------------------------------------------------------------------------
LEMMA IoInvFacts == IoInv => Base /\ UniqueCopies
BY DEF IoInv, Base, Progress

\* The rest of Progress: the reply comes last, and the blocks that are to be
\* zeroed stay out of the cache.
LEMMA ProgressStep == IoInv /\ [Next]_vars => Progress'
<1> SUFFICES ASSUME IoInv, [Next]_vars PROVE Progress'
  OBVIOUS
<1>1. Base'
  BY IoInvFacts, BaseStep
<1> SUFFICES /\ call' # None => reply' = None
             /\ Calling("zeroout")' => \A b \in Extent(call') : Cached(b)' = {}
  BY <1>1 DEF Base, Progress
<1>2. CASE Call
  BY <1>2 DEF Call, Calling, Cached
<1>3. CASE ReadHit \/ WriteThrough \/ WriteBlock
  <2>1. UNCHANGED <<call, reply>> /\ ~ Calling("zeroout") /\ call # None
    BY <1>3, Zenon DEF ReadHit, WriteThrough, WriteBlock, Calling
  <2> QED
    BY <2>1 DEF IoInv, Progress, Calling
<1>4. CASE ReadMany \/ Hand \/ Again
  <2>1. ~ Calling("zeroout") /\ call # None /\ (UNCHANGED <<call, reply>> \/ call' = None)
    <3>1. CASE ReadMany
      BY <3>1, Zenon DEF ReadMany, Return, Calling
    <3>2. CASE Hand
      BY <3>2, Zenon DEF Hand, HandReadDirect, HandReadMany, HandWrite, Calling
    <3>3. CASE RereadHit \/ RereadOne \/ RereadDone
      BY <3>3, Zenon DEF RereadHit, RereadOne, RereadDone, Return, Calling
    <3>4. CASE Rewrite \/ RewriteDone
      BY <3>4, Zenon DEF Rewrite, RewriteDone, Return, Calling
    <3> QED
      BY <1>4, <3>1, <3>2, <3>3, <3>4, Zenon DEF Again
  <2> QED
    BY <2>1 DEF IoInv, Progress, Calling
<1>5. CASE call' = None
  BY <1>5 DEF Calling
<1>6. CASE \/ ReadDirect \/ ReadOne \/ ReadReturn \/ WriteDirect \/ WriteReturn
          \/ Flushing \/ Zeroout \/ Crash
  BY <1>5, <1>6, FlushingForms, IoInvFacts, Zenon
     DEF ReadDirect, ReadOne, ReadReturn, WriteDirect, WriteReturn, Zeroout, Crash, Return
<1>7. CASE UNCHANGED vars
  BY <1>7, Zenon DEF vars, IoInv, Progress, Calling, Cached
<1> QED
  BY <1>2, <1>3, <1>4, <1>6, <1>7, StepCases, IoInvFacts DEF Plain, Read, Write

\* A channel without dirty blocks evicts nothing.
LEMMA CleanReuse ==
  ASSUME Dirty = {}, NEW e \in Entry, reuse_cache(e)
  PROVE  disk' = disk
BY DEF Dirty, reuse_cache, WrittenBack

\* A write-through channel has no error handlers, and so takes no step of theirs.
LEMMA ThroughCases ==
  ASSUME IoInv, [Next]_vars, writethrough
  PROVE  (Plain \/ Crash \/ UNCHANGED vars) /\ channel' = channel /\ OneCopy
<1>1. ~ channel.handler
  BY IoInvFacts, BaseFacts, UnixIoAssumption, Zenon DEF writethrough
<1> QED
  BY <1>1, IoInvFacts, StepCases, Zenon DEF UniqueCopies, vars

LEMMA ThroughDirty ==
  IoInv /\ [Next]_vars /\ writethrough => (Dirty = {})'
<1> SUFFICES ASSUME IoInv, [Next]_vars, writethrough, NEW x \in Entry
             PROVE  ~ (cache'[x].in_use /\ cache'[x].dirty)
  BY DEF Dirty
<1>0. /\ Base /\ UniqueCopies /\ Eldest \in Entry
      /\ disk \in [Block -> Data] /\ cache \in [Entry -> CacheEntry]
  BY BaseFacts, IoInvFacts
<1> USE <1>0
<1>1. ~ (cache[x].in_use /\ cache[x].dirty)
  BY DEF IoInv, Through, Dirty
<1>2. CASE UNCHANGED cache
  BY <1>1, <1>2
<1>3. CASE \E ok \in SUBSET Dirty : cache' \in {Empty, FlushedCache(ok, FALSE)}
  BY <1>1, <1>3, FlushKeeps, EmptyUnused, ZenonT(40)
<1>4. CASE \E e \in Entry, b \in Block, d \in Data : cache' = Filled(e, b, d, FALSE)
  <2>1. PICK e \in Entry, b \in Block, d \in Data : cache' = Filled(e, b, d, FALSE)
    BY <1>4, Zenon
  <2>2. ~ cache'[e].dirty /\ (x # e => cache'[x] = cache[x])
    BY <2>1 DEF Filled
  <2> QED
    BY <1>1, <2>2
<1>5. CASE ReadDirect \/ Flushing
  BY <1>2, <1>3, <1>5, FlushResultsDirty, FlushingForms, Zenon DEF ReadDirect
<1>6. CASE ReadOne
  <2>1. CASE cache' = [cache EXCEPT ![Eldest] = Unused]
    BY <1>1, <2>1 DEF Unused
  <2>2. CASE cache' = Filled(Eldest, Next_b, disk'[Next_b], FALSE)
    <3>0. Calling("read") /\ Rest > 0
      BY <1>6 DEF ReadOne
    <3>1. Next_b \in Block
      BY <3>0, Reading, Zenon
    <3>2. disk' \in [Block -> Data]
      BY <1>6, ReuseFacts, Zenon DEF ReadOne
    <3> QED
      BY <1>4, <2>2, <3>1, <3>2, Zenon
  <2> QED
    BY <1>6, <2>1, <2>2, Zenon DEF ReadOne
<1>7. CASE ReadMany
  <2>1. Next_b + Uncached - 1 \in Block
    BY <1>7, ReadManyFacts
  <2>2. disk[Next_b + Uncached - 1] \in Data
    BY <2>1
  <2> QED
    BY <1>2, <1>4, <1>7, <2>1, <2>2, Zenon DEF ReadMany
<1>8. CASE WriteBlock
  BY <1>4, <1>8, WriteBlockFacts, StoreForm, Zenon
<1>9. CASE WriteDirect
  BY <1>9 DEF WriteDirect, FlushedCache, Unused
<1>10. CASE Crash
  BY <1>10, EmptyUnused DEF Crash
<1>11. CASE Call \/ ReadHit \/ ReadReturn \/ WriteThrough \/ WriteReturn \/ Zeroout
  BY <1>2, <1>11, Zenon DEF Call, ReadHit, ReadReturn, WriteThrough, WriteReturn, Zeroout
<1>12. CASE UNCHANGED vars
  BY <1>2, <1>12 DEF vars
<1> QED
  BY <1>5, <1>6, <1>7, <1>8, <1>9, <1>10, <1>11, <1>12, ThroughCases DEF Plain, Read, Write

\* While a write goes on, only WriteThrough and WriteBlock take a step of it.
LEMMA WriteSteps ==
  ASSUME IoInv, Plain \/ Crash, Calling("write")', ~ Call
  PROVE  /\ WriteThrough \/ WriteBlock
         /\ call' = call /\ Calling("write")
<1>1. CASE ReadHit \/ ReadMany
  BY <1>1, Zenon DEF ReadHit, ReadMany, Return, Calling
<1>2. CASE \/ ReadDirect \/ ReadOne \/ ReadReturn \/ WriteDirect \/ WriteReturn
          \/ Flushing \/ Zeroout \/ Crash
  BY <1>2, FlushingForms, IoInvFacts, Zenon
     DEF ReadDirect, ReadOne, ReadReturn, WriteDirect, WriteReturn, Zeroout, Crash,
         Return, Calling
<1>3. CASE WriteThrough \/ WriteBlock
  BY <1>3, Zenon DEF WriteThrough, WriteBlock
<1> QED
  BY <1>1, <1>2, <1>3 DEF Plain, Read, Write

LEMMA ThroughStep == IoInv /\ [Next]_vars => Through'
<1> SUFFICES ASSUME IoInv, [Next]_vars PROVE Through'
  OBVIOUS
<1>0. /\ Base /\ UniqueCopies /\ Eldest \in Entry
      /\ disk \in [Block -> Data] /\ cache \in [Entry -> CacheEntry]
  BY BaseFacts, IoInvFacts
<1> USE <1>0
<1>1. CASE UNCHANGED vars
  BY <1>1, Zenon DEF vars, IoInv, Through, Dirty, Calling, Written, writethrough, MayFail
<1>2. ASSUME Next, writethrough
      PROVE  Through'
  <2>1. (Dirty = {})' /\ Dirty = {} /\ channel' = channel /\ OneCopy
    BY <1>2, ThroughDirty, ThroughCases, Zenon DEF IoInv, Through
  <2>2. CASE ~ Calling("write")'
    BY <2>1, <2>2 DEF Through
  <2>3. CASE Call
    <3>1. done' = 0 /\ retval'
      BY <2>3 DEF Call
    <3>2. Written' = 0
      BY <3>1 DEF Written
    <3> QED
      BY <2>1, <3>1, <3>2 DEF Through
  <2>4. CASE WriteThrough
    <3>1. PICK n \in WriteLengths :
            /\ disk' = Put(disk, call.block, SubSeq(call.data, 1, n))
            /\ retval' = (n = call.count)
      BY <2>4 DEF WriteThrough
    <3>2. done' = -1 /\ UNCHANGED <<cache, call>>
      BY <2>4 DEF WriteThrough
    <3>3. /\ call \in Calls /\ call.name = "write" /\ call.block \in Nat /\ call.count \in Nat
          /\ call.block + call.count <= NBlocks /\ n \in 0 .. call.count
      BY <2>4, Going, Lengths DEF WriteThrough, Calling, Transfers
    <3>4. "write" \notin MayFail => n = call.count
      BY DEF WriteLengths
    <3>5. Written' = 0
      BY <3>2 DEF Written
    <3>6. ASSUME n = call.count, NEW k \in 1 .. call.count
          PROVE  disk'[call.block + k - 1] = call.data[k]
      <4>1. call.block + k - 1 \in Block /\ call.block + k - 1 \in call.block .. call.block + n - 1
            /\ (call.block + k - 1) - call.block + 1 = k
        BY <3>3, <3>6, Sizes, Kth, Zenon DEF Block
      <4>2. Put(disk, call.block, SubSeq(call.data, 1, n))[call.block + k - 1]
              = call.data[(call.block + k - 1) - call.block + 1]
        BY <3>3, <4>1, BaseFacts, PutFacts, Zenon
      <4> QED
        BY <3>1, <4>1, <4>2, Zenon
    <3>7. /\ "write" \notin MayFail => retval'
          /\ retval' => \A k \in 1 .. call.count : disk'[call.block + k - 1] = call.data[k]
      BY <3>1, <3>4, <3>6, Zenon
    <3>8. 1 .. Written' = {}
      BY <3>5
    <3> QED
      BY <2>1, <3>2, <3>7, <3>8 DEF Through, MayFail
  <2>5. CASE WriteBlock
    <3> DEFINE b == call.block + Written
               e == WriteEntry(b)
    <3>1. /\ IF Cached(b) = {} THEN reuse_cache(e) ELSE UNCHANGED disk
          /\ cache' = Filled(e, b, call.data[Written + 1], ~ writethrough)
          /\ done' = Written + 1 /\ done # 0
          /\ UNCHANGED <<call, retval>>
      BY <1>2, <2>5, StoreForm, Zenon DEF WriteBlock
    <3>2. /\ b \in Block /\ e \in Entry /\ call.data[Written + 1] \in Data
          /\ Written \in Nat /\ call.block \in Nat /\ Calling("write")
      BY <2>5, WriteBlockFacts, Zenon DEF WriteBlock
    <3>3. Cached(b) \subseteq {e}
      BY <2>1, WriteEntryUnique
    <3>4. Written' = Written + 1
      <4>1. Written + 1 # -1
        BY <3>2
      <4>2. done' # -1 /\ Written' = done'
        BY <3>1, <4>1, Zenon DEF Written
      <4> QED
        BY <3>1, <4>2, Zenon
    <3>5. b = call.block + Written
      OBVIOUS
    <3> HIDE DEF b, e
    <3>6. disk' = disk
      BY <2>1, <3>1, <3>2, CleanReuse, Zenon
    <3>7. /\ cache'[e].block = b /\ cache'[e].data = call.data[Written + 1]
          /\ \A x \in Entry : x # e => cache'[x] = cache[x]
      BY <3>1, <3>2, Zenon DEF Filled
    <3>8. ASSUME NEW x \in Entry, NEW k \in 1 .. Written + 1,
                 cache'[x].in_use, cache'[x].block = call.block + k - 1
          PROVE  cache'[x].data = call.data[k]
      <4>1. CASE x = e
        <5>1. k = Written + 1
          <6>1. call.block + Written = call.block + k - 1
            BY <3>5, <3>7, <3>8, <4>1, Zenon
          <6> QED
            BY <3>2, <6>1
        <5> QED
          BY <3>7, <4>1, <5>1
      <4>2. CASE x # e
        <5>1. cache[x].in_use /\ cache[x].block = call.block + k - 1 /\ cache'[x] = cache[x]
          BY <3>7, <3>8, <4>2
        <5>2. cache[x].block # b
          BY <3>3, <4>2, <5>1 DEF Cached
        <5>3. k \in 1 .. Written
          BY <3>2, <3>5, <5>1, <5>2
        <5> QED
          BY <1>2, <3>2, <5>1, <5>3 DEF IoInv, Through
      <4> QED
        BY <4>1, <4>2, Zenon
    <3>9. /\ "write" \notin MayFail => retval
          /\ retval => \A k \in 1 .. call.count : disk[call.block + k - 1] = call.data[k]
      BY <1>2, <3>1, <3>2, Zenon DEF IoInv, Through
    <3> QED
      BY <2>1, <3>1, <3>4, <3>6, <3>8, <3>9, Zenon DEF Through, MayFail
  <2>6. CASE Plain \/ Crash
    BY <2>2, <2>3, <2>4, <2>5, <2>6, WriteSteps
  <2> QED
    BY <1>1, <1>2, <2>6, ThroughCases
<1>3. CASE Next /\ ~ writethrough
  BY <1>3 DEF Next, Through, writethrough
<1> QED
  BY <1>1, <1>2, <1>3

\* The invariant holds initially and is kept by every step.
LEMMA IoInvInit == Init => IoInv
<1> SUFFICES ASSUME Init PROVE IoInv
  OBVIOUS
<1>1. TypeOK
  BY BaseInit DEF Base
<1>2. Progress
  BY BaseInit DEF Base, Progress, Init, Calling
<1>3. \A e \in Entry : ~ cache[e].in_use
  BY EmptyUnused DEF Init
<1>4. UniqueCopies
  BY <1>3 DEF UniqueCopies, OneCopy
<1>5. Through
  BY <1>3 DEF Init, Through, Dirty, Calling
<1> QED
  BY <1>1, <1>2, <1>4, <1>5 DEF IoInv

LEMMA IoInvStep == IoInv /\ [Next]_vars => IoInv'
<1> SUFFICES ASSUME IoInv, [Next]_vars PROVE IoInv'
  OBVIOUS
<1>1. TypeOK' /\ UniqueCopies'
  BY IoInvFacts, BaseStep, UniqueStep DEF Base
<1> QED
  BY <1>1, ProgressStep, ThroughStep DEF IoInv

\* The invariant of unix_io.c: whatever the device fails to do, whenever the
\* process ends, and also while an error handler of e2fsck reads or writes again
\* through the channel, the entries are ranked by their last use and the loops
\* stay within their request; without error handlers a block is in the cache
\* once, and a write-through cache has nothing to write back.
THEOREM IoInvCorrect == Spec => []IoInv
BY IoInvInit, IoInvStep, PTL DEF Spec

\* find_cached_block and reuse_cache never make a second copy of a block on a
\* channel without error handlers.  (With those of e2fsck, unix_read_blk64 fills
\* an entry that it chose before the handler filled others.)
THEOREM UniqueCopiesCorrect == Spec => []UniqueCopies
<1>1. IoInv => UniqueCopies
  BY DEF IoInv
<1> QED
  BY <1>1, IoInvCorrect, PTL

-----------------------------------------------------------------------------
\* A raw write of the whole request puts each of its blocks in place.
LEMMA PutWritten ==
  ASSUME NEW d \in [Block -> Data], NEW c \in Calls, c.name = "write", NEW k \in 1 .. c.count
  PROVE  Put(d, c.block, SubSeq(c.data, 1, c.count))[c.block + k - 1] = c.data[k]
<1>1. /\ c.block \in Nat /\ c.count \in Nat /\ k \in Nat /\ 1 <= k /\ k <= c.count
      /\ c.block + c.count <= NBlocks
  BY CallFacts, Sizes
<1>2. /\ c.block + k - 1 \in Block /\ c.block + k - 1 \in c.block .. c.block + c.count - 1
      /\ (c.block + k - 1) - c.block + 1 = k
      /\ c.count \in 0 .. c.count
  BY <1>1, Sizes DEF Block
<1>3. c.name \in {"write", "zeroout"}
  OBVIOUS
<1>4. Put(d, c.block, SubSeq(c.data, 1, c.count))[c.block + k - 1]
        = c.data[(c.block + k - 1) - c.block + 1]
  BY <1>2, <1>3, PutFacts, Zenon
<1> QED
  BY <1>2, <1>4, Zenon

LEMMA WritesStep ==
  ASSUME IoInv, [Next]_vars,
         writethrough, Calling("write"), reply' # None, reply'.ok,
         NEW k \in 1 .. call.count
  PROVE  disk'[call.block + k - 1] = call.data[k]
<1>0. /\ Base /\ reply = None /\ call \in Calls /\ call.name = "write"
      /\ call.count \in Nat /\ disk \in [Block -> Data] /\ cache \in [Entry -> CacheEntry]
  BY IoInvFacts, BaseFacts, Going, Zenon DEF IoInv, Progress, Calling
<1>1. CASE WriteDirect
  <2>1. PICK ok \in SUBSET Dirty, n \in WriteLengths :
          IF ok # Dirty THEN disk' = FlushedDisk(ok) /\ Return(FALSE, <<>>)
          ELSE /\ disk' = Put(FlushedDisk(ok), call.block, SubSeq(call.data, 1, n))
               /\ Return(n = call.count, <<>>)
    BY <1>1, FlushResultsDirty, Zenon DEF WriteDirect
  <2>2. disk' = Put(FlushedDisk(ok), call.block, SubSeq(call.data, 1, call.count))
    <3>1. ok # Dirty => reply' = [ok |-> FALSE, data |-> <<>>]
      BY <2>1 DEF Return
    <3>2. ok = Dirty
      BY <3>1
    <3>3. reply' = [ok |-> (n = call.count), data |-> <<>>]
      BY <2>1, <3>2 DEF Return
    <3>4. reply'.ok = (n = call.count)
      BY <3>3, Zenon
    <3>5. n = call.count
      BY <3>4, Zenon
    <3> QED
      BY <2>1, <3>2, <3>5
  <2>3. FlushedDisk(ok) \in [Block -> Data]
    BY <1>0, FlushFacts, Zenon
  <2> QED
    BY <1>0, <2>2, <2>3, PutWritten, Zenon
<1>2. CASE WriteReturn
  <2>1. disk' = disk /\ retval
    BY <1>2 DEF WriteReturn, Return
  <2>2. done # 0
    BY <1>0, <1>2 DEF WriteReturn, Written
  <2> QED
    BY <2>1, <2>2 DEF IoInv, Through
<1>3. CASE WriteThrough \/ WriteBlock \/ Crash \/ UNCHANGED vars
  BY <1>0, <1>3, Zenon DEF WriteThrough, WriteBlock, Crash, vars
<1>4. CASE Call \/ Read \/ Flushing \/ Zeroout
  BY <1>0, <1>4, FlushingForms, Zenon
     DEF Call, Read, ReadDirect, ReadHit, ReadOne, ReadMany, ReadReturn, Zeroout, Calling
<1> QED
  BY <1>1, <1>2, <1>3, <1>4, ThroughCases DEF Plain, Write

\* A write of unix_write_blk64 that reports success on a write-through channel
\* is on the device, also if raw writes, flushes or evictions fail.
THEOREM WritesThroughCorrect == Spec => WritesThrough
<1>1. IoInv /\ [Next]_vars =>
        [writethrough /\ Calling("write") /\ reply' # None /\ reply'.ok =>
           \A k \in 1 .. call.count : disk'[call.block + k - 1] = call.data[k]]_vars
  BY WritesStep
<1> QED
  BY <1>1, IoInvCorrect, PTL DEF Spec, WritesThrough

-----------------------------------------------------------------------------
\* The raw writes of write-through channels do not fail.
Reliable == \A c \in Channels : c.writethrough => "write" \notin c.may_fail

\* No channel has error handlers.
Unhandled == \A c \in Channels : ~ c.handler

\* A flush finds the only copy of a block.
LEMMA FlushClean ==
  ASSUME disk \in [Block -> Data], cache \in [Entry -> CacheEntry], OneCopy,
         NEW ok \in SUBSET Dirty, NEW x \in Entry, cache[x].in_use,
         cache[x].data = disk[cache[x].block] \/ x \in ok
  PROVE  FlushedDisk(ok)[cache[x].block] = cache[x].data
<1>1. cache[x] \in CacheEntry
  OBVIOUS
<1>2. cache[x].block \in Block
  BY <1>1 DEF CacheEntry
<1>3. \A e \in ok : cache[e].block = cache[x].block => e = x
  BY DEF OneCopy, Dirty
<1>4. CASE x \in ok
  <2>1. PICK e \in ok : /\ cache[e].block = cache[x].block
                        /\ FlushedDisk(ok)[cache[x].block] = cache[e].data
    BY <1>2, <1>4, FlushFacts, Zenon
  <2> QED
    BY <1>3, <2>1
<1>5. CASE x \notin ok
  <2>1. \A e \in ok : cache[e].block # cache[x].block
    BY <1>3, <1>5
  <2>2. FlushedDisk(ok)[cache[x].block] = disk[cache[x].block]
    BY <1>2, <2>1, FlushFacts, Zenon
  <2> QED
    BY <1>5, <2>2
<1> QED
  BY <1>4, <1>5

\* An eviction writes a block that no other entry holds.
LEMMA EvictClean ==
  ASSUME disk \in [Block -> Data], cache \in [Entry -> CacheEntry], OneCopy,
         NEW e \in Entry, reuse_cache(e), NEW x \in Entry, x # e, cache[x].in_use
  PROVE  disk'[cache[x].block] = disk[cache[x].block]
<1>1. cache[x] \in CacheEntry
  OBVIOUS
<1>2. cache[x].block \in Block
  BY <1>1 DEF CacheEntry
<1>3. cache[e].in_use => cache[e].block # cache[x].block
  BY DEF OneCopy
<1> QED
  BY <1>2, <1>3, ReuseFacts

LEMMA CleanStep ==
  ASSUME Reliable, Unhandled
  PROVE  IoInv /\ CleanIsOnDisk /\ [Next]_vars => CleanIsOnDisk'
<1> SUFFICES ASSUME IoInv, CleanIsOnDisk, [Next]_vars,
                    NEW x \in Entry, cache'[x].in_use, ~ cache'[x].dirty
             PROVE  \/ cache'[x].data = disk'[cache'[x].block]
                    \/ (writethrough /\ Calling("write"))' /\ cache'[x].block \in Extent(call')
  BY Zenon DEF CleanIsOnDisk
<1>0. /\ Base /\ Eldest \in Entry
      /\ disk \in [Block -> Data] /\ cache \in [Entry -> CacheEntry]
  BY BaseFacts, IoInvFacts
<1> USE <1>0
<1>h. ~ channel.handler
  BY BaseFacts DEF Unhandled
<1>o. OneCopy
  BY <1>h, IoInvFacts DEF UniqueCopies
<1> USE <1>o
<1>c. \A e \in Entry :
        cache[e].in_use /\ ~ cache[e].dirty =>
          \/ cache[e].data = disk[cache[e].block]
          \/ writethrough /\ Calling("write") /\ cache[e].block \in Extent(call)
  BY <1>h, Zenon DEF CleanIsOnDisk
<1> DEFINE OnDisk == cache[x].data = disk[cache[x].block]
           Same   == cache'[x] = cache[x]
<1>1. ASSUME ~ Calling("write"), cache[x].in_use, ~ cache[x].dirty
      PROVE  OnDisk
  BY <1>1, <1>c
<1>2. CASE UNCHANGED <<disk, cache, call, channel>>
  BY <1>2, <1>c DEF Calling, writethrough
<1>3. CASE UNCHANGED <<disk, cache>> /\ ~ Calling("write")
  BY <1>1, <1>3
<1>4. CASE Call \/ ReadHit \/ ReadReturn
  <2>1. UNCHANGED <<disk, cache>> /\ ~ Calling("write")
    BY <1>4, Zenon DEF Call, ReadHit, ReadReturn, Calling
  <2> QED
    BY <1>3, <2>1
<1>5. ASSUME ~ Calling("write"), NEW ok \in SUBSET Dirty,
             disk' = FlushedDisk(ok), cache' = FlushedCache(ok, FALSE)
      PROVE  cache'[x].data = disk'[cache'[x].block]
  <2>1. /\ cache[x].in_use /\ ~ (cache[x].dirty /\ x \notin ok)
        /\ cache'[x].block = cache[x].block /\ cache'[x].data = cache[x].data
    BY <1>5, FlushKeeps, Zenon
  <2>2. OnDisk \/ x \in ok
    BY <1>1, <1>5, <2>1, Zenon
  <2> QED
    BY <1>5, <2>1, <2>2, FlushClean, Zenon
<1>6. CASE ReadDirect
  <2>1. ~ Calling("write")
    BY <1>6 DEF ReadDirect, Calling
  <2>2. PICK ok \in SUBSET Dirty : disk' = FlushedDisk(ok) /\ cache' = FlushedCache(ok, FALSE)
    BY <1>6, FlushResultsDirty, Zenon DEF ReadDirect
  <2> QED
    BY <1>5, <2>1, <2>2, Zenon
<1>7. CASE Flushing
  <2>1. ~ Calling("write")
    BY <1>7, FlushingForms
  <2>2. cache' # Empty
    BY EmptyUnused
  <2>3. CASE UNCHANGED <<disk, cache>>
    BY <1>3, <2>1, <2>3
  <2>4. CASE \E ok \in SUBSET Dirty :
               disk' = FlushedDisk(ok) /\ cache' \in {Empty, FlushedCache(ok, FALSE)}
    BY <1>5, <2>1, <2>2, <2>4, Zenon
  <2> QED
    BY <1>7, <2>3, <2>4, FlushingForms, Zenon
<1>8. CASE ReadOne
  <2>1. ~ Calling("write") /\ reuse_cache(Eldest)
    BY <1>8 DEF ReadOne, Calling
  <2>2. CASE x = Eldest
    <3>1. cache' # [cache EXCEPT ![Eldest] = Unused]
      BY <2>2 DEF Unused
    <3>2. cache' = Filled(Eldest, Next_b, disk'[Next_b], FALSE)
      BY <1>8, <3>1, Zenon DEF ReadOne
    <3>3. cache'[x].block = Next_b /\ cache'[x].data = disk'[Next_b]
      BY <2>2, <3>2 DEF Filled
    <3> QED
      BY <3>3
  <2>3. CASE x # Eldest
    <3>1. Same
      BY <1>8, <2>3, Zenon DEF ReadOne, Filled
    <3> QED
      BY <1>1, <2>1, <2>3, <3>1, EvictClean, Zenon
  <2> QED
    BY <2>2, <2>3, Zenon
<1>9. CASE ReadMany
  <2>1. ~ Calling("write")
    BY <1>9 DEF ReadMany, Calling
  <2>2. CASE UNCHANGED <<disk, cache>>
    BY <1>3, <2>1, <2>2
  <2>3. CASE /\ reuse_cache(Eldest)
             /\ cache' = Filled(Eldest, Next_b + Uncached - 1, disk[Next_b + Uncached - 1], FALSE)
    <3> DEFINE b == Next_b + Uncached - 1
    <3>1. cache' = Filled(Eldest, b, disk[b], FALSE)
      BY <2>3
    <3>2. b \in Block /\ Cached(b) = {}
      BY <1>9, LastUncached
    <3> HIDE DEF b
    <3>3. CASE x = Eldest
      <4>1. cache'[x].block = b /\ cache'[x].data = disk[b]
        BY <3>1, <3>3 DEF Filled
      <4>2. ~ (cache[Eldest].in_use /\ cache[Eldest].block = b)
        BY <3>2 DEF Cached
      <4>3. disk'[b] = disk[b]
        BY <2>3, <3>2, <4>2, ReuseFacts, Zenon
      <4> QED
        BY <4>1, <4>3
    <3>4. CASE x # Eldest
      <4>1. Same
        BY <3>1, <3>4 DEF Filled
      <4> QED
        BY <1>1, <2>1, <2>3, <3>4, <4>1, EvictClean, Zenon
    <3> QED
      BY <3>3, <3>4, Zenon
  <2> QED
    BY <1>9, <2>2, <2>3, Zenon DEF ReadMany
<1>10. CASE WriteDirect
  BY <1>10 DEF WriteDirect, FlushedCache, Unused
<1>11. CASE WriteThrough /\ UNCHANGED channel
  <2>1. PICK n \in WriteLengths : disk' = Put(disk, call.block, SubSeq(call.data, 1, n))
    BY <1>11 DEF WriteThrough
  <2>2. /\ call \in Calls /\ call.name = "write" /\ n \in 0 .. call.count
        /\ call.block \in Nat /\ call.count \in Nat
    BY <1>11, Going, Lengths, Zenon DEF WriteThrough, Calling
  <2>3. /\ UNCHANGED <<cache, call>> /\ (writethrough /\ Calling("write"))'
        /\ writethrough /\ Calling("write")
    BY <1>11 DEF WriteThrough, Calling, writethrough
  <2>4. CASE cache[x].block \in Extent(call)
    BY <2>3, <2>4, Zenon
  <2>5. CASE cache[x].block \notin Extent(call)
    <3>1. cache[x] \in CacheEntry
      OBVIOUS
    <3>2. cache[x].block \in Block /\ cache[x].block \in Nat
      BY <3>1, Sizes, Zenon DEF CacheEntry
    <3>3. cache[x].block \notin call.block .. call.block + n - 1
      BY <2>2, <2>5, <3>2 DEF Extent
    <3>4. disk'[cache[x].block] = disk[cache[x].block]
      <4>1. Put(disk, call.block, SubSeq(call.data, 1, n))[cache[x].block] = disk[cache[x].block]
        <5>1. disk \in [Block -> Data]
          BY BaseFacts, Zenon
        <5>2. \A b \in Block : Put(disk, call.block, SubSeq(call.data, 1, n))[b] =
                IF b \in call.block .. call.block + n - 1 THEN call.data[b - call.block + 1]
                                                         ELSE disk[b]
          BY <2>2, <5>1, PutFacts
        <5> QED
          BY <3>2, <3>3, <5>2, Zenon
      <4> QED
        BY <2>1, <4>1, Zenon
    <3>5. OnDisk
      BY <1>c, <2>3, <2>5
    <3> QED
      BY <2>3, <3>4, <3>5, Zenon
  <2> QED
    BY <2>4, <2>5, Zenon
<1>12. CASE WriteBlock /\ UNCHANGED channel
  <2> DEFINE b == call.block + Written
             e == WriteEntry(b)
  <2>1. /\ IF Cached(b) = {} THEN reuse_cache(e) ELSE UNCHANGED disk
        /\ cache' = Filled(e, b, call.data[Written + 1], ~ writethrough)
        /\ UNCHANGED <<call, channel>> /\ Calling("write")
    BY <1>12, StoreForm, Zenon DEF WriteBlock
  <2>2. /\ b \in Block /\ e \in Entry /\ b \in Extent(call)
    BY <1>12, WriteBlockFacts DEF Extent
  <2>3. /\ writethrough' = writethrough /\ Calling("write")'
        /\ Extent(call') = Extent(call)
    BY <2>1, Zenon DEF writethrough, Calling
  <2> HIDE DEF b, e
  <2>4. CASE x = e
    <3>1. cache'[x].block = b /\ writethrough
      BY <2>1, <2>4, Zenon DEF Filled
    <3> QED
      BY <2>2, <2>3, <3>1, Zenon
  <2>5. CASE x # e
    <3>1. Same
      BY <2>1, <2>2, <2>5, Zenon DEF Filled
    <3>2. disk'[cache[x].block] = disk[cache[x].block]
      BY <2>1, <2>2, <2>5, <3>1, EvictClean, Zenon
    <3>3. OnDisk \/ (writethrough /\ cache[x].block \in Extent(call))
      BY <1>c, <3>1
    <3> QED
      BY <2>3, <3>1, <3>2, <3>3, Zenon
  <2> QED
    BY <2>4, <2>5, Zenon
<1>13. CASE WriteReturn
  <2>1. Calling("write") /\ Written = call.count /\ UNCHANGED <<disk, cache>>
    BY <1>13 DEF WriteReturn
  <2>2. /\ call \in Calls /\ call.count \in Nat /\ call.count > 0 /\ call.block \in Nat
    BY <2>1, Going, CallFacts DEF Calling
  <2>3. CASE writethrough /\ cache[x].block \in Extent(call)
    <3>1. channel \in Channels
      BY BaseFacts
    <3>2. "write" \notin MayFail
      BY <2>3, <3>1 DEF Reliable, MayFail, writethrough
    <3>3. retval /\ done # 0
      <4>1. done # 0
        BY <2>1, <2>2 DEF Written
      <4> QED
        BY <2>1, <2>3, <3>2, <4>1, Zenon DEF IoInv, Through
    <3>4. PICK k \in 1 .. call.count : cache[x].block = call.block + k - 1
      <4>1. cache[x].block \in Int /\ call.block <= cache[x].block
            /\ cache[x].block <= call.block + call.count - 1
        BY <2>2, <2>3 DEF Extent
      <4>2. cache[x].block - call.block + 1 \in 1 .. call.count
        BY <2>2, <4>1
      <4>3. cache[x].block = call.block + (cache[x].block - call.block + 1) - 1
        BY <2>2, <4>1
      <4> QED
        BY <4>2, <4>3
    <3>5. disk[call.block + k - 1] = call.data[k]
      BY <2>1, <2>3, <3>3, Zenon DEF IoInv, Through
    <3>6. cache[x].data = call.data[k]
      BY <2>1, <2>3, <3>4, Zenon DEF IoInv, Through
    <3> QED
      BY <2>1, <3>4, <3>5, <3>6
  <2>4. CASE ~ (writethrough /\ cache[x].block \in Extent(call))
    BY <1>c, <2>1, <2>4
  <2> QED
    BY <2>3, <2>4, Zenon
<1>14. CASE Zeroout
  <2>1. UNCHANGED cache /\ ~ Calling("write")
    BY <1>14 DEF Zeroout, Calling
  <2>2. CASE UNCHANGED disk
    BY <1>3, <2>1, <2>2
  <2>3. CASE disk' = Put(disk, call.block, call.data)
    <3>1. call \in Calls /\ call.name = "zeroout"
      BY <1>14, Going, Zenon DEF Zeroout, Calling
    <3>2. cache[x] \in CacheEntry
      OBVIOUS
    <3>3. cache[x].block \in Block
      BY <3>2 DEF CacheEntry
    <3>4. cache[x].block \notin Extent(call)
      BY <1>14, <2>1, Zenon DEF Zeroout, IoInv, Progress, Cached
    <3>5. disk'[cache[x].block] = disk[cache[x].block]
      BY <2>3, <3>1, <3>3, <3>4, PutAll
    <3> QED
      BY <1>1, <2>1, <3>5, Zenon
  <2> QED
    BY <1>14, <2>2, <2>3, Zenon DEF Zeroout
<1>15. CASE Crash
  BY <1>15, EmptyUnused DEF Crash
<1>16. CASE UNCHANGED vars
  BY <1>2, <1>16 DEF vars
<1> QED
  BY <1>4, <1>6, <1>7, <1>8, <1>9, <1>10, <1>11, <1>12, <1>13, <1>14, <1>15, <1>16, <1>h,
     StepCases, Zenon DEF Plain, Read, Write

\* What the cache takes for clean is on the device, whatever else fails, on
\* channels without error handlers and if no raw write of a write-through
\* channel fails.
THEOREM CleanCorrect == ASSUME Reliable, Unhandled PROVE Spec => []CleanIsOnDisk
<1>1. Init => CleanIsOnDisk
  BY EmptyUnused DEF Init, CleanIsOnDisk
<1> QED
  BY <1>1, CleanStep, IoInvCorrect, PTL DEF Spec
=============================================================================
